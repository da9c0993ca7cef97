------------------------------ MODULE TurnGate ------------------------------
(***************************************************************************)
(* The turn gate between recognition and the model: what the caller says   *)
(* is kept until a small classifier calls the thought complete, or until a *)
(* safety timer gives up waiting (turn_gate_processor.go, turngate.go).    *)
(*                                                                         *)
(* Texts arrive on one goroutine, which waits for the classifier; a timer  *)
(* callback runs on its own and may have begun when the timer is stopped.  *)
(* An utterance is its number, and a text the sequence of its utterances.  *)
(***************************************************************************)
EXTENDS Integers, Sequences, SequencesExt

CONSTANT MaxHeard            \* bound: utterances of a call
ASSUME MaxHeardAssumption == MaxHeard \in Nat

VARIABLES
  gateBuf,    \* buffer
  judged,     \* the text the classifier is looking at, <<>> when none
  gateTimer,  \* the timer field: 0, or the utterance that armed it
  waiting,    \* timers still to expire
  fired,      \* timers whose callback has begun and has not taken the lock
  forwarded,  \* the turns given to the model
  heard,      \* utterances so far
  gateEnded   \* an End or Cancel frame has passed

gateVars == <<gateBuf, judged, gateTimer, waiting, fired, forwarded, heard, gateEnded>>

GateInit ==
  /\ gateBuf = <<>> /\ judged = <<>> /\ gateTimer = 0
  /\ waiting = {} /\ fired = {} /\ forwarded = <<>>
  /\ heard = 0 /\ gateEnded = FALSE

Forward(text) == forwarded' = IF text = <<>> THEN forwarded ELSE Append(forwarded, text)
Stopped(timers) == timers \ {gateTimer}     \* no effect on one that has fired

(* handleText, as far as the classifier. *)
GateHear ==
  /\ ~gateEnded /\ judged = <<>> /\ heard < MaxHeard
  /\ heard' = heard + 1
  /\ gateBuf' = Append(gateBuf, heard + 1)
  /\ judged' = gateBuf'
  /\ UNCHANGED <<gateTimer, waiting, fired, forwarded, gateEnded>>

(* "complete", an answer it does not recognise, or any error: flush. *)
GateComplete ==
  /\ judged # <<>>
  /\ gateBuf' = <<>> /\ gateTimer' = 0
  /\ waiting' = Stopped(waiting)
  /\ Forward(judged)
  /\ judged' = <<>>
  /\ UNCHANGED <<fired, heard, gateEnded>>

(* Mutant of GateIncomplete: armTimer stops the running timer and returns. *)
StopsWithoutArming ==
  /\ judged # <<>>
  /\ judged' = <<>>
  /\ gateTimer' = IF gateTimer = 0 THEN heard ELSE 0
  /\ waiting' = IF gateTimer = 0 THEN waiting \union {heard} ELSE Stopped(waiting)
  /\ UNCHANGED <<gateBuf, fired, forwarded, heard, gateEnded>>

(* "incomplete": the safety timer is started again. *)
GateIncomplete ==
  /\ judged # <<>>
  /\ judged' = <<>>
  /\ gateTimer' = heard
  /\ waiting' = Stopped(waiting) \union {heard}
  /\ UNCHANGED <<gateBuf, fired, forwarded, heard, gateEnded>>

GateExpire(t) ==
  /\ t \in waiting
  /\ waiting' = waiting \ {t} /\ fired' = fired \union {t}
  /\ UNCHANGED <<gateBuf, judged, gateTimer, forwarded, heard, gateEnded>>

(* The callback takes whatever is held, and forgets the timer field even   *)
(* when it names a later timer.                                            *)
GateTake(t) ==
  /\ t \in fired
  /\ fired' = fired \ {t}
  /\ Forward(gateBuf)
  /\ gateBuf' = <<>> /\ gateTimer' = 0
  /\ UNCHANGED <<judged, waiting, heard, gateEnded>>

(* An End or Cancel frame: the timer is stopped, the classifier is not.    *)
GateEnds ==
  /\ ~gateEnded /\ gateEnded' = TRUE
  /\ gateTimer' = 0 /\ waiting' = Stopped(waiting)
  /\ UNCHANGED <<gateBuf, judged, fired, forwarded, heard>>

GateTypeOK ==
  /\ heard \in 0..MaxHeard /\ gateEnded \in BOOLEAN
  /\ gateBuf \in Seq(1..heard) /\ judged \in Seq(1..heard)
  /\ forwarded \in Seq(Seq(1..heard))
  /\ gateTimer \in 0..heard /\ waiting \union fired \subseteq 1..heard

(* "... so the agent never dead-airs when the gate misjudges": until the   *)
(* call ends, everything the caller said has been forwarded, or is held    *)
(* with a verdict or a timer still to come that will release it.           *)
WordsAreNotLost ==
  \A w \in 1..heard :
    \/ gateEnded
    \/ \E i \in DOMAIN forwarded : Contains(forwarded[i], w)
    \/ Contains(gateBuf, w) /\ (judged # <<>> \/ waiting \union fired # {})
=============================================================================
