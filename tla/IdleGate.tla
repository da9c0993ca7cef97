------------------------------ MODULE IdleGate ------------------------------
(***************************************************************************)
(* The platform's own use of the model (pkg/rexa/llmproxy.go, gate.go,     *)
(* llm_client.go): a request takes one of a few slots, waits with it until *)
(* the box looks idle or its patience runs out, and is forwarded.          *)
(*                                                                         *)
(* A request runs on its handler's goroutine; its client may go at any     *)
(* time.  Go serves the senders of a channel in the order they came.  What *)
(* a look at the metrics finds is left open: calls may keep the box busy   *)
(* for ever.                                                               *)
(***************************************************************************)
EXTENDS Integers, Sequences, FiniteSets, SequencesExt

CONSTANTS
  Prompts,        \* requests that pass the door; each may come again once it is over
  GateSlots,      \* concurrency
  MaxPolls        \* maxWait, in polls
ASSUME IdleGateAssumption == GateSlots \in Nat \ {0} /\ MaxPolls \in Nat

VARIABLES
  stand,    \* where each request's handler stands
  patience, \* polls a request has left
  gone,     \* requests whose context is done
  line      \* the senders blocked on sem, oldest first

gateWorkVars == <<stand, patience, gone, line>>

AtGate == {"looking", "asleep", "through"}
Holding == {q \in Prompts : stand[q] \in AtGate \union {"running"}}
Stand(q, at) == stand' = [stand EXCEPT ![q] = at]

IdleGateInit ==
  /\ stand = [q \in Prompts |-> "none"]
  /\ patience = [q \in Prompts |-> MaxPolls]
  /\ gone = {} /\ line = <<>>

(* handleChatCompletions: authorised, decoded, capped, and at Run's select; *)
(* what it refuses leaves no trace.                                        *)
Prompt(q) ==
  /\ stand[q] = "none"
  /\ Stand(q, "queued")
  /\ patience' = [patience EXCEPT ![q] = MaxPolls]
  /\ gone' = gone \ {q} /\ line' = Append(line, q)

ClientGoes(q) ==
  /\ stand[q] # "none" /\ q \notin gone
  /\ gone' = gone \union {q}
  /\ UNCHANGED <<stand, patience, line>>

(* The select: a slot, or the end of the client; either, when both are there. *)
TakeSlot(q) ==
  /\ line # <<>> /\ Head(line) = q /\ Cardinality(Holding) < GateSlots
  /\ Stand(q, "looking") /\ line' = Tail(line)
  /\ UNCHANGED <<patience, gone>>
LeaveLine(q) ==
  /\ stand[q] = "queued" /\ q \in gone
  /\ \E i \in DOMAIN line : line[i] = q /\ line' = RemoveAt(line, i)
  /\ Stand(q, "none")
  /\ UNCHANGED <<patience, gone>>

(* waitForQuiet. *)
SeeQuiet(q) ==
  /\ stand[q] = "looking"
  /\ Stand(q, "through")
  /\ UNCHANGED <<patience, gone, line>>
SeeBusy(q) ==
  /\ stand[q] = "looking"
  /\ Stand(q, IF patience[q] = 0 THEN "through" ELSE "asleep")
  /\ UNCHANGED <<patience, gone, line>>
Wake(q) ==
  /\ stand[q] = "asleep"
  /\ Stand(q, IF q \in gone THEN "through" ELSE "looking")
  /\ patience' = [patience EXCEPT ![q] = @ - 1]
  /\ UNCHANGED <<gone, line>>

(* Mutant of Proceed: a request whose client has gone keeps its slot.      *)
ProceedOrStay(q) ==
  /\ stand[q] = "through" /\ q \notin gone
  /\ Stand(q, "running")
  /\ UNCHANGED <<patience, gone, line>>

(* Run looks at the context once more, and forwards.                       *)
Proceed(q) ==
  /\ stand[q] = "through"
  /\ Stand(q, IF q \in gone THEN "none" ELSE "running")
  /\ UNCHANGED <<patience, gone, line>>

(* Forward: an answer, an error, the client's end, or llmHTTPTimeout. *)
ForwardEnds(q) ==
  /\ stand[q] = "running"
  /\ Stand(q, "none")
  /\ UNCHANGED <<patience, gone, line>>

(* Goroutines run, a poll's sleep ends, and the client for the model has a *)
(* timeout.  Nobody has to be patient, and the box need never be quiet.    *)
IdleGateStep(q) ==
  \/ TakeSlot(q) \/ LeaveLine(q) \/ SeeQuiet(q) \/ SeeBusy(q)
  \/ Wake(q) \/ Proceed(q) \/ ForwardEnds(q)

-----------------------------------------------------------------------------
IdleGateTypeOK ==
  /\ stand \in [Prompts -> AtGate \union {"none", "queued", "running"}]
  /\ patience \in [Prompts -> 0 .. MaxPolls]
  /\ gone \subseteq Prompts /\ line \in Seq(Prompts)
  /\ Cardinality(Holding) <= GateSlots

(* "work that never runs is a broken feature" (Gate): however busy the     *)
(* calls keep the box and however many clients give up at whichever point, *)
(* a request that queues is run, unless its own client goes.               *)
PromptsAreServed ==
  \A q \in Prompts : stand[q] = "queued" ~> stand[q] = "running" \/ q \in gone
=============================================================================
