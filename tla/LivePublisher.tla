---------------------------- MODULE LivePublisher ----------------------------
(***************************************************************************)
(* pkg/rexa/live.go: one call's events, appended to lists in the           *)
(* platform's Redis by whichever goroutine of the call has something to    *)
(* say.  The latch and the keys are read under the lock; the write, the    *)
(* correction of the authentication mode and the closing of the connection *)
(* happen outside it.                                                      *)
(***************************************************************************)
EXTENDS FiniteSets, SequencesExt

CONSTANTS
  Events,        \* what the call's goroutines publish, once each
  Terminals,     \* the ones that end the stream and close the connection
  Keys,          \* the lists: one for the session id, one for the carrier's call id
  FirstKey,      \* the list a publisher starts with
  None

ASSUME LiveAssumption ==
  Terminals \subseteq Events /\ FirstKey \in Keys /\ None \notin Events

VARIABLES
  secured,     \* the server wants a password; the dispatch does not say so
  fallback,    \* REXA_REDIS_PASSWORD is set
  client,      \* p.rdb: the event that dialled it, and whether it sends a password
  closed,      \* the clients that were closed
  flipped, ended, failedLog, keys,   \* the publisher's fields
  list,        \* the server's lists
  pc,          \* per event, where its goroutine stands
  uses,        \* per event, the client its last push went through
  mine,        \* per event, the keys it copied under the lock
  alone,       \* ghost: events that no other event overlapped
  excused      \* ghost: events the latch dropped or the network lost

serverVars == <<secured, fallback, list>>
liveVars == <<secured, fallback, client, closed, flipped, ended, failedLog, keys,
              list, pc, uses, mine, alone, excused>>

Clients == [by : Events \union {None}, pwd : BOOLEAN]
Stages == {"todo", "push", "denied", "judge", "redial", "dial", "replay", "failed", "close", "done"}

\* NewLivePublisher: the dispatch's own password, else the configured one, else none.
LiveInit ==
  /\ secured \in BOOLEAN /\ fallback \in BOOLEAN
  /\ client \in [by : {None}, pwd : BOOLEAN] /\ (fallback => client.pwd)
  /\ closed = {} /\ flipped = FALSE /\ ended = FALSE /\ failedLog = FALSE
  /\ keys = {FirstKey}
  /\ list = [k \in Keys |-> <<>>]
  /\ pc = [e \in Events |-> "todo"]
  /\ uses = [e \in Events |-> client]
  /\ mine = [e \in Events |-> {}]
  /\ alone = Events /\ excused = {}

Goto(e, stage) == pc' = [pc EXCEPT ![e] = stage]
\* Ended and Failed close the connection when their event is through, published or not.
After(e) == IF e \in Terminals THEN "close" ELSE "done"

AddKey(k) ==
  /\ k \notin keys
  /\ keys' = keys \union {k}
  /\ UNCHANGED <<serverVars, client, closed, flipped, ended, failedLog, pc, uses, mine,
                 alone, excused>>

Overlap(e) ==
  LET others == {f \in Events \ {e} : pc[f] \notin {"todo", "done"}} IN
  alone' = IF others = {} THEN alone ELSE alone \ (others \union {e})

\* A mutant: the latch is looked at and not set.
BeginUnlatched(e) ==
  /\ pc[e] = "todo" /\ ~ended
  /\ mine' = [mine EXCEPT ![e] = keys]
  /\ Overlap(e) /\ Goto(e, "push")
  /\ UNCHANGED <<serverVars, client, closed, flipped, ended, failedLog, keys, uses, excused>>

\* Event, under the lock: the latch is looked at and, by a terminal event, set.
Begin(e) ==
  /\ pc[e] = "todo" /\ ~ended
  /\ ended' = (e \in Terminals)
  /\ mine' = [mine EXCEPT ![e] = keys]
  /\ Overlap(e) /\ Goto(e, "push")
  /\ UNCHANGED <<serverVars, client, closed, flipped, failedLog, keys, uses, excused>>

Dropped(e) ==
  /\ pc[e] = "todo" /\ ended
  /\ excused' = excused \union {e}
  /\ Overlap(e) /\ Goto(e, After(e))
  /\ UNCHANGED <<serverVars, client, closed, flipped, ended, failedLog, keys, uses, mine>>

\* Redis answers a push through client c.
Accepts(c) == c \notin closed /\ c.pwd = secured
Denies(c) == c \notin closed /\ c.pwd # secured

Published(e) ==
  /\ list' = [k \in Keys |-> IF k \in mine[e] THEN Append(list[k], e) ELSE list[k]]
  /\ Goto(e, After(e))

\* The pipelined push, through whatever client the publisher has by now.
Push(e) ==
  /\ pc[e] = "push"
  /\ uses' = [uses EXCEPT ![e] = client]
  /\ \/ /\ Accepts(client) /\ Published(e)
        /\ UNCHANGED excused
     \/ /\ Denies(client) /\ Goto(e, "denied")
        /\ UNCHANGED <<list, excused>>
     \/ /\ client \in closed /\ Goto(e, "failed")
        /\ UNCHANGED <<list, excused>>
     \/ /\ excused' = excused \union {e}     \* unreachable, slow, or a wrong password
        /\ Goto(e, "failed")
        /\ UNCHANGED list
  /\ UNCHANGED <<secured, fallback, client, closed, flipped, ended, failedLog, keys, mine,
                 alone>>

\* The latch of the correction is read without the lock: several events may find it unset.
Denied(e) ==
  /\ pc[e] = "denied"
  /\ Goto(e, IF flipped THEN "failed" ELSE "judge")
  /\ UNCHANGED <<serverVars, client, closed, flipped, ended, failedLog, keys, uses, mine, alone,
                 excused>>

\* authFlip, on the error e got and the mode the publisher is in now.
Correctable(e) == client.pwd = uses[e].pwd /\ (secured => fallback)

\* The error is judged and the latch set, by everyone who read it unset.
Judge(e) ==
  /\ pc[e] = "judge"
  /\ flipped' = (flipped \/ Correctable(e))
  /\ Goto(e, IF Correctable(e) THEN "redial" ELSE "failed")
  /\ UNCHANGED <<serverVars, client, closed, ended, failedLog, keys, uses, mine, alone, excused>>

\* A mutant: the connection is dialled anew first, and what p.rdb then names is closed.
RedialFirst(e) ==
  /\ pc[e] = "redial"
  /\ client' = [by |-> e, pwd |-> ~uses[e].pwd]
  /\ closed' = closed \union {client'}
  /\ Goto(e, "replay")
  /\ UNCHANGED <<serverVars, flipped, ended, failedLog, keys, uses, mine, alone, excused>>

\* What p.rdb names by now is closed, maybe the connection another event just dialled, and a
\* new one takes its place.
Redial(e) ==
  /\ \/ /\ pc[e] = "redial" /\ Goto(e, "dial")
        /\ closed' = closed \union {client}
        /\ UNCHANGED client
     \/ /\ pc[e] = "dial" /\ Goto(e, "replay")
        /\ client' = [by |-> e, pwd |-> ~uses[e].pwd]
        /\ UNCHANGED closed
  /\ UNCHANGED <<serverVars, flipped, ended, failedLog, keys, uses, mine, alone, excused>>

\* A mutant: what the second push returns is not looked at.
ReplayUnchecked(e) ==
  /\ pc[e] = "replay"
  /\ \/ Accepts(client) /\ Published(e)
     \/ ~Accepts(client) /\ Goto(e, After(e)) /\ UNCHANGED list
  /\ UNCHANGED <<secured, fallback, client, closed, flipped, ended, failedLog, keys, uses,
                 mine, alone, excused>>

\* A mutant: the event is pushed again through the client that was denied.
ReplaySameClient(e) ==
  /\ pc[e] = "replay"
  /\ \/ Accepts(uses[e]) /\ Published(e)
     \/ ~Accepts(uses[e]) /\ Goto(e, "failed") /\ UNCHANGED list
  /\ UNCHANGED <<secured, fallback, client, closed, flipped, ended, failedLog, keys, uses,
                 mine, alone, excused>>

\* The event is pushed once more; the network may fail it now.
Replay(e) ==
  /\ pc[e] = "replay"
  /\ \/ Accepts(client) /\ Published(e) /\ UNCHANGED excused
     \/ ~Accepts(client) /\ Goto(e, "failed") /\ UNCHANGED <<list, excused>>
     \/ excused' = excused \union {e} /\ Goto(e, "failed") /\ UNCHANGED list
  /\ UNCHANGED <<secured, fallback, client, closed, flipped, ended, failedLog, keys, uses,
                 mine, alone>>

\* Counted for /health and logged, once per call.
PushFailed(e) ==
  /\ pc[e] = "failed"
  /\ failedLog' = TRUE
  /\ Goto(e, After(e))
  /\ UNCHANGED <<serverVars, client, closed, flipped, ended, keys, uses, mine, alone, excused>>

Close(e) ==
  /\ pc[e] = "close"
  /\ closed' = closed \union {client}
  /\ Goto(e, "done")
  /\ UNCHANGED <<serverVars, client, flipped, ended, failedLog, keys, uses, mine, alone, excused>>

-----------------------------------------------------------------------------
Listed(e) == \E k \in Keys : Contains(list[k], e)

LiveTypeOK ==
  /\ {secured, fallback, flipped, ended, failedLog} \subseteq BOOLEAN
  /\ client \in Clients /\ closed \subseteq Clients
  /\ keys \subseteq Keys
  /\ list \in [Keys -> Seq(Events)]
  /\ pc \in [Events -> Stages]
  /\ uses \in [Events -> Clients] /\ mine \in [Events -> SUBSET Keys]
  /\ alone \subseteq Events /\ excused \subseteq Events

\* live.go:33-36: the consumer stops at the first terminal event.  However many goroutines
\* end the call at once, a stream ends once.
EndsOnce ==
  \A k \in Keys : Cardinality({n \in DOMAIN list[k] : list[k][n] \in Terminals}) <= 1

\* live.go:282-289: publishing is silent by design, so /health has to know: an event that is
\* in no list was dropped after the end, or the call was counted as failing.
NoSilentLoss ==
  \A e \in Events : pc[e] = "done" => Listed(e) \/ e \in excused \/ failedLog

\* live.go:259-262: the first guess about authentication costs no event.  One that nothing
\* overlapped is in the list, where the right mode is one the agent can choose.
GuessCostsNothing ==
  \A e \in alone :
    pc[e] = "done" /\ e \notin excused /\ (secured => fallback \/ client.pwd) => Listed(e)

\* Two events that fail together both correct the guess, and one may close the connection the
\* other has just dialled.  When they are through, the publisher still has an open connection
\* for the rest of the call, in the mode the server wants: the guess is not corrected twice over.
StaysConnected ==
  ~ended /\ (\A e \in Events : pc[e] \in {"todo", "done"}) =>
    client \notin closed /\ (flipped => client.pwd = secured)
=============================================================================
