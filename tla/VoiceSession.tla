---------------------------- MODULE VoiceSession ----------------------------
(***************************************************************************)
(* runVoiceSession and main of examples/websocket/server.go over the       *)
(* pools: a session borrows one engine of each kind, in order, tunes the   *)
(* last one (TTS) to its own voice, runs its pipeline until the caller     *)
(* hangs up or the server shuts down, and returns the engines by deferred  *)
(* calls, in reverse.  A voice-demo call leaves a goroutine behind that    *)
(* goes on using the TTS engine.                                           *)
(***************************************************************************)
EXTENDS ProviderPool

CONSTANTS
  Order,       \* the pools, in the order a session asks them
  DemoCalls,   \* the users whose sessions audition voices
  ScrapOnCancel  \* the pools whose processor releases its engine on a Cancel frame, for good

ASSUME SessionAssumption ==
  /\ Order \in Seq(Pools) /\ Len(Order) > 0
  /\ \A p \in Pools : \E k \in DOMAIN Order : Order[k] = p
  /\ DemoCalls \subseteq Users /\ ScrapOnCancel \subseteq Pools

VARIABLES
  stage,      \* per user, where its session stands
  hung,       \* per user, sc.stop is closed
  cancelled,  \* per user, task.Cancel was called
  demo,       \* per user, the engine its demo goroutine speaks with, or None
  main        \* the main goroutine

sessionVars == <<stage, hung, cancelled, demo, main>>
vars == <<poolVars, sessionVars>>

TTS == Order[Len(Order)]
Engine(u) == hand[u][Len(Order)]
Stages == {"idle", "getting", "building", "running", "returning"}
MainStages == {"serving", "stopping", "closing"}

Init ==
  /\ PoolInit
  /\ stage = [u \in Users |-> "idle"]
  /\ hung = [u \in Users |-> FALSE]
  /\ cancelled = [u \in Users |-> FALSE]
  /\ demo = [u \in Users |-> None]
  /\ main = "serving"

\* A connection comes in, over the browser's socket, the carrier's or a room's.
Arrive(u) ==
  /\ ~panicked /\ main = "serving" /\ stage[u] = "idle"
  /\ stage' = [stage EXCEPT ![u] = "getting"]
  /\ UNCHANGED <<poolVars, hung, cancelled, demo, main>>

HangUp(u) ==
  /\ ~panicked /\ stage[u] # "idle" /\ ~hung[u]
  /\ hung' = [hung EXCEPT ![u] = TRUE]
  /\ UNCHANGED <<poolVars, stage, cancelled, demo, main>>

\* The session is in Get of the next pool, with what it has of the earlier ones in hand.
Asks(u, p) ==
  stage[u] = "getting" /\ Len(hand[u]) < Len(Order) /\ Order[Len(hand[u]) + 1] = p

TakeInstance(u) == \E p \in Pools : Asks(u, p) /\ Receive(u, p) /\ UNCHANGED sessionVars
TakeOverflow(u) == \E p \in Pools : Asks(u, p) /\ Overflow(u, p) /\ UNCHANGED sessionVars

\* An engine could not be had: the session ends, and its defers return the earlier ones.
AcquireFails(u) ==
  /\ \E p \in Pools : Asks(u, p)
  /\ GetFails
  /\ stage' = [stage EXCEPT ![u] = "returning"]
  /\ UNCHANGED <<hung, cancelled, demo, main>>

\* All engines are in hand: the TTS engine gets this session's voice; a demo call starts
\* speaking with it on a goroutine of its own.
Tune(u) ==
  /\ ~panicked /\ stage[u] = "getting" /\ Len(hand[u]) = Len(Order)
  /\ stage' = [stage EXCEPT ![u] = "building"]
  /\ demo' = IF u \in DemoCalls THEN [demo EXCEPT ![u] = Engine(u)] ELSE demo
  /\ UNCHANGED <<poolVars, hung, cancelled, main>>

\* The LLM processor cannot be built.
BuildFails(u) ==
  /\ ~panicked /\ stage[u] = "building"
  /\ stage' = [stage EXCEPT ![u] = "returning"]
  /\ UNCHANGED <<poolVars, hung, cancelled, demo, main>>

\* The task is entered in activeTasks and run; a session that has not come this far is
\* unknown to the shutdown.
Run(u) ==
  /\ ~panicked /\ stage[u] = "building"
  /\ stage' = [stage EXCEPT ![u] = "running"]
  /\ UNCHANGED <<poolVars, hung, cancelled, demo, main>>

\* ASRProcessor.Cancel and TTSProcessor.Cancel release their engine: that destroys one that
\* lives in this process (Sherpa), and means nothing to a client of a service (HTTP).
ReleasedByCancel(cancelling) ==
  released' = released \union
    {i \in Instances : i[1] \in ScrapOnCancel /\ \E u \in cancelling : \E k \in DOMAIN hand[u] : hand[u][k] = i}

\* A mutant: the stop signal is looked at before the task runs, and not again.
CancelOnHangupOnce(u) ==
  /\ ~panicked /\ stage[u] = "building" /\ hung[u] /\ ~cancelled[u]
  /\ cancelled' = [cancelled EXCEPT ![u] = TRUE]
  /\ UNCHANGED <<poolVars, stage, hung, demo, main>>

\* The goroutine that waits for the hangup cancels the task, whenever that comes, and a
\* Cancel frame goes down the pipeline.
CancelOnHangup(u) ==
  /\ ~panicked /\ stage[u] = "running" /\ hung[u] /\ ~cancelled[u]
  /\ cancelled' = [cancelled EXCEPT ![u] = TRUE]
  /\ ReleasedByCancel({u})
  /\ UNCHANGED <<queue, shut, inUse, created, active, offering, hand, panicked>>
  /\ UNCHANGED <<stage, hung, demo, main>>

RunReturns(u) ==
  /\ ~panicked /\ stage[u] = "running" /\ cancelled[u]
  /\ stage' = [stage EXCEPT ![u] = "returning"]
  /\ UNCHANGED <<poolVars, hung, cancelled, demo, main>>

\* The deferred calls, last engine first.
GiveBack(u) ==
  LET n == Len(hand[u]) IN
  /\ stage[u] = "returning" /\ n > 0
  /\ PutBegins(u, hand[u][n])
  /\ hand' = [hand EXCEPT ![u] = SubSeq(@, 1, n - 1)]
  /\ UNCHANGED sessionVars

PutEnds(u) == Offer(u) /\ UNCHANGED sessionVars

\* The session is over, and its task and signals with it.
Leave(u) ==
  /\ ~panicked /\ stage[u] = "returning" /\ offering[u] = None /\ hand[u] = <<>>
  /\ stage' = [stage EXCEPT ![u] = "idle"]
  /\ hung' = [hung EXCEPT ![u] = FALSE]
  /\ cancelled' = [cancelled EXCEPT ![u] = FALSE]
  /\ UNCHANGED <<poolVars, demo, main>>

\* The demo goroutine sets and speaks one candidate voice after the other with the engine,
\* for as long as that takes: nothing ties it to the session.
DemoEnds(u) ==
  /\ ~panicked /\ demo[u] # None
  /\ demo' = [demo EXCEPT ![u] = None]
  /\ UNCHANGED <<poolVars, stage, hung, cancelled, main>>

\* SIGTERM: no more connections, then every registered task is cancelled, then the pools are
\* closed one after the other, without waiting for the sessions.
Signal ==
  /\ ~panicked /\ main = "serving"
  /\ main' = "stopping"
  /\ UNCHANGED <<poolVars, stage, hung, cancelled, demo>>

CancelAll ==
  /\ ~panicked /\ main = "stopping"
  /\ main' = "closing"
  /\ cancelled' = [u \in Users |-> cancelled[u] \/ stage[u] = "running"]
  /\ ReleasedByCancel({u \in Users : stage[u] = "running"})
  /\ UNCHANGED <<queue, shut, inUse, created, active, offering, hand, panicked>>
  /\ UNCHANGED <<stage, hung, demo>>

ClosePool(p) ==
  /\ main = "closing"
  /\ \A k, m \in DOMAIN Order :
       k < m /\ Order[m] = p => shut[Order[k]] = "closed" /\ queue[Order[k]] = <<>>
  /\ CloseStep(p) \/ Drain(p)
  /\ UNCHANGED sessionVars

Next ==
  \/ \E u \in Users :
       \/ Arrive(u) \/ HangUp(u) \/ TakeInstance(u) \/ TakeOverflow(u) \/ AcquireFails(u)
       \/ Tune(u) \/ BuildFails(u) \/ Run(u) \/ CancelOnHangup(u) \/ RunReturns(u)
       \/ GiveBack(u) \/ PutEnds(u) \/ Leave(u) \/ DemoEnds(u)
  \/ Signal \/ CancelAll
  \/ \E p \in Pools : ClosePool(p)

\* Goroutines run; nobody has to call, hang up or stop the server.
SessionStep(u) ==
  \/ TakeInstance(u) \/ TakeOverflow(u) \/ AcquireFails(u) \/ Tune(u) \/ Run(u)
  \/ RunReturns(u) \/ GiveBack(u) \/ PutEnds(u) \/ Leave(u)

Fairness ==
  \A u \in Users : WF_vars(SessionStep(u)) /\ WF_vars(CancelOnHangup(u))

Spec == Init /\ [][Next]_vars /\ Fairness

-----------------------------------------------------------------------------
TypeOK ==
  /\ PoolTypeOK
  /\ stage \in [Users -> Stages]
  /\ hung \in [Users -> BOOLEAN]
  /\ cancelled \in [Users -> BOOLEAN]
  /\ demo \in [Users -> Instances \union {None}]
  /\ main \in MainStages

OwnersOf(i) == {u \in Users : Holds(u, i)} \union (IF Queued(i) THEN {None} ELSE {})

Ownership == INSTANCE InstanceOwners WITH
  PoolItself <- None, made <- Made, owner <- [i \in Instances |-> OwnersOf(i)]

\* The pools, with sessions as their users, keep one owner per engine: pool.go's flag and
\* channel, and the deferred Puts of server.go, never leave an engine to two.
KeepsOwners == Ownership!OwnersSpec

\* server.go:910-912: a caller who hangs up leaves nothing behind.  Whatever the session was
\* doing, its engines go back, or the process is gone.
HangupReturnsEngines ==
  \A u \in Users : hung[u] ~> (hand[u] = <<>> /\ offering[u] = None) \/ panicked

\* "the pool-release defers fire" (server.go:1220), and what they return is for the next call
\* (Put): an engine that waits in a pool has not been destroyed (IPoolInstance.Release).
PooledEnginesWork == \A i \in released : ~Queued(i)
=============================================================================
