---------------------------- MODULE ProviderPool ----------------------------
(***************************************************************************)
(* pkg/common/pool.go: pools of speech engines (VAD, ASR, TTS), each a     *)
(* buffered channel with counters beside it.  A user takes an instance     *)
(* with Get, which makes one more when the channel stays empty for 100 ms, *)
(* and gives it back with Put, which scraps it when the channel is full.   *)
(* Close shuts a pool while users may still be in either call.             *)
(***************************************************************************)
EXTENDS Integers, Sequences, FiniteSets

CONSTANTS
  Pools,
  Users,
  PoolSize,     \* capacity of each channel
  MaxCreated,   \* bound: instances a pool ever makes
  None

Instances == Pools \X (1 .. MaxCreated)

ASSUME PoolAssumption ==
  /\ PoolSize \in Nat \ {0}
  /\ MaxCreated \in Nat /\ MaxCreated >= PoolSize
  /\ None \notin Instances /\ None \notin Users

VARIABLES
  queue,      \* per pool, what its channel holds
  shut,       \* per pool, how far Close has come
  inUse,      \* the flag Get and Put swap
  created,    \* totalCreated
  active,     \* totalActive
  released,   \* instances whose Release was called
  offering,   \* per user, the instance it is about to send in Put, or None
  hand,       \* per user, what Get has returned to it, in order
  panicked    \* a send on a closed channel ends the process

poolVars == <<queue, shut, inUse, created, active, released, offering, hand, panicked>>

ShutStages == <<"open", "cancelled", "stopped", "closed">>

Made == {i \in Instances : i[2] <= created[i[1]]}
Queued(i) == \E k \in DOMAIN queue[i[1]] : queue[i[1]][k] = i

-----------------------------------------------------------------------------
\* Initialize makes PoolSize instances at once; some may fail, not all (load gives up then).
PoolInit ==
  /\ created \in [Pools -> 1 .. PoolSize]
  /\ queue = [p \in Pools |-> [k \in 1 .. created[p] |-> <<p, k>>]]
  /\ shut = [p \in Pools |-> "open"]
  /\ inUse = [i \in Instances |-> FALSE]
  /\ active = [p \in Pools |-> 0]
  /\ released = {}
  /\ offering = [u \in Users |-> None]
  /\ hand = [u \in Users |-> <<>>]
  /\ panicked = FALSE

\* Get returns instance i to u.
Obtains(u, i) ==
  /\ hand' = [hand EXCEPT ![u] = Append(@, i)]
  /\ inUse' = [inUse EXCEPT ![i] = TRUE]
  /\ active' = [active EXCEPT ![i[1]] = @ + 1]

\* One turn of Get's loop takes from the channel.  An instance still flagged goes back.
Receive(u, p) ==
  LET i == Head(queue[p]) IN
  /\ ~panicked /\ queue[p] # <<>>
  /\ \/ /\ ~inUse[i]
        /\ Obtains(u, i)
        /\ queue' = [queue EXCEPT ![p] = Tail(@)]
     \/ /\ inUse[i]
        /\ queue' = [queue EXCEPT ![p] = Append(Tail(@), i)]
        /\ UNCHANGED <<hand, inUse, active>>
  /\ UNCHANGED <<shut, created, released, offering, panicked>>

\* A mutant: the instance made beyond the pool is put in the channel too.
OverflowShared(u, p) ==
  LET i == <<p, created[p] + 1>> IN
  /\ ~panicked /\ created[p] < MaxCreated
  /\ created' = [created EXCEPT ![p] = @ + 1]
  /\ Obtains(u, i)
  /\ queue' = IF Len(queue[p]) < PoolSize THEN [queue EXCEPT ![p] = Append(@, i)] ELSE queue
  /\ UNCHANGED <<shut, released, offering, panicked>>

\* 100 ms without an instance: make one beyond the pool.
Overflow(u, p) ==
  /\ ~panicked /\ created[p] < MaxCreated
  /\ created' = [created EXCEPT ![p] = @ + 1]
  /\ Obtains(u, <<p, created[p] + 1>>)
  /\ UNCHANGED <<queue, shut, released, offering, panicked>>

\* The engine cannot be made, the pool is shutting down, or a closed channel gives nil: Get
\* returns an error and has changed nothing.
GetFails == ~panicked /\ UNCHANGED poolVars

\* Put looks at stopCh first: after Close has begun the instance is neither kept nor released.
\* Else the flag is swapped, and only the call that swaps it goes on to the channel.
PutBegins(u, i) ==
  /\ ~panicked /\ offering[u] = None
  /\ IF shut[i[1]] \in {"stopped", "closed"}
     THEN UNCHANGED <<inUse, offering>>
     ELSE /\ inUse' = [inUse EXCEPT ![i] = FALSE]
          /\ offering' = [offering EXCEPT ![u] = IF inUse[i] THEN i ELSE None]
  /\ UNCHANGED <<queue, shut, created, active, released, panicked>>

\* A mutant: an instance is always sent, room or not.
OfferUnbounded(u) ==
  LET i == offering[u] IN
  /\ ~panicked /\ i # None
  /\ queue' = [queue EXCEPT ![i[1]] = Append(@, i)]
  /\ offering' = [offering EXCEPT ![u] = None]
  /\ active' = [active EXCEPT ![i[1]] = @ - 1]
  /\ UNCHANGED <<shut, inUse, created, released, hand, panicked>>

\* A mutant: the instance a full pool has no room for is forgotten, not released.
OfferForgets(u) ==
  LET i == offering[u]
      p == i[1]
  IN /\ ~panicked /\ i # None
     /\ queue' = IF Len(queue[p]) < PoolSize THEN [queue EXCEPT ![p] = Append(@, i)] ELSE queue
     /\ offering' = [offering EXCEPT ![u] = None]
     /\ UNCHANGED <<shut, inUse, created, active, released, hand, panicked>>

\* The send: into the channel, beside it when it is full, or on a channel closed meanwhile.
Offer(u) ==
  LET i == offering[u]
      p == i[1]
  IN /\ ~panicked /\ i # None
     /\ offering' = [offering EXCEPT ![u] = None]
     /\ \/ /\ shut[p] # "closed" /\ Len(queue[p]) < PoolSize
           /\ queue' = [queue EXCEPT ![p] = Append(@, i)]
           /\ active' = [active EXCEPT ![p] = @ - 1]
           /\ UNCHANGED <<released, panicked>>
        \/ /\ shut[p] # "closed" /\ Len(queue[p]) = PoolSize
           /\ released' = released \union {i}
           /\ UNCHANGED <<queue, active, panicked>>
        \/ /\ shut[p] = "closed"
           /\ panicked' = TRUE
           /\ UNCHANGED <<queue, active, released>>
     /\ UNCHANGED <<shut, inUse, created, hand>>

\* Close: cancel the context, close stopCh, close the channel, and release what it held.
CloseStep(p) ==
  /\ ~panicked
  /\ \E k \in 1 .. 3 : /\ shut[p] = ShutStages[k]
                       /\ shut' = [shut EXCEPT ![p] = ShutStages[k + 1]]
  /\ UNCHANGED <<queue, inUse, created, active, released, offering, hand, panicked>>

Drain(p) ==
  /\ ~panicked /\ shut[p] = "closed" /\ queue[p] # <<>>
  /\ queue' = [queue EXCEPT ![p] = Tail(@)]
  /\ released' = released \union {Head(queue[p])}
  /\ UNCHANGED <<shut, inUse, created, active, offering, hand, panicked>>

-----------------------------------------------------------------------------
PoolTypeOK ==
  /\ queue \in [Pools -> Seq(Instances)]
  /\ \A p \in Pools : Len(queue[p]) <= PoolSize
  /\ shut \in [Pools -> {ShutStages[k] : k \in 1 .. 4}]
  /\ inUse \in [Instances -> BOOLEAN]
  /\ created \in [Pools -> 0 .. MaxCreated]
  /\ active \in [Pools -> Int]
  /\ released \subseteq Instances
  /\ offering \in [Users -> Instances \union {None}]
  /\ hand \in [Users -> Seq(Instances)]
  /\ panicked \in BOOLEAN

Holds(u, i) == offering[u] = i \/ \E k \in DOMAIN hand[u] : hand[u][k] = i

\* An engine is never lost while its pool is open: it is in the channel, with a user, or
\* released (Put of a full pool releases what it cannot keep); and what is released is out of
\* everybody's reach, however the pool came to release it.
EnginesAccountedFor ==
  \A i \in Made :
    LET within == Queued(i) \/ \E u \in Users : Holds(u, i) IN
    /\ i \in released => ~within
    /\ shut[i[1]] \in {"open", "cancelled"} => within \/ i \in released
=============================================================================
