--------------------------- MODULE Delivery_proofs ---------------------------
(***************************************************************************)
(* For every set of dispatches, events and callbacks, every clock skew and *)
(* every ladder: the types of the three wires; that a signed request is    *)
(* let in once; and that a call's stream of events ends once, loses none   *)
(* silently, does not pay for the first guess about authentication and     *)
(* keeps an open connection.                                               *)
(***************************************************************************)
EXTENDS Delivery, FiniteSetTheorems, TLAPS

-----------------------------------------------------------------------------
(* The door.  A request that got in is behind our clock by more than the   *)
(* drift allows, or its nonce was recorded late enough to be remembered    *)
(* until it is.                                                            *)
Shut(r) ==
  \/ now - r.ts > MaxDrift
  \/ seen[r.nonce] # Never /\ seen[r.nonce] >= r.ts - MaxDrift

DoorInv ==
  /\ DoorTypeOK
  /\ told \in [Dispatches -> SUBSET (Retryable \union Final)]
  /\ \A r \in DOMAIN passes : passes[r] <= 1 /\ (passes[r] = 1 => Shut(r))

-----------------------------------------------------------------------------
(* The publisher.                                                          *)
Pushing == {"push", "denied", "judge", "redial", "dial", "replay"}
In(e, k) == \E n \in DOMAIN list[k] : list[k][n] = e
MayList(e) == pc[e] \in Pushing \/ \E k \in Keys : In(e, k)
Silenced == secured /\ ~fallback /\ ~client.pwd

\* What holds of every event by itself: its stages, its keys, and the end of the stream.
EventOK(e) ==
  /\ pc[e] \in Pushing => mine[e] # {}
  /\ \A k \in Keys : In(e, k) => pc[e] \in {"close", "done"}
  /\ e \in Terminals /\ pc[e] # "todo" => ended
  /\ pc[e] = "close" => e \in Terminals
  /\ pc[e] \in {"close", "done"} =>
       e \in excused \/ failedLog \/ \E k \in Keys : In(e, k)

\* The correction of the authentication mode, by each event that makes it: from a mode the server
\* denied to the other, and over a connection of its own.
FlipOK(e) ==
  /\ pc[e] \in {"redial", "dial", "replay"} => flipped /\ (secured => fallback)
  /\ pc[e] \in {"denied", "judge", "redial", "dial"} => uses[e].pwd # secured
  /\ \A c \in closed \union {client} :
       c.by = e => pc[e] \notin {"todo", "push", "denied", "judge", "redial", "dial"}

\* An event that nothing overlapped has an open connection to itself.
AloneOK(e) ==
  e \in alone =>
    /\ pc[e] \in {"push", "denied", "judge", "redial", "replay"} => client \notin closed
    /\ pc[e] \in {"denied", "judge"} => uses[e] = client /\ ~flipped
    /\ pc[e] \in {"failed", "close", "done"} =>
         e \in excused \/ Silenced \/ \E k \in Keys : In(e, k)

ApartOK(e, f) ==
  /\ e \in Terminals /\ f \in Terminals /\ MayList(e) => ~MayList(f)
  /\ e \in alone /\ pc[e] \notin {"todo", "done"} => pc[f] \in {"todo", "done"}

ClientOK ==
  /\ ~flipped => client.by = None
  /\ flipped /\ (\A e \in Events : pc[e] \notin {"redial", "dial"}) => client.pwd = secured
  /\ ~ended /\ (\A e \in Events : pc[e] # "dial") => client \notin closed

LiveInv ==
  /\ LiveTypeOK /\ FirstKey \in keys
  /\ \A e \in Events : EventOK(e) /\ FlipOK(e) /\ AloneOK(e)
  /\ \A e, f \in Events : e # f => ApartOK(e, f)
  /\ \A k \in Keys : IsInjective(list[k])
  /\ ClientOK

-----------------------------------------------------------------------------
(* The callbacks.                                                          *)
CallbacksInv ==
  /\ CallbacksTypeOK
  /\ \A t \in Turns : post[t] \in {"idle", "classifying"} => left[t] = AlertBudget
  /\ \A t \in Turns : post[t] = "waiting" => attempts[t] \in DOMAIN AlertLadder

Inv == wire \in Wires /\ DoorInv /\ LiveInv /\ CallbacksInv

-----------------------------------------------------------------------------
(* The door's steps.                                                       *)
LEMMA DoorInitially ==
  ASSUME DoorInit PROVE DoorInv
BY DoorAssumption DEF DoorInit, DoorInv, DoorTypeOK, Never

\* A request that is on its way for the first time has passed nowhere.
LEMMA SendKeepsDoor ==
  ASSUME NEW r \in Requests, Send(r), DoorInv,
         UNCHANGED <<now, seen>>
  PROVE  \A q \in DOMAIN passes' :
           /\ q \in Requests /\ passes'[q] \in Nat
           /\ passes'[q] <= 1 /\ (passes'[q] = 1 => Shut(q)')
<1>1. \A q \in DOMAIN passes : Shut(q)' <=> Shut(q)
  BY DEF Shut
<1>2. CASE r \in DOMAIN passes
  BY <1>1, <1>2 DEF Send, DoorInv, DoorTypeOK
<1>3. CASE r \notin DOMAIN passes
  BY <1>1, <1>3 DEF Send, DoorInv, DoorTypeOK
<1>4. QED BY <1>2, <1>3

\* What the store forgets is too old to matter: its requests have drifted out of range.
LEMMA RecordKeepsShut ==
  ASSUME NEW d \in Dispatches, Record(d), DoorInv, UNCHANGED now,
         NEW r \in DOMAIN passes, Shut(r)
  PROVE  Shut(r)'
<1>1. /\ r \in Requests /\ r.nonce \in Dispatches /\ r.ts \in Int
      /\ now \in 0 .. MaxTime /\ seen[r.nonce] \in 0 .. MaxTime \union {Never}
  BY DEF DoorInv, DoorTypeOK, Requests
<1>2. now - r.ts <= MaxDrift => Remembered(r.nonce)
  BY <1>1, DoorAssumption DEF Shut, Remembered, Never
<1>3. Remembered(r.nonce) => seen'[r.nonce] = seen[r.nonce]
  BY <1>1 DEF Record
<1>4. CASE now - r.ts > MaxDrift
  BY <1>4 DEF Shut
<1>5. CASE ~(now - r.ts > MaxDrift)
  <2>1. now - r.ts <= MaxDrift
    BY <1>1, <1>5, DoorAssumption
  <2>2. seen'[r.nonce] = seen[r.nonce]
    BY <1>2, <1>3, <2>1
  <2>3. QED BY <1>5, <2>2 DEF Shut
<1>6. QED BY <1>4, <1>5

LEMMA RecordKeepsTypes ==
  ASSUME NEW d \in Dispatches, Record(d), DoorInv
  PROVE  seen' \in [Dispatches -> 0 .. MaxTime \union {Never}]
BY DEF Record, DoorInv, DoorTypeOK

\* Verify lets a request in that has not been in, and shuts the door behind it.
LEMMA PassedShuts ==
  ASSUME NEW r \in DOMAIN passes, Passed(r), DoorInv, UNCHANGED now
  PROVE  /\ seen' \in [Dispatches -> 0 .. MaxTime \union {Never}]
         /\ \A q \in DOMAIN passes' :
              /\ q \in Requests /\ passes'[q] \in Nat
              /\ passes'[q] <= 1 /\ (passes'[q] = 1 => Shut(q)')
<1>1. /\ r \in Requests /\ r.nonce \in Dispatches /\ r.ts \in Int
      /\ now \in 0 .. MaxTime /\ seen[r.nonce] \in 0 .. MaxTime \union {Never}
      /\ passes[r] \in Nat /\ passes[r] <= 1
  BY DEF DoorInv, DoorTypeOK, Requests
<1>2. now - r.ts <= MaxDrift
  BY <1>1, DoorAssumption DEF Passed, Drifts, Abs
<1>3. ~Shut(r)
  BY <1>1, <1>2, DoorAssumption DEF Passed, Shut, Remembered, Never
<1>4. passes[r] = 0
  BY <1>1, <1>3 DEF DoorInv
<1>5. Shut(r)'
  <2>1. seen'[r.nonce] = now
    BY <1>1 DEF Passed, Record
  <2>2. now - r.ts >= -MaxDrift
    BY <1>1, DoorAssumption DEF Passed, Drifts, Abs
  <2>3. QED BY <1>1, <2>1, <2>2, DoorAssumption DEF Shut, Never
<1>6. \A q \in DOMAIN passes : Shut(q) => Shut(q)'
  BY <1>1, RecordKeepsShut DEF Passed
<1>7. DOMAIN passes' = DOMAIN passes /\ passes'[r] = 1
      /\ \A q \in DOMAIN passes \ {r} : passes'[q] = passes[q]
  BY <1>4 DEF Passed
<1>8. \A q \in DOMAIN passes' :
        /\ q \in Requests /\ passes'[q] \in Nat
        /\ passes'[q] <= 1 /\ (passes'[q] = 1 => Shut(q)')
  BY <1>5, <1>6, <1>7 DEF DoorInv, DoorTypeOK
<1>9. QED BY <1>1, <1>8, RecordKeepsTypes DEF Passed

LEMMA RefusedShuts ==
  ASSUME NEW r \in DOMAIN passes, Refused(r), DoorInv, UNCHANGED <<now, passes>>
  PROVE  /\ seen' \in [Dispatches -> 0 .. MaxTime \union {Never}]
         /\ \A q \in DOMAIN passes' :
              /\ q \in Requests /\ passes'[q] \in Nat
              /\ passes'[q] <= 1 /\ (passes'[q] = 1 => Shut(q)')
<1>1. r.nonce \in Dispatches
  BY DEF DoorInv, DoorTypeOK, Requests
<1>2. CASE UNCHANGED seen
  BY <1>2 DEF DoorInv, DoorTypeOK, Shut
<1>3. CASE Record(r.nonce)
  <2>1. \A q \in DOMAIN passes : Shut(q) => Shut(q)'
    BY <1>1, <1>3, RecordKeepsShut
  <2>2. QED BY <1>1, <1>3, <2>1, RecordKeepsTypes DEF DoorInv, DoorTypeOK
<1>4. QED BY <1>2, <1>3 DEF Refused

Told == waiting \subseteq Dispatches /\ told \in [Dispatches -> SUBSET (Retryable \union Final)]

LEMMA RespondTypes ==
  ASSUME NEW d \in Dispatches, NEW code \in Retryable \union Final, Respond(d, code), Told
  PROVE  Told'
BY DEF Told, Respond

DoorStep ==
  \/ Tick
  \/ \E d \in Dispatches :
       Attempt(d) \/ Stray(d) \/ GiveUpWaiting(d) \/ DispatchOK(d) \/ DispatchFails(d) \/ CallOver(d)
  \/ \E r \in DOMAIN passes :
       Oversized(r) \/ Unauthenticated(r) \/ Undecodable(r) \/ AtCapacity(r) \/ Enter(r)

\* Only the clock, a request on its way and a verdict of Verify touch what LetInOnce is about.
LEMMA DoorKeepsShut ==
  ASSUME DoorStep, DoorInv
  PROVE  /\ now' \in 0 .. MaxTime
         /\ seen' \in [Dispatches -> 0 .. MaxTime \union {Never}]
         /\ \A q \in DOMAIN passes' :
              /\ q \in Requests /\ passes'[q] \in Nat
              /\ passes'[q] <= 1 /\ (passes'[q] = 1 => Shut(q)')
<1>1. CASE Tick
  <2>1. /\ now' \in 0 .. MaxTime /\ now' = now + 1 /\ now \in Int
        /\ UNCHANGED <<seen, passes>>
    BY <1>1, DoorAssumption DEF Tick, DoorInv, DoorTypeOK
  <2>2. \A q \in DOMAIN passes : Shut(q) => Shut(q)'
    BY <2>1, DoorAssumption DEF Shut, DoorInv, DoorTypeOK, Requests
  <2>3. QED BY <2>1, <2>2 DEF DoorInv, DoorTypeOK
<1>2. ASSUME NEW d \in Dispatches, Attempt(d) \/ Stray(d)
      PROVE  \E r \in Requests : Send(r) /\ UNCHANGED <<now, seen>>
  <2>1. CASE Attempt(d)
    <3>1. PICK flaw \in {"none", "body"} : Send([nonce |-> d, ts |-> now + skew, flaw |-> flaw])
      BY <2>1 DEF Attempt
    <3>2. [nonce |-> d, ts |-> now + skew, flaw |-> flaw] \in Requests
      BY DoorAssumption DEF Requests, Flaws, DoorInv, DoorTypeOK
    <3>3. QED BY <2>1, <3>1, <3>2 DEF Attempt
  <2>2. CASE Stray(d)
    <3>1. PICK flaw \in StrayFlaws : Send([nonce |-> d, ts |-> now, flaw |-> flaw])
      BY <2>2 DEF Stray
    <3>2. [nonce |-> d, ts |-> now, flaw |-> flaw] \in Requests
      BY DoorAssumption DEF Requests, Flaws, DoorInv, DoorTypeOK
    <3>3. QED BY <2>2, <3>1, <3>2 DEF Stray
  <2>3. QED BY <1>2, <2>1, <2>2
<1>3. CASE \E d \in Dispatches : Attempt(d) \/ Stray(d)
  <2>1. PICK r \in Requests : Send(r) /\ UNCHANGED <<now, seen>>
    BY <1>2, <1>3
  <2>2. QED BY <2>1, SendKeepsDoor DEF DoorInv, DoorTypeOK
<1>4. CASE UNCHANGED <<now, seen, passes>>
  BY <1>4 DEF DoorInv, DoorTypeOK, Shut
<1>5. CASE \E r \in DOMAIN passes : Unauthenticated(r)
  BY <1>5, RefusedShuts DEF Unauthenticated, DoorInv, DoorTypeOK
<1>6. CASE \E r \in DOMAIN passes : Undecodable(r) \/ AtCapacity(r) \/ Enter(r)
  BY <1>6, PassedShuts DEF Undecodable, AtCapacity, Enter, DoorInv, DoorTypeOK
<1>7. ASSUME NEW d \in Dispatches,
             GiveUpWaiting(d) \/ DispatchOK(d) \/ DispatchFails(d) \/ CallOver(d)
      PROVE  UNCHANGED <<now, seen, passes>>
  BY <1>7 DEF GiveUpWaiting, DispatchOK, DispatchFails, CallOver
<1>8. ASSUME NEW r \in DOMAIN passes, Oversized(r)
      PROVE  UNCHANGED <<now, seen, passes>>
  BY <1>8 DEF Oversized
<1>9. QED BY <1>1, <1>3, <1>4, <1>5, <1>6, <1>7, <1>8 DEF DoorStep

LEMMA DoorKeepsTypes ==
  ASSUME DoorStep, DoorInv
  PROVE  /\ skew' \in Skews
         /\ begun' \in [Dispatches -> 0 .. MaxTime \union {Never}]
         /\ tries' \in [Dispatches -> 0 .. MaxAttempts]
         /\ running' \in [Dispatches -> Nat]
         /\ live' \subseteq Dispatches /\ slots' \subseteq Dispatches
<1> USE DoorAssumption DEF DoorInv, DoorTypeOK
<1>1. CASE Tick
  BY <1>1 DEF Tick
<1>2. ASSUME NEW d \in Dispatches, Attempt(d) \/ Stray(d) \/ GiveUpWaiting(d)
      PROVE  /\ skew' \in Skews
             /\ begun' \in [Dispatches -> 0 .. MaxTime \union {Never}]
             /\ tries' \in [Dispatches -> 0 .. MaxAttempts]
             /\ UNCHANGED <<running, live, slots>>
  BY <1>2 DEF Attempt, Stray, GiveUpWaiting
<1>3. ASSUME NEW d \in Dispatches, DispatchOK(d) \/ DispatchFails(d) \/ CallOver(d)
      PROVE  /\ UNCHANGED <<skew, begun, tries>>
             /\ running' \in [Dispatches -> Nat]
             /\ live' \subseteq Dispatches /\ slots' \subseteq Dispatches
  BY <1>3 DEF DispatchOK, DispatchFails, CallOver
<1>4. ASSUME NEW r \in DOMAIN passes,
             Oversized(r) \/ Unauthenticated(r) \/ Undecodable(r) \/ AtCapacity(r)
      PROVE  UNCHANGED <<skew, begun, tries, running, live, slots>>
  BY <1>4 DEF Oversized, Unauthenticated, Undecodable, AtCapacity
<1>5. ASSUME NEW r \in DOMAIN passes, Enter(r)
      PROVE  /\ UNCHANGED <<skew, begun, tries, live>>
             /\ running' \in [Dispatches -> Nat] /\ slots' \subseteq Dispatches
  <2>1. r.nonce \in Dispatches
    BY DEF Requests
  <2>2. QED BY <1>5, <2>1 DEF Enter, Admitted
<1>6. QED BY <1>1, <1>2, <1>3, <1>4, <1>5 DEF DoorStep

LEMMA DoorKeepsTold ==
  ASSUME DoorStep, DoorInv
  PROVE  Told'
<1>1. Told
  BY DEF DoorInv, DoorTypeOK, Told
<1>2. CASE Tick
  BY <1>1, <1>2 DEF Tick, Told
<1>3. ASSUME NEW d \in Dispatches, Attempt(d) \/ Stray(d) \/ GiveUpWaiting(d) \/ CallOver(d)
      PROVE  Told'
  BY <1>1, <1>3 DEF Attempt, Stray, GiveUpWaiting, CallOver, Told, Retryable
<1>4. ASSUME NEW d \in Dispatches, DispatchOK(d)
      PROVE  Told'
  <2>1. "ok" \in Retryable \union Final /\ Respond(d, "ok")
    BY <1>4 DEF DispatchOK, Final
  <2>2. QED BY <1>1, <2>1, RespondTypes
<1>5. ASSUME NEW d \in Dispatches, DispatchFails(d)
      PROVE  Told'
  <2>1. PICK code \in {"internal_error", "provider_credentials_invalid"} : Respond(d, code)
    BY <1>5 DEF DispatchFails
  <2>2. code \in Retryable \union Final
    BY DEF Final, Retryable
  <2>3. QED BY <1>1, <2>1, <2>2, RespondTypes
<1>6. ASSUME NEW r \in DOMAIN passes,
             Oversized(r) \/ Unauthenticated(r) \/ Undecodable(r) \/ AtCapacity(r) \/ Enter(r)
      PROVE  Told'
  <2>1. r.nonce \in Dispatches
    BY DEF DoorInv, DoorTypeOK, Requests
  <2>2. {"invalid_request", "unauthenticated", "at_capacity"} \subseteq Retryable \union Final
    BY DEF Retryable, Final
  <2>3. \/ UNCHANGED <<waiting, told>> \/ Respond(r.nonce, "invalid_request")
        \/ Respond(r.nonce, "unauthenticated") \/ Respond(r.nonce, "at_capacity")
    BY <1>6 DEF Oversized, Unauthenticated, Undecodable, AtCapacity, Enter
  <2>4. CASE UNCHANGED <<waiting, told>>
    BY <1>1, <2>4 DEF Told
  <2>5. QED BY <1>1, <2>1, <2>2, <2>3, <2>4, RespondTypes
<1>7. QED BY <1>2, <1>3, <1>4, <1>5, <1>6 DEF DoorStep

LEMMA DoorKeepsInv ==
  ASSUME DoorStep, DoorInv
  PROVE  DoorInv'
<1>1. \A d \in Dispatches : told'[d] \subseteq Retryable \union Final
  BY DoorKeepsTold DEF Told
<1>2. QED
  BY <1>1, DoorKeepsShut, DoorKeepsTypes, DoorKeepsTold DEF DoorInv, DoorTypeOK, Told

-----------------------------------------------------------------------------
(* The publisher's steps.                                                  *)
LEMMA ListFacts ==
  ASSUME NEW s \in Seq(Events), NEW e \in Events
  PROVE  /\ \A f : Contains(s, f) <=> \E n \in DOMAIN s : s[n] = f
         /\ Append(s, e) \in Seq(Events)
         /\ \A f : (\E n \in DOMAIN Append(s, e) : Append(s, e)[n] = f)
                     <=> f = e \/ \E n \in DOMAIN s : s[n] = f
         /\ IsInjective(s) /\ ~(\E n \in DOMAIN s : s[n] = e) => IsInjective(Append(s, e))
<1> DEFINE a == Append(s, e)
<1>1. /\ a \in Seq(Events) /\ Len(s) \in Nat
      /\ DOMAIN a = 1 .. Len(s) + 1 /\ DOMAIN s = 1 .. Len(s)
      /\ \A k \in 1 .. Len(s) : a[k] = s[k]
      /\ a[Len(s) + 1] = e
  OBVIOUS
<1> HIDE DEF a
<1>2. \A f : Contains(s, f) <=> \E n \in DOMAIN s : s[n] = f
  BY <1>1 DEF Contains
<1>3. \A f : (\E n \in DOMAIN a : a[n] = f) <=> f = e \/ \E n \in DOMAIN s : s[n] = f
  BY <1>1
<1>4. IsInjective(s) /\ ~(\E n \in DOMAIN s : s[n] = e) => IsInjective(a)
  BY <1>1 DEF IsInjective
<1>5. QED BY <1>1, <1>2, <1>3, <1>4 DEF a

\* A push that went through puts the event in the lists it copied, and nowhere else.
LEMMA PublishedFacts ==
  ASSUME NEW e \in Events, pc[e] \in Pushing, Published(e), LiveInv
  PROVE  /\ list' \in [Keys -> Seq(Events)]
         /\ \A k \in Keys : IsInjective(list'[k])
         /\ \A f \in Events, k \in Keys : In(f, k)' <=> In(f, k) \/ (f = e /\ k \in mine[e])
         /\ \E k \in Keys : In(e, k)'
<1>1. /\ list \in [Keys -> Seq(Events)] /\ mine[e] \subseteq Keys /\ mine[e] # {}
      /\ \A k \in Keys : ~In(e, k) /\ IsInjective(list[k])
  BY DEF LiveInv, LiveTypeOK, EventOK, Pushing
<1>2. \A k \in Keys : list'[k] = IF k \in mine[e] THEN Append(list[k], e) ELSE list[k]
  BY DEF Published
<1>3. list' \in [Keys -> Seq(Events)]
  <2>1. \A k \in Keys : Append(list[k], e) \in Seq(Events)
    BY <1>1, ListFacts
  <2>2. QED BY <1>1, <2>1 DEF Published
<1>4. \A k \in Keys : IsInjective(list'[k])
  BY <1>1, <1>2, ListFacts DEF In
<1>5. \A f \in Events, k \in Keys : In(f, k)' <=> In(f, k) \/ (f = e /\ k \in mine[e])
  <2>1. SUFFICES ASSUME NEW f \in Events, NEW k \in Keys
                 PROVE  In(f, k)' <=> In(f, k) \/ (f = e /\ k \in mine[e])
    OBVIOUS
  <2>2. In(f, k)' <=> \E n \in DOMAIN list'[k] : list'[k][n] = f
    BY DEF In
  <2>3. CASE k \in mine[e]
    <3>1. list'[k] = Append(list[k], e) /\ list[k] \in Seq(Events)
      BY <1>1, <1>2, <2>3
    <3>2. (\E n \in DOMAIN Append(list[k], e) : Append(list[k], e)[n] = f)
             <=> f = e \/ \E n \in DOMAIN list[k] : list[k][n] = f
      BY <3>1, ListFacts
    <3>3. In(f, k)' <=> f = e \/ \E n \in DOMAIN list[k] : list[k][n] = f
      BY <2>2, <3>1, <3>2
    <3>4. QED BY <2>3, <3>3 DEF In
  <2>4. CASE k \notin mine[e]
    BY <1>2, <2>2, <2>4 DEF In
  <2>5. QED BY <2>3, <2>4
<1>6. QED BY <1>1, <1>3, <1>4, <1>5

LEMMA LiveInitially ==
  ASSUME LiveInit PROVE LiveInv
<1> USE LiveAssumption
<1>1. LiveTypeOK /\ FirstKey \in keys
  <2>1. client \in Clients
    BY DEF LiveInit, Clients
  <2>2. list \in [Keys -> Seq(Events)] /\ pc \in [Events -> Stages]
    BY DEF LiveInit, Stages
  <2>3. QED BY <2>1, <2>2 DEF LiveInit, LiveTypeOK
<1>2. \A k \in Keys : list[k] = <<>> /\ DOMAIN list[k] = {}
  BY DEF LiveInit
<1>3. \A k \in Keys : IsInjective(list[k]) /\ \A e : ~In(e, k)
  BY <1>2 DEF IsInjective, In
<1>4. \A e \in Events : EventOK(e) /\ FlipOK(e) /\ AloneOK(e)
  BY <1>3 DEF LiveInit, EventOK, FlipOK, AloneOK, Pushing
<1>5. \A e, f \in Events : e # f => ApartOK(e, f)
  BY <1>3 DEF LiveInit, ApartOK, MayList, Pushing
<1>6. ClientOK
  BY DEF LiveInit, ClientOK
<1>7. QED BY <1>1, <1>3, <1>4, <1>5, <1>6 DEF LiveInv

LiveStep ==
  \/ \E k \in Keys : AddKey(k)
  \/ \E e \in Events :
       \/ Begin(e) \/ Dropped(e) \/ Push(e) \/ Denied(e) \/ Judge(e)
       \/ Redial(e) \/ Replay(e) \/ PushFailed(e) \/ Close(e)

LEMMA LiveKeepsTypes ==
  ASSUME LiveStep, LiveInv
  PROVE  LiveTypeOK' /\ FirstKey \in keys'
<1> USE DEF LiveInv, LiveTypeOK, serverVars
<1>1. CASE \E k \in Keys : AddKey(k)
  BY <1>1 DEF AddKey
<1>2. ASSUME NEW e \in Events, NEW stage \in Stages, Goto(e, stage)
      PROVE  pc' \in [Events -> Stages]
  BY <1>2 DEF Goto
<1>3. ASSUME NEW e \in Events
      PROVE  After(e) \in Stages /\ {"push", "denied", "judge", "failed", "redial", "dial", "replay", "done"} \subseteq Stages
  BY DEF After, Stages
<1>4. ASSUME NEW e \in Events, Begin(e) \/ Dropped(e)
      PROVE  LiveTypeOK' /\ FirstKey \in keys'
  <2>1. pc' \in [Events -> Stages]
    BY <1>4, <1>2, <1>3 DEF Begin, Dropped
  <2>2. alone' \subseteq Events
    BY <1>4 DEF Begin, Dropped, Overlap
  <2>3. CASE Begin(e)
    BY <2>1, <2>2, <2>3 DEF Begin
  <2>4. CASE Dropped(e)
    BY <2>1, <2>2, <2>4 DEF Dropped
  <2>5. QED BY <1>4, <2>3, <2>4
<1>5. ASSUME NEW e \in Events, pc[e] \in Pushing, Published(e)
      PROVE  list' \in [Keys -> Seq(Events)] /\ pc' \in [Events -> Stages]
  BY <1>2, <1>3, <1>5, PublishedFacts DEF Published
<1>6. ASSUME NEW e \in Events, Push(e)
      PROVE  LiveTypeOK' /\ FirstKey \in keys'
  <2>1. list' \in [Keys -> Seq(Events)] /\ pc' \in [Events -> Stages]
    BY <1>2, <1>3, <1>5, <1>6 DEF Push, Pushing
  <2>2. QED BY <1>6, <2>1 DEF Push
<1>7. ASSUME NEW e \in Events, Denied(e) \/ Judge(e)
      PROVE  LiveTypeOK' /\ FirstKey \in keys'
  <2>1. flipped' = TRUE \/ flipped' = FALSE
    <3>1. CASE Denied(e)
      BY <3>1 DEF Denied
    <3>2. CASE Judge(e)
      BY <3>2, Zenon DEF Judge
    <3>3. QED BY <1>7, <3>1, <3>2
  <2>2. pc' \in [Events -> Stages]
    BY <1>2, <1>3, <1>7 DEF Denied, Judge
  <2>3. QED BY <1>7, <2>1, <2>2 DEF Denied, Judge
<1>8. ASSUME NEW e \in Events, Redial(e)
      PROVE  LiveTypeOK' /\ FirstKey \in keys'
  <2>1. pc' \in [Events -> Stages]
    BY <1>2, <1>3, <1>8 DEF Redial
  <2>2. (~uses[e].pwd) \in BOOLEAN
    BY Zenon
  <2>3. [by |-> e, pwd |-> ~uses[e].pwd] \in Clients
    BY <2>2 DEF Clients
  <2>4. client' \in Clients /\ closed' \subseteq Clients
    BY <1>8, <2>3 DEF Redial
  <2>5. QED BY <1>8, <2>1, <2>4 DEF Redial
<1>9. ASSUME NEW e \in Events, Replay(e)
      PROVE  LiveTypeOK' /\ FirstKey \in keys'
  <2>1. list' \in [Keys -> Seq(Events)] /\ pc' \in [Events -> Stages]
    BY <1>2, <1>3, <1>5, <1>9 DEF Replay, Pushing
  <2>2. QED BY <1>9, <2>1 DEF Replay
<1>10. ASSUME NEW e \in Events, PushFailed(e) \/ Close(e)
       PROVE  LiveTypeOK' /\ FirstKey \in keys'
  BY <1>2, <1>3, <1>10 DEF PushFailed, Close
<1>11. QED
  BY <1>1, <1>4, <1>6, <1>7, <1>8, <1>9, <1>10 DEF LiveStep

\* Lists only grow, and by the event whose push just went through.
LEMMA ListsGrow ==
  ASSUME LiveStep, LiveInv
  PROVE  /\ \A k \in Keys : IsInjective(list'[k])
         /\ \A f \in Events, k \in Keys : In(f, k) => In(f, k)'
         /\ \A f \in Events, k \in Keys : In(f, k)' =>
              In(f, k) \/ (pc[f] \in {"push", "replay"} /\ pc'[f] = After(f))
<1> DEFINE Grow == /\ \A k \in Keys : IsInjective(list'[k])
                   /\ \A f \in Events, k \in Keys : In(f, k) => In(f, k)'
                   /\ \A f \in Events, k \in Keys : In(f, k)' =>
                        In(f, k) \/ (pc[f] \in {"push", "replay"} /\ pc'[f] = After(f))
<1>1. CASE UNCHANGED list
  BY <1>1 DEF In, LiveInv
<1>2. ASSUME NEW e \in Events, pc[e] \in {"push", "replay"}, Published(e)
      PROVE  Grow
  <2>1. pc[e] \in Pushing
    BY <1>2 DEF Pushing
  <2>2. pc'[e] = After(e)
    BY <1>2 DEF Published, Goto, LiveInv, LiveTypeOK
  <2>3. QED BY <1>2, <2>1, <2>2, PublishedFacts
<1>3. ASSUME NEW e \in Events, Push(e) \/ Replay(e)
      PROVE  Grow
  <2>1. UNCHANGED list \/ Published(e)
    BY <1>3 DEF Push, Replay
  <2>2. pc[e] \in {"push", "replay"}
    BY <1>3 DEF Push, Replay
  <2>3. QED BY <1>1, <1>2, <2>1, <2>2
<1>4. CASE ~\E e \in Events : Push(e) \/ Replay(e)
  <2>1. UNCHANGED list
    BY <1>4 DEF LiveStep, AddKey, Begin, Dropped, Denied, Judge, Redial, PushFailed, Close, serverVars
  <2>2. QED BY <1>1, <2>1
<1>5. QED BY <1>3, <1>4

LEMMA LiveKeepsEvents ==
  ASSUME LiveStep, LiveInv, NEW f \in Events
  PROVE  EventOK(f)'
<1>1. /\ \A k \in Keys : In(f, k) => In(f, k)'
      /\ \A k \in Keys : In(f, k)' =>
           In(f, k) \/ (pc[f] \in {"push", "replay"} /\ pc'[f] = After(f))
  BY ListsGrow
<1> USE <1>1 DEF LiveInv, LiveTypeOK, EventOK, Pushing, Goto, After, serverVars
<1>2. CASE \E k \in Keys : AddKey(k)
  BY <1>2 DEF AddKey
<1>3. ASSUME NEW e \in Events, Begin(e) PROVE EventOK(f)'
  BY <1>3 DEF Begin
<1>4. ASSUME NEW e \in Events, Dropped(e) PROVE EventOK(f)'
  BY <1>4 DEF Dropped
<1>5. ASSUME NEW e \in Events, pc[e] \in Pushing, Published(e),
             UNCHANGED <<ended, failedLog, mine, excused>>
      PROVE  EventOK(f)'
  <2>1. \E k \in Keys : In(e, k)'
    BY <1>5, PublishedFacts
  <2>2. QED BY <1>5, <2>1 DEF Published
<1>6. ASSUME NEW e \in Events, Push(e) PROVE EventOK(f)'
  <2>1. CASE Published(e) /\ UNCHANGED excused
    BY <1>5, <1>6, <2>1 DEF Push
  <2>2. CASE ~(Published(e) /\ UNCHANGED excused)
    BY <1>6, <2>2 DEF Push
  <2>3. QED BY <2>1, <2>2
<1>7. ASSUME NEW e \in Events, Denied(e) \/ Judge(e) PROVE EventOK(f)'
  BY <1>7 DEF Denied, Judge
<1>8. ASSUME NEW e \in Events, Redial(e) PROVE EventOK(f)'
  BY <1>8 DEF Redial
<1>9. ASSUME NEW e \in Events, Replay(e) PROVE EventOK(f)'
  <2>1. CASE Published(e)
    BY <1>5, <1>9, <2>1 DEF Replay
  <2>2. CASE ~Published(e)
    BY <1>9, <2>2 DEF Replay
  <2>3. QED BY <2>1, <2>2
<1>10. ASSUME NEW e \in Events, PushFailed(e) PROVE EventOK(f)'
  BY <1>10 DEF PushFailed
<1>11. ASSUME NEW e \in Events, Close(e) PROVE EventOK(f)'
  BY <1>11 DEF Close
<1>12. QED
  BY <1>2, <1>3, <1>4, <1>6, <1>7, <1>8, <1>9, <1>10, <1>11 DEF LiveStep

LEMMA LiveKeepsFlips ==
  ASSUME LiveStep, LiveInv, NEW f \in Events
  PROVE  FlipOK(f)'
<1> USE DEF LiveInv, LiveTypeOK, FlipOK, Goto, After, serverVars
<1>1. CASE \E k \in Keys : AddKey(k)
  BY <1>1 DEF AddKey
<1>2. ASSUME NEW e \in Events, Begin(e) PROVE FlipOK(f)'
  BY <1>2 DEF Begin
<1>3. ASSUME NEW e \in Events, Dropped(e) PROVE FlipOK(f)'
  BY <1>3 DEF Dropped
<1>4. ASSUME NEW e \in Events, Push(e) PROVE FlipOK(f)'
  BY <1>4 DEF Push, Published, Denies
<1>5. ASSUME NEW e \in Events, Denied(e) \/ Judge(e) PROVE FlipOK(f)'
  <2>1. CASE Denied(e)
    BY <2>1 DEF Denied
  <2>2. CASE Judge(e)
    <3>1. /\ pc[e] = "judge" /\ UNCHANGED <<client, closed, uses, secured, fallback>>
          /\ \A g \in Events \ {e} : pc'[g] = pc[g]
          /\ pc'[e] \in {"redial", "failed"} /\ (flipped => flipped')
          /\ pc'[e] = "redial" => flipped' /\ (secured => fallback)
      BY <2>2 DEF Judge, Correctable
    <3>2. QED BY <3>1
  <2>3. QED BY <1>5, <2>1, <2>2
<1>6. ASSUME NEW e \in Events, Redial(e) PROVE FlipOK(f)'
  BY <1>6 DEF Redial
<1>7. ASSUME NEW e \in Events, Replay(e) PROVE FlipOK(f)'
  BY <1>7 DEF Replay, Published
<1>8. ASSUME NEW e \in Events, PushFailed(e) PROVE FlipOK(f)'
  BY <1>8 DEF PushFailed
<1>9. ASSUME NEW e \in Events, Close(e) PROVE FlipOK(f)'
  BY <1>9 DEF Close
<1>10. QED
  BY <1>1, <1>2, <1>3, <1>4, <1>5, <1>6, <1>7, <1>8, <1>9 DEF LiveStep

LEMMA LiveKeepsClient ==
  ASSUME LiveStep, LiveInv
  PROVE  ClientOK'
<1> USE DEF LiveInv, LiveTypeOK, EventOK, FlipOK, ClientOK, Goto, After, serverVars
<1>1. CASE \E k \in Keys : AddKey(k)
  BY <1>1 DEF AddKey
<1>2. ASSUME NEW e \in Events, Begin(e) PROVE ClientOK'
  BY <1>2 DEF Begin
<1>3. ASSUME NEW e \in Events, Dropped(e) PROVE ClientOK'
  BY <1>3 DEF Dropped
<1>4. ASSUME NEW e \in Events, Push(e) PROVE ClientOK'
  BY <1>4 DEF Push, Published
<1>5. ASSUME NEW e \in Events, Denied(e) \/ Judge(e) PROVE ClientOK'
  BY <1>5 DEF Denied, Judge, Correctable
<1>6. ASSUME NEW e \in Events, Redial(e) PROVE ClientOK'
  <2>1. CASE pc[e] = "redial"
    BY <1>6, <2>1 DEF Redial
  <2>2. CASE pc[e] = "dial"
    <3>1. /\ client' = [by |-> e, pwd |-> ~uses[e].pwd] /\ UNCHANGED <<closed, flipped, secured>>
          /\ flipped
      BY <1>6, <2>2 DEF Redial
    <3>2. uses[e].pwd \in BOOLEAN /\ secured \in BOOLEAN /\ uses[e].pwd # secured
      BY <2>2 DEF Clients
    <3>3. (~uses[e].pwd) = secured
      BY <3>2
    <3>4. client'.pwd = secured'
      BY <3>1, <3>3
    <3>5. client' \notin closed'
      BY <2>2, <3>1
    <3>6. QED BY <3>1, <3>4, <3>5
  <2>3. QED BY <1>6, <2>1, <2>2 DEF Redial
<1>7. ASSUME NEW e \in Events, Replay(e) PROVE ClientOK'
  BY <1>7 DEF Replay, Published
<1>8. ASSUME NEW e \in Events, PushFailed(e) PROVE ClientOK'
  BY <1>8 DEF PushFailed
<1>9. ASSUME NEW e \in Events, Close(e) PROVE ClientOK'
  BY <1>9 DEF Close
<1>10. QED
  BY <1>1, <1>2, <1>3, <1>4, <1>5, <1>6, <1>7, <1>8, <1>9 DEF LiveStep

LEMMA LiveKeepsAlone ==
  ASSUME LiveStep, LiveInv, NEW f \in Events
  PROVE  AloneOK(f)'
<1>1. \A k \in Keys : In(f, k) => In(f, k)'
  BY ListsGrow
<1> USE <1>1 DEF LiveInv, LiveTypeOK, EventOK, FlipOK, AloneOK, ApartOK, ClientOK, Silenced,
                 Goto, After, serverVars
<1>2. CASE \E k \in Keys : AddKey(k)
  BY <1>2 DEF AddKey
<1>3. ASSUME NEW e \in Events, Begin(e) PROVE AloneOK(f)'
  BY <1>3 DEF Begin, Overlap
<1>4. ASSUME NEW e \in Events, Dropped(e) PROVE AloneOK(f)'
  BY <1>4 DEF Dropped, Overlap
<1>5. ASSUME NEW e \in Events, pc[e] \in Pushing, Published(e),
             UNCHANGED <<client, closed, alone, secured, fallback, flipped, excused>>,
             e # f => UNCHANGED uses[f]
      PROVE  AloneOK(f)'
  <2>1. \E k \in Keys : In(e, k)'
    BY <1>5, PublishedFacts
  <2>2. QED BY <1>5, <2>1 DEF Published
<1>6. ASSUME NEW e \in Events, Push(e) PROVE AloneOK(f)'
  <2>1. CASE Published(e) /\ UNCHANGED excused
    BY <1>5, <1>6, <2>1 DEF Push, Pushing
  <2>2. CASE ~(Published(e) /\ UNCHANGED excused)
    BY <1>6, <2>2 DEF Push, Denies
  <2>3. QED BY <2>1, <2>2
<1>7. ASSUME NEW e \in Events, Denied(e) \/ Judge(e) PROVE AloneOK(f)'
  <2>1. CASE Denied(e)
    BY <1>1, <2>1 DEF Denied
  <2>2. CASE Judge(e)
    <3>1. /\ pc[e] = "judge"
          /\ UNCHANGED <<client, closed, uses, alone, list, secured, fallback, excused>>
          /\ \A g \in Events \ {e} : pc'[g] = pc[g]
          /\ pc'[e] = IF Correctable(e) THEN "redial" ELSE "failed"
      BY <2>2 DEF Judge
    <3>2. CASE f = e
      BY <1>1, <2>2, <3>1, <3>2 DEF Correctable, Clients, In
    <3>3. CASE f # e
      BY <1>1, <2>2, <3>1, <3>3 DEF In
    <3>4. QED BY <3>2, <3>3
  <2>3. QED BY <1>7, <2>1, <2>2
<1>8. ASSUME NEW e \in Events, Redial(e) PROVE AloneOK(f)'
  BY <1>8 DEF Redial
<1>9. ASSUME NEW e \in Events, Replay(e) PROVE AloneOK(f)'
  <2>1. CASE Published(e)
    BY <1>5, <1>9, <2>1 DEF Replay, Pushing
  <2>2. CASE ~Published(e)
    BY <1>9, <2>2 DEF Replay, Accepts
  <2>3. QED BY <2>1, <2>2
<1>10. ASSUME NEW e \in Events, PushFailed(e) PROVE AloneOK(f)'
  BY <1>10 DEF PushFailed
<1>11. ASSUME NEW e \in Events, Close(e) PROVE AloneOK(f)'
  BY <1>11 DEF Close
<1>12. QED
  BY <1>2, <1>3, <1>4, <1>6, <1>7, <1>8, <1>9, <1>10, <1>11 DEF LiveStep

LEMMA LiveKeepsApart ==
  ASSUME LiveStep, LiveInv, NEW f \in Events, NEW g \in Events, f # g
  PROVE  ApartOK(f, g)'
<1>1. ApartOK(f, g) /\ ApartOK(g, f) /\ EventOK(f) /\ EventOK(g) /\ FlipOK(f) /\ FlipOK(g)
  BY DEF LiveInv
<1>2. \A h \in {f, g} : MayList(h)' => MayList(h) \/ (pc[h] = "todo" /\ Begin(h))
  <2>1. SUFFICES ASSUME NEW h \in Events, MayList(h)'
                 PROVE  MayList(h) \/ (pc[h] = "todo" /\ Begin(h))
    OBVIOUS
  <2>2. CASE \E k \in Keys : In(h, k)'
    BY <2>2, ListsGrow DEF MayList, Pushing
  <2>3. CASE pc'[h] \in Pushing
    <3>2. ASSUME NEW e \in Events,
                 Dropped(e) \/ Push(e) \/ Denied(e) \/ Judge(e) \/ Redial(e) \/ Replay(e)
                   \/ PushFailed(e) \/ Close(e)
          PROVE  MayList(h)
      BY <2>3, <3>2 DEF Dropped, Push, Denied, Judge, Redial, Replay, PushFailed, Close, Published,
           Goto, After, MayList, Pushing, LiveInv, LiveTypeOK
    <3>3. ASSUME NEW e \in Events, Begin(e)
          PROVE  MayList(h) \/ (pc[h] = "todo" /\ Begin(h))
      <4>1. CASE h = e
        BY <3>3, <4>1 DEF Begin
      <4>2. CASE h # e
        BY <2>3, <3>3, <4>2 DEF Begin, Goto, MayList, LiveInv, LiveTypeOK
      <4>3. QED BY <4>1, <4>2
    <3>4. ASSUME NEW k \in Keys, AddKey(k) PROVE MayList(h)
      BY <2>3, <3>4 DEF AddKey, MayList
    <3>5. CASE \E k \in Keys : AddKey(k)
      BY <3>4, <3>5
    <3>6. CASE \E e \in Events : Begin(e)
      BY <3>3, <3>6
    <3>7. CASE \E e \in Events : Dropped(e) \/ Push(e) \/ Denied(e) \/ Judge(e) \/ Redial(e)
                                \/ Replay(e) \/ PushFailed(e) \/ Close(e)
      BY <3>2, <3>7
    <3>8. QED BY <3>5, <3>6, <3>7, Zenon DEF LiveStep
  <2>4. QED BY <2>1, <2>2, <2>3 DEF MayList
<1>3. f \in Terminals /\ g \in Terminals /\ MayList(f)' => ~MayList(g)'
  <2>1. SUFFICES ASSUME f \in Terminals, g \in Terminals, MayList(f)', MayList(g)'
                 PROVE  FALSE
    OBVIOUS
  <2>2. ASSUME NEW h \in Events, MayList(h), h \in Terminals
        PROVE  ended
    <3>1. pc[h] # "todo"
      BY <2>2 DEF MayList, Pushing, LiveInv, EventOK
    <3>2. QED BY <2>2, <3>1 DEF LiveInv, EventOK
  <2>3. ASSUME NEW h \in Events, NEW i \in Events, Begin(h), h # i
        PROVE  ~ended /\ ~Begin(i)
    BY <2>3 DEF Begin, Goto, LiveInv, LiveTypeOK
  <2>4. QED BY <1>1, <1>2, <2>1, <2>2, <2>3 DEF ApartOK
<1> USE DEF LiveInv, LiveTypeOK, ApartOK, FlipOK, Goto, After, serverVars
<1>4. f \in alone' /\ pc'[f] \notin {"todo", "done"} => pc'[g] \in {"todo", "done"}
  <2>1. CASE \E k \in Keys : AddKey(k)
    BY <1>1, <2>1 DEF AddKey
  <2>2. ASSUME NEW e \in Events, Begin(e) \/ Dropped(e)
        PROVE  f \in alone' /\ pc'[f] \notin {"todo", "done"} => pc'[g] \in {"todo", "done"}
    BY <1>1, <2>2 DEF Begin, Dropped, Overlap
  <2>3. ASSUME NEW e \in Events,
               Push(e) \/ Denied(e) \/ Judge(e) \/ Redial(e) \/ Replay(e) \/ PushFailed(e)
                 \/ Close(e)
        PROVE  /\ UNCHANGED alone /\ pc[e] \notin {"todo", "done"}
               /\ \A h \in Events \ {e} : pc'[h] = pc[h]
    BY <2>3 DEF Push, Replay, Published, Denied, Judge, Redial, PushFailed, Close
  <2>4. ASSUME NEW e \in Events,
               Push(e) \/ Denied(e) \/ Judge(e) \/ Redial(e) \/ Replay(e) \/ PushFailed(e)
                 \/ Close(e)
        PROVE  f \in alone' /\ pc'[f] \notin {"todo", "done"} => pc'[g] \in {"todo", "done"}
    BY <1>1, <2>3, <2>4
  <2>5. QED BY <2>1, <2>2, <2>4 DEF LiveStep
<1>5. QED BY <1>3, <1>4

LEMMA LiveKeepsInv ==
  ASSUME LiveStep, LiveInv
  PROVE  LiveInv'
BY ListsGrow, LiveKeepsTypes, LiveKeepsEvents, LiveKeepsFlips, LiveKeepsClient, LiveKeepsAlone,
   LiveKeepsApart DEF LiveInv

-----------------------------------------------------------------------------
(* The callbacks' steps.                                                   *)
CallbacksStep ==
  \/ \E r \in Reports : Report(r) \/ BackOff(r)
  \/ \E c \in Callbacks : Try(c)
  \/ \E t \in Turns : HearTurn(t) \/ Observe(t) \/ BackOffUntil(t)
  \/ CallEnds

LEMMA CallbacksInitially ==
  ASSUME CallbacksInit PROVE CallbacksInv
BY CallbacksAssumption DEF CallbacksInit, CallbacksInv, CallbacksTypeOK, Over, Callbacks

\* A rung of the ladder that is waited on exists.
LEMMA WaitingHasDelay ==
  ASSUME NEW t \in Turns, attempts[t] \in Nat, ~LadderEnds(t)
  PROVE  attempts[t] + 1 \in DOMAIN AlertLadder
<1>1. Len(AlertLadder) \in Nat /\ DOMAIN AlertLadder = 1 .. Len(AlertLadder)
  BY CallbacksAssumption
<1>2. QED BY <1>1 DEF LadderEnds, Ladder

LEMMA CallbacksKeepInv ==
  ASSUME CallbacksStep, CallbacksInv
  PROVE  CallbacksInv'
<1> DEFINE Stops == Over \union {"idle", "classifying", "trying", "waiting"}
<1> USE CallbacksAssumption DEF CallbacksInv, CallbacksTypeOK, Callbacks
<1>1. {"idle", "classifying", "trying", "waiting", "quiet", "delivered", "rejected", "exhausted",
       "abandoned"} \subseteq Stops
  BY DEF Over
<1> HIDE DEF Stops
<1>2. post \in [Callbacks -> Stops]
  BY DEF Stops
<1>3. ASSUME NEW r \in Reports, Report(r) \/ BackOff(r)
      PROVE  CallbacksInv'
  <2>1. post' \in [Callbacks -> Stops]
    BY <1>1, <1>2, <1>3 DEF Report, BackOff
  <2>2. \A t \in Turns : post'[t] = post[t]
    BY <1>2, <1>3 DEF Report, BackOff
  <2>3. QED BY <1>3, <2>1, <2>2 DEF Report, BackOff, Stops
<1>4. ASSUME NEW c \in Callbacks, Try(c)
      PROVE  CallbacksInv'
  <2>1. post' \in [Callbacks -> Stops]
    BY <1>1, <1>2, <1>4 DEF Try, Answered
  <2>2. /\ attempts' \in [Callbacks -> Nat] /\ attempts'[c] = attempts[c] + 1
        /\ \A d \in Callbacks \ {c} : attempts'[d] = attempts[d]
    BY <1>4 DEF Try
  <2>3. post'[c] \notin {"idle", "classifying"} /\ (post'[c] = "waiting" => ~LadderEnds(c))
    BY <1>2, <1>4 DEF Try, Answered
  <2>4. \A d \in Callbacks \ {c} : post'[d] = post[d]
    BY <1>2, <1>4 DEF Try, Answered
  <2>5. c \in Turns /\ post'[c] = "waiting" => attempts'[c] \in DOMAIN AlertLadder
    BY <2>2, <2>3, WaitingHasDelay
  <2>6. UNCHANGED <<left, current, onCall>>
    BY <1>4 DEF Try
  <2>7. QED BY <2>1, <2>2, <2>3, <2>4, <2>5, <2>6 DEF Stops
<1>5. ASSUME NEW t \in Turns, HearTurn(t)
      PROVE  CallbacksInv'
  <2>1. post' \in [Callbacks -> Stops]
    BY <1>1, <1>2, <1>5 DEF HearTurn
  <2>2. QED BY <1>2, <1>5, <2>1 DEF HearTurn, Stops
<1>6. ASSUME NEW t \in Turns, Observe(t)
      PROVE  CallbacksInv'
  <2>1. post' \in [Callbacks -> Stops]
    BY <1>1, <1>2, <1>6 DEF Observe
  <2>2. current' \in Verdicts \union {Silent}
    BY <1>6 DEF Observe, SomeVerdict
  <2>3. left' \in [Turns -> 0 .. AlertBudget] /\ \A u \in Turns \ {t} : left'[u] = left[u]
    BY <1>6 DEF Observe
  <2>4. post'[t] \in {"trying", "quiet"} /\ \A d \in Callbacks \ {t} : post'[d] = post[d]
    BY <1>2, <1>6 DEF Observe
  <2>5. UNCHANGED <<attempts, onCall>>
    BY <1>6 DEF Observe
  <2>6. QED BY <2>1, <2>2, <2>3, <2>4, <2>5 DEF Stops
<1>7. ASSUME NEW t \in Turns, BackOffUntil(t)
      PROVE  CallbacksInv'
  <2>1. post' \in [Callbacks -> Stops]
    BY <1>1, <1>2, <1>7 DEF BackOffUntil
  <2>2. AlertLadder[attempts[t]] \in Nat
    BY <1>7 DEF BackOffUntil
  <2>3. left' \in [Turns -> 0 .. AlertBudget] /\ \A u \in Turns \ {t} : left'[u] = left[u]
    BY SMTT(30), <1>7, <2>2 DEF BackOffUntil
  <2>4. post'[t] \in {"trying", "abandoned"} /\ \A d \in Callbacks \ {t} : post'[d] = post[d]
    BY <1>2, <1>7 DEF BackOffUntil
  <2>5. UNCHANGED <<attempts, current, onCall>>
    BY <1>7 DEF BackOffUntil
  <2>6. QED BY <2>1, <2>3, <2>4, <2>5 DEF Stops
<1>8. CASE CallEnds
  BY <1>8 DEF CallEnds
<1>9. QED
  BY <1>3, <1>4, <1>5, <1>6, <1>7, <1>8 DEF CallbacksStep

-----------------------------------------------------------------------------
(* The three wires.                                                        *)
LEMMA Initially ==
  ASSUME Init PROVE Inv
BY DoorInitially, LiveInitially, CallbacksInitially DEF Init, Inv

\* Every step is one wire's, and the other two stand still.
LEMMA OneWireSteps ==
  ASSUME Next
  PROVE  \/ DoorStep /\ UNCHANGED <<wire, liveVars, callbackVars>>
         \/ LiveStep /\ UNCHANGED <<wire, doorVars, callbackVars>>
         \/ CallbacksStep /\ UNCHANGED <<wire, doorVars, liveVars>>
BY Zenon DEF Next, DoorStep, LiveStep, CallbacksStep, OnDispatch, OnLive, OnCallbacks

LEMMA DoorStands ==
  ASSUME UNCHANGED doorVars, DoorInv PROVE DoorInv'
BY DEF doorVars, DoorInv, DoorTypeOK, Shut

LEMMA LiveStands ==
  ASSUME UNCHANGED liveVars, LiveInv PROVE LiveInv'
<1>1. \A e \in Events : EventOK(e)' /\ FlipOK(e)' /\ AloneOK(e)'
  BY DEF liveVars, LiveInv, EventOK, FlipOK, AloneOK, In, Silenced
<1>2. \A e, f \in Events : e # f => ApartOK(e, f)'
  BY DEF liveVars, LiveInv, ApartOK, MayList, In
<1>3. QED BY <1>1, <1>2 DEF liveVars, LiveInv, LiveTypeOK, ClientOK

LEMMA CallbacksStand ==
  ASSUME UNCHANGED callbackVars, CallbacksInv PROVE CallbacksInv'
BY DEF callbackVars, CallbacksInv, CallbacksTypeOK

LEMMA InvHolds == Spec => []Inv
<1>1. Inv /\ Next => Inv'
  BY OneWireSteps, DoorKeepsInv, LiveKeepsInv, CallbacksKeepInv, DoorStands, LiveStands,
     CallbacksStand DEF Inv
<1>2. Inv /\ UNCHANGED vars => Inv'
  BY DoorStands, LiveStands, CallbacksStand DEF Inv, vars
<1>3. QED BY Initially, <1>1, <1>2, PTL DEF Spec

\* The three wires keep their types: the tables of the door, the stages of the events and the
\* rungs and deadlines of the callbacks.  In particular no alert's deadline is overdrawn.
THEOREM TypeCorrect == Spec => []TypeOK
<1>1. Inv => TypeOK
  BY DEF Inv, DoorInv, LiveInv, CallbacksInv, TypeOK
<1>2. QED BY <1>1, InvHolds, PTL

\* hmac.go: a signed request is let in once, however often the network delivers it and however
\* far apart the two clocks are, as long as a nonce is kept for twice the drift.
THEOREM LetInOnceHolds == Spec => []LetInOnce
<1>1. Inv => LetInOnce
  BY DEF Inv, DoorInv, LetInOnce
<1>2. QED BY <1>1, InvHolds, PTL

\* live.go: at most one terminal event reaches a list, however many goroutines end the call.
THEOREM EndsOnceHolds == Spec => []EndsOnce
<1>1. ASSUME Inv, NEW k \in Keys
      PROVE  Cardinality({n \in DOMAIN list[k] : list[k][n] \in Terminals}) <= 1
  <2> DEFINE Ends == {n \in DOMAIN list[k] : list[k][n] \in Terminals}
  <2>1. ASSUME NEW m \in Ends, NEW n \in Ends
        PROVE  m = n
    <3>1. In(list[k][m], k) /\ In(list[k][n], k)
      BY DEF In
    <3>2. MayList(list[k][m]) /\ MayList(list[k][n])
      BY <3>1 DEF MayList
    <3>3. list[k][m] \in Terminals /\ list[k][n] \in Terminals /\ Terminals \subseteq Events
      BY LiveAssumption
    <3>4. list[k][m] = list[k][n]
      BY <1>1, <3>2, <3>3 DEF Inv, LiveInv, ApartOK
    <3>5. QED BY <1>1, <3>4 DEF Inv, LiveInv, IsInjective
  <2>2. CASE Ends = {}
    BY <2>2, FS_EmptySet
  <2>3. CASE Ends # {}
    <3>1. PICK m \in Ends : TRUE
      BY <2>3
    <3>2. Ends = {m}
      BY <2>1
    <3>3. Cardinality(Ends) = 1
      BY <3>2, FS_Singleton
    <3>4. QED BY <3>3
  <2>4. QED BY <2>2, <2>3
<1>2. Inv => EndsOnce
  BY <1>1 DEF EndsOnce
<1>3. QED BY <1>2, InvHolds, PTL

LEMMA ListedIsIn ==
  ASSUME LiveInv, NEW e \in Events
  PROVE  Listed(e) <=> \E k \in Keys : In(e, k)
BY ListFacts DEF Listed, In, LiveInv, LiveTypeOK

\* live.go: an event that is in no list was dropped after the end or cut off by the network, or
\* the publisher's failure was counted.
THEOREM NoSilentLossHolds == Spec => []NoSilentLoss
<1>1. Inv => NoSilentLoss
  BY ListedIsIn DEF Inv, LiveInv, EventOK, NoSilentLoss
<1>2. QED BY <1>1, InvHolds, PTL

\* live.go: an event that nothing overlapped is listed whatever was guessed about
\* authentication, wherever the right mode is one the agent can choose.
THEOREM GuessCostsNothingHolds == Spec => []GuessCostsNothing
<1>1. Inv => GuessCostsNothing
  BY ListedIsIn DEF Inv, LiveInv, LiveTypeOK, AloneOK, Silenced, GuessCostsNothing
<1>2. QED BY <1>1, InvHolds, PTL

\* live.go: however many events read the latch unset and corrected the guess, once nothing is in
\* flight the publisher's connection is open, and in the mode the server wants.
THEOREM StaysConnectedHolds == Spec => []StaysConnected
<1>1. Inv => StaysConnected
  BY DEF Inv, LiveInv, ClientOK, StaysConnected
<1>2. QED BY <1>1, InvHolds, PTL
=============================================================================
