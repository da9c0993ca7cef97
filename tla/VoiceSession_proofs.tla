------------------------- MODULE VoiceSession_proofs -------------------------
(***************************************************************************)
(* For every set of pools, users and sizes: the types of the pools and of  *)
(* the sessions over them, that a session's engines have no second owner   *)
(* (the refinement of InstanceOwners), and that none is lost while its     *)
(* pool is open.                                                           *)
(***************************************************************************)
EXTENDS VoiceSession, SequenceTheorems, TLAPS

-----------------------------------------------------------------------------
(* What the operations on a channel, or on what a session has in hand, do   *)
(* to the engines in it.                                                    *)
LEMMA SeqFacts ==
  ASSUME NEW S, NEW s \in Seq(S)
  PROVE  /\ Len(s) \in Nat /\ DOMAIN s = 1 .. Len(s)
         /\ Range(s) \subseteq S
         /\ s = <<>> <=> Len(s) = 0
         /\ s = <<>> <=> Range(s) = {}
<1>1. Len(s) \in Nat /\ DOMAIN s = 1 .. Len(s) /\ \A k \in 1 .. Len(s) : s[k] \in S
  OBVIOUS
<1>2. s = <<>> <=> Len(s) = 0
  BY EmptySeq
<1>3. Len(s) > 0 => s[1] \in Range(s)
  BY <1>1 DEF Range
<1>4. Range(s) \subseteq S
  BY <1>1 DEF Range
<1>5. Len(s) = 0 => Range(s) = {}
  <2>1. Len(s) = 0 => DOMAIN s = {}
    BY <1>1
  <2>2. QED BY <2>1 DEF Range
<1>6. Len(s) # 0 => Range(s) # {}
  BY <1>1, <1>3
<1>7. QED BY <1>1, <1>2, <1>4, <1>5, <1>6, Zenon

LEMMA AppendFacts ==
  ASSUME NEW S, NEW s \in Seq(S), NEW x \in S
  PROVE  /\ Append(s, x) \in Seq(S) /\ Len(Append(s, x)) = Len(s) + 1
         /\ Range(Append(s, x)) = Range(s) \union {x}
         /\ IsInjective(s) /\ x \notin Range(s) => IsInjective(Append(s, x))
<1> DEFINE a == Append(s, x)
<1>1. /\ a \in Seq(S) /\ Len(a) = Len(s) + 1 /\ Len(s) \in Nat
      /\ DOMAIN a = 1 .. Len(s) + 1 /\ DOMAIN s = 1 .. Len(s)
      /\ \A k \in 1 .. Len(s) : a[k] = s[k]
      /\ a[Len(s) + 1] = x
  OBVIOUS
<1> HIDE DEF a
<1>2. Range(a) = Range(s) \union {x}
  BY <1>1 DEF Range
<1>3. IsInjective(s) /\ x \notin Range(s) => IsInjective(a)
  BY <1>1 DEF Range, IsInjective
<1>4. QED BY <1>1, <1>2, <1>3 DEF a

LEMMA TailFacts ==
  ASSUME NEW S, NEW s \in Seq(S), s # <<>>, IsInjective(s)
  PROVE  /\ Head(s) \in Range(s)
         /\ Tail(s) \in Seq(S) /\ Len(Tail(s)) = Len(s) - 1
         /\ Range(Tail(s)) = Range(s) \ {Head(s)}
         /\ IsInjective(Tail(s))
<1> DEFINE t == Tail(s)
<1>1. /\ t \in Seq(S) /\ Len(t) = Len(s) - 1 /\ Len(s) \in Nat \ {0}
      /\ DOMAIN t = 1 .. Len(s) - 1 /\ DOMAIN s = 1 .. Len(s)
      /\ \A k \in 1 .. Len(s) - 1 : t[k] = s[k + 1]
      /\ Head(s) = s[1]
  BY HeadTailProperties, EmptySeq, LenProperties
<1> HIDE DEF t
<1>2. \A k \in 2 .. Len(s) : k - 1 \in DOMAIN t /\ t[k - 1] = s[k]
  BY <1>1
<1>3. Range(t) = Range(s) \ {Head(s)}
  <2>1. Range(t) \subseteq Range(s) \ {Head(s)}
    BY <1>1 DEF Range, IsInjective
  <2>2. ASSUME NEW x \in Range(s) \ {Head(s)}
        PROVE  x \in Range(t)
    <3>1. PICK k \in 1 .. Len(s) : x = s[k]
      BY <1>1 DEF Range
    <3>2. k \in 2 .. Len(s)
      BY <1>1, <3>1
    <3>3. QED BY <1>2, <3>1, <3>2 DEF Range
  <2>3. QED BY <2>1, <2>2
<1>4. IsInjective(t)
  <2> SUFFICES ASSUME NEW j \in 1 .. Len(s) - 1, NEW k \in 1 .. Len(s) - 1, t[j] = t[k]
               PROVE  j = k
    BY <1>1 DEF IsInjective
  <2>1. s[j + 1] = s[k + 1] /\ j + 1 \in DOMAIN s /\ k + 1 \in DOMAIN s
    BY <1>1
  <2>2. j + 1 = k + 1
    BY <2>1 DEF IsInjective
  <2>3. QED BY <2>2
<1>5. Head(s) \in Range(s)
  BY <1>1 DEF Range
<1>6. QED BY <1>1, <1>3, <1>4, <1>5 DEF t

LEMMA FrontFacts ==
  ASSUME NEW S, NEW s \in Seq(S), NEW n \in Nat, n = Len(s), n > 0, IsInjective(s)
  PROVE  /\ s[n] \in Range(s)
         /\ SubSeq(s, 1, n - 1) \in Seq(S)
         /\ Range(SubSeq(s, 1, n - 1)) = Range(s) \ {s[n]}
         /\ IsInjective(SubSeq(s, 1, n - 1))
<1> DEFINE t == SubSeq(s, 1, n - 1)
<1>1. /\ t \in Seq(S) /\ Len(t) = n - 1
      /\ DOMAIN t = 1 .. n - 1 /\ DOMAIN s = 1 .. n
      /\ \A k \in 1 .. n - 1 : t[k] = s[k]
  OBVIOUS
<1> HIDE DEF t
<1>2. Range(t) = Range(s) \ {s[n]}
  <2>1. Range(t) \subseteq Range(s) \ {s[n]}
    BY <1>1 DEF Range, IsInjective
  <2>2. ASSUME NEW x \in Range(s) \ {s[n]}
        PROVE  x \in Range(t)
    <3>1. PICK k \in 1 .. n : x = s[k]
      BY <1>1 DEF Range
    <3>2. k \in 1 .. n - 1
      BY <3>1
    <3>3. QED BY <1>1, <3>1, <3>2 DEF Range
  <2>3. QED BY <2>1, <2>2
<1>3. IsInjective(t)
  BY <1>1 DEF IsInjective
<1>4. s[n] \in Range(s)
  BY <1>1 DEF Range
<1>5. QED BY <1>1, <1>2, <1>3, <1>4 DEF t

-----------------------------------------------------------------------------
LEMMA PoolInitTypes == PoolInit => PoolTypeOK
<1> SUFFICES ASSUME PoolInit PROVE PoolTypeOK
  OBVIOUS
<1>1. PoolSize \in Nat \ {0} /\ MaxCreated \in Nat /\ PoolSize <= MaxCreated
  BY PoolAssumption
<1>2. \A p \in Pools : /\ queue[p] \in Seq(Instances)
                       /\ Len(queue[p]) <= PoolSize
  <2> SUFFICES ASSUME NEW p \in Pools
               PROVE  queue[p] \in Seq(Instances) /\ Len(queue[p]) <= PoolSize
    OBVIOUS
  <2>1. created[p] \in 1 .. PoolSize /\ queue[p] = [k \in 1 .. created[p] |-> <<p, k>>]
    BY DEF PoolInit
  <2>2. \A k \in 1 .. created[p] : <<p, k>> \in Instances
    BY <1>1, <2>1 DEF Instances
  <2>3. queue[p] \in [1 .. created[p] -> Instances] /\ created[p] \in Nat
    BY <1>1, <2>1, <2>2
  <2>4. queue[p] \in Seq(Instances) /\ Len(queue[p]) = created[p]
    BY <2>3
  <2>5. QED BY <1>1, <2>1, <2>4
<1>3. queue \in [Pools -> Seq(Instances)]
  BY <1>2 DEF PoolInit
<1>4. shut \in [Pools -> {ShutStages[k] : k \in 1 .. 4}]
  BY DEF PoolInit, ShutStages
<1>5. /\ inUse \in [Instances -> BOOLEAN] /\ panicked \in BOOLEAN
  BY Zenon DEF PoolInit
<1>6. /\ created \in [Pools -> 0 .. MaxCreated] /\ active \in [Pools -> Int]
      /\ released \subseteq Instances
      /\ offering \in [Users -> Instances \union {None}]
      /\ hand \in [Users -> Seq(Instances)]
  BY <1>1, EmptySeq DEF PoolInit
<1>7. QED BY <1>2, <1>3, <1>4, <1>5, <1>6 DEF PoolTypeOK

(* What is in a channel, and in a user's keeping, in terms of its elements. *)
InHand(u) == Range(hand[u])

LEMMA QueuedIs ==
  ASSUME PoolTypeOK
  PROVE  \A i \in Instances : Queued(i) <=> i \in Range(queue[i[1]])
BY DEF Queued, Range

LEMMA HoldsIs ==
  \A u \in Users, i \in Instances : Holds(u, i) <=> offering[u] = i \/ i \in InHand(u)
BY DEF Holds, InHand, Range

(* No engine is in two places: the inductive invariant behind ownership. A  *)
(* channel and a hand hold an engine once, what is being sent is no longer  *)
(* in hand, and an engine in a hand is flagged in use, so that its Put goes *)
(* through to the channel.                                                  *)
ChannelOK(p) == IsInjective(queue[p]) /\ \A i \in Range(queue[p]) : i[1] = p

HandOK(u) ==
  /\ IsInjective(hand[u]) /\ offering[u] \notin InHand(u)
  /\ \A i \in InHand(u) : inUse[i] = TRUE

OnePlaceFor(i) ==
  /\ \A u \in Users : Holds(u, i) => ~Queued(i) /\ \A v \in Users : Holds(v, i) => u = v
  /\ Queued(i) \/ (\E u \in Users : Holds(u, i)) => i \in Made

OnePlace ==
  /\ \A p \in Pools : ChannelOK(p)
  /\ \A u \in Users : HandOK(u)
  /\ \A i \in Instances : OnePlaceFor(i)

(* The places of every engine but i are as they were. *)
OnlyMoves(i) ==
  \A j \in Instances \ {i} : /\ Queued(j)' <=> Queued(j)
                             /\ \A u \in Users : Holds(u, j)' <=> Holds(u, j)

LEMMA OnePlaceInit == PoolInit => OnePlace
<1> SUFFICES ASSUME PoolInit PROVE OnePlace
  OBVIOUS
<1>0. PoolTypeOK
  BY PoolInitTypes
<1>1. ASSUME NEW p \in Pools
      PROVE  ChannelOK(p) /\ \A i \in Range(queue[p]) : i \in Made
  <2>1. created[p] \in 1 .. PoolSize /\ queue[p] = [k \in 1 .. created[p] |-> <<p, k>>]
    BY DEF PoolInit
  <2>2. \A i \in Range(queue[p]) : i[1] = p /\ i[2] <= created[p]
    BY <2>1, PoolAssumption DEF Range
  <2>3. Range(queue[p]) \subseteq Instances
    BY <1>0, SeqFacts DEF PoolTypeOK
  <2>4. QED BY <2>1, <2>2, <2>3 DEF ChannelOK, IsInjective, Made
<1>2. ASSUME NEW u \in Users
      PROVE  HandOK(u) /\ \A i \in Instances : ~Holds(u, i)
  <2>1. hand[u] = <<>> /\ offering[u] = None /\ InHand(u) = {}
    BY DEF PoolInit, InHand, Range
  <2>2. QED BY <2>1, HoldsIs, PoolAssumption DEF HandOK, IsInjective
<1>3. ASSUME NEW i \in Instances
      PROVE  OnePlaceFor(i)
  <2>1. Queued(i) => i[1] \in Pools /\ i \in Range(queue[i[1]])
    BY <1>0, QueuedIs DEF Instances
  <2>2. QED BY <1>1, <1>2, <2>1 DEF OnePlaceFor
<1>4. QED BY <1>1, <1>2, <1>3 DEF OnePlace

(* A step that moves one engine keeps the rest of the invariant. *)
LEMMA OnePlaceKept ==
  ASSUME OnePlace, NEW i, OnlyMoves(i), Made \subseteq Made',
         i \in Instances => OnePlaceFor(i)',
         \A p \in Pools : ChannelOK(p)', \A u \in Users : HandOK(u)'
  PROVE  OnePlace'
<1>1. ASSUME NEW j \in Instances, j # i
      PROVE  OnePlaceFor(j)'
  BY <1>1 DEF OnlyMoves, OnePlace, OnePlaceFor
<1>2. QED BY <1>1 DEF OnePlace

LEMMA HandKept ==
  ASSUME OnePlace, NEW u \in Users,
         UNCHANGED <<hand[u], offering[u]>>, \A j \in InHand(u) : inUse'[j] = inUse[j]
  PROVE  HandOK(u)'
BY DEF OnePlace, HandOK, InHand

(* Where an engine is, next, in terms of the sequences. *)
LEMMA PlacesNext ==
  /\ \A i \in Instances : Queued(i)' <=> i \in Range(queue'[i[1]])
  /\ \A u \in Users, i \in Instances : Holds(u, i)' <=> offering'[u] = i \/ i \in InHand(u)'
  /\ \A i \in Instances : i[1] \in Pools
  /\ PoolTypeOK => \A u \in Users : InHand(u) \subseteq Instances
<1>1. \A i \in Instances : Queued(i)' <=> i \in Range(queue'[i[1]])
  BY DEF Queued, Range
<1>2. \A u \in Users, i \in Instances : Holds(u, i)' <=> offering'[u] = i \/ i \in InHand(u)'
  BY DEF Holds, InHand, Range
<1>3. \A i \in Instances : i[1] \in Pools
  BY DEF Instances
<1>4. PoolTypeOK => \A u \in Users : InHand(u) \subseteq Instances
  BY SeqFacts DEF PoolTypeOK, InHand
<1>5. QED BY <1>1, <1>2, <1>3, <1>4

-----------------------------------------------------------------------------
(* Get gives an engine that nobody holds to a user. *)
LEMMA ObtainsTakes ==
  ASSUME PoolTypeOK, OnePlace, NEW u \in Users, NEW i \in Instances, Obtains(u, i),
         \A v \in Users : ~Holds(v, i), UNCHANGED offering
  PROVE  /\ hand' \in [Users -> Seq(Instances)]
         /\ inUse' \in [Instances -> BOOLEAN]
         /\ active' \in [Pools -> Int]
         /\ \A v \in Users : HandOK(v)'
         /\ \A v \in Users, j \in Instances : Holds(v, j)' <=> Holds(v, j) \/ (v = u /\ j = i)
<1>1. /\ hand' = [hand EXCEPT ![u] = Append(hand[u], i)]
      /\ inUse' = [inUse EXCEPT ![i] = TRUE]
      /\ active' = [active EXCEPT ![i[1]] = @ + 1]
  BY DEF Obtains
<1>2. hand[u] \in Seq(Instances) /\ IsInjective(hand[u]) /\ i \notin InHand(u)
  BY HoldsIs DEF PoolTypeOK, OnePlace, HandOK
<1>3. /\ Append(hand[u], i) \in Seq(Instances)
      /\ Range(Append(hand[u], i)) = InHand(u) \union {i}
      /\ IsInjective(Append(hand[u], i))
  BY <1>2, AppendFacts DEF InHand
<1>4. /\ hand' \in [Users -> Seq(Instances)]
      /\ inUse' \in [Instances -> BOOLEAN]
      /\ active' \in [Pools -> Int]
  BY <1>1, <1>3, PlacesNext DEF PoolTypeOK
<1>5. \A v \in Users : InHand(v)' = IF v = u THEN InHand(u) \union {i} ELSE InHand(v)
  BY <1>1, <1>3 DEF PoolTypeOK, InHand
<1>6. \A v \in Users : \A j \in InHand(v) : j # i /\ j \in Instances /\ inUse'[j] = inUse[j]
  BY <1>1, HoldsIs, PlacesNext DEF PoolTypeOK
<1>7. ASSUME NEW v \in Users
      PROVE  HandOK(v)'
  <2>1. CASE v = u
    <3>1. IsInjective(hand'[u]) /\ offering'[u] \notin InHand(u)'
      BY <1>1, <1>3, <1>5, HoldsIs DEF OnePlace, HandOK, PoolTypeOK
    <3>2. inUse'[i] = TRUE /\ \A j \in InHand(u) : inUse'[j] = TRUE
      BY <1>1, <1>6 DEF OnePlace, HandOK, PoolTypeOK
    <3>3. QED BY <1>5, <2>1, <3>1, <3>2 DEF HandOK
  <2>2. CASE v # u
    BY <1>1, <1>6, <2>2, HandKept DEF PoolTypeOK
  <2>3. QED BY <2>1, <2>2
<1>8. \A v \in Users, j \in Instances : Holds(v, j)' <=> Holds(v, j) \/ (v = u /\ j = i)
  BY <1>5, HoldsIs, PlacesNext
<1>9. QED BY <1>4, <1>7, <1>8

(* The head of a channel passes from the pool to the user. *)
LEMMA ReceiveTakes ==
  ASSUME PoolTypeOK, OnePlace, NEW u \in Users, NEW p \in Pools, Receive(u, p),
         NEW i, i = Head(queue[p]), ~inUse[i]
  PROVE  /\ PoolTypeOK' /\ OnePlace' /\ OnlyMoves(i)
         /\ i \in Instances /\ Queued(i) /\ ~Queued(i)' /\ Holds(u, i)'
         /\ UNCHANGED <<created, shut, released>>
<1>1. /\ Obtains(u, i) /\ queue[p] # <<>>
      /\ queue' = [queue EXCEPT ![p] = Tail(queue[p])]
      /\ UNCHANGED <<shut, created, released, offering, panicked>>
  BY DEF Receive
<1>2. queue[p] \in Seq(Instances) /\ IsInjective(queue[p])
  BY DEF PoolTypeOK, OnePlace, ChannelOK
<1>3. /\ i \in Range(queue[p])
      /\ Tail(queue[p]) \in Seq(Instances) /\ Len(Tail(queue[p])) = Len(queue[p]) - 1
      /\ Range(Tail(queue[p])) = Range(queue[p]) \ {i}
      /\ IsInjective(Tail(queue[p])) /\ Len(queue[p]) \in Nat
  BY <1>1, <1>2, TailFacts, SeqFacts
<1>4. i \in Instances /\ i[1] = p /\ Queued(i) /\ i \in Made
  BY <1>2, <1>3, SeqFacts, QueuedIs DEF OnePlace, OnePlaceFor, ChannelOK
<1>5. \A v \in Users : ~Holds(v, i)
  BY <1>4 DEF OnePlace, OnePlaceFor
<1>6. /\ hand' \in [Users -> Seq(Instances)] /\ inUse' \in [Instances -> BOOLEAN]
      /\ active' \in [Pools -> Int] /\ \A v \in Users : HandOK(v)'
      /\ \A v \in Users, j \in Instances : Holds(v, j)' <=> Holds(v, j) \/ (v = u /\ j = i)
  BY <1>1, <1>4, <1>5, ObtainsTakes
<1>7. PoolTypeOK'
  <2>1. queue' \in [Pools -> Seq(Instances)] /\ \A q \in Pools : Len(queue'[q]) <= PoolSize
    BY <1>1, <1>3, PoolAssumption DEF PoolTypeOK
  <2>2. QED BY <1>1, <1>6, <2>1 DEF PoolTypeOK
<1>8. \A q \in Pools :
        Range(queue'[q]) = IF q = p THEN Range(queue[p]) \ {i} ELSE Range(queue[q])
  BY <1>1, <1>3 DEF PoolTypeOK
<1>9. \A j \in Instances : Queued(j)' <=> Queued(j) /\ j # i
  BY <1>4, <1>8, QueuedIs, PlacesNext
<1>10. OnlyMoves(i) /\ OnePlaceFor(i)'
  BY <1>1, <1>4, <1>5, <1>6, <1>9 DEF OnlyMoves, OnePlaceFor, Made
<1>11. \A q \in Pools : ChannelOK(q)'
  BY <1>1, <1>3, <1>8 DEF OnePlace, ChannelOK, PoolTypeOK
<1>12. OnePlace'
  BY <1>1, <1>6, <1>10, <1>11, OnePlaceKept DEF Made
<1>13. QED BY <1>1, <1>4, <1>6, <1>7, <1>9, <1>10, <1>12

(* An engine that is still flagged goes round in its channel. *)
LEMMA ReceiveTurns ==
  ASSUME PoolTypeOK, OnePlace, NEW u \in Users, NEW p \in Pools, Receive(u, p),
         NEW i, i = Head(queue[p]), inUse[i]
  PROVE  /\ PoolTypeOK' /\ OnePlace'
         /\ OnlyMoves(None)
         /\ UNCHANGED <<created, shut, released>>
<1>1. /\ queue[p] # <<>>
      /\ queue' = [queue EXCEPT ![p] = Append(Tail(queue[p]), i)]
      /\ UNCHANGED <<hand, inUse, active, shut, created, released, offering, panicked>>
  BY DEF Receive
<1>2. queue[p] \in Seq(Instances) /\ IsInjective(queue[p])
  BY DEF PoolTypeOK, OnePlace, ChannelOK
<1>3. /\ i \in Range(queue[p]) /\ i \in Instances
      /\ Tail(queue[p]) \in Seq(Instances) /\ Len(Tail(queue[p])) = Len(queue[p]) - 1
      /\ Range(Tail(queue[p])) = Range(queue[p]) \ {i}
      /\ IsInjective(Tail(queue[p])) /\ Len(queue[p]) \in Nat
  BY <1>1, <1>2, TailFacts, SeqFacts
<1> DEFINE r == Tail(queue[p])
           t == Append(r, i)
<1>4. /\ t \in Seq(Instances) /\ Len(t) = Len(queue[p])
      /\ Range(t) = Range(queue[p]) /\ IsInjective(t)
  <2>1. /\ r \in Seq(Instances) /\ Len(r) = Len(queue[p]) - 1 /\ IsInjective(r)
        /\ Range(r) = Range(queue[p]) \ {i}
    BY <1>3
  <2> HIDE DEF r
  <2>2. /\ t \in Seq(Instances) /\ Len(t) = Len(r) + 1
        /\ Range(t) = Range(r) \union {i} /\ IsInjective(t)
    BY <1>3, <2>1, AppendFacts
  <2> HIDE DEF t
  <2>3. QED BY <1>3, <2>1, <2>2
<1>5. queue' = [queue EXCEPT ![p] = t]
  BY <1>1
<1> HIDE DEF t
<1>6. PoolTypeOK'
  BY <1>1, <1>4, <1>5 DEF PoolTypeOK
<1>7. \A q \in Pools : Range(queue'[q]) = Range(queue[q])
  BY <1>4, <1>5 DEF PoolTypeOK
<1>8. /\ \A j \in Instances : Queued(j)' <=> Queued(j)
      /\ \A v \in Users, j \in Instances : Holds(v, j)' <=> Holds(v, j)
  <2>1. \A v \in Users : InHand(v)' = InHand(v)
    BY <1>1 DEF InHand
  <2>2. QED BY <1>1, <1>7, <2>1, QueuedIs, HoldsIs, PlacesNext
<1>9. \A q \in Pools : ChannelOK(q)'
  BY <1>4, <1>5, <1>7 DEF OnePlace, ChannelOK, PoolTypeOK
<1>10. \A v \in Users : HandOK(v)'
  BY <1>1, HandKept
<1>11. OnePlace'
  BY <1>1, <1>8, <1>9, <1>10, OnePlaceKept, PoolAssumption DEF OnlyMoves, Made
<1>12. QED BY <1>1, <1>6, <1>8, <1>11 DEF OnlyMoves

(* An engine made beyond the pool is its user's from the start. *)
LEMMA OverflowMakes ==
  ASSUME PoolTypeOK, OnePlace, NEW u \in Users, NEW p \in Pools, Overflow(u, p),
         NEW i, i = <<p, created[p] + 1>>
  PROVE  /\ PoolTypeOK' /\ OnePlace' /\ OnlyMoves(i)
         /\ i \in Instances \ Made /\ Made' = Made \union {i}
         /\ Holds(u, i)' /\ ~Queued(i)'
         /\ UNCHANGED <<shut, released>>
<1>1. /\ created[p] < MaxCreated /\ created' = [created EXCEPT ![p] = created[p] + 1]
      /\ Obtains(u, i)
      /\ UNCHANGED <<queue, shut, released, offering, panicked>>
  BY DEF Overflow
<1>2. i \in Instances \ Made /\ Made' = Made \union {i}
  <2>1. created[p] \in Nat /\ MaxCreated \in Nat /\ \A q \in Pools : created[q] \in Nat
    BY PoolAssumption DEF PoolTypeOK
  <2>2. i \in Instances \ Made
    BY <1>1, <2>1 DEF Instances, Made
  <2>3. \A j \in Instances : j[2] <= created'[j[1]] <=> j[2] <= created[j[1]] \/ j = i
    <3> SUFFICES ASSUME NEW j \in Instances
                 PROVE  j[2] <= created'[j[1]] <=> j[2] <= created[j[1]] \/ j = i
      OBVIOUS
    <3>1. j[1] \in Pools /\ j[2] \in Nat /\ j = <<j[1], j[2]>>
      BY PoolAssumption DEF Instances
    <3>2. CASE j[1] # p
      BY <1>1, <3>1, <3>2 DEF PoolTypeOK
    <3>3. CASE j[1] = p
      BY <1>1, <2>1, <3>1, <3>3 DEF PoolTypeOK
    <3>4. QED BY <3>2, <3>3
  <2>4. QED BY <2>2, <2>3 DEF Made
<1>3. ~Queued(i) /\ \A v \in Users : ~Holds(v, i)
  BY <1>2 DEF OnePlace, OnePlaceFor
<1>4. /\ hand' \in [Users -> Seq(Instances)] /\ inUse' \in [Instances -> BOOLEAN]
      /\ active' \in [Pools -> Int] /\ \A v \in Users : HandOK(v)'
      /\ \A v \in Users, j \in Instances : Holds(v, j)' <=> Holds(v, j) \/ (v = u /\ j = i)
  BY <1>1, <1>2, <1>3, ObtainsTakes
<1>5. PoolTypeOK'
  <2>1. created' \in [Pools -> 0 .. MaxCreated]
    BY <1>1, PoolAssumption DEF PoolTypeOK
  <2>2. QED BY <1>1, <1>4, <2>1 DEF PoolTypeOK
<1>6. \A j \in Instances : Queued(j)' <=> Queued(j)
  BY <1>1 DEF Queued
<1>7. OnlyMoves(i) /\ OnePlaceFor(i)'
  BY <1>2, <1>3, <1>4, <1>6 DEF OnlyMoves, OnePlaceFor
<1>8. \A q \in Pools : ChannelOK(q)'
  BY <1>1 DEF OnePlace, ChannelOK
<1>9. OnePlace'
  BY <1>2, <1>4, <1>7, <1>8, OnePlaceKept
<1>10. QED BY <1>1, <1>2, <1>3, <1>4, <1>5, <1>6, <1>7, <1>9

(* A deferred Put takes the engine out of the session's hand: on the way to *)
(* its channel while the pool is open, out of reach after.                  *)
LEMMA GiveBackTakes ==
  ASSUME PoolTypeOK, OnePlace, NEW u \in Users, GiveBack(u),
         NEW i, i = hand[u][Len(hand[u])]
  PROVE  /\ PoolTypeOK' /\ OnePlace' /\ OnlyMoves(i)
         /\ i \in Instances /\ Holds(u, i) /\ ~Queued(i)'
         /\ \A v \in Users : Holds(v, i)' => v = u
         /\ shut[i[1]] \in {"open", "cancelled"} => Holds(u, i)'
         /\ UNCHANGED <<created, shut, released>>
<1> DEFINE n == Len(hand[u])
           front == SubSeq(hand[u], 1, n - 1)
<1>1. /\ n > 0 /\ PutBegins(u, i) /\ offering[u] = None
      /\ hand' = [hand EXCEPT ![u] = front]
      /\ UNCHANGED <<queue, shut, created, active, released, panicked>>
  BY DEF GiveBack, PutBegins
<1>2. hand[u] \in Seq(Instances) /\ IsInjective(hand[u]) /\ n \in Nat
  BY DEF PoolTypeOK, OnePlace, HandOK
<1>3. /\ i \in InHand(u) /\ front \in Seq(Instances)
      /\ Range(front) = InHand(u) \ {i} /\ IsInjective(front)
  BY <1>1, <1>2, FrontFacts DEF InHand
<1> HIDE DEF n, front
<1>4. i \in Instances /\ Holds(u, i) /\ i # None /\ inUse[i] = TRUE
  BY <1>3, HoldsIs, PlacesNext, PoolAssumption DEF OnePlace, HandOK
<1>5. ~Queued(i) /\ (\A v \in Users : Holds(v, i) => v = u) /\ i \in Made
  BY <1>4 DEF OnePlace, OnePlaceFor
<1>6. \/ /\ shut[i[1]] \in {"stopped", "closed"} /\ UNCHANGED <<inUse, offering>>
      \/ /\ shut[i[1]] \notin {"stopped", "closed"}
         /\ inUse' = [inUse EXCEPT ![i] = FALSE]
         /\ offering' = [offering EXCEPT ![u] = i]
  BY <1>1, <1>4 DEF PutBegins
<1>7. PoolTypeOK'
  <2>1. /\ inUse' \in [Instances -> BOOLEAN]
        /\ offering' \in [Users -> Instances \union {None}]
    BY <1>4, <1>6 DEF PoolTypeOK
  <2>2. hand' \in [Users -> Seq(Instances)]
    BY <1>1, <1>3 DEF PoolTypeOK
  <2>3. QED BY <1>1, <2>1, <2>2 DEF PoolTypeOK
<1>8. \A v \in Users : InHand(v)' = IF v = u THEN InHand(u) \ {i} ELSE InHand(v)
  BY <1>1, <1>3 DEF PoolTypeOK, InHand
<1>9. \A v \in Users : \A j \in InHand(v) :
        j \in Instances /\ (j # i \/ v = u) /\ (j # i => inUse'[j] = inUse[j])
  BY <1>5, <1>6, HoldsIs, PlacesNext DEF PoolTypeOK
<1>10. ASSUME NEW v \in Users
       PROVE  HandOK(v)'
  <2>1. CASE v = u
    <3>1. IsInjective(hand'[u])
      BY <1>1, <1>3 DEF PoolTypeOK
    <3>2. offering'[u] \notin InHand(u)'
      BY <1>6, <1>8 DEF OnePlace, HandOK, PoolTypeOK
    <3>3. \A j \in InHand(u)' : inUse'[j] = TRUE
      BY <1>8, <1>9 DEF OnePlace, HandOK
    <3>4. QED BY <2>1, <3>1, <3>2, <3>3 DEF HandOK
  <2>2. CASE v # u
    <3>1. hand'[v] = hand[v] /\ offering'[v] = offering[v]
      BY <1>1, <1>6, <2>2 DEF PoolTypeOK
    <3>2. QED BY <1>9, <2>2, <3>1, HandKept
  <2>3. QED BY <2>1, <2>2
<1>11. \A j \in Instances : Queued(j)' <=> Queued(j)
  BY <1>1 DEF Queued
<1>12. /\ \A v \in Users, j \in Instances : j # i => (Holds(v, j)' <=> Holds(v, j))
       /\ \A v \in Users : Holds(v, i)' => v = u
       /\ shut[i[1]] \notin {"stopped", "closed"} => Holds(u, i)'
  <2>1. \A v \in Users : offering'[v] = IF v = u /\ shut[i[1]] \notin {"stopped", "closed"}
                                         THEN i ELSE offering[v]
    BY <1>6 DEF PoolTypeOK
  <2>2. \A v \in Users, j \in Instances : Holds(v, j)' <=> offering'[v] = j \/ j \in InHand(v)'
    BY PlacesNext
  <2>3. \A v \in Users, j \in Instances : Holds(v, j) <=> offering[v] = j \/ j \in InHand(v)
    BY HoldsIs
  <2>4. offering[u] = None /\ None \notin Instances
    BY <1>1, PoolAssumption
  <2>5. QED BY <1>4, <1>5, <1>8, <2>1, <2>2, <2>3, <2>4
<1>13. OnlyMoves(i) /\ OnePlaceFor(i)'
  BY <1>1, <1>5, <1>11, <1>12 DEF OnlyMoves, OnePlaceFor, Made
<1>14. \A q \in Pools : ChannelOK(q)'
  BY <1>1 DEF OnePlace, ChannelOK
<1>15. OnePlace'
  BY <1>1, <1>10, <1>13, <1>14, OnePlaceKept DEF Made
<1>16. QED BY <1>1, <1>4, <1>5, <1>7, <1>11, <1>12, <1>13, <1>15

(* The send ends the Put: the engine waits in its channel, or is released,  *)
(* or nobody has it any more because the channel was closed.                *)
LEMMA OfferPlaces ==
  ASSUME PoolTypeOK, OnePlace, NEW u \in Users, Offer(u), NEW i, i = offering[u]
  PROVE  /\ PoolTypeOK' /\ OnePlace' /\ OnlyMoves(i)
         /\ i \in Instances /\ Holds(u, i) /\ ~Queued(i)
         /\ \A v \in Users : ~Holds(v, i)'
         /\ \/ Queued(i)' /\ released' = released
            \/ ~Queued(i)' /\ released' = released \union {i}
            \/ ~Queued(i)' /\ released' = released /\ shut[i[1]] = "closed"
         /\ UNCHANGED <<created, shut>>
<1> DEFINE p == i[1]
<1>1. /\ i # None
      /\ offering' = [offering EXCEPT ![u] = None]
      /\ UNCHANGED <<shut, inUse, created, hand>>
      /\ \/ /\ Len(queue[p]) < PoolSize
            /\ queue' = [queue EXCEPT ![p] = Append(queue[p], i)]
            /\ active' = [active EXCEPT ![p] = @ - 1]
            /\ UNCHANGED <<released, panicked>>
         \/ /\ released' = released \union {i}
            /\ UNCHANGED <<queue, active, panicked>>
         \/ /\ shut[p] = "closed" /\ panicked' = TRUE
            /\ UNCHANGED <<queue, active, released>>
  BY DEF Offer
<1>2. i \in Instances /\ p \in Pools /\ Holds(u, i) /\ i \notin InHand(u)
  BY <1>1, HoldsIs, PlacesNext DEF PoolTypeOK, OnePlace, HandOK
<1>3. ~Queued(i) /\ (\A v \in Users : Holds(v, i) => v = u) /\ i \in Made
  BY <1>2 DEF OnePlace, OnePlaceFor
<1>4. i \notin Range(queue[p]) /\ queue[p] \in Seq(Instances) /\ IsInjective(queue[p])
      /\ Len(queue[p]) \in Nat
  BY <1>2, <1>3, QueuedIs, SeqFacts DEF PoolTypeOK, OnePlace, ChannelOK
<1> DEFINE t == Append(queue[p], i)
<1>5. /\ t \in Seq(Instances) /\ Len(t) = Len(queue[p]) + 1
      /\ Range(t) = Range(queue[p]) \union {i} /\ IsInjective(t)
  BY <1>2, <1>4, AppendFacts
<1> HIDE DEF t
<1>6. \/ /\ Len(queue[p]) < PoolSize /\ queue' = [queue EXCEPT ![p] = t]
         /\ active' = [active EXCEPT ![p] = @ - 1]
         /\ UNCHANGED <<released, panicked>>
      \/ /\ released' = released \union {i}
         /\ UNCHANGED <<queue, active, panicked>>
      \/ /\ shut[p] = "closed" /\ panicked' = TRUE
         /\ UNCHANGED <<queue, active, released>>
  BY <1>1 DEF t
<1> HIDE DEF p
<1>7. PoolTypeOK'
  <2>1. /\ queue' \in [Pools -> Seq(Instances)] /\ active' \in [Pools -> Int]
        /\ \A q \in Pools : Len(queue'[q]) <= PoolSize
    <3>1. active' \in [Pools -> Int]
      BY <1>2, <1>6 DEF PoolTypeOK
    <3>2. Len(queue[p]) < PoolSize => Len(t) <= PoolSize
      BY <1>4, <1>5, PoolAssumption
    <3>3. queue' \in [Pools -> Seq(Instances)] /\ \A q \in Pools : Len(queue'[q]) <= PoolSize
      BY <1>5, <1>6, <3>2 DEF PoolTypeOK
    <3>4. QED BY <3>1, <3>3
  <2>2. released' \subseteq Instances /\ panicked' \in BOOLEAN
    BY <1>2, <1>6 DEF PoolTypeOK
  <2>3. offering' \in [Users -> Instances \union {None}]
    BY <1>1 DEF PoolTypeOK
  <2>4. QED BY <1>1, <2>1, <2>2, <2>3 DEF PoolTypeOK
<1>8. /\ \A j \in Instances : j # i => (Queued(j)' <=> Queued(j))
      /\ \/ Queued(i)' /\ released' = released
         \/ ~Queued(i)' /\ released' = released \union {i}
         \/ ~Queued(i)' /\ released' = released /\ shut[p] = "closed"
  <2>1. CASE queue' = [queue EXCEPT ![p] = t] /\ released' = released
    <3>1. \A q \in Pools : Range(queue'[q]) = IF q = p THEN Range(queue[p]) \union {i}
                                              ELSE Range(queue[q])
      BY <1>5, <2>1 DEF PoolTypeOK
    <3>2. \A j \in Instances : Queued(j)' <=> Queued(j) \/ j = i
      BY <1>2, <3>1, QueuedIs, PlacesNext DEF p
    <3>3. QED BY <1>2, <2>1, <3>2
  <2>2. CASE queue' = queue
    <3>1. \A j \in Instances : Queued(j)' <=> Queued(j)
      BY <2>2 DEF Queued
    <3>2. QED BY <1>2, <1>3, <1>6, <2>2, <3>1, <2>1
  <2>3. QED BY <1>6, <2>1, <2>2
<1>9. \A v \in Users : InHand(v)' = InHand(v)
  BY <1>1 DEF InHand
<1>10. /\ \A v \in Users, j \in Instances : j # i => (Holds(v, j)' <=> Holds(v, j))
       /\ \A v \in Users : ~Holds(v, i)'
  <2>1. \A v \in Users : offering'[v] = IF v = u THEN None ELSE offering[v]
    BY <1>1 DEF PoolTypeOK
  <2>2. None \notin Instances
    BY PoolAssumption
  <2>3. QED BY <1>2, <1>3, <1>9, <2>1, <2>2, HoldsIs, PlacesNext
<1>11. OnlyMoves(i) /\ OnePlaceFor(i)'
  BY <1>1, <1>3, <1>8, <1>10 DEF OnlyMoves, OnePlaceFor, Made
<1>12. ASSUME NEW v \in Users
       PROVE  HandOK(v)'
  <2>1. offering'[v] \notin InHand(v)
    <3>1. offering'[v] \in {offering[v], None} /\ InHand(v) \subseteq Instances
      BY <1>1, PlacesNext DEF PoolTypeOK
    <3>2. QED BY <3>1, PoolAssumption DEF OnePlace, HandOK
  <2>2. QED BY <1>1, <1>9, <2>1 DEF OnePlace, HandOK
<1>13. ASSUME NEW q \in Pools
       PROVE  ChannelOK(q)'
  <2>1. CASE queue' = [queue EXCEPT ![p] = t]
    BY <1>4, <1>5, <2>1 DEF OnePlace, ChannelOK, PoolTypeOK, p
  <2>2. CASE queue' = queue
    BY <2>2 DEF OnePlace, ChannelOK
  <2>3. QED BY <1>6, <2>1, <2>2
<1>14. OnePlace'
  BY <1>1, <1>11, <1>12, <1>13, OnePlaceKept DEF Made
<1>15. QED BY <1>1, <1>2, <1>3, <1>7, <1>8, <1>10, <1>11, <1>14 DEF p

(* Close releases what the closed channel still held. *)
LEMMA DrainTakes ==
  ASSUME PoolTypeOK, OnePlace, NEW p \in Pools, Drain(p), NEW i, i = Head(queue[p])
  PROVE  /\ PoolTypeOK' /\ OnePlace' /\ OnlyMoves(i)
         /\ i \in Instances /\ Queued(i) /\ ~Queued(i)'
         /\ \A v \in Users : ~Holds(v, i) /\ ~Holds(v, i)'
         /\ released' = released \union {i} /\ shut[i[1]] = "closed"
         /\ UNCHANGED <<created, shut>>
<1>1. /\ queue[p] # <<>> /\ shut[p] = "closed"
      /\ queue' = [queue EXCEPT ![p] = Tail(queue[p])]
      /\ released' = released \union {i}
      /\ UNCHANGED <<shut, inUse, created, active, offering, hand, panicked>>
  BY DEF Drain
<1>2. queue[p] \in Seq(Instances) /\ IsInjective(queue[p])
  BY DEF PoolTypeOK, OnePlace, ChannelOK
<1>3. /\ i \in Range(queue[p])
      /\ Tail(queue[p]) \in Seq(Instances) /\ Len(Tail(queue[p])) = Len(queue[p]) - 1
      /\ Range(Tail(queue[p])) = Range(queue[p]) \ {i}
      /\ IsInjective(Tail(queue[p])) /\ Len(queue[p]) \in Nat
  BY <1>1, <1>2, TailFacts, SeqFacts
<1>4. i \in Instances /\ i[1] = p /\ Queued(i) /\ i \in Made
  BY <1>2, <1>3, SeqFacts, QueuedIs DEF OnePlace, OnePlaceFor, ChannelOK
<1>5. \A v \in Users : ~Holds(v, i)
  BY <1>4 DEF OnePlace, OnePlaceFor
<1>6. PoolTypeOK'
  <2>1. queue' \in [Pools -> Seq(Instances)] /\ \A q \in Pools : Len(queue'[q]) <= PoolSize
    BY <1>1, <1>3, PoolAssumption DEF PoolTypeOK
  <2>2. QED BY <1>1, <1>4, <2>1 DEF PoolTypeOK
<1>7. \A q \in Pools :
        Range(queue'[q]) = IF q = p THEN Range(queue[p]) \ {i} ELSE Range(queue[q])
  BY <1>1, <1>3 DEF PoolTypeOK
<1>8. /\ \A j \in Instances : Queued(j)' <=> Queued(j) /\ j # i
      /\ \A v \in Users, j \in Instances : Holds(v, j)' <=> Holds(v, j)
  <2>1. \A j \in Instances : Queued(j)' <=> Queued(j) /\ j # i
    BY <1>4, <1>7, QueuedIs, PlacesNext
  <2>2. \A v \in Users, j \in Instances : Holds(v, j)' <=> Holds(v, j)
    BY <1>1 DEF Holds
  <2>3. QED BY <2>1, <2>2
<1>9. OnlyMoves(i) /\ OnePlaceFor(i)'
  BY <1>4, <1>5, <1>8 DEF OnlyMoves, OnePlaceFor
<1>10. \A q \in Pools : ChannelOK(q)'
  BY <1>1, <1>3, <1>7 DEF OnePlace, ChannelOK, PoolTypeOK
<1>11. \A v \in Users : HandOK(v)'
  BY <1>1, HandKept
<1>12. OnePlace'
  BY <1>1, <1>9, <1>10, <1>11, OnePlaceKept DEF Made
<1>13. QED BY <1>1, <1>4, <1>5, <1>6, <1>8, <1>9, <1>12

(* The rest of a session leaves every engine where it is. *)
LEMMA NothingMoves ==
  ASSUME PoolTypeOK, OnePlace, UNCHANGED <<queue, created, offering, hand, inUse>>
  PROVE  OnePlace' /\ OnlyMoves(None)
<1>1. /\ \A j \in Instances : Queued(j)' <=> Queued(j)
      /\ \A v \in Users, j \in Instances : Holds(v, j)' <=> Holds(v, j)
      /\ Made' = Made
  BY DEF Queued, Holds, Made
<1>2. (\A p \in Pools : ChannelOK(p)') /\ \A u \in Users : HandOK(u)'
  BY HandKept DEF OnePlace, ChannelOK
<1>3. QED BY <1>1, <1>2, OnePlaceKept, PoolAssumption DEF OnlyMoves

-----------------------------------------------------------------------------
(* What a step of a session, of its goroutines, or of the server's shutdown *)
(* does to the engines: it makes one, moves one, or moves none.             *)
MakesOne ==
  \E i \in Instances, u \in Users :
    /\ i \notin Made /\ Made' = Made \union {i}
    /\ OnlyMoves(i) /\ Holds(u, i)' /\ ~Queued(i)'
    /\ UNCHANGED <<shut, released>>

TakesOne ==
  \E i \in Instances, u \in Users :
    /\ Made' = Made /\ OnlyMoves(i)
    /\ Queued(i) /\ ~Queued(i)' /\ Holds(u, i)'
    /\ UNCHANGED <<shut, released>>

ReturnsOne ==
  \E i \in Instances, u \in Users :
    /\ Made' = Made /\ OnlyMoves(i)
    /\ Holds(u, i) /\ ~Queued(i)'
    /\ shut[i[1]] \in {"open", "cancelled"} => Holds(u, i)'
    /\ UNCHANGED <<shut, released>>

PlacesOne ==
  \E i \in Instances, u \in Users :
    /\ Made' = Made /\ OnlyMoves(i)
    /\ Holds(u, i) /\ \A v \in Users : ~Holds(v, i)'
    /\ \/ Queued(i)' /\ released' = released
       \/ ~Queued(i)' /\ released' = released \union {i}
       \/ ~Queued(i)' /\ released' = released /\ shut[i[1]] = "closed"
    /\ UNCHANGED shut

DrainsOne ==
  \E i \in Instances :
    /\ Made' = Made /\ OnlyMoves(i)
    /\ Queued(i) /\ ~Queued(i)' /\ \A v \in Users : ~Holds(v, i)'
    /\ released' = released \union {i} /\ shut[i[1]] = "closed"
    /\ UNCHANGED shut

MovesNone ==
  /\ Made' = Made /\ OnlyMoves(None)
  /\ \/ UNCHANGED <<shut, released>>
     \/ UNCHANGED released /\ \E p \in Pools : CloseStep(p)
     \/ UNCHANGED shut /\ \E cancelling \in SUBSET Users : ReleasedByCancel(cancelling)

EngineStep ==
  MakesOne \/ TakesOne \/ ReturnsOne \/ PlacesOne \/ DrainsOne \/ MovesNone

LEMMA SessionMoves ==
  ASSUME PoolTypeOK, OnePlace, [Next]_vars
  PROVE  PoolTypeOK' /\ OnePlace' /\ EngineStep
<1>1. ASSUME NEW u \in Users, TakeInstance(u)
      PROVE  PoolTypeOK' /\ OnePlace' /\ EngineStep
  <2>1. PICK p \in Pools : Receive(u, p)
    BY <1>1 DEF TakeInstance
  <2> DEFINE i == Head(queue[p])
  <2>2. CASE ~inUse[i]
    <3>1. PICK j : j = i
      OBVIOUS
    <3>2. /\ PoolTypeOK' /\ OnePlace' /\ OnlyMoves(j)
          /\ j \in Instances /\ Queued(j) /\ ~Queued(j)' /\ Holds(u, j)'
          /\ UNCHANGED <<created, shut, released>>
      BY <2>1, <2>2, <3>1, ReceiveTakes
    <3>3. QED BY <3>2 DEF EngineStep, TakesOne, Made
  <2>3. CASE inUse[i]
    <3>1. PICK j : j = i
      OBVIOUS
    <3>2. /\ PoolTypeOK' /\ OnePlace' /\ OnlyMoves(None)
          /\ UNCHANGED <<created, shut, released>>
      BY <2>1, <2>3, <3>1, ReceiveTurns
    <3>3. QED BY <3>2 DEF EngineStep, MovesNone, Made
  <2>4. QED BY <2>2, <2>3
<1>2. ASSUME NEW u \in Users, TakeOverflow(u)
      PROVE  PoolTypeOK' /\ OnePlace' /\ EngineStep
  <2>1. PICK p \in Pools : Overflow(u, p)
    BY <1>2 DEF TakeOverflow
  <2>2. PICK i : i = <<p, created[p] + 1>>
    OBVIOUS
  <2>3. QED BY <2>1, <2>2, OverflowMakes DEF EngineStep, MakesOne
<1>3. ASSUME NEW u \in Users, GiveBack(u)
      PROVE  PoolTypeOK' /\ OnePlace' /\ EngineStep
  <2>1. PICK i : i = hand[u][Len(hand[u])]
    OBVIOUS
  <2>2. QED BY <1>3, <2>1, GiveBackTakes DEF EngineStep, ReturnsOne, Made
<1>4. ASSUME NEW u \in Users, PutEnds(u)
      PROVE  PoolTypeOK' /\ OnePlace' /\ EngineStep
  <2>1. PICK i : i = offering[u]
    OBVIOUS
  <2>2. QED BY <1>4, <2>1, OfferPlaces DEF PutEnds, EngineStep, PlacesOne, Made
<1>5. ASSUME NEW p \in Pools, ClosePool(p)
      PROVE  PoolTypeOK' /\ OnePlace' /\ EngineStep
  <2>1. CASE Drain(p)
    <3>1. PICK i : i = Head(queue[p])
      OBVIOUS
    <3>2. QED BY <2>1, <3>1, DrainTakes DEF EngineStep, DrainsOne, Made
  <2>2. CASE CloseStep(p)
    <3>1. UNCHANGED <<queue, created, offering, hand, inUse, active, released, panicked>>
      BY <2>2 DEF CloseStep
    <3>2. shut' \in [Pools -> {ShutStages[k] : k \in 1 .. 4}]
      BY <2>2 DEF CloseStep, PoolTypeOK, ShutStages
    <3>3. PoolTypeOK'
      BY <3>1, <3>2 DEF PoolTypeOK
    <3>4. QED BY <2>2, <3>1, <3>3, NothingMoves DEF EngineStep, MovesNone, Made
  <2>3. QED BY <1>5, <2>1, <2>2 DEF ClosePool
<1>6. ASSUME NEW cancelling \in SUBSET Users, ReleasedByCancel(cancelling),
             UNCHANGED <<queue, shut, inUse, created, active, offering, hand, panicked>>
      PROVE  PoolTypeOK' /\ OnePlace' /\ EngineStep
  <2>1. PoolTypeOK'
    BY <1>6 DEF PoolTypeOK, ReleasedByCancel
  <2>2. QED BY <1>6, <2>1, NothingMoves DEF EngineStep, MovesNone, Made
<1>7. ASSUME UNCHANGED poolVars
      PROVE  PoolTypeOK' /\ OnePlace' /\ EngineStep
  BY <1>7, NothingMoves DEF poolVars, PoolTypeOK, EngineStep, MovesNone, Made
<1>8. ASSUME NEW u \in Users, CancelOnHangup(u)
      PROVE  PoolTypeOK' /\ OnePlace' /\ EngineStep
  BY <1>6, <1>8 DEF CancelOnHangup
<1>9. CASE CancelAll
  BY <1>6, <1>9 DEF CancelAll
<1>10. ASSUME NEW u \in Users,
              \/ Arrive(u) \/ HangUp(u) \/ AcquireFails(u) \/ Tune(u) \/ BuildFails(u)
              \/ Run(u) \/ RunReturns(u) \/ Leave(u) \/ DemoEnds(u) \/ Signal
       PROVE  UNCHANGED poolVars
  BY <1>10 DEF Arrive, HangUp, AcquireFails, GetFails, Tune, BuildFails, Run, RunReturns,
               Leave, DemoEnds, Signal
<1>11. CASE Signal
  BY <1>7, <1>11 DEF Signal
<1>12. QED
  BY <1>1, <1>2, <1>3, <1>4, <1>5, <1>7, <1>8, <1>9, <1>10, <1>11, Zenon DEF Next, vars

LEMMA SessionTypesStep ==
  ASSUME TypeOK, PoolTypeOK', [Next]_vars
  PROVE  TypeOK'
<1>1. stage' \in [Users -> Stages] /\ main' \in MainStages
  BY DEF TypeOK, Stages, MainStages, Next, vars, sessionVars, Arrive, HangUp, TakeInstance,
         TakeOverflow, AcquireFails, Tune, BuildFails, Run, CancelOnHangup, RunReturns,
         GiveBack, PutEnds, Leave, DemoEnds, Signal, CancelAll, ClosePool
<1>2. hung' \in [Users -> BOOLEAN] /\ cancelled' \in [Users -> BOOLEAN]
  <2>1. ASSUME NEW u \in Users
        PROVE  /\ [hung EXCEPT ![u] = TRUE] \in [Users -> BOOLEAN]
               /\ [hung EXCEPT ![u] = FALSE] \in [Users -> BOOLEAN]
               /\ [cancelled EXCEPT ![u] = TRUE] \in [Users -> BOOLEAN]
               /\ [cancelled EXCEPT ![u] = FALSE] \in [Users -> BOOLEAN]
    BY DEF TypeOK
  <2>2. [u \in Users |-> cancelled[u] \/ stage[u] = "running"] \in [Users -> BOOLEAN]
    OBVIOUS
  <2>3. hung \in [Users -> BOOLEAN] /\ cancelled \in [Users -> BOOLEAN]
    BY DEF TypeOK
  <2>4. \/ UNCHANGED <<hung, cancelled>>
        \/ \E u \in Users : \/ hung' = [hung EXCEPT ![u] = TRUE] /\ UNCHANGED cancelled
                            \/ cancelled' = [cancelled EXCEPT ![u] = TRUE] /\ UNCHANGED hung
                            \/ /\ hung' = [hung EXCEPT ![u] = FALSE]
                               /\ cancelled' = [cancelled EXCEPT ![u] = FALSE]
        \/ /\ cancelled' = [u \in Users |-> cancelled[u] \/ stage[u] = "running"]
           /\ UNCHANGED hung
    BY Zenon DEF Next, vars, sessionVars, Arrive, HangUp, TakeInstance,
           TakeOverflow, AcquireFails, Tune, BuildFails, Run, CancelOnHangup, RunReturns,
           GiveBack, PutEnds, Leave, DemoEnds, Signal, CancelAll, ClosePool
  <2>5. QED BY <2>1, <2>2, <2>3, <2>4, Zenon
<1>3. demo' \in [Users -> Instances \union {None}]
  <2>1. ASSUME NEW u \in Users, Tune(u)
        PROVE  demo' \in [Users -> Instances \union {None}]
    <3>1. hand[u] \in Seq(Instances) /\ Len(hand[u]) = Len(Order) /\ Len(Order) \in Nat \ {0}
      BY <2>1, SessionAssumption, SeqFacts DEF Tune, TypeOK, PoolTypeOK
    <3>2. Engine(u) \in Instances
      BY <3>1, ElementOfSeq DEF Engine
    <3>3. QED BY <2>1, <3>2 DEF Tune, TypeOK
  <2>2. ASSUME NEW u \in Users, DemoEnds(u)
        PROVE  demo' \in [Users -> Instances \union {None}]
    BY <2>2 DEF DemoEnds, TypeOK
  <2>3. \/ UNCHANGED demo
        \/ \E u \in Users : Tune(u) \/ DemoEnds(u)
    BY DEF Next, vars, sessionVars, Arrive, HangUp, TakeInstance,
           TakeOverflow, AcquireFails, BuildFails, Run, CancelOnHangup, RunReturns,
           GiveBack, PutEnds, Leave, Signal, CancelAll, ClosePool
  <2>4. QED BY <2>1, <2>2, <2>3 DEF TypeOK
<1>4. QED BY <1>1, <1>2, <1>3 DEF TypeOK

(* The pools and the sessions over them keep their types: no channel ever   *)
(* holds more than its capacity (pool.go Put, server.go runVoiceSession).   *)
THEOREM TypeCorrect == Spec => []TypeOK
<1>1. Init => TypeOK /\ OnePlace
  <2> SUFFICES ASSUME Init PROVE TypeOK /\ OnePlace
    OBVIOUS
  <2>1. PoolTypeOK /\ OnePlace
    BY PoolInitTypes, OnePlaceInit DEF Init
  <2>2. hung \in [Users -> BOOLEAN] /\ cancelled \in [Users -> BOOLEAN]
    BY Zenon DEF Init
  <2>3. /\ stage \in [Users -> Stages] /\ demo \in [Users -> Instances \union {None}]
        /\ main \in MainStages
    BY DEF Init, Stages, MainStages
  <2>4. QED BY <2>1, <2>2, <2>3 DEF TypeOK
<1>2. TypeOK /\ OnePlace /\ [Next]_vars => (TypeOK /\ OnePlace)'
  BY SessionMoves, SessionTypesStep DEF TypeOK
<1>3. QED BY <1>1, <1>2, PTL DEF Spec

LEMMA OnePlaceHolds == Spec => []OnePlace
<1>1. Init => OnePlace
  BY OnePlaceInit DEF Init
<1>2. TypeOK /\ OnePlace /\ [Next]_vars => OnePlace'
  BY SessionMoves DEF TypeOK
<1>3. QED BY <1>1, <1>2, TypeCorrect, PTL DEF Spec

-----------------------------------------------------------------------------
(* In one place means one owner. *)
LEMMA OwnerIs ==
  ASSUME NEW i \in Instances
  PROVE  /\ OnePlaceFor(i) =>
              /\ \A u \in Users : Holds(u, i) => OwnersOf(i) = {u}
              /\ Queued(i) => OwnersOf(i) = {None}
         /\ OnePlaceFor(i)' =>
              /\ \A u \in Users : Holds(u, i)' => OwnersOf(i)' = {u}
              /\ Queued(i)' => OwnersOf(i)' = {None}
              /\ ~Queued(i)' /\ (\A u \in Users : ~Holds(u, i)') => OwnersOf(i)' = {}
<1>1. ASSUME OnePlaceFor(i)
      PROVE  /\ \A u \in Users : Holds(u, i) => OwnersOf(i) = {u}
             /\ Queued(i) => OwnersOf(i) = {None}
  BY <1>1 DEF OnePlaceFor, OwnersOf
<1>2. ASSUME OnePlaceFor(i)'
      PROVE  /\ \A u \in Users : Holds(u, i)' => OwnersOf(i)' = {u}
             /\ Queued(i)' => OwnersOf(i)' = {None}
             /\ ~Queued(i)' /\ (\A u \in Users : ~Holds(u, i)') => OwnersOf(i)' = {}
  BY <1>2 DEF OnePlaceFor, OwnersOf
<1>3. QED BY <1>1, <1>2

LEMMA OthersOwned ==
  ASSUME NEW i, OnlyMoves(i)
  PROVE  \A j \in Instances \ {i} : OwnersOf(j)' = OwnersOf(j)
BY DEF OnlyMoves, OwnersOf

LEMMA PassesOn ==
  ASSUME OnePlace, OnePlace', NEW i \in Instances, OnlyMoves(i), Made' = Made,
         Queued(i) \/ \E u \in Users : Holds(u, i)
  PROVE  Ownership!OwnersNext
<1>1. OnePlaceFor(i) /\ OnePlaceFor(i)'
  BY DEF OnePlace
<1>2. PICK from \in Users \union {None} : OwnersOf(i) = {from}
  BY <1>1, OwnerIs
<1>3. PICK to \in {{o} : o \in Users \union {None}} \union {{}} : OwnersOf(i)' = to
  BY <1>1, OwnerIs
<1>4. [j \in Instances |-> OwnersOf(j)]' = [[j \in Instances |-> OwnersOf(j)] EXCEPT ![i] = to]
  BY <1>3, OthersOwned
<1>5. Ownership!Pass(i)
  BY <1>2, <1>4 DEF Ownership!Pass, Ownership!Owners
<1>6. QED BY <1>5 DEF Ownership!OwnersNext

LEMMA OwnersStep ==
  ASSUME OnePlace, OnePlace', EngineStep
  PROVE  Ownership!OwnersNext \/ UNCHANGED <<Made, [i \in Instances |-> OwnersOf(i)]>>
<1>1. CASE MakesOne
  <2>1. PICK i \in Instances, u \in Users :
          /\ i \notin Made /\ Made' = Made \union {i}
          /\ OnlyMoves(i) /\ Holds(u, i)'
    BY <1>1 DEF MakesOne
  <2>2. OwnersOf(i)' = {u}
    BY <2>1, OwnerIs DEF OnePlace
  <2>3. [j \in Instances |-> OwnersOf(j)]' = [[j \in Instances |-> OwnersOf(j)] EXCEPT ![i] = {u}]
    BY <2>1, <2>2, OthersOwned
  <2>4. Ownership!Make(i)
    BY <2>1, <2>3 DEF Ownership!Make
  <2>5. QED BY <2>4 DEF Ownership!OwnersNext
<1>2. CASE TakesOne \/ ReturnsOne \/ PlacesOne \/ DrainsOne
  <2>1. PICK i \in Instances : /\ Made' = Made /\ OnlyMoves(i)
                               /\ Queued(i) \/ \E u \in Users : Holds(u, i)
    BY <1>2, Zenon DEF TakesOne, ReturnsOne, PlacesOne, DrainsOne
  <2>2. QED BY <2>1, PassesOn
<1>3. CASE MovesNone
  BY <1>3, OthersOwned, PoolAssumption DEF MovesNone
<1>4. QED BY <1>1, <1>2, <1>3 DEF EngineStep

(* The pools, with sessions as their users, implement InstanceOwners: an    *)
(* engine has one owner, the pool or one session, and one that was scrapped *)
(* is nobody's for good (pool.go's flag and channel; the deferred Puts of   *)
(* server.go).                                                              *)
THEOREM KeepsOwnersHolds == Spec => KeepsOwners
<1>1. Init => Ownership!OwnersInit
  <2> SUFFICES ASSUME Init PROVE Ownership!OwnersInit
    OBVIOUS
  <2>1. OnePlace /\ PoolInit
    BY OnePlaceInit DEF Init
  <2>2. ASSUME NEW i \in Instances
        PROVE  OwnersOf(i) = IF i \in Made THEN {None} ELSE {}
    <3>1. CASE i \in Made
      <4>1. i[1] \in Pools /\ i[2] \in 1 .. created[i[1]] /\ i = <<i[1], i[2]>>
        BY <3>1, PoolAssumption DEF Made, Instances
      <4>2. queue[i[1]] = [k \in 1 .. created[i[1]] |-> <<i[1], k>>]
        BY <2>1, <4>1 DEF PoolInit
      <4>3. Queued(i)
        BY <4>1, <4>2 DEF Queued
      <4>4. QED BY <2>1, <3>1, <4>3, OwnerIs DEF OnePlace
    <3>2. CASE i \notin Made
      BY <2>1, <3>2 DEF OnePlace, OnePlaceFor, OwnersOf
    <3>3. QED BY <3>1, <3>2
  <2>3. QED BY <2>2 DEF Ownership!OwnersInit, Made
<1>2. TypeOK /\ OnePlace /\ [Next]_vars
      => [Ownership!OwnersNext]_(<<Made, [i \in Instances |-> OwnersOf(i)]>>)
  BY SessionMoves, OwnersStep DEF TypeOK
<1>3. QED
  BY <1>1, <1>2, TypeCorrect, OnePlaceHolds, PTL
     DEF Spec, KeepsOwners, Ownership!OwnersSpec, Ownership!ownersVars

-----------------------------------------------------------------------------
(* An engine is within reach: in its channel, or with a user. *)
Within(i) == Queued(i) \/ \E u \in Users : Holds(u, i)

LEMMA ShutStep ==
  ASSUME PoolTypeOK, NEW p \in Pools, CloseStep(p), NEW q \in Pools,
         shut'[q] \in {"open", "cancelled"}
  PROVE  shut[q] \in {"open", "cancelled"}
BY DEF CloseStep, PoolTypeOK, ShutStages

(* While a pool is open no engine of it is lost, whatever the providers do  *)
(* on a Cancel frame.                                                       *)
NoneLost ==
  \A i \in Made : shut[i[1]] \in {"open", "cancelled"} => Within(i) \/ i \in released

LEMMA NoneLostStep ==
  ASSUME PoolTypeOK, OnePlace, NoneLost, EngineStep
  PROVE  NoneLost'
<1> SUFFICES ASSUME NEW j \in Made', shut'[j[1]] \in {"open", "cancelled"}
             PROVE  Within(j)' \/ j \in released'
  BY DEF NoneLost
<1>1. j \in Instances /\ j[1] \in Pools
  BY DEF Made, Instances
<1>2. shut[j[1]] \in {"open", "cancelled"} /\ released \subseteq released'
  BY <1>1, ShutStep DEF EngineStep, MakesOne, TakesOne, ReturnsOne, PlacesOne, DrainsOne,
                        MovesNone, ReleasedByCancel
<1>3. CASE MakesOne
  BY <1>1, <1>2, <1>3 DEF MakesOne, OnlyMoves, NoneLost, Within
<1>4. CASE TakesOne
  BY <1>1, <1>2, <1>4 DEF TakesOne, OnlyMoves, NoneLost, Within
<1>5. CASE ReturnsOne
  BY <1>1, <1>2, <1>5 DEF ReturnsOne, OnlyMoves, NoneLost, Within
<1>6. CASE PlacesOne
  BY <1>1, <1>2, <1>6 DEF PlacesOne, OnlyMoves, NoneLost, Within
<1>7. CASE DrainsOne
  BY <1>1, <1>2, <1>7 DEF DrainsOne, OnlyMoves, NoneLost, Within
<1>8. CASE MovesNone
  BY <1>1, <1>2, <1>8, PoolAssumption DEF MovesNone, OnlyMoves, NoneLost, Within
<1>9. QED BY <1>3, <1>4, <1>5, <1>6, <1>7, <1>8 DEF EngineStep

ReleasedAreGone == \A i \in released : i \in Made /\ ~Within(i)

LEMMA ReleasedAreGoneStep ==
  ASSUME ScrapOnCancel = {}, PoolTypeOK, OnePlace, ReleasedAreGone, EngineStep
  PROVE  ReleasedAreGone'
<1> SUFFICES ASSUME NEW j \in released' PROVE j \in Made' /\ ~Within(j)'
  BY DEF ReleasedAreGone
<1>0. released \subseteq Instances
  BY DEF PoolTypeOK
<1>1. CASE MakesOne
  BY <1>0, <1>1 DEF MakesOne, OnlyMoves, ReleasedAreGone, Within
<1>2. CASE TakesOne
  BY <1>0, <1>2 DEF TakesOne, OnlyMoves, ReleasedAreGone, Within
<1>3. CASE ReturnsOne
  BY <1>0, <1>3 DEF ReturnsOne, OnlyMoves, ReleasedAreGone, Within
<1>4. CASE PlacesOne
  BY <1>0, <1>4 DEF PlacesOne, OnlyMoves, ReleasedAreGone, Within, OnePlace, OnePlaceFor
<1>5. CASE DrainsOne
  BY <1>0, <1>5 DEF DrainsOne, OnlyMoves, ReleasedAreGone, Within, OnePlace, OnePlaceFor
<1>6. CASE MovesNone
  <2>1. released' = released
    BY <1>6 DEF MovesNone, ReleasedByCancel
  <2>2. QED BY <1>0, <1>6, <2>1, PoolAssumption DEF MovesNone, OnlyMoves, ReleasedAreGone, Within
<1>7. QED BY <1>1, <1>2, <1>3, <1>4, <1>5, <1>6 DEF EngineStep

LEMMA NoneLostHolds == Spec => []NoneLost
<1>1. Init => NoneLost
  <2> SUFFICES ASSUME Init, NEW i \in Made PROVE Within(i)
    BY DEF NoneLost
  <2>1. PoolInit
    BY DEF Init
  <2>2. i[1] \in Pools /\ i[2] \in 1 .. created[i[1]] /\ i = <<i[1], i[2]>>
    BY PoolAssumption DEF Made, Instances
  <2>3. queue[i[1]] = [k \in 1 .. created[i[1]] |-> <<i[1], k>>]
    BY <2>1, <2>2 DEF PoolInit
  <2>4. QED BY <2>2, <2>3 DEF Within, Queued
<1>2. TypeOK /\ OnePlace /\ NoneLost /\ [Next]_vars => NoneLost'
  BY SessionMoves, NoneLostStep DEF TypeOK
<1>3. QED BY <1>1, <1>2, TypeCorrect, OnePlaceHolds, PTL DEF Spec

(* Engines are accounted for, when they are clients of a service, which a   *)
(* Cancel frame does not destroy: none is lost while its pool is open, and  *)
(* what was released is out of reach (pool.go Put and Close).               *)
THEOREM EnginesAccountedForHolds ==
  ASSUME ScrapOnCancel = {}
  PROVE  Spec => []EnginesAccountedFor
<1>1. Init => ReleasedAreGone
  BY DEF Init, PoolInit, ReleasedAreGone
<1>2. TypeOK /\ OnePlace /\ ReleasedAreGone /\ [Next]_vars => ReleasedAreGone'
  BY SessionMoves, ReleasedAreGoneStep DEF TypeOK
<1>3. NoneLost /\ ReleasedAreGone => EnginesAccountedFor
  BY DEF NoneLost, ReleasedAreGone, EnginesAccountedFor, Within
<1>4. QED BY <1>1, <1>2, <1>3, TypeCorrect, OnePlaceHolds, NoneLostHolds, PTL DEF Spec

(* An engine that is a client of a service always comes out of its pool in  *)
(* working order: what breaks PooledEnginesWork is a provider in this       *)
(* process, and nothing else (ASRProcessor.Cancel, TTSProcessor.Cancel).    *)
THEOREM ServiceEnginesWork ==
  ASSUME ScrapOnCancel = {}
  PROVE  Spec => []PooledEnginesWork
<1>1. Init => ReleasedAreGone
  BY DEF Init, PoolInit, ReleasedAreGone
<1>2. TypeOK /\ OnePlace /\ ReleasedAreGone /\ [Next]_vars => ReleasedAreGone'
  BY SessionMoves, ReleasedAreGoneStep DEF TypeOK
<1>3. ReleasedAreGone => PooledEnginesWork
  BY DEF ReleasedAreGone, PooledEnginesWork, Within
<1>4. QED BY <1>1, <1>2, <1>3, TypeCorrect, OnePlaceHolds, PTL DEF Spec
=============================================================================
