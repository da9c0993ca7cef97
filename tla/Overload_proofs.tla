--------------------------- MODULE Overload_proofs ---------------------------
(***************************************************************************)
(* For every number of tiers, calls, requests, slots, connections and      *)
(* addresses: the types of the gates' windows, of the queue for the model  *)
(* and of the limiter, the slots of the first and the two limits of the    *)
(* last.                                                                   *)
(***************************************************************************)
EXTENDS Overload, FiniteSetTheorems, TLAPS

-----------------------------------------------------------------------------
(* The limiter.  The counter counts; a bucket belongs to one address, and  *)
(* one that was not swept from under a request stands for it.              *)
Present == {r \in Connections : conn[r].at # "away"}
Inside == {r \in Connections : conn[r].at \in {"counted", "making", "asking", "served"}}

LimiterTypes ==
  /\ limiters \in [Addresses -> Buckets \union {NoBucket}]
  /\ tokens \in [Buckets -> 0 .. Burst]
  /\ conn \in [Connections -> [at : {"away", "counted", "making", "asking", "served", "refused"},
                               bucket : Buckets \union {NoBucket}]]
  /\ due \in [Addresses -> Int] /\ overtaken \subseteq Addresses

CountOK == connCount = Cardinality(Present) /\ Cardinality(Inside) <= MaxConns

\* A request has a bucket while it asks, and nobody else's.
HeldOK(r) ==
  /\ conn[r].bucket # NoBucket <=> conn[r].at = "asking"
  /\ \A a \in Addresses :
       conn[r].bucket # NoBucket /\ conn[r].bucket = limiters[a] => a = AddressOf[r]

OneOwner ==
  \A a, b \in Addresses : limiters[a] # NoBucket /\ limiters[a] = limiters[b] => a = b

\* What the bucket of an address holds is no more than is due, and its requests go by no other.
DueOK(a) ==
  /\ due[a] <= Burst
  /\ a \notin overtaken =>
       /\ due[a] >= 0
       /\ limiters[a] = NoBucket => due[a] = Burst
       /\ limiters[a] # NoBucket => tokens[limiters[a]] <= due[a]
       /\ \A r \in Connections :
            AddressOf[r] = a /\ conn[r].at = "asking" => conn[r].bucket = limiters[a]

LimiterInv ==
  /\ LimiterTypes /\ CountOK /\ OneOwner
  /\ \A r \in Connections : HeldOK(r)
  /\ \A a \in Addresses : DueOK(a)

\* The gate in front of the model: a request that sleeps has a poll left to give up.
IdleGateInv ==
  /\ IdleGateTypeOK /\ IsFiniteSet(Holding)
  /\ \A q \in Prompts : stand[q] = "asleep" => patience[q] > 0

Inv == part \in Parts /\ LoopTypeOK /\ IdleGateInv /\ LimiterInv

-----------------------------------------------------------------------------
(* The limiter's steps.                                                    *)
LEMMA ImageFacts ==
  ASSUME NEW S, IsFiniteSet(S), NEW f, DOMAIN f = S
  PROVE  /\ IsFiniteSet({f[x] : x \in S})
         /\ Cardinality({f[x] : x \in S}) <= Cardinality(S)
         /\ Cardinality({f[x] : x \in S}) \in Nat
<1> DEFINE T == {f[x] : x \in S}
           g == [x \in S |-> f[x]]
<1>1. g \in Surjection(S, T)
  BY DEF Surjection
<1>2. IsFiniteSet(T) /\ Cardinality(T) <= Cardinality(S)
  BY <1>1, FS_Surjection
<1>3. QED BY <1>2, FS_CardinalityType

LEMMA AddressesFinite == IsFiniteSet(Addresses) /\ Cardinality(Addresses) \in Nat
<1> DEFINE f == [r \in Connections |-> AddressOf[r]]
<1>1. IsFiniteSet({f[r] : r \in Connections}) /\ Cardinality({f[r] : r \in Connections}) \in Nat
  BY ImageFacts, LimiterAssumption
<1>2. {f[r] : r \in Connections} = Addresses
  BY DEF Addresses
<1>3. QED BY <1>1, <1>2

\* There are enough buckets: one is free for a request that has none.
LEMMA FreshIsFree ==
  ASSUME LimiterTypes, NEW r \in Connections, conn[r].bucket = NoBucket
  PROVE  /\ Fresh \in Buckets
         /\ \A a \in Addresses : limiters[a] # Fresh
         /\ \A q \in Connections : conn[q].bucket # Fresh
<1> DEFINE Others == Connections \ {r}
           f == [q \in Others |-> conn[q].bucket]
           Held == {f[q] : q \in Others}
           Mapped == {limiters[a] : a \in Addresses}
<1>1. /\ IsFiniteSet(Connections) /\ Cardinality(Connections) \in Nat
      /\ IsFiniteSet(Others) /\ Cardinality(Others) = Cardinality(Connections) - 1
  BY LimiterAssumption, FS_CardinalityType, FS_RemoveElement
<1>2. /\ IsFiniteSet(Held) /\ Cardinality(Held) <= Cardinality(Others) /\ Cardinality(Held) \in Nat
  <2> HIDE DEF Others
  <2>1. DOMAIN f = Others
    OBVIOUS
  <2> HIDE DEF f
  <2>2. QED BY <1>1, <2>1, ImageFacts
<1>3. /\ IsFiniteSet(Mapped) /\ Cardinality(Mapped) <= Cardinality(Addresses)
      /\ Cardinality(Mapped) \in Nat
  <2>1. DOMAIN limiters = Addresses
    BY DEF LimiterTypes
  <2>2. QED BY <2>1, AddressesFinite, ImageFacts
<1> HIDE DEF Others, Held, Mapped
<1>4. /\ IsFiniteSet(Held \union Mapped)
      /\ Cardinality(Held \union Mapped) < Cardinality(Addresses) + Cardinality(Connections)
  <2>1. IsFiniteSet(Held \intersect Mapped)
    BY <1>2, FS_Subset
  <2>2. Cardinality(Held \intersect Mapped) \in Nat
    BY <2>1, FS_CardinalityType
  <2>3. /\ IsFiniteSet(Held \union Mapped)
        /\ Cardinality(Held \union Mapped) =
             Cardinality(Held) + Cardinality(Mapped) - Cardinality(Held \intersect Mapped)
    BY <1>2, <1>3, FS_Union
  <2>4. QED BY <1>1, <1>2, <1>3, <2>2, <2>3, AddressesFinite
<1>5. Cardinality(Buckets) = Cardinality(Addresses) + Cardinality(Connections)
  BY <1>1, AddressesFinite, FS_Interval DEF Buckets
<1>6. PICK b \in Buckets : b \notin Held \union Mapped
  <2>1. ASSUME Buckets \subseteq Held \union Mapped
        PROVE  FALSE
    <3>1. Cardinality(Buckets) <= Cardinality(Held \union Mapped)
      BY <1>4, <2>1, FS_Subset
    <3>2. Cardinality(Held \union Mapped) \in Nat
      BY <1>4, FS_CardinalityType
    <3>3. QED BY <1>1, <1>4, <1>5, <3>1, <3>2, AddressesFinite
  <2>2. QED BY <2>1
<1>7. \A q \in Connections : conn[q].bucket # b
  <2>1. conn[r].bucket # b
    BY DEF Buckets, NoBucket
  <2>2. \A q \in Others : conn[q].bucket # b
    BY <1>6 DEF Held
  <2>3. QED BY <2>1, <2>2 DEF Others
<1>8. \A a \in Addresses : limiters[a] # b
  BY <1>6 DEF Mapped
<1>9. QED BY <1>7, <1>8 DEF Fresh

LimiterStep ==
  \/ \E r \in Connections :
       Connect(r) \/ FindBucket(r) \/ MakeBucket(r) \/ Allowed(r) \/ TooFast(r) \/ Disconnect(r)
  \/ Refill \/ Sweep

LEMMA LimiterInitially ==
  ASSUME LimiterInit PROVE LimiterInv
<1>1. /\ limiters = [a \in Addresses |-> NoBucket] /\ tokens = [b \in Buckets |-> Burst]
      /\ conn = [r \in Connections |-> Away] /\ due = [a \in Addresses |-> Burst]
      /\ connCount = 0 /\ overtaken = {}
  BY DEF LimiterInit
<1>2. LimiterTypes
  BY <1>1, LimiterAssumption DEF LimiterTypes, Away
<1>3. Present = {} /\ Inside = {}
  BY <1>1 DEF Present, Inside, Away
<1>4. CountOK
  BY <1>1, <1>3, FS_EmptySet, LimiterAssumption DEF CountOK
<1>5. OneOwner /\ \A r \in Connections : HeldOK(r)
  BY <1>1 DEF OneOwner, HeldOK, Away
<1>6. \A a \in Addresses : DueOK(a)
  BY <1>1, LimiterAssumption DEF DueOK, Away
<1>7. QED BY <1>2, <1>4, <1>5, <1>6 DEF LimiterInv

LEMMA AddressIn == \A r \in Connections : AddressOf[r] \in Addresses
BY DEF Addresses

\* A counter that says no more than MaxConns has counted no more.
LEMMA LimiterKeepsCount ==
  ASSUME LimiterStep, LimiterInv
  PROVE  CountOK'
<1>1. /\ IsFiniteSet(Present) /\ IsFiniteSet(Inside) /\ Inside \subseteq Present
      /\ Cardinality(Present) \in Nat /\ Cardinality(Inside) \in Nat
      /\ connCount = Cardinality(Present) /\ Cardinality(Inside) <= MaxConns
  BY LimiterAssumption, FS_Subset, FS_CardinalityType DEF Present, Inside, LimiterInv, CountOK
<1>2. \A r \in Connections : conn[r] = [at |-> conn[r].at, bucket |-> conn[r].bucket]
      /\ conn[r].at \in {"away", "counted", "making", "asking", "served", "refused"}
  BY DEF LimiterInv, LimiterTypes
<1>3. ASSUME NEW r \in Connections, Connect(r)
      PROVE  CountOK'
  <2>1. /\ \A q \in Connections \ {r} : conn'[q] = conn[q]
        /\ conn'[r].at = IF connCount' > MaxConns THEN "refused" ELSE "counted"
        /\ conn[r].at = "away" /\ connCount' = connCount + 1
    BY <1>3 DEF Connect, LimiterInv, LimiterTypes
  <2>2. Present' = Present \union {r} /\ r \notin Present
    BY <2>1 DEF Present
  <2>3. Cardinality(Present') = Cardinality(Present) + 1 /\ IsFiniteSet(Present')
    BY <1>1, <2>2, FS_AddElement
  <2>4. CASE connCount' > MaxConns
    <3>1. Inside' = Inside
      BY <2>1, <2>4 DEF Inside
    <3>2. QED BY <1>1, <2>1, <2>3, <3>1 DEF CountOK
  <2>5. CASE ~(connCount' > MaxConns)
    <3>1. Inside' \subseteq Present'
      BY DEF Inside, Present
    <3>2. IsFiniteSet(Inside') /\ Cardinality(Inside') <= Cardinality(Present')
      BY <2>3, <3>1, FS_Subset
    <3>3. Cardinality(Inside') \in Nat
      BY <3>2, FS_CardinalityType
    <3>4. QED BY <1>1, <2>1, <2>3, <2>5, <3>2, <3>3, LimiterAssumption DEF CountOK
  <2>6. QED BY <2>4, <2>5
<1>4. ASSUME NEW r \in Connections, Disconnect(r)
      PROVE  CountOK'
  <2>1. /\ \A q \in Connections \ {r} : conn'[q] = conn[q]
        /\ conn'[r].at = "away" /\ conn[r].at \in {"refused", "served"}
        /\ connCount' = connCount - 1
    BY <1>4 DEF Disconnect, Away, LimiterInv, LimiterTypes
  <2>2. Present' = Present \ {r} /\ r \in Present /\ Inside' \subseteq Inside
    BY <2>1 DEF Present, Inside
  <2>3. Cardinality(Present') = Cardinality(Present) - 1
    BY <1>1, <2>2, FS_RemoveElement
  <2>4. IsFiniteSet(Inside') /\ Cardinality(Inside') <= Cardinality(Inside)
    BY <1>1, <2>2, FS_Subset
  <2>5. Cardinality(Inside') \in Nat
    BY <2>4, FS_CardinalityType
  <2>6. QED BY <1>1, <2>1, <2>3, <2>4, <2>5, LimiterAssumption DEF CountOK
<1>5. ASSUME UNCHANGED connCount,
             \A q \in Connections : /\ conn'[q].at # "away" <=> conn[q].at # "away"
                                    /\ q \in Inside' => q \in Inside
      PROVE  CountOK'
  <2>1. Present' = Present /\ Inside' \subseteq Inside
    BY <1>5 DEF Present, Inside
  <2>2. IsFiniteSet(Inside') /\ Cardinality(Inside') <= Cardinality(Inside)
    BY <1>1, <2>1, FS_Subset
  <2>3. Cardinality(Inside') \in Nat
    BY <2>2, FS_CardinalityType
  <2>4. QED BY <1>1, <1>5, <2>1, <2>2, <2>3, LimiterAssumption DEF CountOK
<1>6. ASSUME NEW r \in Connections, FindBucket(r) \/ MakeBucket(r) \/ Allowed(r) \/ TooFast(r)
      PROVE  CountOK'
  <2>1. /\ \A q \in Connections \ {r} : conn'[q] = conn[q]
        /\ conn'[r].at \in {"making", "asking", "served", "refused"}
        /\ conn[r].at \in {"counted", "making", "asking"}
        /\ UNCHANGED connCount
    BY <1>6 DEF FindBucket, MakeBucket, Allowed, TooFast, LimiterInv, LimiterTypes
  <2>2. QED BY <1>5, <2>1 DEF Inside
<1>7. CASE Refill \/ Sweep
  BY <1>5, <1>7 DEF Refill, Sweep, Inside
<1>8. QED BY <1>3, <1>4, <1>6, <1>7 DEF LimiterStep

LEMMA UptoFacts ==
  ASSUME NEW n \in Int
  PROVE  Upto(n) \in Int /\ Upto(n) <= Burst /\ (n <= Burst => Upto(n) = n)
         /\ (n > Burst => Upto(n) = Burst)
BY LimiterAssumption DEF Upto

\* The buckets, apart from the counter.
BucketsInv ==
  /\ LimiterTypes /\ OneOwner
  /\ \A r \in Connections : HeldOK(r)
  /\ \A a \in Addresses : DueOK(a)

LEMMA MakeBucketKeeps ==
  ASSUME NEW r \in Connections, MakeBucket(r), BucketsInv
  PROVE  BucketsInv'
<1> DEFINE a == AddressOf[r]
           b == IF limiters[a] = NoBucket THEN Fresh ELSE limiters[a]
<1>1. a \in Addresses /\ conn[r].at = "making" /\ conn[r].bucket = NoBucket
  BY AddressIn DEF MakeBucket, BucketsInv, HeldOK
<1>2. /\ Fresh \in Buckets
      /\ \A c \in Addresses : limiters[c] # Fresh
      /\ \A q \in Connections : conn[q].bucket # Fresh
  BY <1>1, FreshIsFree DEF BucketsInv
<1>3. b \in Buckets /\ b # NoBucket
  BY <1>1, <1>2 DEF BucketsInv, LimiterTypes, Buckets, NoBucket
<1>4. /\ limiters' = [limiters EXCEPT ![a] = b]
      /\ tokens' = IF limiters[a] = NoBucket THEN [tokens EXCEPT ![b] = Burst] ELSE tokens
      /\ conn' = [conn EXCEPT ![r] = [at |-> "asking", bucket |-> b]]
      /\ UNCHANGED <<due, overtaken>>
  BY DEF MakeBucket
<1> DEFINE new == limiters[a] = NoBucket
<1>5. /\ new => b = Fresh
      /\ ~new => b = limiters[a]
  OBVIOUS
<1> HIDE DEF a, b
<1>6. LimiterTypes'
  BY <1>1, <1>3, <1>4, LimiterAssumption DEF BucketsInv, LimiterTypes
<1>7. /\ limiters'[a] = b /\ \A c \in Addresses \ {a} : limiters'[c] = limiters[c]
      /\ conn'[r] = [at |-> "asking", bucket |-> b]
      /\ \A q \in Connections \ {r} : conn'[q] = conn[q]
  BY <1>1, <1>4 DEF BucketsInv, LimiterTypes
<1>8. OneOwner'
  BY <1>1, <1>2, <1>5, <1>7 DEF BucketsInv, OneOwner
<1>9. \A q \in Connections : HeldOK(q)'
  <2>1. HeldOK(r)'
    BY <1>1, <1>2, <1>3, <1>5, <1>7 DEF BucketsInv, HeldOK, OneOwner, a
  <2>2. ASSUME NEW q \in Connections \ {r}
        PROVE  HeldOK(q)'
    BY <1>1, <1>2, <1>3, <1>5, <1>7 DEF BucketsInv, HeldOK
  <2>3. QED BY <2>1, <2>2
<1>10. \A c \in Addresses : DueOK(c)'
  <2>1. DueOK(a)'
    <3>1. DueOK(a)
      BY <1>1 DEF BucketsInv
    <3>2. tokens' = IF new THEN [tokens EXCEPT ![b] = Burst] ELSE tokens
      BY <1>4
    <3>3. CASE new
      <4>1. tokens'[b] = Burst
        BY <1>3, <3>2, <3>3 DEF BucketsInv, LimiterTypes
      <4>2. a \notin overtaken => \A q \in Connections \ {r} :
              ~(AddressOf[q] = a /\ conn[q].at = "asking")
        BY <3>1, <3>3 DEF DueOK, BucketsInv, HeldOK
      <4>3. QED
        BY <1>3, <1>4, <1>7, <3>1, <3>3, <4>1, <4>2, LimiterAssumption DEF DueOK
    <3>4. CASE ~new
      <4>1. tokens' = tokens /\ b = limiters[a]
        BY <1>5, <3>2, <3>4
      <4>2. QED BY <1>4, <1>7, <3>1, <3>4, <4>1 DEF DueOK
    <3>5. QED BY <3>3, <3>4
  <2>2. ASSUME NEW c \in Addresses \ {a}
        PROVE  DueOK(c)'
    <3>1. DueOK(c) /\ limiters'[c] = limiters[c] /\ AddressOf[r] # c
      BY <1>7 DEF BucketsInv, a
    <3>2. limiters[c] # NoBucket => tokens'[limiters[c]] = tokens[limiters[c]]
      BY <1>1, <1>2, <1>4, <1>5 DEF BucketsInv, LimiterTypes
    <3>3. QED BY <1>4, <1>7, <3>1, <3>2 DEF DueOK
  <2>3. QED BY <2>1, <2>2
<1>11. QED BY <1>6, <1>8, <1>9, <1>10 DEF BucketsInv

\* A token that is taken was due, unless the bucket was swept from under its request.
LEMMA AllowedKeeps ==
  ASSUME NEW r \in Connections, Allowed(r), BucketsInv
  PROVE  BucketsInv'
<1> DEFINE a == AddressOf[r]
           b == conn[r].bucket
<1>1. /\ a \in Addresses /\ conn[r].at = "asking" /\ b # NoBucket /\ b \in Buckets
      /\ tokens[b] > 0 /\ tokens[b] \in 0 .. Burst
  BY AddressIn DEF Allowed, BucketsInv, HeldOK, LimiterTypes
<1>2. /\ tokens' = [tokens EXCEPT ![b] = @ - 1]
      /\ conn' = [conn EXCEPT ![r] = [at |-> "served", bucket |-> NoBucket]]
      /\ due' = [due EXCEPT ![a] = IF a \in overtaken THEN @ ELSE @ - 1]
      /\ UNCHANGED <<limiters, overtaken>>
  BY DEF Allowed
<1>3. \A c \in Addresses : limiters[c] = b => c = a
  BY <1>1 DEF BucketsInv, HeldOK
<1>4. LimiterTypes'
  <2>1. tokens' \in [Buckets -> 0 .. Burst] /\ due' \in [Addresses -> Int]
    BY <1>1, <1>2, LimiterAssumption DEF BucketsInv, LimiterTypes
  <2>2. conn' \in [Connections -> [at : {"away", "counted", "making", "asking", "served", "refused"},
                               bucket : Buckets \union {NoBucket}]]
    BY <1>2 DEF BucketsInv, LimiterTypes
  <2>3. QED BY <1>2, <2>1, <2>2 DEF BucketsInv, LimiterTypes
<1>5. /\ tokens'[b] = tokens[b] - 1 /\ \A d \in Buckets \ {b} : tokens'[d] = tokens[d]
      /\ conn'[r] = [at |-> "served", bucket |-> NoBucket]
      /\ \A q \in Connections \ {r} : conn'[q] = conn[q]
      /\ due'[a] = IF a \in overtaken THEN due[a] ELSE due[a] - 1
      /\ \A c \in Addresses \ {a} : due'[c] = due[c]
  BY <1>1, <1>2 DEF BucketsInv, LimiterTypes
<1>6. a \notin overtaken => b = limiters[a] /\ tokens[b] <= due[a]
  BY <1>1 DEF BucketsInv, DueOK
<1> HIDE DEF b
<1>7. OneOwner' /\ \A q \in Connections : HeldOK(q)'
  BY <1>2, <1>5 DEF BucketsInv, OneOwner, HeldOK
<1>8. DueOK(a)'
  BY <1>1, <1>2, <1>5, <1>6, LimiterAssumption DEF BucketsInv, DueOK, LimiterTypes
<1>9. ASSUME NEW c \in Addresses \ {a} PROVE DueOK(c)'
  <2>1. DueOK(c) /\ due'[c] = due[c] /\ limiters'[c] = limiters[c] /\ limiters[c] # b
    BY <1>2, <1>3, <1>5 DEF BucketsInv
  <2>2. limiters[c] # NoBucket => tokens'[limiters[c]] = tokens[limiters[c]]
    BY <1>5, <2>1 DEF BucketsInv, LimiterTypes
  <2>3. QED BY <1>2, <1>5, <2>1, <2>2 DEF DueOK
<1>10. QED BY <1>4, <1>7, <1>8, <1>9 DEF BucketsInv

LEMMA LimiterKeepsBuckets ==
  ASSUME LimiterStep, LimiterInv
  PROVE  BucketsInv'
<1> BucketsInv
  BY DEF LimiterInv, BucketsInv
<1>1. ASSUME NEW r \in Connections, Connect(r) \/ Disconnect(r) \/ TooFast(r)
      PROVE  BucketsInv'
  <2>1. /\ conn'[r].at \in {"refused", "counted", "away"}
        /\ conn'[r].bucket = NoBucket
        /\ conn' \in [Connections -> [at : {"away", "counted", "making", "asking", "served", "refused"},
                               bucket : Buckets \union {NoBucket}]]
        /\ \A q \in Connections \ {r} : conn'[q] = conn[q]
    BY <1>1 DEF Connect, Disconnect, TooFast, Away, BucketsInv, LimiterTypes, HeldOK
  <2>2. UNCHANGED <<limiters, tokens, due, overtaken>>
    BY <1>1 DEF Connect, Disconnect, TooFast
  <2>3. LimiterTypes' /\ OneOwner'
    BY <2>1, <2>2 DEF BucketsInv, LimiterTypes, OneOwner
  <2>4. \A q \in Connections : HeldOK(q)'
    BY <2>1, <2>2 DEF BucketsInv, HeldOK
  <2>5. \A a \in Addresses : DueOK(a)'
    BY <2>1, <2>2 DEF BucketsInv, DueOK
  <2>6. QED BY <2>3, <2>4, <2>5 DEF BucketsInv
<1>2. ASSUME NEW r \in Connections, FindBucket(r)
      PROVE  BucketsInv'
  <2>1. /\ AddressOf[r] \in Addresses
        /\ limiters[AddressOf[r]] \in Buckets \union {NoBucket}
        /\ conn'[r] = [at |-> IF limiters[AddressOf[r]] = NoBucket THEN "making" ELSE "asking",
                       bucket |-> limiters[AddressOf[r]]]
        /\ conn' \in [Connections -> [at : {"away", "counted", "making", "asking", "served", "refused"},
                               bucket : Buckets \union {NoBucket}]]
        /\ \A q \in Connections \ {r} : conn'[q] = conn[q]
    BY <1>2, AddressIn DEF FindBucket, BucketsInv, LimiterTypes
  <2>2. UNCHANGED <<limiters, tokens, due, overtaken>>
    BY <1>2 DEF FindBucket
  <2>3. LimiterTypes' /\ OneOwner'
    BY <2>1, <2>2 DEF BucketsInv, LimiterTypes, OneOwner
  <2>4. \A q \in Connections : HeldOK(q)'
    BY <2>1, <2>2 DEF BucketsInv, HeldOK, OneOwner
  <2>5. \A a \in Addresses : DueOK(a)'
    BY <2>1, <2>2 DEF BucketsInv, DueOK
  <2>6. QED BY <2>3, <2>4, <2>5 DEF BucketsInv
<1>3. CASE Refill
  <2>1. /\ \A b \in Buckets : tokens'[b] = Upto(tokens[b] + 1) /\ tokens[b] \in 0 .. Burst
        /\ \A a \in Addresses : due'[a] = Upto(due[a] + 1) /\ due[a] \in Int
        /\ UNCHANGED <<limiters, conn, overtaken>>
    BY <1>3 DEF Refill, BucketsInv, LimiterTypes
  <2>2. LimiterTypes'
    <3>1. \A b \in Buckets : Upto(tokens[b] + 1) \in 0 .. Burst
      BY <2>1, LimiterAssumption DEF Upto
    <3>2. \A a \in Addresses : Upto(due[a] + 1) \in Int
      BY <2>1, LimiterAssumption DEF Upto
    <3>3. tokens' = [b \in Buckets |-> Upto(tokens[b] + 1)]
          /\ due' = [a \in Addresses |-> Upto(due[a] + 1)]
      BY <1>3 DEF Refill
    <3>4. QED BY <2>1, <3>1, <3>2, <3>3 DEF BucketsInv, LimiterTypes
  <2>3. OneOwner' /\ \A q \in Connections : HeldOK(q)'
    BY <2>1 DEF BucketsInv, OneOwner, HeldOK
  <2>4. ASSUME NEW a \in Addresses PROVE DueOK(a)'
    <3>1. DueOK(a) /\ limiters[a] \in Buckets \union {NoBucket}
      BY DEF BucketsInv, LimiterTypes
    <3>2. due'[a] <= Burst /\ (due[a] >= 0 => due'[a] >= 0) /\ (due[a] = Burst => due'[a] = Burst)
      BY <2>1, LimiterAssumption DEF Upto
    <3>3. \A b \in Buckets : tokens[b] <= due[a] => tokens'[b] <= due'[a]
      BY <2>1, LimiterAssumption DEF Upto
    <3>4. QED BY <2>1, <3>1, <3>2, <3>3 DEF DueOK
  <2>5. QED BY <2>2, <2>3, <2>4 DEF BucketsInv
<1>4. CASE Sweep
  <2> DEFINE full == {a \in Addresses : limiters[a] # NoBucket /\ tokens[limiters[a]] = Burst}
  <2>1. /\ limiters' = [a \in Addresses |-> IF a \in full THEN NoBucket ELSE limiters[a]]
        /\ overtaken' = overtaken \union
             {a \in full : \E r \in Connections : conn[r].bucket = limiters[a]}
        /\ UNCHANGED <<tokens, conn, due>>
    BY <1>4 DEF Sweep
  <2>2. LimiterTypes' /\ OneOwner' /\ \A q \in Connections : HeldOK(q)'
    BY <2>1 DEF BucketsInv, LimiterTypes, OneOwner, HeldOK
  <2>3. ASSUME NEW a \in Addresses PROVE DueOK(a)'
    <3>1. DueOK(a) /\ due[a] \in Int
      BY DEF BucketsInv, LimiterTypes
    <3>2. CASE a \in full
      <4>1. limiters[a] # NoBucket /\ tokens[limiters[a]] = Burst /\ limiters'[a] = NoBucket
        BY <2>1, <3>2
      <4>2. a \notin overtaken' =>
              a \notin overtaken /\ \A r \in Connections : conn[r].bucket # limiters[a]
        BY <2>1, <3>2
      <4>3. QED BY <2>1, <3>1, <4>1, <4>2, LimiterAssumption DEF DueOK
    <3>3. CASE a \notin full
      BY <2>1, <3>1, <3>3 DEF DueOK
    <3>4. QED BY <3>2, <3>3
  <2>4. QED BY <2>2, <2>3 DEF BucketsInv
<1>5. QED
  BY <1>1, <1>2, <1>3, <1>4, MakeBucketKeeps, AllowedKeeps DEF LimiterStep

LEMMA LimiterKeepsInv ==
  ASSUME LimiterStep, LimiterInv
  PROVE  LimiterInv'
BY LimiterKeepsCount, LimiterKeepsBuckets DEF LimiterInv, BucketsInv

-----------------------------------------------------------------------------
(* The gate in front of the model.                                         *)
GateWorkStep ==
  \E q \in Prompts :
    \/ Prompt(q) \/ ClientGoes(q) \/ TakeSlot(q) \/ LeaveLine(q) \/ SeeQuiet(q)
    \/ SeeBusy(q) \/ Wake(q) \/ Proceed(q) \/ ForwardEnds(q)

Stands == AtGate \union {"none", "queued", "running"}

LEMMA IdleGateInitially ==
  ASSUME IdleGateInit PROVE IdleGateInv
<1>1. Holding = {}
  BY DEF IdleGateInit, Holding, AtGate
<1>2. IsFiniteSet(Holding) /\ Cardinality(Holding) <= GateSlots
  BY <1>1, FS_EmptySet, IdleGateAssumption
<1>3. QED BY <1>2, IdleGateAssumption DEF IdleGateInit, IdleGateInv, IdleGateTypeOK

\* A step after which no other request holds a slot than before.
LEMMA NoneEnters ==
  ASSUME IdleGateInv, NEW q \in Prompts, NEW at \in Stands, Stand(q, at),
         at \in {"none", "queued"} \/ q \in Holding
  PROVE  /\ stand' \in [Prompts -> Stands]
         /\ IsFiniteSet(Holding') /\ Cardinality(Holding') <= GateSlots
<1>1. stand' \in [Prompts -> Stands]
  BY DEF Stand, IdleGateInv, IdleGateTypeOK, Stands
<1>2. Holding' \subseteq Holding
  BY DEF Stand, IdleGateInv, IdleGateTypeOK, Holding, AtGate
<1>3. IsFiniteSet(Holding') /\ Cardinality(Holding') <= Cardinality(Holding)
  BY <1>2, FS_Subset DEF IdleGateInv
<1>4. Cardinality(Holding') \in Nat /\ Cardinality(Holding) \in Nat
  BY <1>3, FS_CardinalityType DEF IdleGateInv
<1>5. QED BY <1>1, <1>3, <1>4, IdleGateAssumption DEF IdleGateInv, IdleGateTypeOK

LEMMA RemoveAtType ==
  ASSUME NEW S, NEW s \in Seq(S), NEW i \in DOMAIN s
  PROVE  RemoveAt(s, i) \in Seq(S)
BY DEF RemoveAt

LEMMA GateKeepsInv ==
  ASSUME GateWorkStep, IdleGateInv
  PROVE  IdleGateInv'
<1> USE IdleGateAssumption
<1>1. /\ stand \in [Prompts -> Stands] /\ patience \in [Prompts -> 0 .. MaxPolls]
      /\ gone \subseteq Prompts /\ line \in Seq(Prompts)
  BY DEF IdleGateInv, IdleGateTypeOK, Stands
<1>2. {"none", "queued", "running", "looking", "asleep", "through"} \subseteq Stands
  BY DEF Stands, AtGate
<1>3. ASSUME NEW q \in Prompts, NEW at \in Stands, Stand(q, at),
             at \in {"none", "queued"} \/ q \in Holding,
             patience' \in [Prompts -> 0 .. MaxPolls], gone' \subseteq Prompts, line' \in Seq(Prompts),
             \A p \in Prompts \ {q} : patience'[p] = patience[p],
             at = "asleep" => patience'[q] > 0
      PROVE  IdleGateInv'
  <2>1. \A p \in Prompts : stand'[p] = "asleep" => patience'[p] > 0
    BY <1>1, <1>3 DEF Stand, IdleGateInv
  <2>2. QED BY <1>3, <2>1, NoneEnters DEF IdleGateInv, IdleGateTypeOK, Stands
<1>4. ASSUME NEW q \in Prompts, Prompt(q)
      PROVE  IdleGateInv'
  <2>1. Append(line, q) \in Seq(Prompts)
    BY <1>1
  <2>2. QED BY <1>1, <1>2, <1>3, <1>4, <2>1 DEF Prompt
<1>5. ASSUME NEW q \in Prompts, ClientGoes(q)
      PROVE  IdleGateInv'
  BY <1>5 DEF ClientGoes, IdleGateInv, IdleGateTypeOK, Holding
<1>6. ASSUME NEW q \in Prompts, TakeSlot(q)
      PROVE  IdleGateInv'
  <2>1. Holding' \subseteq Holding \union {q}
    BY <1>1, <1>6 DEF TakeSlot, Stand, Holding
  <2>2. /\ IsFiniteSet(Holding \union {q})
        /\ Cardinality(Holding \union {q}) <= Cardinality(Holding) + 1
        /\ Cardinality(Holding) \in Nat
    <3>1. IsFiniteSet(Holding) /\ Cardinality(Holding) \in Nat
      BY FS_CardinalityType DEF IdleGateInv
    <3> HIDE DEF Holding
    <3>2. QED BY <3>1, FS_AddElement
  <2>3. IsFiniteSet(Holding') /\ Cardinality(Holding') <= Cardinality(Holding \union {q})
    BY <2>1, <2>2, FS_Subset
  <2>4. Cardinality(Holding') \in Nat /\ Cardinality(Holding \union {q}) \in Nat
    BY <2>2, <2>3, FS_CardinalityType
  <2>5. Cardinality(Holding') <= GateSlots
    BY <1>6, <2>2, <2>3, <2>4 DEF TakeSlot
  <2>6. stand' \in [Prompts -> Stands]
    BY <1>1, <1>2, <1>6 DEF TakeSlot, Stand
  <2>8. \A p \in Prompts : stand'[p] = "asleep" => patience'[p] > 0
    BY <1>1, <1>6 DEF TakeSlot, Stand, IdleGateInv
  <2>7. Tail(line) \in Seq(Prompts)
    BY <1>1, <1>6 DEF TakeSlot
  <2>9. QED
    BY <1>1, <1>6, <2>3, <2>5, <2>6, <2>7, <2>8 DEF TakeSlot, IdleGateInv, IdleGateTypeOK, Stands
<1>7. ASSUME NEW q \in Prompts, LeaveLine(q)
      PROVE  IdleGateInv'
  <2>1. PICK i \in DOMAIN line : line' = RemoveAt(line, i)
    BY <1>7 DEF LeaveLine
  <2>2. line' \in Seq(Prompts)
    BY <1>1, <2>1, RemoveAtType
  <2>3. QED BY <1>1, <1>2, <1>3, <1>7, <2>2 DEF LeaveLine
<1>8. ASSUME NEW q \in Prompts, SeeQuiet(q) \/ SeeBusy(q)
      PROVE  IdleGateInv'
  <2>1. q \in Holding
    BY <1>8 DEF SeeQuiet, SeeBusy, Holding, AtGate
  <2>2. QED BY <1>1, <1>2, <1>3, <1>8, <2>1 DEF SeeQuiet, SeeBusy
<1>9. ASSUME NEW q \in Prompts, Proceed(q) \/ ForwardEnds(q)
      PROVE  IdleGateInv'
  <2>1. q \in Holding
    BY <1>9 DEF Proceed, ForwardEnds, Holding, AtGate
  <2>2. QED BY <1>1, <1>2, <1>3, <1>9, <2>1 DEF Proceed, ForwardEnds
<1>10. ASSUME NEW q \in Prompts, Wake(q)
      PROVE  IdleGateInv'
  <2>1. q \in Holding /\ patience[q] > 0 /\ patience[q] \in 0 .. MaxPolls
    BY <1>1, <1>10 DEF Wake, Holding, AtGate, IdleGateInv
  <2>2. patience' \in [Prompts -> 0 .. MaxPolls] /\ \A p \in Prompts \ {q} : patience'[p] = patience[p]
    BY <1>1, <1>10, <2>1 DEF Wake
  <2>3. QED BY <1>1, <1>2, <1>3, <1>10, <2>1, <2>2 DEF Wake
<1>11. QED BY <1>4, <1>5, <1>6, <1>7, <1>8, <1>9, <1>10 DEF GateWorkStep

-----------------------------------------------------------------------------
(* The feedback loop of the latency gates.                                 *)
LoopStep ==
  \/ \E c \in Call : Admit(c) \/ Arrive(c) \/ End(c)
  \/ \E c \in Call, level \in Level : FirstTurn(c, level) \/ LaterTurn(c, level)
  \/ \E t \in Tier, level \in Level : Request(t, level)
  \/ CooldownTick \/ Drain

\* A window pushed to stays a window, and never outgrows its size.
LEMMA PushedType ==
  ASSUME NEW S, NEW w \in Seq(S), NEW x \in S, NEW size \in Nat \ {0}
  PROVE  /\ Pushed(w, x, size) \in Seq(S)
         /\ Len(w) <= size => Len(Pushed(w, x, size)) <= size
<1>1. CASE Len(w) < size
  BY <1>1 DEF Pushed
<1>2. CASE ~(Len(w) < size)
  <2>1. w # <<>> /\ Tail(w) \in Seq(S) /\ Len(Tail(w)) = Len(w) - 1
    BY <1>2
  <2>2. QED BY <1>2, <2>1 DEF Pushed
<1>3. QED BY <1>1, <1>2

LEMMA LoopInitially ==
  ASSUME LoopInit PROVE LoopTypeOK
<1>1. /\ tiers = [t \in Tier |-> <<>>] /\ firstTurn = <<>> /\ blockedFor = 0 /\ draining = FALSE
      /\ inflight = {} /\ spoke = {}
  BY DEF LoopInit, GatesInit
<1>2. <<>> \in Seq(Level) /\ <<>> \in Seq([level : Level]) /\ Len(<<>>) = 0
  OBVIOUS
<1>3. tiers \in [Tier -> Seq(Level)] /\ \A t \in Tier : Len(tiers[t]) <= TierWindow
  BY <1>1, <1>2, GatesAssumption
<1>4. firstTurn \in Seq([level : Level]) /\ Len(firstTurn) <= FirstTurnWindow
  BY <1>1, <1>2, GatesAssumption
<1>5. blockedFor \in 0..Cooldown
  BY <1>1, GatesAssumption
<1>6. QED BY <1>1, <1>3, <1>4, <1>5 DEF LoopTypeOK

\* A sample goes into one window of its tier.
LEMMA ObserveTypes ==
  ASSUME LoopTypeOK, NEW t \in Tier, NEW level \in Level,
         tiers' = [tiers EXCEPT ![t] = Pushed(@, level, TierWindow)]
  PROVE  tiers' \in [Tier -> Seq(Level)] /\ \A u \in Tier : Len(tiers'[u]) <= TierWindow
<1>1. Pushed(tiers[t], level, TierWindow) \in Seq(Level)
      /\ Len(Pushed(tiers[t], level, TierWindow)) <= TierWindow
  BY PushedType, GatesAssumption DEF LoopTypeOK
<1>2. QED BY <1>1 DEF LoopTypeOK

LEMMA LoopKeepsTypes ==
  ASSUME LoopStep, LoopTypeOK
  PROVE  LoopTypeOK'
<1>1. ASSUME NEW c \in Call, Admit(c) \/ Arrive(c) \/ End(c)
      PROVE  LoopTypeOK'
  BY <1>1 DEF Admit, Arrive, End, LoopTypeOK, gateVars, Call
<1>2. ASSUME NEW c \in Call, NEW level \in Level, FirstTurn(c, level)
      PROVE  LoopTypeOK'
  <2> DEFINE sample == [level |-> level]
  <2>1. sample \in [level : Level] /\ sample.level = level
    OBVIOUS
  <2> HIDE DEF sample
  <2>2. /\ c \in inflight /\ spoke' = spoke \union {c} /\ UNCHANGED inflight
        /\ ObserveFirstTurn(sample)
    BY <1>2 DEF FirstTurn, sample
  <2>3. tiers' \in [Tier -> Seq(Level)] /\ \A u \in Tier : Len(tiers'[u]) <= TierWindow
    BY <2>1, <2>2, ObserveTypes, GatesAssumption DEF ObserveFirstTurn
  <2>4. /\ Pushed(firstTurn, sample, FirstTurnWindow) \in Seq([level : Level])
        /\ Len(Pushed(firstTurn, sample, FirstTurnWindow)) <= FirstTurnWindow
    BY <2>1, PushedType, GatesAssumption DEF LoopTypeOK
  <2>5. <<>> \in Seq([level : Level]) /\ Len(<<>>) <= FirstTurnWindow
    BY GatesAssumption
  <2>6. /\ firstTurn' \in Seq([level : Level]) /\ Len(firstTurn') <= FirstTurnWindow
        /\ draining' \in BOOLEAN
    BY <2>2, <2>4, <2>5 DEF ObserveFirstTurn, LoopTypeOK
  <2>7. blockedFor' \in 0..Cooldown
    BY <2>2, GatesAssumption DEF ObserveFirstTurn, LoopTypeOK
  <2>8. QED BY <2>2, <2>3, <2>6, <2>7 DEF LoopTypeOK
<1>3. ASSUME NEW c \in Call, NEW level \in Level, LaterTurn(c, level)
      PROVE  LoopTypeOK'
  <2>1. tiers' \in [Tier -> Seq(Level)] /\ \A u \in Tier : Len(tiers'[u]) <= TierWindow
    BY <1>3, ObserveTypes, GatesAssumption DEF LaterTurn, ObserveLaterTurn, Observe
  <2>2. QED BY <1>3, <2>1 DEF LaterTurn, ObserveLaterTurn, Observe, LoopTypeOK
<1>4. ASSUME NEW t \in Tier, NEW level \in Level, Request(t, level)
      PROVE  LoopTypeOK'
  <2>1. tiers' \in [Tier -> Seq(Level)] /\ \A u \in Tier : Len(tiers'[u]) <= TierWindow
    BY <1>4, ObserveTypes DEF Request, Observe
  <2>2. QED BY <1>4, <2>1 DEF Request, Observe, LoopTypeOK
<1>5. CASE CooldownTick \/ Drain
  <2>1. blockedFor' \in 0..Cooldown
    BY <1>5, GatesAssumption DEF CooldownTick, Drain, CooldownRuns, SetDraining, LoopTypeOK
  <2>2. UNCHANGED <<tiers, firstTurn, inflight, spoke>> /\ draining' \in BOOLEAN
    BY <1>5 DEF CooldownTick, Drain, CooldownRuns, SetDraining, LoopTypeOK
  <2>3. QED BY <2>1, <2>2 DEF LoopTypeOK
<1>6. QED BY <1>1, <1>2, <1>3, <1>4, <1>5 DEF LoopStep

-----------------------------------------------------------------------------
(* The three parts.                                                        *)
LEMMA OnePartSteps ==
  ASSUME Next
  PROVE  \/ LoopStep /\ UNCHANGED <<part, gateWorkVars, limiterVars>>
         \/ GateWorkStep /\ UNCHANGED <<part, loopVars, limiterVars>>
         \/ LimiterStep /\ UNCHANGED <<part, loopVars, gateWorkVars>>
BY Zenon DEF Next, LoopStep, GateWorkStep, LimiterStep, OnCalls, OnModel, OnSocket

LEMMA LoopStands ==
  ASSUME UNCHANGED loopVars, LoopTypeOK PROVE LoopTypeOK'
BY DEF loopVars, gateVars, LoopTypeOK

LEMMA GateStands ==
  ASSUME UNCHANGED gateWorkVars, IdleGateInv PROVE IdleGateInv'
BY DEF gateWorkVars, IdleGateInv, IdleGateTypeOK, Holding

LEMMA LimiterStands ==
  ASSUME UNCHANGED limiterVars, LimiterInv PROVE LimiterInv'
BY DEF limiterVars, LimiterInv, LimiterTypes, CountOK, Present, Inside, OneOwner, HeldOK, DueOK

LEMMA InvHolds == Spec => []Inv
<1>1. Init => Inv
  BY LoopInitially, IdleGateInitially, LimiterInitially DEF Init, Inv
<1>2. Inv /\ Next => Inv'
  BY OnePartSteps, LoopKeepsTypes, GateKeepsInv, LimiterKeepsInv, LoopStands, GateStands,
     LimiterStands DEF Inv
<1>3. Inv /\ UNCHANGED vars => Inv'
  BY LoopStands, GateStands, LimiterStands DEF Inv, vars
<1>4. QED BY <1>1, <1>2, <1>3, PTL DEF Spec

\* The windows keep their size and their samples, the gate in front of the model its slots and
\* the limiter its types: the counter of connections never runs below zero or beyond the requests.
THEOREM TypeCorrect == Spec => []TypeOK
<1>1. ASSUME Inv PROVE connCount \in 0 .. Cardinality(Connections)
  <2>1. /\ IsFiniteSet(Present) /\ Cardinality(Present) <= Cardinality(Connections)
    BY LimiterAssumption, FS_Subset DEF Present
  <2>2. Cardinality(Present) \in Nat /\ Cardinality(Connections) \in Nat
    BY <2>1, LimiterAssumption, FS_CardinalityType
  <2>3. QED BY <1>1, <2>1, <2>2 DEF Inv, LimiterInv, CountOK
<1>2. Inv => TypeOK
  BY <1>1 DEF Inv, IdleGateInv, LimiterInv, LimiterTypes, LimiterTypeOK, TypeOK
<1>3. QED BY <1>2, InvHolds, PTL

\* middleware: no more requests are served than maxConns, and an address gets no more through
\* than one bucket would let it, unless the sweeper took its new bucket from under a request.
THEOREM LimitsHoldHolds == Spec => []LimitsHold
<1>1. ASSUME Inv PROVE Cardinality(Served) <= MaxConns
  <2>1. IsFiniteSet(Inside)
    BY LimiterAssumption, FS_Subset DEF Inside
  <2>2. IsFiniteSet(Served) /\ Cardinality(Served) <= Cardinality(Inside)
    BY <2>1, FS_Subset DEF Served, Inside
  <2>3. Cardinality(Served) \in Nat /\ Cardinality(Inside) \in Nat
    BY <2>1, <2>2, FS_CardinalityType
  <2>4. QED BY <1>1, <2>2, <2>3, LimiterAssumption DEF Inv, LimiterInv, CountOK
<1>2. Inv => LimitsHold
  BY <1>1 DEF Inv, LimiterInv, DueOK, LimitsHold
<1>3. QED BY <1>2, InvHolds, PTL
=============================================================================
