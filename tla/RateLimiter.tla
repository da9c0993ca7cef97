---------------------------- MODULE RateLimiter -----------------------------
(***************************************************************************)
(* The browser's socket is behind a limiter (pkg/services/middleware): a   *)
(* counter of connections, and a token bucket per address, made when the   *)
(* address first comes and swept away when it is full.                     *)
(*                                                                         *)
(* Requests run on goroutines of their own; the counter is atomic, the map *)
(* of buckets is under a read-write lock, and each bucket has its own.     *)
(***************************************************************************)
EXTENDS Integers, FiniteSets

CONSTANTS
  Connections,    \* requests; each may come again once it is over
  AddressOf,      \* where each comes from
  MaxConns, Burst \* maxConns, b
ASSUME LimiterAssumption == IsFiniteSet(Connections) /\ MaxConns \in Nat /\ Burst \in Nat

Addresses == {AddressOf[r] : r \in Connections}
(* As many buckets as the map and the requests can refer to at once.       *)
Buckets == 1 .. Cardinality(Addresses) + Cardinality(Connections)
NoBucket == 0

VARIABLES
  connCount,
  limiters,   \* the map: the bucket of each address, or NoBucket
  tokens,     \* what is in each bucket
  conn,       \* where each request has got to, and the bucket it goes by
  due,        \* history: what a single bucket per address would hold
  overtaken   \* history: addresses whose bucket was swept from under a request

limiterVars == <<connCount, limiters, tokens, conn, due, overtaken>>

Away == [at |-> "away", bucket |-> NoBucket]
Served == {r \in Connections : conn[r].at = "served"}
Upto(n) == IF n > Burst THEN Burst ELSE n

LimiterInit ==
  /\ connCount = 0
  /\ limiters = [a \in Addresses |-> NoBucket]
  /\ tokens = [b \in Buckets |-> Burst]
  /\ conn = [r \in Connections |-> Away]
  /\ due = [a \in Addresses |-> Burst]
  /\ overtaken = {}

(* Middleware: one atomic addition, whose result decides.                  *)
Connect(r) ==
  /\ conn[r].at = "away"
  /\ connCount' = connCount + 1
  /\ conn' = [conn EXCEPT ![r].at = IF connCount' > MaxConns THEN "refused" ELSE "counted"]
  /\ UNCHANGED <<limiters, tokens, due, overtaken>>

(* getLimiter under the read lock, and again under the other.              *)
FindBucket(r) ==
  LET b == limiters[AddressOf[r]] IN
  /\ conn[r].at = "counted"
  /\ conn' = [conn EXCEPT ![r] = [at |-> IF b = NoBucket THEN "making" ELSE "asking", bucket |-> b]]
  /\ UNCHANGED <<connCount, limiters, tokens, due, overtaken>>

Fresh == CHOOSE b \in Buckets :
  /\ \A a \in Addresses : limiters[a] # b
  /\ \A r \in Connections : conn[r].bucket # b

(* Mutant of MakeBucket: the map is not looked at again. *)
MakeBucketBlindly(r) ==
  /\ conn[r].at = "making"
  /\ limiters' = [limiters EXCEPT ![AddressOf[r]] = Fresh]
  /\ tokens' = [tokens EXCEPT ![Fresh] = Burst]
  /\ conn' = [conn EXCEPT ![r] = [at |-> "asking", bucket |-> Fresh]]
  /\ UNCHANGED <<connCount, due, overtaken>>

MakeBucket(r) ==
  LET a == AddressOf[r]
      b == IF limiters[a] = NoBucket THEN Fresh ELSE limiters[a]
  IN /\ conn[r].at = "making"
     /\ limiters' = [limiters EXCEPT ![a] = b]
     /\ tokens' = IF limiters[a] = NoBucket THEN [tokens EXCEPT ![b] = Burst] ELSE tokens
     /\ conn' = [conn EXCEPT ![r] = [at |-> "asking", bucket |-> b]]
     /\ UNCHANGED <<connCount, due, overtaken>>

(* Allow. *)
Allowed(r) ==
  LET b == conn[r].bucket IN
  /\ conn[r].at = "asking" /\ tokens[b] > 0
  /\ tokens' = [tokens EXCEPT ![b] = @ - 1]
  /\ conn' = [conn EXCEPT ![r] = [at |-> "served", bucket |-> NoBucket]]
  /\ due' = [due EXCEPT ![AddressOf[r]] = IF AddressOf[r] \in overtaken THEN @ ELSE @ - 1]
  /\ UNCHANGED <<connCount, limiters, overtaken>>
TooFast(r) ==
  /\ conn[r].at = "asking" /\ tokens[conn[r].bucket] = 0
  /\ conn' = [conn EXCEPT ![r] = [at |-> "refused", bucket |-> NoBucket]]
  /\ UNCHANGED <<connCount, limiters, tokens, due, overtaken>>

(* However a request ends, it is counted off. *)
Disconnect(r) ==
  /\ conn[r].at \in {"refused", "served"}
  /\ connCount' = connCount - 1
  /\ conn' = [conn EXCEPT ![r] = Away]
  /\ UNCHANGED <<limiters, tokens, due, overtaken>>

Refill ==
  /\ \E b \in Buckets : tokens[b] < Burst
  /\ tokens' = [b \in Buckets |-> Upto(tokens[b] + 1)]
  /\ due' = [a \in Addresses |-> Upto(due[a] + 1)]
  /\ UNCHANGED <<connCount, limiters, conn, overtaken>>

(* cleanupLimiters: a full bucket has not been used for a while, or was    *)
(* made a moment ago for a request that is still to take from it.          *)
Sweep ==
  LET full == {a \in Addresses : limiters[a] # NoBucket /\ tokens[limiters[a]] = Burst}
  IN /\ full # {}
     /\ limiters' = [a \in Addresses |-> IF a \in full THEN NoBucket ELSE limiters[a]]
     /\ overtaken' = overtaken \union
          {a \in full : \E r \in Connections : conn[r].bucket = limiters[a]}
     /\ UNCHANGED <<connCount, tokens, conn, due>>

-----------------------------------------------------------------------------
LimiterTypeOK ==
  /\ connCount \in 0 .. Cardinality(Connections)
  /\ limiters \in [Addresses -> Buckets \union {NoBucket}]
  /\ tokens \in [Buckets -> 0 .. Burst]
  /\ conn \in [Connections -> [at : {"away", "counted", "making", "asking", "served", "refused"},
                               bucket : Buckets \union {NoBucket}]]
  /\ overtaken \subseteq Addresses

(* maxConns and b (RateLimiter): no more requests are inside than the      *)
(* counter allows, and an address gets no more through than one bucket     *)
(* would let it, however its first requests race to make that bucket;      *)
(* unless the sweeper took a new bucket from the map before its first use. *)
LimitsHold ==
  /\ Cardinality(Served) <= MaxConns
  /\ \A a \in Addresses \ overtaken : due[a] >= 0
=============================================================================
