---------------------------- MODULE DispatchDoor ----------------------------
(***************************************************************************)
(* pkg/rexa/hmac.go and server.go: the endpoint the platform dispatches    *)
(* to.  A request is verified (headers, timestamp, drift, signature, nonce *)
(* in that order), decoded, admitted against the ceiling and handed to the *)
(* dispatcher.  The platform makes up to three attempts under one nonce;   *)
(* the network may deliver a request again; requests that the platform did *)
(* not sign arrive too.                                                    *)
(***************************************************************************)
EXTENDS Integers, FiniteSets

CONSTANTS
  Dispatches,    \* the platform's dispatches: one nonce and one session id each
  KindOf,        \* "phone", "incoming" or "webrtc"
  StrayFlaws,    \* what may be wrong with a request that is not the platform's
  Skews,         \* how far the platform's clock may be from ours
  MaxDrift,
  NonceTTL,
  MaxCalls,      \* the ceiling TryReserve applies
  MaxAttempts,   \* the platform's attempts under one nonce
  MaxWire,       \* bound: different requests ever sent
  MaxTime        \* bound on the clock, whose tick is longer than a dispatch's attempts take

ASSUME DoorAssumption ==
  /\ KindOf \in [Dispatches -> {"phone", "incoming", "webrtc"}]
  /\ Skews \subseteq Int
  /\ StrayFlaws \subseteq {"headers", "timestamp", "signature", "size"}
  /\ {MaxDrift, MaxCalls, MaxAttempts, MaxWire, MaxTime} \subseteq Nat
  /\ NonceTTL \in Nat /\ NonceTTL >= 2 * MaxDrift

VARIABLES
  now,
  skew,       \* the platform's clock less ours
  begun,      \* per dispatch, when it was first sent
  seen,       \* MemoryNonceStore: when each nonce was recorded, or Never
  passes,     \* the requests sent so far, each with how often it passed Verify
  tries,   \* per dispatch, how often the platform has sent it
  waiting,    \* the dispatches whose answer the platform is waiting for
  told,       \* per dispatch, the answers the platform has had
  running,    \* per dispatch, the handlers inside the dispatcher
  live,       \* the calls that are on
  slots       \* sessions with a slot

doorVars == <<now, skew, begun, seen, passes, tries, waiting, told, running, live, slots>>

Never == -1
Flaws == {"none", "headers", "timestamp", "signature", "size", "body"}
Requests == [nonce : Dispatches, ts : Int, flaw : Flaws]
Gated == {d \in Dispatches : KindOf[d] # "incoming"}
Abs(x) == IF x < 0 THEN -x ELSE x

\* statusFor: what the platform may send again, and what is final.
Retryable == {"timeout", "at_capacity", "internal_error"}
Final == {"ok", "unauthenticated", "invalid_request", "provider_credentials_invalid"}

DoorInit ==
  /\ now = 0
  /\ skew \in Skews
  /\ begun = [d \in Dispatches |-> Never]
  /\ seen = [d \in Dispatches |-> Never]
  /\ passes = [r \in {} |-> 0]
  /\ tries = [d \in Dispatches |-> 0]
  /\ waiting = {}
  /\ told = [d \in Dispatches |-> {}]
  /\ running = [d \in Dispatches |-> 0]
  /\ live = {}
  /\ slots = {}

Tick ==
  /\ now < MaxTime
  /\ now' = now + 1
  /\ UNCHANGED <<skew, begun, seen, passes, tries, waiting, told, running, live, slots>>

Send(r) ==
  /\ r \in DOMAIN passes \/ Cardinality(DOMAIN passes) < MaxWire
  /\ passes' = IF r \in DOMAIN passes THEN passes
               ELSE [q \in DOMAIN passes \union {r} |-> IF q = r THEN 0 ELSE passes[q]]

\* The platform sends a dispatch, or sends it again after an answer it may retry.  A retry
\* carries the nonce of the first attempt, and comes soon enough for its timestamp to be the same.
Attempt(d) ==
  /\ d \notin waiting /\ tries[d] < MaxAttempts /\ told[d] \intersect Final = {}
  /\ begun[d] \in {Never, now}
  /\ \E flaw \in {"none", "body"} : Send([nonce |-> d, ts |-> now + skew, flaw |-> flaw])
  /\ begun' = [begun EXCEPT ![d] = now]
  /\ tries' = [tries EXCEPT ![d] = @ + 1]
  /\ waiting' = waiting \union {d}
  /\ UNCHANGED <<now, skew, seen, told, running, live, slots>>

\* A request nobody signed with our secret, or that lost its headers or its tail on the way.
Stray(d) ==
  /\ \E flaw \in StrayFlaws :
       Send([nonce |-> d, ts |-> now, flaw |-> flaw])
  /\ UNCHANGED <<now, skew, begun, seen, tries, waiting, told, running, live, slots>>

\* 30 s without an answer.
GiveUpWaiting(d) ==
  /\ d \in waiting
  /\ waiting' = waiting \ {d}
  /\ told' = [told EXCEPT ![d] = @ \union {"timeout"}]
  /\ UNCHANGED <<now, skew, begun, seen, passes, tries, running, live, slots>>

\* The answer reaches the platform if it is waiting for one.
Respond(d, code) ==
  IF d \in waiting
  THEN /\ waiting' = waiting \ {d}
       /\ told' = [told EXCEPT ![d] = @ \union {code}]
  ELSE UNCHANGED <<waiting, told>>

\* A mutant: a nonce is forgotten one tick early, with >= for >.
RememberedBriefly(d) == seen[d] # Never /\ now - seen[d] < NonceTTL

\* SeenBefore: entries older than the TTL go, whatever the request.
Remembered(d) == seen[d] # Never /\ now - seen[d] <= NonceTTL

Record(d) ==
  seen' = [c \in Dispatches |-> IF Remembered(c) THEN seen[c] ELSE IF c = d THEN now ELSE Never]

Drifts(r) == Abs(now - r.ts) > MaxDrift

\* Verify says no.  Only the last check, the nonce's, touches the store.
Refused(r) ==
  \/ /\ r.flaw \in {"headers", "timestamp", "signature"} \/ Drifts(r)
     /\ UNCHANGED seen
  \/ /\ r.flaw \notin {"headers", "timestamp", "signature"} /\ ~Drifts(r)
     /\ Remembered(r.nonce)
     /\ Record(r.nonce)

Passed(r) ==
  /\ r.flaw \notin {"headers", "timestamp", "signature"}
  /\ ~Drifts(r) /\ ~Remembered(r.nonce)
  /\ Record(r.nonce)
  /\ passes' = [passes EXCEPT ![r] = @ + 1]

\* A body beyond the limit is turned away before it is verified.
Oversized(r) ==
  /\ r \in DOMAIN passes /\ r.flaw = "size"
  /\ Respond(r.nonce, "invalid_request")
  /\ UNCHANGED <<now, skew, begun, seen, passes, tries, running, live, slots>>

\* A 401, whatever Verify's reason.  A stray request's sender is not the platform.
Unauthenticated(r) ==
  /\ r \in DOMAIN passes /\ r.flaw # "size"
  /\ Refused(r)
  /\ IF r.flaw = "none" \/ r.flaw = "body" THEN Respond(r.nonce, "unauthenticated")
     ELSE UNCHANGED <<waiting, told>>
  /\ UNCHANGED <<now, skew, begun, passes, tries, running, live, slots>>

\* A 400: the body does not decode, or a field is missing.  Its nonce stays recorded.
Undecodable(r) ==
  /\ r \in DOMAIN passes /\ r.flaw = "body"
  /\ Passed(r)
  /\ Respond(r.nonce, "invalid_request")
  /\ UNCHANGED <<now, skew, begun, tries, running, live, slots>>

\* admit: a slot the session already has is as good as a free one; calls that ring already
\* are not gated.
Admitted(d) ==
  \/ d \notin Gated /\ UNCHANGED slots
  \/ d \in Gated /\ (d \in slots \/ Cardinality(slots) < MaxCalls) /\ slots' = slots \union {d}

AtCapacity(r) ==
  LET d == r.nonce IN
  /\ r \in DOMAIN passes /\ r.flaw = "none"
  /\ d \in Gated \ slots /\ Cardinality(slots) >= MaxCalls
  /\ Passed(r)
  /\ Respond(d, "at_capacity")
  /\ UNCHANGED <<now, skew, begun, tries, running, live, slots>>

\* The dispatcher is asked.
Enter(r) ==
  LET d == r.nonce IN
  /\ r \in DOMAIN passes /\ r.flaw = "none"
  /\ Passed(r) /\ Admitted(d)
  /\ running' = [running EXCEPT ![d] = @ + 1]
  /\ UNCHANGED <<now, skew, begun, tries, waiting, told, live>>

DispatchOK(d) ==
  /\ running[d] > 0
  /\ running' = [running EXCEPT ![d] = @ - 1]
  /\ live' = live \union {d}
  /\ Respond(d, "ok")
  /\ UNCHANGED <<now, skew, begun, seen, passes, tries, slots>>

\* The dispatcher fails: the slot goes back, by handleWebrtc or by the phone dispatcher.
DispatchFails(d) ==
  /\ running[d] > 0
  /\ running' = [running EXCEPT ![d] = @ - 1]
  /\ slots' = slots \ {d}
  /\ \E code \in {"internal_error", "provider_credentials_invalid"} : Respond(d, code)
  /\ UNCHANGED <<now, skew, begun, seen, passes, tries, live>>

CallOver(d) ==
  /\ d \in live
  /\ live' = live \ {d}
  /\ slots' = slots \ {d}
  /\ UNCHANGED <<now, skew, begun, seen, passes, tries, waiting, told, running>>

-----------------------------------------------------------------------------
DoorTypeOK ==
  /\ now \in 0 .. MaxTime /\ skew \in Skews
  /\ begun \in [Dispatches -> 0 .. MaxTime \union {Never}]
  /\ seen \in [Dispatches -> 0 .. MaxTime \union {Never}]
  /\ \A r \in DOMAIN passes : r \in Requests /\ passes[r] \in Nat
  /\ tries \in [Dispatches -> 0 .. MaxAttempts]
  /\ waiting \subseteq Dispatches
  /\ \A d \in Dispatches : told[d] \subseteq Retryable \union Final
  /\ running \in [Dispatches -> Nat]
  /\ live \subseteq Dispatches /\ slots \subseteq Dispatches

\* hmac.go: a signed request is let in once and never again, however often it is delivered:
\* while its timestamp is near enough to our clock, on either side, its nonce is remembered.
LetInOnce == \A r \in DOMAIN passes : passes[r] <= 1
=============================================================================
