------------------------------ MODULE Callbacks ------------------------------
(***************************************************************************)
(* pkg/rexa/callback.go under its users: a report climbs the retry ladder  *)
(* in a goroutine of its own, with no deadline.  A sentiment alert         *)
(* (sentiment_watch.go, pkg/sentiment) is classified, observed by the      *)
(* call's tracker and posted by one goroutine per caller turn, under one   *)
(* deadline for all three.                                                 *)
(***************************************************************************)
EXTENDS Integers, Sequences, FiniteSets

CONSTANTS
  Reports,         \* end-of-call, transfer and recording callbacks
  Turns,           \* the caller turns that are classified
  Verdicts,        \* wants_human, highly_interested, user_annoyed
  Silent,          \* the classifier's "none", its answer to everything else and every failure
  ReportLadder,    \* RetrySchedule, in seconds
  AlertLadder,     \* SentimentRetrySchedule, in seconds
  AlertBudget,     \* the deadline of classifyTurn, in seconds
  SlowestVerdict   \* the classifier's timeout, in seconds

ASSUME CallbacksAssumption ==
  /\ Reports \intersect Turns = {}
  /\ Silent \notin Verdicts
  /\ ReportLadder \in Seq(Nat) /\ AlertLadder \in Seq(Nat)
  /\ AlertBudget \in Nat /\ SlowestVerdict \in 0 .. AlertBudget

VARIABLES
  post,       \* per callback, how far it has come
  attempts,   \* per callback, the attempts made
  left,       \* per turn, the seconds until its deadline
  current,    \* the call's sentiment.Tracker
  onCall      \* the call is in the registry

callbackVars == <<post, attempts, left, current, onCall>>

Callbacks == Reports \union Turns
Ladder(c) == IF c \in Turns THEN AlertLadder ELSE ReportLadder
Over == {"quiet", "delivered", "rejected", "exhausted", "abandoned"}

CallbacksInit ==
  /\ post = [c \in Callbacks |-> "idle"]
  /\ attempts = [c \in Callbacks |-> 0]
  /\ left = [t \in Turns |-> AlertBudget]
  /\ current = Silent
  /\ onCall = TRUE

Report(r) ==
  /\ post[r] = "idle"
  /\ post' = [post EXCEPT ![r] = "trying"]
  /\ UNCHANGED <<attempts, left, current, onCall>>

\* The chat observer hands a caller turn to a goroutine of its own.
HearTurn(t) ==
  /\ onCall /\ post[t] = "idle"
  /\ post' = [post EXCEPT ![t] = "classifying"]
  /\ UNCHANGED <<attempts, left, current, onCall>>

CallEnds ==
  /\ onCall /\ onCall' = FALSE
  /\ UNCHANGED <<post, attempts, left, current>>

\* Tracker.Observe.
IsNews(v) == v # Silent /\ v # current

\* Classify and parseVerdict: one of the verdicts or, for anything else and any failure, none.
SomeVerdict == Verdicts \union {Silent}

\* Classify and, under the registry's lock, observeSentiment.  The verdict takes its time, and
\* the deadline of the post runs meanwhile.
Observe(t) ==
  /\ post[t] = "classifying"
  /\ \E v \in SomeVerdict, secs \in 0 .. SlowestVerdict :
       /\ left' = [left EXCEPT ![t] = @ - secs]
       /\ \/ /\ onCall /\ IsNews(v)
             /\ current' = v
             /\ post' = [post EXCEPT ![t] = "trying"]
          \/ /\ ~(onCall /\ IsNews(v))
             /\ post' = [post EXCEPT ![t] = "quiet"]
             /\ UNCHANGED current
  /\ UNCHANGED <<attempts, onCall>>

\* postWithSchedule gives up after an attempt beyond the last delay.
LadderEnds(c) == attempts[c] + 1 > Len(Ladder(c))

\* postOnce and what its answer means: accepted; refused for good (4xx); or no answer, or a 5xx,
\* whether or not the platform has processed the request.
Answered(c) ==
  \/ post' = [post EXCEPT ![c] = "delivered"]
  \/ post' = [post EXCEPT ![c] = "rejected"]
  \/ post' = [post EXCEPT ![c] = IF LadderEnds(c) THEN "exhausted" ELSE "waiting"]

\* An attempt within its time.
Try(c) ==
  /\ post[c] = "trying"
  /\ attempts' = [attempts EXCEPT ![c] = @ + 1]
  /\ Answered(c)
  /\ UNCHANGED <<left, current, onCall>>

\* The sleep between two attempts of a report, which nothing cuts short.
BackOff(r) ==
  /\ r \in Reports /\ post[r] = "waiting"
  /\ post' = [post EXCEPT ![r] = "trying"]
  /\ UNCHANGED <<attempts, left, current, onCall>>

\* A mutant: the sleep does not look at the deadline.
BackOffBlindly(t) ==
  /\ t \in Turns /\ post[t] = "waiting"
  /\ left' = [left EXCEPT ![t] = @ - AlertLadder[attempts[t]]]
  /\ post' = [post EXCEPT ![t] = "trying"]
  /\ UNCHANGED <<attempts, current, onCall>>

\* The sleep of an alert: the delay passes, or the deadline does (at the same moment, either).
BackOffUntil(t) ==
  LET delay == AlertLadder[attempts[t]] IN
  /\ t \in Turns /\ post[t] = "waiting"
  /\ \/ /\ left[t] >= delay
        /\ left' = [left EXCEPT ![t] = @ - delay]
        /\ post' = [post EXCEPT ![t] = "trying"]
     \/ /\ left[t] <= delay
        /\ post' = [post EXCEPT ![t] = "abandoned"]
        /\ UNCHANGED left
  /\ UNCHANGED <<attempts, current, onCall>>

-----------------------------------------------------------------------------
CallbacksTypeOK ==
  /\ post \in [Callbacks -> Over \union {"idle", "classifying", "trying", "waiting"}]
  /\ attempts \in [Callbacks -> Nat]
  /\ left \in [Turns -> 0 .. AlertBudget]
  /\ current \in Verdicts \union {Silent}
  /\ onCall \in BOOLEAN

=============================================================================
