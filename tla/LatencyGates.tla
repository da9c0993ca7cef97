---------------------------- MODULE LatencyGates ----------------------------
(***************************************************************************)
(* The latency side of admission (pkg/rexa/metrics.go): the per-tier p95   *)
(* windows, the first-turn gate with its cooldown, and the draining flag.  *)
(* A sample is reduced to what the decisions tell apart: its level against *)
(* the configured thresholds, and for a first turn the call it came from.  *)
(***************************************************************************)
EXTENDS Integers, Sequences, FiniteSets

CONSTANTS Tier,             \* the downstream services: LLM, ASR, TTS
          LLM,              \* the tier fed by time to first token
          TierWindow,       \* latencyWindowSize
          TierMinSamples,   \* minSamplesForState
          FirstTurnWindow,  \* firstTurnWindowSize
          FirstTurnMin,     \* firstTurnMinSamples
          Cooldown          \* FirstTurnThresholds.Cooldown, in ticks

ASSUME GatesAssumption ==
  /\ LLM \in Tier
  /\ TierWindow \in Nat \ {0}       /\ TierMinSamples \in Nat \ {0}
  /\ FirstTurnWindow \in Nat \ {0}  /\ FirstTurnMin \in Nat \ {0}
  /\ Cooldown \in Nat \ {0}

VARIABLES tiers,      \* [Tier -> window of levels]
          firstTurn,  \* window of first turns, one sample per call
          blockedFor, \* ticks until firstTurnBlockUntil, 0 when it has passed
          draining

gateVars == <<tiers, firstTurn, blockedFor, draining>>

(* A first token may be under SaturatedMs, over it, or over CriticalMs.    *)
Level == {"fine", "slow", "critical"}

(* Mutant of Pushed: the ring never wraps. *)
PushedUnbounded(w, x, size) == Append(w, x)

(* The ring of the last `size` samples, oldest first. *)
Pushed(w, x, size) ==
  IF Len(w) < size THEN Append(w, x) ELSE Append(Tail(w), x)

(* p95 >= SaturatedMs: the sample of rank (filled * 95) / 100, counted from *)
(* zero in ascending order, is not below the threshold.                     *)
Saturated(w, minSamples, IsFine(_)) ==
  /\ Len(w) >= minSamples
  /\ Cardinality({i \in DOMAIN w : IsFine(w[i])}) <= (Len(w) * 95) \div 100

TierSaturated(t) ==
  Saturated(tiers[t], TierMinSamples, LAMBDA s : s = "fine")

FirstTurnSaturated(w) ==
  Saturated(w, FirstTurnMin, LAMBDA s : s.level = "fine")

GatesOpen ==
  /\ ~draining
  /\ blockedFor = 0
  /\ \A t \in Tier : ~TierSaturated(t)

GatesInit ==
  /\ tiers = [t \in Tier |-> <<>>]
  /\ firstTurn = <<>>
  /\ blockedFor = 0
  /\ draining = FALSE

-----------------------------------------------------------------------------
(* Tripper: one downstream request of tier t was timed. *)
Observe(t, level) ==
  /\ tiers' = [tiers EXCEPT ![t] = Pushed(@, level, TierWindow)]
  /\ UNCHANGED <<firstTurn, blockedFor, draining>>

(* ObserveLLMTurn with turn > 1 only feeds the LLM tier. *)
ObserveLaterTurn(level) == Observe(LLM, level)

(* What trips the gate: one critical sample, or a saturated p95. *)
Trips(sample) ==
  \/ sample.level = "critical"
  \/ FirstTurnSaturated(Pushed(firstTurn, sample, FirstTurnWindow))

(* ObserveLLMTurn with turn = 1: a trip shuts the gate for a whole         *)
(* cooldown, whatever is left of an earlier one, and empties the window.   *)
ObserveFirstTurn(sample) ==
  /\ tiers' = [tiers EXCEPT ![LLM] = Pushed(@, sample.level, TierWindow)]
  /\ \/ /\ Trips(sample)
        /\ firstTurn' = <<>>
        /\ blockedFor' = Cooldown
     \/ /\ ~Trips(sample)
        /\ firstTurn' = Pushed(firstTurn, sample, FirstTurnWindow)
        /\ UNCHANGED blockedFor
  /\ UNCHANGED draining

(* Mutant of CooldownRuns: the gate waits for a healthy first turn, a latch. *)
CooldownRunsOnceMeasured ==
  /\ blockedFor > 0 /\ firstTurn # <<>>
  /\ blockedFor' = blockedFor - 1
  /\ UNCHANGED <<tiers, firstTurn, draining>>

(* The clock moves towards firstTurnBlockUntil. *)
CooldownRuns ==
  /\ blockedFor > 0
  /\ blockedFor' = blockedFor - 1
  /\ UNCHANGED <<tiers, firstTurn, draining>>

(* Server.Drain, on shutdown only: nothing ever clears the flag. *)
SetDraining ==
  /\ ~draining
  /\ draining' = TRUE
  /\ UNCHANGED <<tiers, firstTurn, blockedFor>>
=============================================================================
