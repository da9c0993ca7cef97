---------------------------- MODULE Backpressure ----------------------------
(***************************************************************************)
(* The feedback loop that the latency gates close (pkg/rexa/metrics.go):   *)
(* calls are admitted while the gates are open, their turns are the only   *)
(* samples, and the samples decide whether the next call is admitted.      *)
(* A call's id may come back for another call once it has ended; the calls *)
(* nothing can refuse, inbound ones and demo sessions, feed the same       *)
(* windows.                                                                *)
(***************************************************************************)
EXTENDS LatencyGates

CONSTANTS Dispatched, Unrefused

Call == Dispatched \cup Unrefused

VARIABLES inflight,  \* the calls in progress
          spoke      \* those whose first turn has been measured

loopVars == <<gateVars, inflight, spoke>>

LoopInit ==
  /\ GatesInit
  /\ inflight = {} /\ spoke = {}

(* acceptingLocked, as far as latency goes, then a new call. *)
Admit(c) ==
  /\ GatesOpen
  /\ c \in Dispatched \ inflight
  /\ inflight' = inflight \cup {c}
  /\ UNCHANGED <<gateVars, spoke>>

(* DispatchIncoming, or a demo session: no gate is asked. *)
Arrive(c) ==
  /\ c \in Unrefused \ inflight
  /\ inflight' = inflight \cup {c}
  /\ UNCHANGED <<gateVars, spoke>>

(* The first turn of a call reaches ObserveLLMTurn, gate open or shut. *)
FirstTurn(c, level) ==
  /\ c \in inflight \ spoke
  /\ ObserveFirstTurn([level |-> level])
  /\ spoke' = spoke \cup {c}
  /\ UNCHANGED inflight

LaterTurn(c, level) ==
  /\ c \in spoke
  /\ ObserveLaterTurn(level)
  /\ UNCHANGED <<inflight, spoke>>

(* A live call asks the ASR or the TTS for something. *)
Request(t, level) ==
  /\ inflight # {}
  /\ t # LLM
  /\ Observe(t, level)
  /\ UNCHANGED <<inflight, spoke>>

End(c) ==
  /\ c \in inflight
  /\ inflight' = inflight \ {c}
  /\ spoke' = spoke \ {c}
  /\ UNCHANGED gateVars

CooldownTick == CooldownRuns /\ UNCHANGED <<inflight, spoke>>
Drain == SetDraining /\ UNCHANGED <<inflight, spoke>>

-----------------------------------------------------------------------------
LoopTypeOK ==
  /\ tiers \in [Tier -> Seq(Level)]
  /\ \A t \in Tier : Len(tiers[t]) <= TierWindow
  /\ firstTurn \in Seq([level: Level])
  /\ Len(firstTurn) <= FirstTurnWindow
  /\ blockedFor \in 0..Cooldown /\ draining \in BOOLEAN
  /\ inflight \in SUBSET Call
  /\ spoke \in SUBSET inflight

(* The first-turn gate is a duty cycle and not a latch: an agent that      *)
(* refuses calls comes back to taking them, however often the calls already*)
(* in progress trip the gate again while it is shut, each time for a whole *)
(* cooldown.  Two exceptions are declared: unrefused calls that never cease*)
(* may keep it shut, and once the last call is over a saturated tier does  *)
(* (AcceptanceResumes claims that it does not).                            *)
StaleTier == inflight = {} /\ \E t \in Tier : TierSaturated(t)

RefusalsEnd ==
  <>[](inflight \cap Unrefused = {}) =>
    (~GatesOpen /\ ~draining ~> GatesOpen \/ draining \/ StaleTier)

(* Refusing calls lowers load, which lowers the p95, which resumes         *)
(* acceptance: an agent that is not draining always comes back to taking   *)
(* calls.  Accepting's comment says it of the tiers, Cooldown's comment of *)
(* the first-turn gate ("a duty cycle rather than a latch").               *)
AcceptanceResumes == ~GatesOpen /\ ~draining ~> GatesOpen \/ draining
=============================================================================
