------------------------------- MODULE Metrics -------------------------------
(***************************************************************************)
(* The capacity registry (pkg/rexa/metrics.go): every in-flight call, the  *)
(* admission decision, and the answer-rate estimate behind it.  Each       *)
(* operation runs under one mutex and is one action; `Next` lets any caller*)
(* use them in any order, so what is shown here holds whatever the rest of *)
(* the agent does.  CallCapacity composes it with the life of a call.      *)
(***************************************************************************)
EXTENDS LatencyGates

CONSTANTS CallId,          \* the ids a call may be tracked under
          MaxGPUCalls,     \* pipeline ceiling, 0 = unlimited
          MaxTotalCalls,   \* in-flight ceiling, 0 = unlimited
          PinnedWeight,    \* humanWeight in percent, 0 = measured
          MinHumanWeight,  \* floor of the measured weight, in percent
          SafetyFactor,    \* weightSafetyFactor
          OutcomeWindow,   \* outcomeWindowSize
          OutcomeMin,      \* outcomes needed before the rate is trusted
          ReservationTTL,  \* reservationTTL, in ticks of the reaper
          CallBound        \* bound of totalCalls, for model checking

ASSUME MetricsAssumption ==
  /\ IsFiniteSet(CallId)
  /\ MaxGPUCalls \in Nat  /\ MaxTotalCalls \in Nat
  /\ PinnedWeight \in 0..100
  /\ MinHumanWeight \in 1..100
  /\ SafetyFactor \in Nat \ {0}
  /\ OutcomeWindow \in Nat \ {0}  /\ OutcomeMin \in Nat \ {0}
  /\ ReservationTTL \in Nat
  /\ CallBound \in Nat

VARIABLES state,       \* [CallId -> its state, or "none" when not in the map]
          age,         \* [CallId -> ticks since dispatchedAt, TTL + 1 = older]
          outcomes,    \* window of resolutions, TRUE = became a pipeline
          totalCalls,
          totalReaped,
          \* history: not in the code
          tracked,     \* the ids whose slot came from Track, not from admission
          machine      \* the ids whose slot has ever been voicemail

callVars  == <<state, age, tracked, machine>>
totalVars == <<outcomes, totalCalls, totalReaped>>
metricsVars == <<callVars, totalVars>>
vars == <<gateVars, metricsVars>>

CallState == {"none", "reserved", "on_gpu", "voicemail"}

Live == {id \in CallId : state[id] # "none"}
InState(s) == {id \in CallId : state[id] = s}

-----------------------------------------------------------------------------
(* The charge per reservation is WeightNum / WeightDen of a slot. *)
PipelineOutcomes == Cardinality({i \in DOMAIN outcomes : outcomes[i]})
Measured == PinnedWeight = 0 /\ Len(outcomes) >= OutcomeMin

WeightDen == IF Measured THEN 100 * Len(outcomes) ELSE 100

(* Mutant of WeightNum: the measured rate without its floor. *)
WeightNumNoFloor ==
  IF PinnedWeight > 0 THEN PinnedWeight
  ELSE IF Len(outcomes) < OutcomeMin THEN 100
  ELSE LET w    == PipelineOutcomes * SafetyFactor * 100
           full == 100 * Len(outcomes)
       IN  IF w > full THEN full ELSE w

(* weightLocked: pinned, full until there is history, else a multiple of   *)
(* the recent answer rate, clamped to [MinHumanWeight, 100] percent.       *)
WeightNum ==
  IF PinnedWeight > 0 THEN PinnedWeight
  ELSE IF Len(outcomes) < OutcomeMin THEN 100
  ELSE LET w     == PipelineOutcomes * SafetyFactor * 100
           floor == MinHumanWeight * Len(outcomes)
           full  == 100 * Len(outcomes)
       IN  IF w < floor THEN floor ELSE IF w > full THEN full ELSE w

(* gpuCostLocked >= maxGPUCalls, without the division. *)
GPUFull ==
  /\ MaxGPUCalls > 0
  /\ Cardinality(InState("on_gpu")) * WeightDen
       + Cardinality(InState("reserved")) * WeightNum >= MaxGPUCalls * WeightDen

(* Mutant of TotalFull: voicemail calls are not counted. *)
TotalFullButVoicemail ==
  MaxTotalCalls > 0 /\ Cardinality(Live \ InState("voicemail")) >= MaxTotalCalls

TotalFull == MaxTotalCalls > 0 /\ Cardinality(Live) >= MaxTotalCalls

Accepting == GatesOpen /\ ~TotalFull /\ ~GPUFull

-----------------------------------------------------------------------------
Init ==
  /\ GatesInit
  /\ state = [id \in CallId |-> "none"]
  /\ age = [id \in CallId |-> 0]
  /\ tracked = {} /\ machine = {}
  /\ outcomes = <<>>
  /\ totalCalls = 0 /\ totalReaped = 0

(* A fresh liveCall, with nothing known of it but its dispatch time. *)
Insert(id, bypass) ==
  /\ totalCalls < CallBound
  /\ state' = [state EXCEPT ![id] = "reserved"]
  /\ age' = [age EXCEPT ![id] = 0]
  /\ tracked' = IF bypass THEN tracked \cup {id} ELSE tracked \ {id}
  /\ machine' = machine \ {id}
  /\ totalCalls' = totalCalls + 1
  /\ UNCHANGED <<outcomes, totalReaped>>

(* TryReserve, when it returns TRUE: capacity is asked for first, and only *)
(* then whether the id already holds a slot.                               *)
TryReserve(id) ==
  /\ Accepting
  /\ IF id \in Live THEN UNCHANGED metricsVars ELSE Insert(id, FALSE)
  /\ UNCHANGED gateVars

(* Track: an inbound call is counted, never refused. *)
Track(id) ==
  /\ IF id \in Live THEN UNCHANGED metricsVars ELSE Insert(id, TRUE)
  /\ UNCHANGED gateVars

Moved(S, old, new) ==
  IF old \in S THEN (S \ {old}) \cup {new} ELSE S \ {new}

(* Mutant of Rekey: the old entry is left in the map. *)
RekeyCopies(old, new) ==
  /\ old # new
  /\ IF old \in Live
     THEN /\ state' = [state EXCEPT ![new] = state[old]]
          /\ age' = [age EXCEPT ![new] = age[old]]
          /\ tracked' = IF old \in tracked THEN tracked \cup {new} ELSE tracked
          /\ machine' = IF old \in machine THEN machine \cup {new} ELSE machine
          /\ UNCHANGED totalVars
     ELSE UNCHANGED metricsVars
  /\ UNCHANGED gateVars

(* Rekey: the slot of `old`, if any, becomes the slot of `new`. *)
Rekey(old, new) ==
  /\ old # new
  /\ IF old \in Live
     THEN /\ state' = [state EXCEPT ![old] = "none", ![new] = state[old]]
          /\ age' = [age EXCEPT ![old] = 0, ![new] = age[old]]
          /\ tracked' = Moved(tracked, old, new)
          /\ machine' = Moved(machine, old, new)
          /\ UNCHANGED totalVars
     ELSE UNCHANGED metricsVars
  /\ UNCHANGED gateVars

(* Mutant of MarkOnGPU: an unknown id gets an entry. *)
MarkOnGPUCreating(id) ==
  /\ state' = [state EXCEPT ![id] = "on_gpu"]
  /\ UNCHANGED <<gateVars, age, tracked, machine, totalVars>>

(* MarkOnGPU never creates an entry, and takes any state to on_gpu. *)
MarkOnGPU(id) ==
  /\ state' = IF id \in Live THEN [state EXCEPT ![id] = "on_gpu"] ELSE state
  /\ UNCHANGED <<gateVars, age, tracked, machine, totalVars>>

MarkVoicemail(id) ==
  /\ IF id \in Live
     THEN /\ state' = [state EXCEPT ![id] = "voicemail"]
          /\ machine' = machine \cup {id}
     ELSE UNCHANGED <<state, machine>>
  /\ UNCHANGED <<gateVars, age, tracked, totalVars>>

(* The map entries of S are deleted. *)
Forget(S) ==
  /\ state' = [id \in CallId |-> IF id \in S THEN "none" ELSE state[id]]
  /\ age' = [id \in CallId |-> IF id \in S THEN 0 ELSE age[id]]
  /\ tracked' = tracked \ S
  /\ machine' = machine \ S

(* Mutant of Release: an outcome is recorded for an unknown id too. *)
ReleaseCountingAll(id) ==
  /\ Forget({id})
  /\ outcomes' = Pushed(outcomes, state[id] = "on_gpu", OutcomeWindow)
  /\ UNCHANGED <<gateVars, totalCalls, totalReaped>>

(* Release records whether the call ended as a pipeline; it may be called  *)
(* twice and for ids that were never tracked.                              *)
Release(id) ==
  /\ IF id \in Live
     THEN /\ Forget({id})
          /\ outcomes' = Pushed(outcomes, state[id] = "on_gpu", OutcomeWindow)
          /\ UNCHANGED <<totalCalls, totalReaped>>
     ELSE UNCHANGED metricsVars
  /\ UNCHANGED gateVars

(* Mutant of Overdue: any reservation is taken for stale. *)
OverdueAtAnyAge == InState("reserved")

Overdue == {id \in InState("reserved") : age[id] > ReservationTTL}

(* ReapStale: only reservations, and no outcome is recorded for them. *)
ReapStale ==
  /\ Overdue # {}
  /\ Forget(Overdue)
  /\ totalReaped' = totalReaped + Cardinality(Overdue)
  /\ UNCHANGED <<gateVars, outcomes, totalCalls>>

(* Time passes: one tick of the reaper's clock. *)
Tick ==
  /\ age' = [id \in CallId |->
               IF state[id] = "reserved" /\ age[id] <= ReservationTTL
               THEN age[id] + 1 ELSE age[id]]
  /\ age' # age
  /\ UNCHANGED <<gateVars, state, tracked, machine, totalVars>>

FirstTurn(level) == ObserveFirstTurn([level |-> level]) /\ UNCHANGED metricsVars
LaterTurn(level) == ObserveLaterTurn(level) /\ UNCHANGED metricsVars
Request(t, level) == Observe(t, level) /\ UNCHANGED metricsVars
CooldownTick == CooldownRuns /\ UNCHANGED metricsVars
Drain == SetDraining /\ UNCHANGED metricsVars

Next ==
  \/ \E id \in CallId : \/ TryReserve(id) \/ Track(id)
                        \/ MarkOnGPU(id) \/ MarkVoicemail(id)
                        \/ Release(id)
  \/ \E old, new \in CallId : Rekey(old, new)
  \/ \E level \in Level : FirstTurn(level) \/ LaterTurn(level)
  \/ \E t \in Tier, level \in Level : Request(t, level)
  \/ ReapStale \/ Tick \/ CooldownTick \/ Drain

Spec == Init /\ [][Next]_vars

-----------------------------------------------------------------------------
TypeOK ==
  /\ tiers \in [Tier -> Seq(Level)]
  /\ firstTurn \in Seq([level: Level])
  /\ blockedFor \in 0..Cooldown /\ draining \in BOOLEAN
  /\ state \in [CallId -> CallState]
  /\ age \in [CallId -> 0..(ReservationTTL + 1)]
  /\ tracked \in SUBSET Live /\ machine \in SUBSET Live
  /\ outcomes \in Seq(BOOLEAN) /\ Len(outcomes) <= OutcomeWindow
  /\ totalCalls \in Nat /\ totalReaped \in Nat

(* The absolute ceiling: however calls are re-keyed, reclassified, reaped  *)
(* and released twice, the calls that were admitted (inbound ones are      *)
(* counted but never refused) never outnumber max_total_calls.             *)
TotalCeiling ==
  MaxTotalCalls > 0 => Cardinality(Live \ tracked) <= MaxTotalCalls

(* The least a reservation is ever charged, in percent of a slot. *)
FloorWeight == IF PinnedWeight > 0 THEN PinnedWeight ELSE MinHumanWeight

(* Admitted calls that hold, or may still take, a pipeline: all but those  *)
(* once reclassified as voicemail.                                         *)
Charged == Live \ (tracked \cup machine)

(* Over-subscription is bounded: whatever the measured answer rate does    *)
(* between one admission and the next, the admitted calls that can still   *)
(* become pipelines stay below ceiling / floor weight + 1.  The bound that  *)
(* weightLocked claims for its floor.                                      *)
OvershootBounded ==
  MaxGPUCalls > 0 =>
    Cardinality(Charged) * FloorWeight < MaxGPUCalls * 100 + FloorWeight
=============================================================================
