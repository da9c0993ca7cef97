--------------------------- MODULE Metrics_proofs ---------------------------
(***************************************************************************)
(* For every set of ids, every ceiling, weight and window: the registry's  *)
(* types, its absolute ceiling and the bound on over-subscription.         *)
(***************************************************************************)
EXTENDS Metrics, FiniteSetTheorems, SequenceTheorems, TLAPS

(* A window pushed to stays a window, and never outgrows its size. *)
LEMMA PushedType ==
  ASSUME NEW S, NEW w \in Seq(S), NEW x \in S, NEW size \in Nat \ {0}
  PROVE  /\ Pushed(w, x, size) \in Seq(S)
         /\ Len(w) <= size => Len(Pushed(w, x, size)) <= size
<1>1. CASE Len(w) < size
  BY <1>1 DEF Pushed
<1>2. CASE ~(Len(w) < size)
  <2>1. w # <<>> /\ Tail(w) \in Seq(S) /\ Len(Tail(w)) = Len(w) - 1
    BY <1>2
  <2>2. QED BY <1>2, <2>1 DEF Pushed
<1>3. QED BY <1>1, <1>2

-----------------------------------------------------------------------------
LEMMA InitTypeOK == Init => TypeOK
<1> SUFFICES ASSUME Init PROVE TypeOK
  OBVIOUS
<1>1. ReservationTTL \in Nat /\ OutcomeWindow \in Nat
  BY MetricsAssumption
<1>2. /\ tiers \in [Tier -> Seq(Level)] /\ firstTurn \in Seq([level: Level])
      /\ blockedFor \in 0..Cooldown /\ draining \in BOOLEAN
  <2>1. <<>> \in Seq(Level) /\ <<>> \in Seq([level: Level])
    OBVIOUS
  <2>2. tiers = [t \in Tier |-> <<>>] /\ firstTurn = <<>> /\ ~draining
        /\ draining \in BOOLEAN
    BY DEF Init, GatesInit
  <2>3. blockedFor \in 0..Cooldown
    BY GatesAssumption DEF Init, GatesInit
  <2>4. QED BY <2>1, <2>2, <2>3
<1>3. /\ state \in [CallId -> CallState]
      /\ age \in [CallId -> 0..(ReservationTTL + 1)]
  BY <1>1 DEF Init, CallState
<1>4. /\ outcomes \in Seq(BOOLEAN) /\ Len(outcomes) <= OutcomeWindow
      /\ totalCalls \in Nat /\ totalReaped \in Nat
  BY <1>1 DEF Init
<1>5. tracked \in SUBSET Live /\ machine \in SUBSET Live
  BY DEF Init
<1>6. QED BY <1>2, <1>3, <1>4, <1>5 DEF TypeOK

(* The gates keep their types whatever is observed. *)
LEMMA GateTypes ==
  ASSUME TypeOK
  PROVE  /\ \A t \in Tier, level \in Level : Observe(t, level) =>
              /\ tiers' \in [Tier -> Seq(Level)]
              /\ UNCHANGED <<firstTurn, blockedFor, draining>>
         /\ \A level \in Level : ObserveFirstTurn([level |-> level]) =>
              /\ tiers' \in [Tier -> Seq(Level)]
              /\ firstTurn' \in Seq([level: Level])
              /\ blockedFor' \in 0..Cooldown /\ UNCHANGED draining
<1>1. ASSUME NEW t \in Tier, NEW level \in Level
      PROVE  [tiers EXCEPT ![t] = Pushed(@, level, TierWindow)] \in [Tier -> Seq(Level)]
  BY PushedType, GatesAssumption DEF TypeOK
<1>2. ASSUME NEW t \in Tier, NEW level \in Level, Observe(t, level)
      PROVE  /\ tiers' \in [Tier -> Seq(Level)]
             /\ UNCHANGED <<firstTurn, blockedFor, draining>>
  BY <1>1, <1>2 DEF Observe
<1>3. ASSUME NEW level \in Level, ObserveFirstTurn([level |-> level])
      PROVE  /\ tiers' \in [Tier -> Seq(Level)]
             /\ firstTurn' \in Seq([level: Level])
             /\ blockedFor' \in 0..Cooldown /\ UNCHANGED draining
  <2> DEFINE s == [level |-> level]
  <2>1. s \in [level: Level]
    OBVIOUS
  <2>2. Pushed(firstTurn, s, FirstTurnWindow) \in Seq([level: Level])
    BY <2>1, PushedType, GatesAssumption DEF TypeOK
  <2>3. tiers' \in [Tier -> Seq(Level)]
    BY <1>1, <1>3, GatesAssumption DEF ObserveFirstTurn
  <2>4. \/ firstTurn' = <<>> /\ blockedFor' = Cooldown
        \/ firstTurn' = Pushed(firstTurn, s, FirstTurnWindow) /\ blockedFor' = blockedFor
    BY <1>3 DEF ObserveFirstTurn
  <2>5. firstTurn' \in Seq([level: Level])
    <3>1. <<>> \in Seq([level: Level])
      OBVIOUS
    <3>2. QED BY <2>2, <2>4, <3>1
  <2>6. blockedFor' \in 0..Cooldown
    BY <2>4, GatesAssumption DEF TypeOK
  <2>7. UNCHANGED draining
    BY <1>3 DEF ObserveFirstTurn
  <2>8. QED BY <2>3, <2>5, <2>6, <2>7
<1>4. QED BY <1>2, <1>3

-----------------------------------------------------------------------------
(* The part of TypeOK about the registry itself. *)
RegistryTypeOK ==
  /\ state \in [CallId -> CallState]
  /\ age \in [CallId -> 0..(ReservationTTL + 1)]
  /\ tracked \in SUBSET Live /\ machine \in SUBSET Live
  /\ outcomes \in Seq(BOOLEAN) /\ Len(outcomes) <= OutcomeWindow
  /\ totalCalls \in Nat /\ totalReaped \in Nat

LEMMA InsertTypes ==
  ASSUME RegistryTypeOK, NEW id \in CallId, NEW bypass \in BOOLEAN,
         Insert(id, bypass)
  PROVE  RegistryTypeOK' /\ Live' = Live \cup {id}
<1>1. state' \in [CallId -> CallState] /\ Live' = Live \cup {id}
  BY DEF RegistryTypeOK, Insert, Live, CallState
<1>2. age' \in [CallId -> 0..(ReservationTTL + 1)]
  BY MetricsAssumption DEF RegistryTypeOK, Insert
<1>3. tracked' \in SUBSET Live' /\ machine' \in SUBSET Live'
  BY <1>1 DEF RegistryTypeOK, Insert
<1>4. QED BY <1>1, <1>2, <1>3 DEF RegistryTypeOK, Insert

LEMMA RekeyTypes ==
  ASSUME RegistryTypeOK, NEW old \in CallId, NEW new \in CallId,
         Rekey(old, new), old \in Live
  PROVE  /\ RegistryTypeOK'
         /\ Live' = (Live \ {old}) \cup {new}
<1>1. /\ state' \in [CallId -> CallState]
      /\ Live' = (Live \ {old}) \cup {new}
  BY DEF RegistryTypeOK, Rekey, Live, CallState
<1>2. age' \in [CallId -> 0..(ReservationTTL + 1)]
  BY MetricsAssumption DEF RegistryTypeOK, Rekey
<1>3. tracked' \in SUBSET Live' /\ machine' \in SUBSET Live'
  BY <1>1 DEF RegistryTypeOK, Rekey, Moved
<1>4. QED BY <1>1, <1>2, <1>3 DEF RegistryTypeOK, Rekey, totalVars

LEMMA ForgetTypes ==
  ASSUME RegistryTypeOK, NEW S \in SUBSET CallId, Forget(S)
  PROVE  /\ state' \in [CallId -> CallState]
         /\ age' \in [CallId -> 0..(ReservationTTL + 1)]
         /\ Live' = Live \ S
         /\ tracked' \in SUBSET Live' /\ machine' \in SUBSET Live'
<1>1. state' \in [CallId -> CallState] /\ Live' = Live \ S
  BY DEF RegistryTypeOK, Forget, Live, CallState
<1>2. age' \in [CallId -> 0..(ReservationTTL + 1)]
  BY MetricsAssumption DEF RegistryTypeOK, Forget
<1>3. QED BY <1>1, <1>2 DEF RegistryTypeOK, Forget

LEMMA ReleaseTypes ==
  ASSUME RegistryTypeOK, NEW id \in CallId, Release(id), id \in Live
  PROVE  RegistryTypeOK' /\ Live' = Live \ {id}
<1>1. Forget({id}) /\ UNCHANGED <<totalCalls, totalReaped>>
  BY DEF Release
<1>2. outcomes' = Pushed(outcomes, state[id] = "on_gpu", OutcomeWindow)
  BY DEF Release
<1>3. outcomes' \in Seq(BOOLEAN) /\ Len(outcomes') <= OutcomeWindow
  <2>1. (state[id] = "on_gpu") \in BOOLEAN
    OBVIOUS
  <2>2. outcomes \in Seq(BOOLEAN) /\ Len(outcomes) <= OutcomeWindow
        /\ OutcomeWindow \in Nat \ {0}
    BY MetricsAssumption DEF RegistryTypeOK
  <2>3. QED BY <1>2, <2>1, <2>2, PushedType
<1>4. QED BY <1>1, <1>3, ForgetTypes DEF RegistryTypeOK

LEMMA ReapTypes ==
  ASSUME RegistryTypeOK, ReapStale
  PROVE  RegistryTypeOK' /\ Live' = Live \ Overdue
<1>1. Overdue \in SUBSET CallId
  BY DEF Overdue, InState
<1>2. Cardinality(Overdue) \in Nat
  BY <1>1, FS_Subset, FS_CardinalityType, MetricsAssumption
<1>3. Forget(Overdue)
  BY DEF ReapStale
<1>4. QED BY <1>1, <1>2, <1>3, ForgetTypes DEF RegistryTypeOK, ReapStale

-----------------------------------------------------------------------------
(* Admitted calls: the ones the absolute ceiling is about. *)
Counted == Live \ tracked

(* How a step may change a set of slots: it shrinks, one slot moves to      *)
(* another id, or one is added while the registry is accepting.            *)
SlotsStep(A, B) ==
  \/ B \subseteq A
  \/ \E old \in A, new \in CallId : B \subseteq (A \ {old}) \cup {new}
  \/ Accepting /\ \E id \in CallId : B \subseteq A \cup {id}

LEMMA SlotsStepSize ==
  ASSUME NEW A, NEW B, IsFiniteSet(A), SlotsStep(A, B)
  PROVE  /\ IsFiniteSet(B)
         /\ Cardinality(A) \in Nat /\ Cardinality(B) \in Nat
         /\ \/ Cardinality(B) <= Cardinality(A)
            \/ Accepting /\ Cardinality(B) <= Cardinality(A) + 1
<1>1. CASE B \subseteq A
  BY <1>1, FS_Subset, FS_CardinalityType
<1>2. ASSUME NEW old \in A, NEW new \in CallId, B \subseteq (A \ {old}) \cup {new}
      PROVE  IsFiniteSet(B) /\ Cardinality(B) <= Cardinality(A)
  <2>1. IsFiniteSet(A \ {old}) /\ Cardinality(A \ {old}) = Cardinality(A) - 1
    BY FS_RemoveElement
  <2>2. /\ IsFiniteSet((A \ {old}) \cup {new})
        /\ Cardinality((A \ {old}) \cup {new}) \in {Cardinality(A) - 1, Cardinality(A)}
    <3> DEFINE R == A \ {old}
    <3>1. IsFiniteSet(R) /\ Cardinality(R) = Cardinality(A) - 1
      BY <2>1
    <3>2. Cardinality(A) \in Nat
      BY FS_CardinalityType
    <3>3. IsFiniteSet(R \cup {new})
          /\ Cardinality(R \cup {new}) \in {Cardinality(R), Cardinality(R) + 1}
      BY <3>1, FS_AddElement
    <3>4. QED BY <3>1, <3>2, <3>3
  <2>3. QED BY <1>2, <2>2, FS_Subset, FS_CardinalityType
<1>3. ASSUME NEW id \in CallId, B \subseteq A \cup {id}
      PROVE  IsFiniteSet(B) /\ Cardinality(B) <= Cardinality(A) + 1
  <2>1. /\ IsFiniteSet(A \cup {id})
        /\ Cardinality(A \cup {id}) \in {Cardinality(A), Cardinality(A) + 1}
    BY FS_AddElement
  <2>2. QED BY <1>3, <2>1, FS_Subset, FS_CardinalityType
<1>4. QED BY <1>1, <1>2, <1>3, FS_CardinalityType DEF SlotsStep

(* One step of the registry: types are kept, a voicemail stays marked, and  *)
(* both sets of slots change only as SlotsStep allows.                      *)
VoicemailMarked == InState("voicemail") \subseteq machine

StepEffect ==
  /\ RegistryTypeOK' /\ VoicemailMarked'
  /\ SlotsStep(Counted, Counted')
  /\ SlotsStep(Charged, Charged')

LEMMA NoEffect ==
  ASSUME RegistryTypeOK, VoicemailMarked, UNCHANGED metricsVars
  PROVE  StepEffect
BY DEF StepEffect, RegistryTypeOK, VoicemailMarked, SlotsStep, Counted, Charged,
       Live, InState, metricsVars, callVars, totalVars

LEMMA InsertEffect ==
  ASSUME RegistryTypeOK, VoicemailMarked, NEW id \in CallId \ Live,
         NEW bypass \in BOOLEAN, bypass \/ Accepting, Insert(id, bypass)
  PROVE  StepEffect
<1>1. RegistryTypeOK' /\ Live' = Live \cup {id}
  BY InsertTypes
<1>2. /\ state' = [state EXCEPT ![id] = "reserved"]
      /\ tracked' = IF bypass THEN tracked \cup {id} ELSE tracked \ {id}
      /\ machine' = machine \ {id}
  BY DEF Insert
<1>3. tracked \subseteq Live /\ machine \subseteq Live
  BY DEF RegistryTypeOK
<1>4. VoicemailMarked'
  BY <1>2 DEF VoicemailMarked, InState, RegistryTypeOK
<1>5. CASE bypass
  <2>1. Counted' \subseteq Counted /\ Charged' \subseteq Charged
    BY <1>1, <1>2, <1>3, <1>5 DEF Counted, Charged
  <2>2. QED BY <1>1, <1>4, <2>1 DEF StepEffect, SlotsStep
<1>6. CASE ~bypass
  <2>1. Counted' \subseteq Counted \cup {id} /\ Charged' \subseteq Charged \cup {id}
    BY <1>1, <1>2, <1>3, <1>6 DEF Counted, Charged
  <2>2. QED BY <1>1, <1>4, <1>6, <2>1 DEF StepEffect, SlotsStep
<1>7. QED BY <1>5, <1>6

LEMMA RekeyEffect ==
  ASSUME RegistryTypeOK, VoicemailMarked, NEW old \in Live, NEW new \in CallId,
         Rekey(old, new)
  PROVE  StepEffect
<1>0. old \in CallId /\ old # new
  BY DEF Live, Rekey
<1>1. RegistryTypeOK' /\ Live' = (Live \ {old}) \cup {new}
  BY <1>0, RekeyTypes
<1>2. /\ tracked' = Moved(tracked, old, new) /\ machine' = Moved(machine, old, new)
      /\ state' = [state EXCEPT ![old] = "none", ![new] = state[old]]
  BY DEF Rekey
<1>3. VoicemailMarked'
  BY <1>0, <1>2 DEF VoicemailMarked, InState, Moved, RegistryTypeOK
<1>4. SlotsStep(Counted, Counted')
  <2>1. CASE old \in tracked
    BY <1>1, <1>2, <2>1 DEF Counted, Moved, SlotsStep
  <2>2. CASE old \notin tracked
    <3>1. old \in Counted /\ Counted' \subseteq (Counted \ {old}) \cup {new}
      BY <1>1, <1>2, <2>2 DEF Counted, Moved
    <3>2. QED BY <3>1 DEF SlotsStep
  <2>3. QED BY <2>1, <2>2
<1>5. SlotsStep(Charged, Charged')
  <2>1. CASE old \in tracked \cup machine
    <3>1. Charged' \subseteq Charged
      BY <1>1, <1>2, <2>1 DEF Charged, Moved
    <3>2. QED BY <3>1 DEF SlotsStep
  <2>2. CASE old \notin tracked \cup machine
    <3>1. old \in Charged /\ Charged' \subseteq (Charged \ {old}) \cup {new}
      BY <1>1, <1>2, <2>2 DEF Charged, Moved
    <3>2. QED BY <3>1 DEF SlotsStep
  <2>3. QED BY <2>1, <2>2
<1>6. QED BY <1>1, <1>3, <1>4, <1>5 DEF StepEffect

LEMMA ForgetEffect ==
  ASSUME RegistryTypeOK, VoicemailMarked, NEW S \in SUBSET CallId,
         Forget(S), RegistryTypeOK'
  PROVE  StepEffect
<1>1. Live' = Live \ S
  BY ForgetTypes
<1>2. Counted' \subseteq Counted /\ Charged' \subseteq Charged
  BY <1>1 DEF Forget, Counted, Charged
<1>3. VoicemailMarked'
  BY DEF Forget, VoicemailMarked, InState
<1>4. QED BY <1>2, <1>3 DEF StepEffect, SlotsStep

LEMMA MarkEffect ==
  ASSUME RegistryTypeOK, VoicemailMarked, NEW id \in CallId,
         MarkOnGPU(id) \/ MarkVoicemail(id)
  PROVE  StepEffect
<1>1. CASE id \notin Live
  <2>1. UNCHANGED metricsVars
    BY <1>1 DEF MarkOnGPU, MarkVoicemail, metricsVars, callVars, totalVars
  <2>2. QED BY <2>1, NoEffect
<1>2. CASE id \in Live
  <2>1. /\ state' \in [CallId -> CallState] /\ Live' = Live
        /\ machine \subseteq machine' /\ machine' \subseteq Live
        /\ VoicemailMarked'
        /\ UNCHANGED <<age, tracked, totalVars>>
    BY <1>2 DEF MarkOnGPU, MarkVoicemail, RegistryTypeOK, Live, CallState,
                VoicemailMarked, InState
  <2>2. RegistryTypeOK'
    BY <2>1 DEF RegistryTypeOK, totalVars
  <2>3. Counted' \subseteq Counted /\ Charged' \subseteq Charged
    BY <2>1 DEF Counted, Charged
  <2>4. QED BY <2>1, <2>2, <2>3 DEF StepEffect, SlotsStep
<1>3. QED BY <1>1, <1>2

LEMMA NextEffect ==
  ASSUME RegistryTypeOK, VoicemailMarked, [Next]_vars
  PROVE  StepEffect
<1>1. ASSUME NEW id \in CallId, TryReserve(id)
      PROVE  StepEffect
  BY <1>1, NoEffect, InsertEffect DEF TryReserve
<1>2. ASSUME NEW id \in CallId, Track(id)
      PROVE  StepEffect
  BY <1>2, NoEffect, InsertEffect DEF Track
<1>3. ASSUME NEW id \in CallId, MarkOnGPU(id) \/ MarkVoicemail(id)
      PROVE  StepEffect
  BY <1>3, MarkEffect
<1>4. ASSUME NEW id \in CallId, Release(id)
      PROVE  StepEffect
  <2>1. CASE id \in Live
    <3>1. RegistryTypeOK' /\ Forget({id})
      BY <1>4, <2>1, ReleaseTypes DEF Release
    <3>2. QED BY <3>1, ForgetEffect
  <2>2. CASE id \notin Live
    BY <1>4, <2>2, NoEffect DEF Release
  <2>3. QED BY <2>1, <2>2
<1>5. ASSUME NEW old \in CallId, NEW new \in CallId, Rekey(old, new)
      PROVE  StepEffect
  BY <1>5, NoEffect, RekeyEffect DEF Rekey
<1>6. CASE ReapStale
  <2>1. RegistryTypeOK' /\ Forget(Overdue) /\ Overdue \in SUBSET CallId
    BY <1>6, ReapTypes DEF ReapStale, Overdue, InState
  <2>2. QED BY <2>1, ForgetEffect
<1>7. CASE Tick
  <2>1. /\ age' \in [CallId -> 0..(ReservationTTL + 1)]
        /\ UNCHANGED <<state, tracked, machine, totalVars>>
    BY <1>7, MetricsAssumption DEF Tick, RegistryTypeOK
  <2>2. QED
    BY <2>1 DEF StepEffect, RegistryTypeOK, VoicemailMarked, SlotsStep, Counted,
                Charged, Live, InState, totalVars
<1>8. CASE UNCHANGED metricsVars
  BY <1>8, NoEffect
<1>9. QED
  BY <1>1, <1>2, <1>3, <1>4, <1>5, <1>6, <1>7, <1>8
     DEF Next, vars, FirstTurn, LaterTurn, Request, CooldownTick, Drain

-----------------------------------------------------------------------------
LEMMA TypesSplit ==
  TypeOK <=> /\ RegistryTypeOK
             /\ tiers \in [Tier -> Seq(Level)]
             /\ firstTurn \in Seq([level: Level])
             /\ blockedFor \in 0..Cooldown /\ draining \in BOOLEAN
BY DEF TypeOK, RegistryTypeOK

LEMMA GateTypesStep ==
  ASSUME TypeOK, [Next]_vars
  PROVE  /\ tiers' \in [Tier -> Seq(Level)]
         /\ firstTurn' \in Seq([level: Level])
         /\ blockedFor' \in 0..Cooldown /\ draining' \in BOOLEAN
<1>1. CASE UNCHANGED gateVars
  BY <1>1 DEF gateVars, TypeOK
<1>2. ASSUME NEW level \in Level, FirstTurn(level)
      PROVE  /\ tiers' \in [Tier -> Seq(Level)]
             /\ firstTurn' \in Seq([level: Level])
             /\ blockedFor' \in 0..Cooldown /\ draining' \in BOOLEAN
  BY <1>2, GateTypes DEF FirstTurn, TypeOK
<1>3. ASSUME NEW t \in Tier, NEW level \in Level, Observe(t, level)
      PROVE  /\ tiers' \in [Tier -> Seq(Level)]
             /\ firstTurn' \in Seq([level: Level])
             /\ blockedFor' \in 0..Cooldown /\ draining' \in BOOLEAN
  BY <1>3, GateTypes DEF TypeOK
<1>4. ASSUME CooldownRuns \/ SetDraining
      PROVE  /\ tiers' \in [Tier -> Seq(Level)]
             /\ firstTurn' \in Seq([level: Level])
             /\ blockedFor' \in 0..Cooldown /\ draining' \in BOOLEAN
  <2>1. blockedFor' \in 0..Cooldown
    BY <1>4, GatesAssumption DEF CooldownRuns, SetDraining, TypeOK
  <2>2. /\ tiers' \in [Tier -> Seq(Level)] /\ firstTurn' \in Seq([level: Level])
        /\ draining' \in BOOLEAN
    BY <1>4 DEF CooldownRuns, SetDraining, TypeOK
  <2>3. QED BY <2>1, <2>2
<1>5. ASSUME NEW id \in CallId,
             \/ TryReserve(id) \/ Track(id) \/ MarkOnGPU(id)
             \/ MarkVoicemail(id) \/ Release(id)
      PROVE  UNCHANGED gateVars
  BY <1>5 DEF TryReserve, Track, MarkOnGPU, MarkVoicemail, Release
<1>6. ASSUME NEW old \in CallId, NEW new \in CallId, Rekey(old, new)
      PROVE  UNCHANGED gateVars
  BY <1>6 DEF Rekey
<1>7. ASSUME ReapStale \/ Tick
      PROVE  UNCHANGED gateVars
  BY <1>7 DEF ReapStale, Tick
<1>8. QED
  BY <1>1, <1>2, <1>3, <1>4, <1>5, <1>6, <1>7, GatesAssumption
     DEF Next, vars, LaterTurn, Request, CooldownTick, Drain, ObserveLaterTurn

(* The registry's variables keep their types under every operation, in any *)
(* order: no slot is dropped from the map half-way (metrics.go).           *)
THEOREM TypeCorrect == Spec => [](TypeOK /\ VoicemailMarked)
<1>1. Init => TypeOK /\ VoicemailMarked
  BY InitTypeOK DEF Init, VoicemailMarked, InState
<1>2. TypeOK /\ VoicemailMarked /\ [Next]_vars => (TypeOK /\ VoicemailMarked)'
  <2> SUFFICES ASSUME TypeOK, VoicemailMarked, [Next]_vars
               PROVE  TypeOK' /\ VoicemailMarked'
    OBVIOUS
  <2>1. RegistryTypeOK
    BY TypesSplit
  <2>2. RegistryTypeOK' /\ VoicemailMarked'
    BY <2>1, NextEffect DEF StepEffect
  <2>3. QED BY <2>2, GateTypesStep DEF TypeOK, RegistryTypeOK
<1>3. QED BY <1>1, <1>2, PTL DEF Spec

(* The absolute ceiling of Accepting: the calls that went through admission *)
(* never outnumber MaxTotalCalls, whatever inbound calls are counted beside *)
(* them and however slots are re-keyed, reclassified, reaped and released.  *)
THEOREM TotalCeilingHolds == Spec => []TotalCeiling
<1>1. Init => TotalCeiling
  <2>1. Init => Live \ tracked = {}
    BY DEF Init, Live
  <2>2. QED BY <2>1, FS_EmptySet, MetricsAssumption DEF TotalCeiling
<1>2. TypeOK /\ VoicemailMarked /\ TotalCeiling /\ [Next]_vars => TotalCeiling'
  <2> SUFFICES ASSUME TypeOK, VoicemailMarked, TotalCeiling, [Next]_vars,
                      MaxTotalCalls > 0
               PROVE  Cardinality(Counted') <= MaxTotalCalls
    BY MetricsAssumption DEF TotalCeiling, Counted
  <2>1. IsFiniteSet(Live) /\ IsFiniteSet(Counted)
        /\ Cardinality(Counted) <= Cardinality(Live)
        /\ Cardinality(Live) \in Nat
    BY FS_Subset, FS_CardinalityType, MetricsAssumption DEF Live, Counted
  <2>2. SlotsStep(Counted, Counted')
    BY TypesSplit, NextEffect DEF StepEffect
  <2>3. /\ Cardinality(Counted) \in Nat /\ Cardinality(Counted') \in Nat
        /\ \/ Cardinality(Counted') <= Cardinality(Counted)
           \/ Accepting /\ Cardinality(Counted') <= Cardinality(Counted) + 1
    BY <2>1, <2>2, SlotsStepSize
  <2>4. Cardinality(Counted) <= MaxTotalCalls
    BY DEF TotalCeiling, Counted
  <2>5. Accepting => Cardinality(Live) < MaxTotalCalls
    BY <2>1, MetricsAssumption DEF Accepting, TotalFull
  <2>6. QED BY <2>1, <2>3, <2>4, <2>5, MetricsAssumption
<1>3. QED BY <1>1, <1>2, TypeCorrect, PTL DEF Spec

-----------------------------------------------------------------------------
(* A reservation is never charged less than the floor, in percent. *)
LEMMA WeightFloor ==
  ASSUME TypeOK
  PROVE  /\ WeightNum \in Nat /\ WeightDen \in Nat \ {0}
         /\ FloorWeight \in 1..100
         /\ 100 * WeightNum >= FloorWeight * WeightDen
<1>0. /\ PinnedWeight \in 0..100 /\ MinHumanWeight \in 1..100
      /\ SafetyFactor \in Nat \ {0} /\ OutcomeMin \in Nat \ {0}
  BY MetricsAssumption
<1>1. CASE PinnedWeight > 0
  BY <1>0, <1>1 DEF WeightNum, WeightDen, Measured, FloorWeight
<1>2. CASE PinnedWeight = 0 /\ Len(outcomes) < OutcomeMin
  <2>1. Len(outcomes) \in Nat
    BY DEF TypeOK
  <2>2. WeightNum = 100 /\ WeightDen = 100 /\ FloorWeight = MinHumanWeight
    BY <1>0, <1>2, <2>1 DEF WeightNum, WeightDen, Measured, FloorWeight
  <2>3. QED BY <1>0, <2>2
<1>3. CASE PinnedWeight = 0 /\ Len(outcomes) >= OutcomeMin
  <2> DEFINE L == Len(outcomes)
             w == PipelineOutcomes * SafetyFactor * 100
             floor == MinHumanWeight * L
  <2>1. L \in Nat \ {0}
    BY <1>0, <1>3 DEF TypeOK
  <2>2. PipelineOutcomes \in Nat
    <3>1. DOMAIN outcomes = 1..L
      BY DEF TypeOK
    <3>2. {i \in DOMAIN outcomes : outcomes[i]} \subseteq 1..L
      BY <3>1
    <3>3. IsFiniteSet(1..L)
      BY <2>1, FS_Interval
    <3>4. IsFiniteSet({i \in DOMAIN outcomes : outcomes[i]})
      BY <3>2, <3>3, FS_Subset
    <3>5. QED BY <3>4, FS_CardinalityType DEF PipelineOutcomes
  <2>3. w \in Nat /\ floor \in Nat /\ 100 * L \in Nat
    BY <1>0, <2>1, <2>2
  <2>4. WeightDen = 100 * L /\ FloorWeight = MinHumanWeight
    BY <1>3 DEF WeightDen, Measured, FloorWeight
  <2>5. WeightNum = IF w < floor THEN floor ELSE IF w > 100 * L THEN 100 * L ELSE w
    BY <1>0, <1>3, <2>1 DEF WeightNum
  <2>6. floor <= 100 * L
    BY <1>0, <2>1
  <2>7. WeightNum \in Nat /\ WeightNum >= floor
    BY <2>3, <2>5, <2>6
  <2>8. FloorWeight * WeightDen = 100 * floor
    BY <1>0, <2>1, <2>4
  <2>9. 100 * WeightNum >= 100 * floor
    BY <2>3, <2>7
  <2>10. QED BY <1>0, <2>1, <2>4, <2>7, <2>8, <2>9
<1>4. Len(outcomes) \in Nat
  BY DEF TypeOK
<1>5. \/ PinnedWeight > 0
      \/ PinnedWeight = 0 /\ Len(outcomes) < OutcomeMin
      \/ PinnedWeight = 0 /\ Len(outcomes) >= OutcomeMin
  BY <1>0, <1>4
<1>6. QED BY <1>1, <1>2, <1>3, <1>5, Zenon

(* Being below the ceiling at the present charge is being below it at the   *)
(* floor's.                                                                 *)
LEMMA BelowCeiling ==
  ASSUME NEW g \in Nat, NEW r \in Nat, NEW num \in Nat, NEW den \in Nat \ {0},
         NEW max \in Nat, NEW floor \in 1..100,
         g * den + r * num < max * den, 100 * num >= floor * den
  PROVE  (g + r) * floor < max * 100
<1>1. g * floor <= g * 100
  OBVIOUS
<1>2. (g * floor) * den <= (g * 100) * den
  <2> DEFINE a == g * floor
             b == g * 100
  <2>1. a \in Nat /\ b \in Nat /\ a <= b
    BY <1>1
  <2> HIDE DEF a, b
  <2>2. a * den <= b * den
    BY <2>1
  <2>3. QED BY <2>2 DEF a, b
<1>3. r * (floor * den) <= r * (100 * num)
  <2> DEFINE a == floor * den
             b == 100 * num
  <2>1. a \in Nat /\ b \in Nat /\ a <= b
    OBVIOUS
  <2> HIDE DEF a, b
  <2>2. r * a <= r * b
    BY <2>1
  <2>3. QED BY <2>2 DEF a, b
<1>4. ((g + r) * floor) * den = (g * floor) * den + r * (floor * den)
  OBVIOUS
<1>5. (g * 100) * den + r * (100 * num) = 100 * (g * den + r * num)
  OBVIOUS
<1>6. 100 * (g * den + r * num) < 100 * (max * den)
  OBVIOUS
<1>7. 100 * (max * den) = (max * 100) * den
  OBVIOUS
<1>8. ((g + r) * floor) * den < (max * 100) * den
  <2>1. /\ (g * floor) * den \in Nat /\ r * (floor * den) \in Nat
        /\ (g * 100) * den \in Nat /\ r * (100 * num) \in Nat
        /\ 100 * (g * den + r * num) \in Nat /\ 100 * (max * den) \in Nat
    OBVIOUS
  <2>2. QED BY <1>2, <1>3, <1>4, <1>5, <1>6, <1>7, <2>1
<1>9. QED
  <2> DEFINE a == (g + r) * floor
             b == max * 100
  <2>1. a \in Nat /\ b \in Nat /\ a * den < b * den
    BY <1>8
  <2> HIDE DEF a, b
  <2>2. a < b
    <3>1. SUFFICES ASSUME a >= b PROVE FALSE
      BY <2>1
    <3>2. a * den >= b * den
      BY <2>1, <3>1
    <3>3. a * den \in Nat /\ b * den \in Nat
      BY <2>1
    <3>4. QED BY <2>1, <3>2, <3>3
  <2>3. QED BY <2>2 DEF a, b

(* While the registry accepts, the charged calls times the floor are below  *)
(* the ceiling.                                                             *)
LEMMA ChargedBelowCeiling ==
  ASSUME TypeOK, VoicemailMarked, MaxGPUCalls > 0, Accepting
  PROVE  /\ IsFiniteSet(Charged)
         /\ Cardinality(Charged) * FloorWeight < MaxGPUCalls * 100
<1> DEFINE G == InState("on_gpu")
           R == InState("reserved")
<1>1. IsFiniteSet(G) /\ IsFiniteSet(R) /\ G \cap R = {}
  BY FS_Subset, MetricsAssumption DEF InState
<1>2. Charged \subseteq G \cup R
  BY DEF Charged, Live, InState, VoicemailMarked, TypeOK, CallState
<1>3. /\ IsFiniteSet(G \cup R)
      /\ Cardinality(G \cup R) = Cardinality(G) + Cardinality(R)
  <2>1. Cardinality(G \cap R) = 0
    BY <1>1, FS_EmptySet
  <2>2. /\ IsFiniteSet(G \cup R)
        /\ Cardinality(G \cup R) = Cardinality(G) + Cardinality(R) - Cardinality(G \cap R)
    BY <1>1, FS_Union
  <2>3. Cardinality(G) \in Nat /\ Cardinality(R) \in Nat
    BY <1>1, FS_CardinalityType
  <2> HIDE DEF G, R
  <2>4. QED BY <2>1, <2>2, <2>3
<1>4. /\ IsFiniteSet(Charged) /\ Cardinality(Charged) \in Nat
      /\ Cardinality(Charged) <= Cardinality(G) + Cardinality(R)
  BY <1>2, <1>3, FS_Subset, FS_CardinalityType
<1>5. /\ Cardinality(G) \in Nat /\ Cardinality(R) \in Nat
      /\ MaxGPUCalls \in Nat
  BY <1>1, FS_CardinalityType, MetricsAssumption
<1>6. Cardinality(G) * WeightDen + Cardinality(R) * WeightNum < MaxGPUCalls * WeightDen
  BY <1>5, WeightFloor DEF Accepting, GPUFull
<1>7. (Cardinality(G) + Cardinality(R)) * FloorWeight < MaxGPUCalls * 100
  BY <1>5, <1>6, WeightFloor, BelowCeiling
<1>8. QED
  <2> DEFINE c == Cardinality(Charged)
             s == Cardinality(G) + Cardinality(R)
  <2>1. c \in Nat /\ s \in Nat /\ c <= s /\ s * FloorWeight < MaxGPUCalls * 100
    BY <1>4, <1>5, <1>7
  <2> HIDE DEF c, s
  <2>2. FloorWeight \in Nat /\ MaxGPUCalls \in Nat
    BY <1>5, WeightFloor
  <2>3. c * FloorWeight <= s * FloorWeight
    BY <2>1, <2>2
  <2>4. c * FloorWeight \in Nat /\ s * FloorWeight \in Nat
    BY <2>1, <2>2
  <2>5. c * FloorWeight < MaxGPUCalls * 100
    BY <2>1, <2>2, <2>3, <2>4
  <2>6. QED BY <1>4, <2>5 DEF c

(* weightLocked's floor does bound the over-subscription: whatever the      *)
(* answer rate does between admissions, the admitted calls that can still   *)
(* become pipelines stay below ceiling / floor + 1, for every ceiling,      *)
(* floor, pin, safety factor and window.                                    *)
THEOREM OvershootHolds == Spec => []OvershootBounded
<1>1. Init => OvershootBounded
  <2> SUFFICES ASSUME Init, MaxGPUCalls > 0
               PROVE  Cardinality(Charged) * FloorWeight < MaxGPUCalls * 100 + FloorWeight
    BY DEF OvershootBounded
  <2>1. Charged = {}
    BY DEF Init, Live, Charged
  <2>2. Cardinality(Charged) = 0
    BY <2>1, FS_EmptySet
  <2>3. FloorWeight \in 1..100 /\ MaxGPUCalls \in Nat
    BY InitTypeOK, WeightFloor, MetricsAssumption
  <2>4. QED BY <2>2, <2>3
<1>2. TypeOK /\ VoicemailMarked /\ OvershootBounded /\ [Next]_vars => OvershootBounded'
  <2> SUFFICES ASSUME TypeOK, VoicemailMarked, OvershootBounded, [Next]_vars,
                      MaxGPUCalls > 0
               PROVE  Cardinality(Charged') * FloorWeight < MaxGPUCalls * 100 + FloorWeight
    BY DEF OvershootBounded, FloorWeight
  <2> DEFINE c == Cardinality(Charged)
             d == Cardinality(Charged')
  <2>1. IsFiniteSet(Charged)
    BY FS_Subset, MetricsAssumption DEF Live, Charged
  <2>2. SlotsStep(Charged, Charged')
    BY TypesSplit, NextEffect DEF StepEffect
  <2>3. /\ c \in Nat /\ d \in Nat
        /\ d <= c \/ (Accepting /\ d <= c + 1)
    BY <2>1, <2>2, SlotsStepSize
  <2>4. FloorWeight \in 1..100 /\ MaxGPUCalls \in Nat
    BY WeightFloor, MetricsAssumption
  <2>5. c * FloorWeight < MaxGPUCalls * 100 + FloorWeight
    BY DEF OvershootBounded
  <2>6. Accepting => c * FloorWeight < MaxGPUCalls * 100
    BY ChargedBelowCeiling
  <2> HIDE DEF c, d
  <2>7. CASE d <= c
    <3>1. d * FloorWeight <= c * FloorWeight
      BY <2>3, <2>4, <2>7
    <3>2. d * FloorWeight \in Nat /\ c * FloorWeight \in Nat
      BY <2>3, <2>4
    <3>3. QED BY <2>4, <2>5, <3>1, <3>2 DEF d
  <2>8. CASE Accepting /\ d <= c + 1
    <3>1. d * FloorWeight <= c * FloorWeight + FloorWeight
      BY <2>3, <2>4, <2>8
    <3>2. d * FloorWeight \in Nat /\ c * FloorWeight \in Nat
      BY <2>3, <2>4
    <3>3. QED BY <2>4, <2>6, <2>8, <3>1, <3>2 DEF d
  <2>9. QED BY <2>3, <2>7, <2>8
<1>3. QED BY <1>1, <1>2, TypeCorrect, PTL DEF Spec
=============================================================================
