------------------------- MODULE CallCapacity_proofs -------------------------
(***************************************************************************)
(* For every set of calls, ceiling, window and deadline: a call holds at   *)
(* most one slot, a running pipeline is counted as one, no slot is lost or *)
(* invented, and the registry implements SlotLedger.  Every step of a call *)
(* is a step of the registry, so what Metrics_proofs shows holds here too. *)
(***************************************************************************)
EXTENDS CallCapacity, Metrics_proofs

(* Each call has two ids of its own. *)
LEMMA Ids ==
  ASSUME NEW c \in Call
  PROVE  /\ Sid(c) \in CallId /\ Cc(c) \in CallId
         /\ \A d \in Call : /\ Sid(c) # Cc(d)
                            /\ c # d => Sid(c) # Sid(d) /\ Cc(c) # Cc(d)
BY CapacityAssumption DEF Sid, Cc

LEMMA KindsOfCall ==
  ASSUME NEW c \in Call
  PROVE  /\ c \in Outbound \/ c \in Inbound \/ c \in Browser
         /\ ~(c \in Outbound /\ c \in Inbound)
         /\ ~(c \in Phone /\ c \in Browser)
         /\ c \in Phone <=> (c \in Outbound \/ c \in Inbound)
         /\ Key(c) \in CallId
BY Ids, CapacityAssumption DEF Call, Phone, Key

-----------------------------------------------------------------------------
(* Every step of a call is a step of the registry. *)
LEMMA RegistryStep ==
  ASSUME [CapacityNext]_capacityVars
  PROVE  [Next]_vars
<1>1. ASSUME NEW c \in Call, CallStep(c)
      PROVE  [Next]_vars
  <2>1. Sid(c) \in CallId /\ Cc(c) \in CallId /\ Key(c) \in CallId
    BY Ids, KindsOfCall
  <2>2. \/ TryReserve(Sid(c)) \/ Track(Cc(c)) \/ Rekey(Sid(c), Cc(c))
        \/ MarkOnGPU(Key(c)) \/ MarkVoicemail(Key(c))
        \/ Release(Sid(c)) \/ Release(Cc(c)) \/ Release(Key(c))
        \/ UNCHANGED vars
    BY <1>1, Zenon DEF CallStep, Dispatch, CredentialsRejected, DispatchFails, DialAccepted,
              RekeyDialled, Incoming, AnswerFails, Connected, VerdictWaitOver,
              StartPipeline, LeaveVoicemail, TakeAgentOff, PipelineEnds,
              MediaNeverComes, LegEnds, HangupWebhook
  <2>3. QED BY <2>1, <2>2, Zenon DEF Next
<1>2. ASSUME Reap \/ TimePasses
      PROVE  [Next]_vars
  BY <1>2, Zenon DEF Reap, TimePasses, Next
<1>3. QED BY <1>1, <1>2, Zenon DEF CapacityNext, capacityVars

LEMMA RegistryTypes == CapacitySpec => [](TypeOK /\ VoicemailMarked)
<1>1. CapacityInit => TypeOK /\ VoicemailMarked
  BY InitTypeOK DEF CapacityInit, Init, VoicemailMarked, InState
<1>2. TypeOK /\ VoicemailMarked /\ [CapacityNext]_capacityVars
      => (TypeOK /\ VoicemailMarked)'
  <2> SUFFICES ASSUME TypeOK, VoicemailMarked, [CapacityNext]_capacityVars
               PROVE  TypeOK' /\ VoicemailMarked'
    OBVIOUS
  <2>1. RegistryTypeOK /\ [Next]_vars
    BY TypesSplit, RegistryStep
  <2>2. RegistryTypeOK' /\ VoicemailMarked'
    BY <2>1, NextEffect DEF StepEffect
  <2>3. QED BY <2>1, <2>2, GateTypesStep DEF TypeOK, RegistryTypeOK
<1>3. QED BY <1>1, <1>2, PTL DEF CapacitySpec

(* The life of a call keeps its types, whatever order the handlers, the     *)
(* webhooks and the reaper take (telnyx_call.go, room_media.go).            *)
THEOREM LifeTypeCorrect == CapacitySpec => []LifeTypeOK
<1>1. CapacityInit => LifeTypeOK
  BY DEF CapacityInit, LifeTypeOK, Phase, Session
<1>2. LifeTypeOK /\ [CapacityNext]_capacityVars => LifeTypeOK'
  <2> SUFFICES ASSUME LifeTypeOK, [CapacityNext]_capacityVars
               PROVE  LifeTypeOK'
    OBVIOUS
  <2>1. ASSUME NEW c \in Call, CallStep(c)
        PROVE  LifeTypeOK'
    <3>1. /\ phase' \in [Call -> Phase] /\ pipeline' \in [Call -> Session]
      BY <2>1 DEF LifeTypeOK, Phase, Session, Goes, SessionGoes,
           CallStep, Dispatch, CredentialsRejected, DispatchFails, DialAccepted,
           RekeyDialled, Incoming, AnswerFails, Connected, VerdictWaitOver,
           StartPipeline, LeaveVoicemail, TakeAgentOff, PipelineEnds,
           MediaNeverComes, LegEnds, HangupWebhook
    <3>2. /\ keyed' \in SUBSET Call /\ left' \in SUBSET Phone
          /\ hangups' \in SUBSET Phone /\ lost' \in SUBSET Phone
      BY <2>1, KindsOfCall DEF LifeTypeOK,
           CallStep, Dispatch, CredentialsRejected, DispatchFails, DialAccepted,
           RekeyDialled, Incoming, AnswerFails, Connected, VerdictWaitOver,
           StartPipeline, LeaveVoicemail, TakeAgentOff, PipelineEnds,
           MediaNeverComes, LegEnds, HangupWebhook
    <3>3. QED BY <3>1, <3>2 DEF LifeTypeOK
  <2>2. ASSUME UNCHANGED lifeVars
        PROVE  LifeTypeOK'
    BY <2>2 DEF LifeTypeOK, lifeVars
  <2>3. QED BY <2>1, <2>2, Zenon DEF CapacityNext, Reap, TimePasses, capacityVars
<1>3. QED BY <1>1, <1>2, PTL DEF CapacitySpec

-----------------------------------------------------------------------------
(* The id a call's slot is under, if it holds one. *)
SlotId(c) == IF c \in Browser \/ c \in Outbound \ keyed THEN Sid(c) ELSE Cc(c)

(* The inductive invariant, call by call. *)
OneSlot(c) == \A id \in {Sid(c), Cc(c)} : state[id] # "none" => id = SlotId(c)

NotBeforeItsTime(c) ==
  /\ phase[c] = "new" => state[SlotId(c)] = "none"
  /\ c \in Outbound /\ phase[c] \in {"new", "admitted", "failed"} => c \notin keyed
  /\ pipeline[c] # "never" => phase[c] \in {"up", "over"}
  /\ pipeline[c] = "starting" => c \in Phone
  /\ pipeline[c] \in {"starting", "on"} => SlotId(c) = Key(c)
  /\ c \in hangups => c \in Phone /\ phase[c] = "over"
  /\ c \in Inbound /\ phase[c] = "new" => c \notin keyed

(* What lets a session still start: the slot is there, and the reaper will  *)
(* not find it stale before the session has started.                       *)
StartableIsCounted(c) ==
  MayStillStart(c) => /\ state[SlotId(c)] # "none"
                      /\ age[SlotId(c)] <= MediaDeadline

RunningIsCounted(c) ==
  pipeline[c] = "on" /\ phase[c] = "up" /\ c \notin left /\ ~Disowned(c)
    => state[Key(c)] = "on_gpu"

CallOK(c) ==
  OneSlot(c) /\ NotBeforeItsTime(c) /\ StartableIsCounted(c) /\ RunningIsCounted(c)

LifeInv == \A c \in Call : CallOK(c)

(* The parts of the state a step of another call leaves alone. *)
SameSlots(c) ==
  \A id \in {Sid(c), Cc(c)} : state'[id] = state[id] /\ age'[id] = age[id]

SameLife(c) ==
  /\ phase'[c] = phase[c] /\ pipeline'[c] = pipeline[c]
  /\ c \in keyed' <=> c \in keyed
  /\ c \in left' <=> c \in left
  /\ c \in hangups' => c \in hangups

LEMMA UntouchedCall ==
  ASSUME NEW c \in Call, CallOK(c), SameSlots(c), SameLife(c)
  PROVE  CallOK(c)' /\ SlotId(c)' = SlotId(c)
<1>1. SlotId(c)' = SlotId(c) /\ SlotId(c) \in {Sid(c), Cc(c)} /\ Key(c) \in {Sid(c), Cc(c)}
  BY DEF SlotId, SameLife, Key
<1>2. OneSlot(c)' /\ NotBeforeItsTime(c)' /\ RunningIsCounted(c)' /\ StartableIsCounted(c)'
  BY <1>1 DEF CallOK, SameSlots, SameLife, OneSlot, NotBeforeItsTime, RunningIsCounted,
              StartableIsCounted, MayStillStart, Disowned
<1>3. QED BY <1>1, <1>2 DEF CallOK

(* What a step of one call does to the registry stays with its own ids. *)
LEMMA OwnIdsOnly ==
  ASSUME RegistryTypeOK, NEW d \in Call, CallStep(d)
  PROVE  \A id \in CallId \ {Sid(d), Cc(d)} : state'[id] = state[id] /\ age'[id] = age[id]
<1> SUFFICES ASSUME NEW id \in CallId \ {Sid(d), Cc(d)}
             PROVE  state'[id] = state[id] /\ age'[id] = age[id]
  OBVIOUS
<1> USE DEF RegistryTypeOK
<1>1. /\ Sid(d) \in CallId /\ Cc(d) \in CallId /\ Key(d) \in {Sid(d), Cc(d)}
  BY Ids DEF Key
<1>2. ASSUME NEW k \in {Sid(d), Cc(d)},
             TryReserve(k) \/ Track(k) \/ MarkOnGPU(k) \/ MarkVoicemail(k) \/ Release(k)
      PROVE  state'[id] = state[id] /\ age'[id] = age[id]
  BY <1>1, <1>2 DEF TryReserve, Track, Insert, MarkOnGPU, MarkVoicemail, Release, Forget,
                    metricsVars, callVars
<1>3. ASSUME Rekey(Sid(d), Cc(d))
      PROVE  state'[id] = state[id] /\ age'[id] = age[id]
  BY <1>1, <1>3 DEF Rekey, metricsVars, callVars
<1>4. ASSUME UNCHANGED vars
      PROVE  state'[id] = state[id] /\ age'[id] = age[id]
  BY <1>4 DEF vars, metricsVars, callVars
<1>5. QED
  BY <1>1, <1>2, <1>3, <1>4, Zenon
     DEF CallStep, Dispatch, CredentialsRejected, DispatchFails, DialAccepted,
         RekeyDialled, Incoming, AnswerFails, Connected, VerdictWaitOver,
         StartPipeline, LeaveVoicemail, TakeAgentOff, PipelineEnds,
         MediaNeverComes, LegEnds, HangupWebhook

LEMMA OwnLifeOnly ==
  ASSUME LifeTypeOK, NEW d \in Call, CallStep(d), NEW c \in Call \ {d}
  PROVE  SameLife(c)
BY DEF LifeTypeOK, SameLife, Goes, SessionGoes, CallStep,
       Dispatch, CredentialsRejected, DispatchFails, DialAccepted,
       RekeyDialled, Incoming, AnswerFails, Connected, VerdictWaitOver,
       StartPipeline, LeaveVoicemail, TakeAgentOff, PipelineEnds,
       MediaNeverComes, LegEnds, HangupWebhook

LEMMA OtherCallsKeep ==
  ASSUME RegistryTypeOK, LifeTypeOK, LifeInv, NEW d \in Call, CallStep(d),
         NEW c \in Call \ {d}
  PROVE  CallOK(c)' /\ SameSlots(c) /\ SlotId(c)' = SlotId(c)
<1>1. SameSlots(c)
  <2>1. Sid(c) \in CallId \ {Sid(d), Cc(d)} /\ Cc(c) \in CallId \ {Sid(d), Cc(d)}
    BY Ids
  <2>2. QED BY <2>1, OwnIdsOnly DEF SameSlots
<1>2. SameLife(c)
  BY OwnLifeOnly
<1>3. QED BY <1>1, <1>2, UntouchedCall DEF LifeInv

(* The call whose step it is: one case per handler. *)
LEMMA OwnCallKeeps ==
  ASSUME RegistryTypeOK, LifeTypeOK, NEW c \in Call, CallOK(c), CallStep(c)
  PROVE  CallOK(c)'
<1> USE DEF RegistryTypeOK, LifeTypeOK, CallOK, OneSlot, NotBeforeItsTime,
            StartableIsCounted, RunningIsCounted, MayStillStart, Disowned, SlotId, Key, Goes, SessionGoes
<1>0. /\ Sid(c) \in CallId /\ Cc(c) \in CallId /\ Sid(c) # Cc(c)
      /\ c \in Outbound \/ c \in Inbound \/ c \in Browser
      /\ ~(c \in Outbound /\ c \in Inbound)
      /\ ~(c \in Phone /\ c \in Browser)
      /\ c \in Phone <=> (c \in Outbound \/ c \in Inbound)
      /\ MediaDeadline \in Nat
  BY Ids, KindsOfCall, CapacityAssumption
<1>1. CASE Dispatch(c)
  BY <1>0, <1>1 DEF Dispatch, TryReserve, Insert, Live
<1>2. CASE CredentialsRejected(c)
  BY <1>0, <1>2 DEF CredentialsRejected, vars, metricsVars, callVars
<1>3. CASE DispatchFails(c)
  BY <1>0, <1>3 DEF DispatchFails, Release, Forget, Live, metricsVars, callVars
<1>4. CASE DialAccepted(c)
  BY <1>0, <1>4 DEF DialAccepted, vars, metricsVars, callVars
<1>5. CASE RekeyDialled(c)
  BY <1>0, <1>5 DEF RekeyDialled, Rekey, Live, metricsVars, callVars
<1>6. CASE Incoming(c)
  BY <1>0, <1>6 DEF Incoming, Track, Insert, Live, metricsVars, callVars
<1>7. CASE AnswerFails(c)
  BY <1>0, <1>7 DEF AnswerFails, Release, Forget, Live, metricsVars, callVars
<1>8. CASE Connected(c)
  BY <1>0, <1>8 DEF Connected, vars, metricsVars, callVars
<1>9. CASE VerdictWaitOver(c)
  BY <1>0, <1>9 DEF VerdictWaitOver, vars, metricsVars, callVars
<1>10. CASE StartPipeline(c)
  BY <1>0, <1>10 DEF StartPipeline, MarkOnGPU, Live
<1>11. CASE LeaveVoicemail(c)
  BY <1>0, <1>11 DEF LeaveVoicemail, MarkVoicemail, Live
<1>12. CASE TakeAgentOff(c)
  BY <1>0, <1>12 DEF TakeAgentOff, MarkVoicemail, Live
<1>13. CASE PipelineEnds(c)
  BY <1>0, <1>13 DEF PipelineEnds, Release, Forget, Live, vars, metricsVars, callVars
<1>14. CASE MediaNeverComes(c)
  BY <1>0, <1>14 DEF MediaNeverComes, vars, metricsVars, callVars
<1>15. CASE LegEnds(c)
  BY <1>0, <1>15 DEF LegEnds, vars, metricsVars, callVars
<1>16. CASE HangupWebhook(c)
  BY <1>0, <1>16 DEF HangupWebhook, Release, Forget, Live, metricsVars, callVars
<1>17. QED
  BY <1>1, <1>2, <1>3, <1>4, <1>5, <1>6, <1>7, <1>8, <1>9, <1>10, <1>11, <1>12,
     <1>13, <1>14, <1>15, <1>16, Zenon DEF CallStep

(* The reaper finds no call that may still start, nor a running one. *)
LEMMA ReapKeeps ==
  ASSUME RegistryTypeOK, LifeInv, Reap, NEW c \in Call
  PROVE  CallOK(c)'
<1>1. /\ Sid(c) \in CallId /\ Cc(c) \in CallId /\ SlotId(c) \in CallId /\ Key(c) \in CallId
      /\ MediaDeadline <= ReservationTTL /\ MediaDeadline \in Nat /\ ReservationTTL \in Nat
  BY Ids, CapacityAssumption, MetricsAssumption DEF SlotId, Key
<1>2. CallOK(c) /\ Forget(Overdue) /\ UNCHANGED lifeVars
  BY DEF LifeInv, Reap, ReapStale
<1>3. MayStillStart(c) => SlotId(c) \notin Overdue
  BY <1>1, <1>2 DEF CallOK, StartableIsCounted, Overdue, InState, RegistryTypeOK
<1>4. state[Key(c)] = "on_gpu" => Key(c) \notin Overdue
  BY DEF Overdue, InState
<1>5. \A id \in CallId : /\ state'[id] = IF id \in Overdue THEN "none" ELSE state[id]
                         /\ id \notin Overdue => age'[id] = age[id]
  BY <1>2 DEF Forget
<1>6. SlotId(c)' = SlotId(c) /\ MayStillStart(c)' = MayStillStart(c)
  BY <1>2 DEF lifeVars, SlotId, MayStillStart, Disowned
<1>7. OneSlot(c)' /\ NotBeforeItsTime(c)'
  BY <1>1, <1>2, <1>5, <1>6
     DEF CallOK, OneSlot, NotBeforeItsTime, lifeVars, Sid, Cc, Key
<1>8. StartableIsCounted(c)'
  BY <1>1, <1>2, <1>3, <1>5, <1>6 DEF CallOK, StartableIsCounted, lifeVars
<1>9. RunningIsCounted(c)'
  BY <1>1, <1>2, <1>4, <1>5 DEF CallOK, RunningIsCounted, Disowned, lifeVars, Key, Sid, Cc
<1>10. QED BY <1>7, <1>8, <1>9 DEF CallOK

LEMMA TimeKeeps ==
  ASSUME RegistryTypeOK, LifeInv, TimePasses, NEW c \in Call
  PROVE  CallOK(c)'
<1>1. /\ Sid(c) \in CallId /\ Cc(c) \in CallId /\ SlotId(c) \in {Sid(c), Cc(c)}
      /\ MediaDeadline \in Nat
  BY Ids, CapacityAssumption DEF SlotId
<1>2. CallOK(c) /\ UNCHANGED <<state, lifeVars>>
  BY DEF LifeInv, TimePasses, Tick
<1>3. MayStillStart(c) => age'[SlotId(c)] <= MediaDeadline
  <2> SUFFICES ASSUME MayStillStart(c) PROVE age'[SlotId(c)] <= MediaDeadline
    OBVIOUS
  <2>1. age[SlotId(c)] < MediaDeadline /\ SlotId(c) \in CallId
    BY <1>1 DEF TimePasses
  <2>2. age[SlotId(c)] \in Nat
    BY <2>1, MetricsAssumption DEF RegistryTypeOK
  <2>3. age'[SlotId(c)] \in {age[SlotId(c)], age[SlotId(c)] + 1}
    BY <2>1 DEF TimePasses, Tick
  <2>4. QED BY <1>1, <2>1, <2>2, <2>3
<1>4. SlotId(c)' = SlotId(c) /\ MayStillStart(c)' = MayStillStart(c)
  BY <1>2 DEF lifeVars, SlotId, MayStillStart, Disowned
<1>5. OneSlot(c)' /\ NotBeforeItsTime(c)' /\ RunningIsCounted(c)'
  BY <1>2, <1>4 DEF CallOK, OneSlot, NotBeforeItsTime, RunningIsCounted, Disowned, lifeVars
<1>6. StartableIsCounted(c)'
  BY <1>2, <1>3, <1>4 DEF CallOK, StartableIsCounted
<1>7. QED BY <1>5, <1>6 DEF CallOK

LEMMA LifeInvStep ==
  ASSUME RegistryTypeOK, LifeTypeOK, LifeInv, [CapacityNext]_capacityVars
  PROVE  LifeInv'
<1> SUFFICES ASSUME NEW c \in Call PROVE CallOK(c)'
  BY DEF LifeInv
<1>1. ASSUME NEW d \in Call, CallStep(d)
      PROVE  CallOK(c)'
  <2>1. CASE c = d
    BY <1>1, <2>1, OwnCallKeeps DEF LifeInv
  <2>2. CASE c # d
    BY <1>1, <2>2, OtherCallsKeep
  <2>3. QED BY <2>1, <2>2
<1>2. CASE Reap
  BY <1>2, ReapKeeps
<1>3. CASE TimePasses
  BY <1>3, TimeKeeps
<1>4. CASE UNCHANGED capacityVars
  <2>1. CallOK(c) /\ SameSlots(c) /\ SameLife(c)
    BY <1>4 DEF LifeInv, capacityVars, vars, metricsVars, callVars, lifeVars,
                SameSlots, SameLife
  <2>2. QED BY <2>1, UntouchedCall
<1>5. QED BY <1>1, <1>2, <1>3, <1>4, Zenon DEF CapacityNext

LEMMA LifeInvInit == CapacityInit => LifeInv
<1> SUFFICES ASSUME CapacityInit, NEW c \in Call PROVE CallOK(c)
  BY DEF LifeInv
<1>1. Sid(c) \in CallId /\ Cc(c) \in CallId
  BY Ids
<1>2. QED
  BY <1>1 DEF CapacityInit, Init, CallOK, OneSlot, NotBeforeItsTime, StartableIsCounted,
     RunningIsCounted, MayStillStart, SlotId

LEMMA LifeInvHolds == CapacitySpec => []LifeInv
<1>1. TypeOK /\ LifeTypeOK /\ LifeInv /\ [CapacityNext]_capacityVars => LifeInv'
  BY TypesSplit, LifeInvStep
<1>2. QED BY <1>1, LifeInvInit, RegistryTypes, LifeTypeCorrect, PTL DEF CapacitySpec

-----------------------------------------------------------------------------
(* A call is counted once: the slot moves from the session id to the        *)
(* carrier's when the dial returns (metrics.go Rekey), and no webhook that  *)
(* overtakes the dial leaves a second entry.                                *)
THEOREM OneSlotPerCallHolds == CapacitySpec => []OneSlotPerCall
<1>1. LifeInv => OneSlotPerCall
  <2> SUFFICES ASSUME LifeInv, NEW c \in Call, Sid(c) \in Live, Cc(c) \in Live
               PROVE  FALSE
    BY DEF OneSlotPerCall
  <2>1. OneSlot(c) /\ Sid(c) # Cc(c)
    BY Ids DEF LifeInv, CallOK
  <2>2. QED BY <2>1 DEF OneSlot, Live
<1>2. QED BY <1>1, LifeInvHolds, PTL

(* A running session's call is counted as a pipeline: nothing releases or   *)
(* reaps its slot between the dispatch and MarkOnGPU (metrics.go            *)
(* ReapStale, telnyx_call.go runVoiceSession).  An inbound call whose       *)
(* Answer failed is not claimed: that failure gives the slot back, though   *)
(* the leg may be up (rexa_dispatch.go DispatchIncoming).                   *)
THEOREM RunningPipelineCountedHolds == CapacitySpec => []RunningPipelineCounted
<1>1. LifeInv => RunningPipelineCounted
  BY DEF LifeInv, CallOK, RunningIsCounted, RunningPipelineCounted
<1>2. QED BY <1>1, LifeInvHolds, PTL

-----------------------------------------------------------------------------
(* How many entries the map has after each operation. *)
LEMMA LiveFinite == IsFiniteSet(Live) /\ Cardinality(Live) \in Nat
BY FS_Subset, FS_CardinalityType, MetricsAssumption DEF Live

LEMMA InsertCounts ==
  ASSUME RegistryTypeOK, NEW id \in CallId \ Live, NEW bypass \in BOOLEAN,
         Insert(id, bypass)
  PROVE  Cardinality(Live') = Cardinality(Live) + 1
<1>1. Live' = Live \cup {id}
  BY InsertTypes
<1>2. QED BY <1>1, LiveFinite, FS_AddElement

LEMMA RekeyCounts ==
  ASSUME RegistryTypeOK, NEW old \in Live, NEW new \in CallId \ Live, Rekey(old, new)
  PROVE  Cardinality(Live') = Cardinality(Live)
<1> DEFINE R == Live \ {old}
<1>1. old \in CallId /\ Live' = R \cup {new}
  BY RekeyTypes DEF Live
<1>2. IsFiniteSet(R) /\ Cardinality(R) = Cardinality(Live) - 1 /\ new \notin R
  BY LiveFinite, FS_RemoveElement
<1>3. Cardinality(R \cup {new}) = Cardinality(R) + 1
  BY <1>2, FS_AddElement
<1>4. QED BY <1>1, <1>2, <1>3, LiveFinite

LEMMA ReleaseCounts ==
  ASSUME RegistryTypeOK, NEW id \in Live, Release(id)
  PROVE  /\ Cardinality(Live') = Cardinality(Live) - 1
         /\ Len(outcomes') < OutcomeWindow => /\ Len(outcomes) < OutcomeWindow
                                              /\ Len(outcomes') = Len(outcomes) + 1
         /\ UNCHANGED <<totalCalls, totalReaped>>
<1>1. id \in CallId /\ Live' = Live \ {id}
  BY ReleaseTypes DEF Live
<1>2. Cardinality(Live') = Cardinality(Live) - 1
  BY <1>1, LiveFinite, FS_RemoveElement
<1>3. /\ outcomes' = Pushed(outcomes, state[id] = "on_gpu", OutcomeWindow)
      /\ UNCHANGED <<totalCalls, totalReaped>>
  BY DEF Release
<1>4. Len(outcomes') < OutcomeWindow => /\ Len(outcomes) < OutcomeWindow
                                        /\ Len(outcomes') = Len(outcomes) + 1
  <2> DEFINE pipelined == state[id] = "on_gpu"
  <2>1. /\ outcomes \in Seq(BOOLEAN) /\ pipelined \in BOOLEAN
        /\ OutcomeWindow \in Nat \ {0} /\ Len(outcomes) \in Nat
    BY MetricsAssumption DEF RegistryTypeOK
  <2> HIDE DEF pipelined
  <2>2. CASE Len(outcomes) < OutcomeWindow
    BY <1>3, <2>1, <2>2 DEF Pushed, pipelined
  <2>3. CASE ~(Len(outcomes) < OutcomeWindow)
    <3>1. Tail(outcomes) \in Seq(BOOLEAN) /\ Len(Tail(outcomes)) = Len(outcomes) - 1
      BY <2>1, <2>3
    <3>2. Len(outcomes') = Len(outcomes)
      BY <1>3, <2>1, <2>3, <3>1 DEF Pushed, pipelined
    <3>3. QED BY <2>3, <3>2
  <2>4. QED BY <2>2, <2>3
<1>5. QED BY <1>2, <1>3, <1>4

LEMMA ReapCounts ==
  ASSUME RegistryTypeOK, ReapStale
  PROVE  Cardinality(Live') + totalReaped' = Cardinality(Live) + totalReaped
<1>1. Live' = Live \ Overdue /\ Overdue \subseteq Live
  BY ReapTypes DEF Overdue, InState, Live
<1>2. IsFiniteSet(Overdue) /\ Cardinality(Overdue) \in Nat /\ Live \cap Overdue = Overdue
  BY <1>1, LiveFinite, FS_Subset, FS_CardinalityType
<1>3. Cardinality(Live \ Overdue) = Cardinality(Live) - Cardinality(Overdue)
  BY <1>2, LiveFinite, FS_Difference
<1>4. totalReaped' = totalReaped + Cardinality(Overdue)
  BY DEF ReapStale
<1>5. QED BY <1>1, <1>2, <1>3, <1>4, LiveFinite DEF RegistryTypeOK

LEMMA ConservedStep ==
  ASSUME RegistryTypeOK, LifeTypeOK, LifeInv, SlotsConserved, [CapacityNext]_capacityVars
  PROVE  SlotsConserved'
<1> USE DEF SlotsConserved
<1>0. /\ Cardinality(Live) \in Nat /\ Len(outcomes) \in Nat
      /\ totalCalls \in Nat /\ totalReaped \in Nat
  BY LiveFinite DEF RegistryTypeOK
<1>1. ASSUME UNCHANGED metricsVars \/ (UNCHANGED <<state, totalVars>>)
      PROVE  SlotsConserved'
  BY <1>1 DEF metricsVars, callVars, totalVars, Live
<1>2. ASSUME NEW id \in CallId, NEW bypass \in BOOLEAN, id \notin Live, Insert(id, bypass)
      PROVE  SlotsConserved'
  <2>1. /\ Cardinality(Live') = Cardinality(Live) + 1 /\ totalCalls' = totalCalls + 1
        /\ UNCHANGED <<outcomes, totalReaped>>
    BY <1>2, InsertCounts DEF Insert
  <2>2. QED BY <1>0, <2>1
<1>3. ASSUME NEW id \in CallId, Release(id)
      PROVE  SlotsConserved'
  <2>1. CASE id \in Live
    <3>1. /\ Cardinality(Live') = Cardinality(Live) - 1
          /\ Len(outcomes') < OutcomeWindow => /\ Len(outcomes) < OutcomeWindow
                                               /\ Len(outcomes') = Len(outcomes) + 1
          /\ UNCHANGED <<totalCalls, totalReaped>>
      BY <1>3, <2>1, ReleaseCounts
    <3>2. QED BY <1>0, <3>1
  <2>2. CASE id \notin Live
    BY <1>1, <1>3, <2>2 DEF Release
  <2>3. QED BY <2>1, <2>2
<1>4. ASSUME NEW id \in CallId, MarkOnGPU(id) \/ MarkVoicemail(id)
      PROVE  SlotsConserved'
  <2>1. Live' = Live /\ UNCHANGED totalVars
    BY <1>4 DEF MarkOnGPU, MarkVoicemail, RegistryTypeOK, Live
  <2>2. QED BY <2>1 DEF totalVars
<1>5. ASSUME NEW c \in Call, RekeyDialled(c)
      PROVE  SlotsConserved'
  <2>1. Rekey(Sid(c), Cc(c)) /\ Sid(c) \in CallId /\ Cc(c) \in CallId
    BY <1>5, Ids DEF RekeyDialled
  <2>2. CASE Sid(c) \in Live
    <3>1. SlotId(c) = Sid(c) /\ Sid(c) # Cc(c) /\ OneSlot(c)
      BY <1>5, Ids DEF RekeyDialled, SlotId, LifeInv, CallOK
    <3>2. Cc(c) \in CallId \ Live
      BY <2>1, <3>1 DEF OneSlot, Live
    <3>3. Cardinality(Live') = Cardinality(Live) /\ UNCHANGED totalVars
      BY <2>1, <2>2, <3>2, RekeyCounts DEF Rekey
    <3>4. QED BY <3>3 DEF totalVars
  <2>3. CASE Sid(c) \notin Live
    BY <1>1, <2>1, <2>3 DEF Rekey
  <2>4. QED BY <2>2, <2>3
<1>6. CASE Reap
  <2>1. /\ Cardinality(Live') + totalReaped' = Cardinality(Live) + totalReaped
        /\ UNCHANGED <<outcomes, totalCalls>>
    BY <1>6, ReapCounts DEF Reap, ReapStale
  <2>2. Cardinality(Live') \in Nat /\ totalReaped' \in Nat
    <3>1. RegistryTypeOK'
      BY <1>6, ReapTypes DEF Reap
    <3>2. Live' \subseteq Live
      BY <1>6, ReapTypes DEF Reap
    <3>3. QED BY <3>1, <3>2, LiveFinite, FS_Subset, FS_CardinalityType DEF RegistryTypeOK
  <2>3. QED BY <1>0, <2>1, <2>2
<1>7. CASE TimePasses
  BY <1>1, <1>7 DEF TimePasses, Tick
<1>8. ASSUME NEW c \in Call, CallStep(c), ~RekeyDialled(c)
      PROVE  SlotsConserved'
  <2>1. Sid(c) \in CallId /\ Cc(c) \in CallId /\ Key(c) \in CallId
    BY Ids, KindsOfCall
  <2>2. \/ TryReserve(Sid(c)) \/ Track(Cc(c))
        \/ MarkOnGPU(Key(c)) \/ MarkVoicemail(Key(c))
        \/ Release(Sid(c)) \/ Release(Cc(c)) \/ Release(Key(c))
        \/ UNCHANGED vars
    BY <1>8, Zenon DEF CallStep, Dispatch, CredentialsRejected, DispatchFails, DialAccepted,
              Incoming, AnswerFails, Connected, VerdictWaitOver,
              StartPipeline, LeaveVoicemail, TakeAgentOff, PipelineEnds,
              MediaNeverComes, LegEnds, HangupWebhook
  <2>3. CASE TryReserve(Sid(c))
    BY <1>1, <1>2, <2>1, <2>3 DEF TryReserve
  <2>4. CASE Track(Cc(c))
    BY <1>1, <1>2, <2>1, <2>4 DEF Track
  <2>5. CASE UNCHANGED vars
    BY <1>1, <2>5 DEF vars
  <2>6. QED BY <1>3, <1>4, <2>1, <2>2, <2>3, <2>4, <2>5, Zenon
<1>9. CASE UNCHANGED capacityVars
  BY <1>1, <1>9 DEF capacityVars, vars
<1>10. QED BY <1>5, <1>6, <1>7, <1>8, <1>9, Zenon DEF CapacityNext

(* No slot is lost or invented: every one ever taken is in the map, reaped, *)
(* or resolved once, until the window of outcomes wraps (metrics.go         *)
(* Release, ReapStale; telnyx_call.go: call.hangup may come twice).         *)
THEOREM SlotsConservedHolds == CapacitySpec => []SlotsConserved
<1>1. CapacityInit => SlotsConserved
  <2>1. CapacityInit => Live = {} /\ totalCalls = 0 /\ totalReaped = 0 /\ Len(outcomes) = 0
    BY DEF CapacityInit, Init, Live
  <2>2. QED BY <2>1, FS_EmptySet DEF SlotsConserved
<1>2. TypeOK /\ LifeTypeOK /\ LifeInv /\ SlotsConserved /\ [CapacityNext]_capacityVars
      => SlotsConserved'
  BY TypesSplit, ConservedStep
<1>3. QED BY <1>1, <1>2, LifeInvHolds, RegistryTypes, LifeTypeCorrect, PTL DEF CapacitySpec

-----------------------------------------------------------------------------
(* What a call's step does to its slot, as SlotLedger sees it. *)
LEMMA OwnSlot ==
  ASSUME RegistryTypeOK, LifeTypeOK, NEW c \in Call, CallOK(c), CallStep(c)
  PROVE  \/ SlotOf(c)' = SlotOf(c)
         \/ SlotOf(c) = "new" /\ SlotOf(c)' = "held" /\ (Dispatch(c) \/ Incoming(c))
         \/ SlotOf(c) = "held" /\ SlotOf(c)' = "done"
<1> DEFINE held == state[Sid(c)] # "none" \/ state[Cc(c)] # "none"
<1>0. /\ Sid(c) \in CallId /\ Cc(c) \in CallId /\ Sid(c) # Cc(c)
      /\ c \in Outbound \/ c \in Inbound \/ c \in Browser
      /\ ~(c \in Outbound /\ c \in Inbound)
      /\ ~(c \in Phone /\ c \in Browser)
      /\ c \in Phone <=> (c \in Outbound \/ c \in Inbound)
  BY Ids, KindsOfCall
<1>1. /\ SlotOf(c) = IF held THEN "held" ELSE IF phase[c] = "new" THEN "new" ELSE "done"
      /\ SlotOf(c)' = IF held' THEN "held" ELSE IF phase'[c] = "new" THEN "new" ELSE "done"
  BY <1>0 DEF SlotOf, Live, Sid, Cc
<1> USE DEF RegistryTypeOK, LifeTypeOK, CallOK, OneSlot, NotBeforeItsTime, SlotId, Key,
            Goes, SessionGoes
<1>2. CASE Dispatch(c) \/ Incoming(c)
  <2>1. phase[c] = "new" /\ ~held /\ held'
    BY <1>0, <1>2 DEF Dispatch, TryReserve, Incoming, Track, Insert, Live, Sid, Cc
  <2>2. QED BY <1>1, <1>2, <2>1
<1>3. CASE CredentialsRejected(c) \/ DialAccepted(c) \/ Connected(c) \/ VerdictWaitOver(c)
           \/ MediaNeverComes(c) \/ LegEnds(c)
  <2>1. (held' <=> held) /\ (phase'[c] = "new" <=> phase[c] = "new")
    BY <1>0, <1>3 DEF CredentialsRejected, DialAccepted, Connected, VerdictWaitOver,
         MediaNeverComes, LegEnds, vars, metricsVars, callVars, Sid, Cc
  <2>2. QED BY <1>1, <2>1
<1>4. CASE RekeyDialled(c)
  <2>1. (held' <=> held) /\ phase' = phase
    BY <1>0, <1>4 DEF RekeyDialled, Rekey, Live, metricsVars, callVars, Sid, Cc
  <2>2. QED BY <1>1, <2>1
<1>5. CASE StartPipeline(c) \/ LeaveVoicemail(c) \/ TakeAgentOff(c)
  <2>1. (held' <=> held) /\ phase' = phase
    BY <1>0, <1>5 DEF StartPipeline, LeaveVoicemail, TakeAgentOff, MarkOnGPU, MarkVoicemail,
         Live, Sid, Cc
  <2>2. QED BY <1>1, <2>1
<1>6. CASE DispatchFails(c) \/ AnswerFails(c) \/ HangupWebhook(c) \/ PipelineEnds(c)
  <2>1. phase[c] # "new" /\ phase'[c] # "new" /\ (held' => held)
    BY <1>0, <1>6 DEF DispatchFails, AnswerFails, HangupWebhook, PipelineEnds, Release,
         Forget, Live, vars, metricsVars, callVars, Sid, Cc
  <2>2. QED BY <1>1, <2>1
<1>7. QED
  BY <1>2, <1>3, <1>4, <1>5, <1>6, Zenon DEF CallStep

LEMMA OtherSlots ==
  ASSUME NEW c \in Call, SameSlots(c), phase'[c] = phase[c]
  PROVE  SlotOf(c)' = SlotOf(c)
BY DEF SlotOf, Live, SameSlots, Sid, Cc

(* The instance counts sets as the registry does. *)
LEMMA LedgerCardinality == \A S : Ledger!Cardinality(S) = Cardinality(S)
BY DEF Ledger!Cardinality, Cardinality

(* Admission asks for room in the map, so there is room in the ledger. *)
LEMMA RoomInLedger ==
  ASSUME LifeInv, MaxTotalCalls > 0, ~TotalFull
  PROVE  Cardinality(Ledger!Held \ Inbound) < MaxTotalCalls
<1> DEFINE H == Ledger!Held \ Inbound
           f == [c \in H |-> SlotId(c)]
<1>1. \A c \in H : c \in Call /\ SlotId(c) \in Live
  <2> SUFFICES ASSUME NEW c \in H PROVE c \in Call /\ SlotId(c) \in Live
    OBVIOUS
  <2>1. c \in Call /\ (Sid(c) \in Live \/ Cc(c) \in Live)
    BY DEF Ledger!Held, SlotOf
  <2>2. OneSlot(c)
    BY <2>1 DEF LifeInv, CallOK
  <2>3. QED BY <2>1, <2>2 DEF OneSlot, Live
<1>2. \A c, d \in H : SlotId(c) = SlotId(d) => c = d
  BY <1>1, Ids DEF SlotId
<1>3. f \in Injection(H, Live)
  BY <1>1, <1>2 DEF Injection, IsInjective
<1> HIDE DEF f, H
<1>4. IsFiniteSet(H) /\ Cardinality(H) <= Cardinality(Live) /\ Cardinality(H) \in Nat
  BY <1>3, LiveFinite, FS_Injection, FS_CardinalityType
<1>5. QED BY <1>4, LiveFinite, MetricsAssumption DEF TotalFull, H

LEMMA LedgerCallStep ==
  ASSUME RegistryTypeOK, LifeTypeOK, LifeInv, NEW c \in Call, CallStep(c)
  PROVE  Ledger!Next \/ UNCHANGED [d \in Call |-> SlotOf(d)]
<1>1. \A d \in Call \ {c} : SlotOf(d)' = SlotOf(d)
  BY OtherCallsKeep, OwnLifeOnly, OtherSlots DEF SameLife
<1>2. CASE SlotOf(c)' = SlotOf(c)
  BY <1>1, <1>2
<1>3. CASE SlotOf(c) = "new" /\ SlotOf(c)' = "held" /\ (Dispatch(c) \/ Incoming(c))
  <2>1. c \in Inbound \/ MaxTotalCalls = 0 \/ Cardinality(Ledger!Held \ Inbound) < MaxTotalCalls
    <3>1. c \in Inbound \/ ~TotalFull
      BY <1>3 DEF Dispatch, Incoming, TryReserve, Accepting
    <3>2. MaxTotalCalls = 0 \/ MaxTotalCalls > 0
      BY MetricsAssumption
    <3>3. QED BY <3>1, <3>2, RoomInLedger
  <2>2. Ledger!Cardinality(Ledger!Held \ Inbound) = Cardinality(Ledger!Held \ Inbound)
    BY LedgerCardinality
  <2>3. [d \in Call |-> SlotOf(d)]' = [[d \in Call |-> SlotOf(d)] EXCEPT ![c] = "held"]
    BY <1>1, <1>3
  <2>4. Ledger!Grant(c)
    BY <1>3, <2>1, <2>2, <2>3 DEF Ledger!Grant
  <2>5. QED BY <2>4 DEF Ledger!Next
<1>4. CASE SlotOf(c) = "held" /\ SlotOf(c)' = "done"
  <2>1. Ledger!Return({c})
    BY <1>1, <1>4 DEF Ledger!Return, Ledger!Held
  <2>2. QED BY <2>1 DEF Ledger!Next
<1>5. CallOK(c)
  BY DEF LifeInv
<1>6. QED BY <1>2, <1>3, <1>4, <1>5, OwnSlot

LEMMA LedgerReap ==
  ASSUME RegistryTypeOK, LifeInv, Reap
  PROVE  Ledger!Next
<1> DEFINE S == {c \in Call : Sid(c) \in Overdue \/ Cc(c) \in Overdue}
<1>1. Overdue \subseteq Live /\ Overdue # {} /\ Live' = Live \ Overdue /\ UNCHANGED lifeVars
  BY ReapTypes DEF Reap, ReapStale, Overdue, InState, Live
<1>2. S # {}
  <2>1. PICK id \in Overdue : TRUE
    BY <1>1
  <2>2. PICK c \in Call, k \in {"sid", "cc"} : id = <<c, k>>
    BY <1>1, CapacityAssumption DEF Live
  <2>3. id = Sid(c) \/ id = Cc(c)
    BY <2>2 DEF Sid, Cc
  <2>4. QED BY <2>1, <2>3
<1>3. ASSUME NEW c \in Call
      PROVE  /\ c \in S => SlotOf(c) = "held" /\ SlotOf(c)' = "done"
             /\ c \notin S => SlotOf(c)' = SlotOf(c)
  <2>1. SlotOf(c)' = IF Sid(c) \in Live' \/ Cc(c) \in Live' THEN "held"
                     ELSE IF phase[c] = "new" THEN "new" ELSE "done"
    BY <1>1 DEF SlotOf, lifeVars, Sid, Cc
  <2>2. OneSlot(c) /\ NotBeforeItsTime(c) /\ Sid(c) # Cc(c)
        /\ Sid(c) \in CallId /\ Cc(c) \in CallId
    BY Ids DEF LifeInv, CallOK
  <2>3. (Sid(c) \in Live => SlotId(c) = Sid(c)) /\ (Cc(c) \in Live => SlotId(c) = Cc(c))
    BY <2>2 DEF OneSlot, Live
  <2>4. phase[c] = "new" => Sid(c) \notin Live /\ Cc(c) \notin Live
    BY <2>2, <2>3 DEF NotBeforeItsTime, Live
  <2>5. QED BY <1>1, <2>1, <2>2, <2>3, <2>4 DEF SlotOf
<1>4. Ledger!Return(S)
  BY <1>2, <1>3 DEF Ledger!Return, Ledger!Held
<1>5. QED BY <1>4 DEF Ledger!Next

(* The registry, used by every handler at once, implements SlotLedger: a    *)
(* call is granted one slot, below the ceiling unless it is inbound, and a  *)
(* slot that came back stays back, whatever late or repeated transition     *)
(* arrives for it (metrics.go, telnyx_call.go, rexa_dispatch.go).           *)
THEOREM KeepsLedgerHolds == CapacitySpec => KeepsLedger
<1>1. CapacityInit => Ledger!Init
  <2> SUFFICES ASSUME CapacityInit PROVE Ledger!Init
    OBVIOUS
  <2>1. Live = {} /\ \A c \in Call : phase[c] = "new"
    BY DEF CapacityInit, Init, Live
  <2>2. \A c \in Call : SlotOf(c) = "new"
    BY <2>1 DEF SlotOf
  <2>3. QED BY <2>2 DEF Ledger!Init
<1>2. TypeOK /\ LifeTypeOK /\ LifeInv /\ [CapacityNext]_capacityVars
      => [Ledger!Next]_([c \in Call |-> SlotOf(c)])
  <2> SUFFICES ASSUME TypeOK, LifeTypeOK, LifeInv, [CapacityNext]_capacityVars
               PROVE  Ledger!Next \/ UNCHANGED [c \in Call |-> SlotOf(c)]
    OBVIOUS
  <2>1. RegistryTypeOK
    BY TypesSplit
  <2>2. ASSUME UNCHANGED <<state, phase>>
        PROVE  UNCHANGED [c \in Call |-> SlotOf(c)]
    BY <2>2 DEF SlotOf, Live, Sid, Cc
  <2>3. CASE TimePasses
    BY <2>2, <2>3 DEF TimePasses, Tick, lifeVars
  <2>4. CASE UNCHANGED capacityVars
    BY <2>2, <2>4 DEF capacityVars, vars, metricsVars, callVars, lifeVars
  <2>5. QED BY <2>1, <2>3, <2>4, LedgerCallStep, LedgerReap DEF CapacityNext
<1>3. QED
  BY <1>1, <1>2, LifeInvHolds, RegistryTypes, LifeTypeCorrect, PTL
     DEF CapacitySpec, KeepsLedger, Ledger!Spec
=============================================================================
