-------------------------- MODULE PhoneCall_proofs --------------------------
(***************************************************************************)
(* For any number of media streams and any size of the verdict channel.    *)
(***************************************************************************)
EXTENDS PhoneCall, TLAPS

LEMMA TypeInit == Init => TypeOK
<1> SUFFICES ASSUME Init PROVE TypeOK
  OBVIOUS
<1>1. Flags
  BY Zenon DEF Init, Flags
<1>2. CallTypes
  BY PhoneAssumption DEF Init, CallTypes, Verdict
<1>3. MediaTypes
  BY PhoneAssumption DEF Init, MediaTypes, Stream, Verdict, Handler
<1>4. QED BY <1>1, <1>2, <1>3 DEF TypeOK

(* What is signalled fits the channel, or is lost. *)
LEMMA SignalType ==
  ASSUME NEW v \in Verdict, amdCh \in Seq(Verdict), Len(amdCh) <= ChannelSize, Signal(v)
  PROVE  amdCh' \in Seq(Verdict) /\ Len(amdCh') <= ChannelSize
<1>1. CASE Len(amdCh) < ChannelSize
  <2>1. Append(amdCh, v) \in Seq(Verdict) /\ Len(Append(amdCh, v)) = Len(amdCh) + 1
    OBVIOUS
  <2>2. QED BY <1>1, <2>1, PhoneAssumption DEF Signal
<1>2. CASE ~(Len(amdCh) < ChannelSize)
  BY <1>2 DEF Signal
<1>3. QED BY <1>1, <1>2

(* What is taken from the channel is a verdict. *)
LEMMA TakeType ==
  ASSUME amdCh \in Seq(Verdict), amdCh # <<>>
  PROVE  /\ Head(amdCh) \in Verdict /\ Tail(amdCh) \in Seq(Verdict)
         /\ Len(Tail(amdCh)) <= Len(amdCh)
  OBVIOUS

LEMMA FlagsStep == Flags /\ [Next]_vars => Flags'
<1> SUFFICES ASSUME Flags, [Next]_vars PROVE Flags'
  OBVIOUS
<1> DEFINE others == <<entry, kept, deleting, answered, agentEnded, reported, handedOver,
                       leaving, dropped, gone>>
<1>0. ASSUME UNCHANGED others, streaming' = streaming \/ streaming' = FALSE PROVE Flags'
  BY <1>0, Zenon DEF Flags
<1>1. CASE CarrierStep \/ UNCHANGED vars
  <2>1. UNCHANGED others /\ (streaming' = streaming \/ streaming' = FALSE)
    BY <1>1 DEF CarrierStep, Ring, Answer, Detect, LegEnds, EndLeg, SocketDrops,
                contract, memory, marks, carrier, vars
  <2>2. QED BY <1>0, <2>1
<1>2. CASE DialReturns \/ DialFails
  BY <1>2, ZenonT(60) DEF DialReturns, DialFails, Flags, contract, memory, marks, carrier
<1>3. CASE WebhookStep
  <2>1. CASE WebhookAnswered
    BY <2>1, Zenon DEF WebhookAnswered, Flags, marks, memory
  <2>2. CASE WebhookHangup
    BY <2>2, Zenon DEF WebhookHangup, ClaimReport, Flags, marks
  <2>3. CASE WebhookDetection \/ WebhookGreeting
    BY <1>0, <2>3 DEF WebhookDetection, WebhookGreeting, contract, memory
  <2>4. CASE HangupDeletes
    BY <2>4, Zenon DEF HangupDeletes, Flags, marks, carrier, memory
  <2>5. CASE WebhookRecording
    BY <2>5, Zenon DEF WebhookRecording, Flags, marks, memory
  <2>6. CASE Sweep \/ TimePasses
    <3>1. CASE Sweep
      BY <3>1, Zenon DEF Sweep, Flags, marks, carrier
    <3>2. CASE TimePasses
      BY <1>0, <3>2 DEF TimePasses, marks, carrier
    <3>3. QED BY <2>6, <3>1, <3>2
  <2>7. QED BY <1>3, <2>1, <2>2, <2>3, <2>4, <2>5, <2>6 DEF WebhookStep
<1>4. CASE MaxCallSecs
  BY <1>4, Zenon DEF MaxCallSecs, EndLeg, Flags, contract, memory
<1>5. ASSUME NEW s \in Stream, MediaStep(s) PROVE Flags'
  <2>1. CASE VoicemailDone(s)
    BY <2>1, Zenon DEF VoicemailDone, EndLeg, Flags, contract, memory, marks
  <2>2. CASE WatchTakes(s)
    BY <2>2, Zenon DEF WatchTakes, StopMedia, Flags, contract, memory
  <2>3. CASE ~VoicemailDone(s) /\ ~WatchTakes(s)
    BY <1>0, <1>5, <2>3
    DEF MediaStep, Fork, Greet, Forward, ForwarderStops, HearMachine, TakeForHuman,
        StartSession, SessionEnds, WatchGivesUp, contract, memory, marks, carrier
  <2>4. QED BY <2>1, <2>2, <2>3
<1>6. CASE LeaveCall \/ LeaveCallStops
  BY <1>6, ZenonT(60) DEF LeaveCall, LeaveCallStops, StopMedia, Flags, contract, memory, carrier
<1>7. QED
  BY <1>1, <1>2, <1>3, <1>4, <1>5, <1>6 DEF Next

LEMMA CallTypesStep == CallTypes /\ [Next]_vars => CallTypes'
<1> SUFFICES ASSUME CallTypes, [Next]_vars PROVE CallTypes'
  OBVIOUS
<1>1. CASE CarrierStep \/ MaxCallSecs
  BY <1>1 DEF CarrierStep, Ring, Answer, Detect, Conclusions, LegEnds, EndLeg, SocketDrops,
              MaxCallSecs, CallTypes, Verdict, carrier, contract, memory, marks
<1>2. CASE DialReturns \/ DialFails
  BY <1>2 DEF DialReturns, DialFails, CallTypes, carrier, contract, memory, marks
<1>3. CASE WebhookDetection \/ WebhookGreeting
  BY <1>3 DEF WebhookDetection, WebhookGreeting, NoteVerdict, CallTypes, Verdict, contract, memory
<1>4. CASE WebhookHangup
  BY <1>4, PhoneAssumption DEF WebhookHangup, HungUp, ClaimReport, Status, CallTypes, marks
<1>9. CASE Sweep \/ TimePasses
  <2>1. keptFor' \in 0..(EndedTTL + 1) /\ hungFor' \in 0..(EndedTTL + 1)
    BY <1>9, PhoneAssumption DEF Sweep, TimePasses, Older, CallTypes
  <2>2. QED BY <1>9, <2>1 DEF Sweep, TimePasses, CallTypes, carrier, marks
<1>5. CASE WebhookAnswered \/ HangupDeletes \/ WebhookRecording
  BY <1>5 DEF WebhookAnswered, HangupDeletes, WebhookRecording, CallTypes, carrier, marks,
              memory
<1>6. ASSUME NEW s \in Stream, MediaStep(s) PROVE CallTypes'
  BY <1>6
  DEF MediaStep, Fork, Greet, Forward, ForwarderStops, HearMachine, TakeForHuman,
      StartSession, SessionEnds, VoicemailDone, EndLeg, WatchTakes, WatchGivesUp,
      CallTypes, carrier, contract, memory, marks
<1>7. CASE LeaveCall \/ LeaveCallStops \/ UNCHANGED vars
  BY <1>7 DEF LeaveCall, LeaveCallStops, CallTypes, carrier, contract, memory, marks, vars
<1>8. QED
  BY <1>1, <1>2, <1>3, <1>4, <1>5, <1>6, <1>7, <1>9 DEF Next, WebhookStep

LEMMA MediaTypesStep == CallTypes /\ MediaTypes /\ [Next]_vars => MediaTypes'
<1> SUFFICES ASSUME CallTypes, MediaTypes, [Next]_vars PROVE MediaTypes'
  OBVIOUS
<1>1. CASE CarrierStep \/ MaxCallSecs
  BY <1>1 DEF CarrierStep, Ring, Answer, Detect, LegEnds, EndLeg, SocketDrops, MaxCallSecs,
              MediaTypes, media
<1>2. CASE DialReturns \/ DialFails \/ UNCHANGED vars
  BY <1>2 DEF DialReturns, DialFails, MediaTypes, media, vars
<1>3. CASE WebhookDetection \/ WebhookGreeting
  <2>1. amdCh' = amdCh \/ (Signal(detected) /\ detected # "none") \/ Signal("machine")
    <3>1. CASE WebhookDetection
      BY <3>1, Zenon DEF WebhookDetection, NoteVerdict
    <3>2. CASE WebhookGreeting
      BY <3>2, Zenon DEF WebhookGreeting, NoteVerdict
    <3>3. QED BY <1>3, <3>1, <3>2
  <2>2. amdCh' \in Seq(Verdict) /\ Len(amdCh') <= ChannelSize
    BY <2>1, SignalType DEF CallTypes, MediaTypes, Verdict
  <2>3. QED BY <1>3, <2>2 DEF WebhookDetection, WebhookGreeting, MediaTypes, media
<1>4. CASE WebhookAnswered \/ WebhookHangup \/ HangupDeletes \/ WebhookRecording
           \/ Sweep \/ TimePasses
  BY <1>4 DEF WebhookAnswered, WebhookHangup, HangupDeletes, WebhookRecording, Sweep,
              TimePasses, MediaTypes, media
<1>5. ASSUME NEW s \in Stream, Forward(s) \/ WatchTakes(s) PROVE MediaTypes'
  <2>1. amdCh' \in Seq(Verdict) /\ Len(amdCh') <= ChannelSize
    BY <1>5, TakeType, PhoneAssumption DEF Forward, WatchTakes, MediaTypes
  <2>2. CASE Forward(s)
    <3>1. got' \in [Stream -> Verdict \cup {"none"}]
      BY <2>2, TakeType DEF Forward, MediaTypes
    <3>2. QED BY <2>1, <2>2, <3>1 DEF Forward, MediaTypes
  <2>3. CASE WatchTakes(s)
    <3>1. stopMedia' \in Stream \cup {0} /\ open' \in SUBSET Stream
      BY <2>3 DEF WatchTakes, StopMedia, MediaTypes
    <3>2. QED BY <2>1, <2>3, <3>1 DEF WatchTakes, MediaTypes
  <2>4. QED BY <1>5, <2>2, <2>3
<1>6. ASSUME NEW s \in Stream, Fork(s) \/ Greet(s) \/ ForwarderStops(s) \/ WatchGivesUp(s)
      PROVE  MediaTypes'
  BY <1>6 DEF Fork, Greet, ForwarderStops, WatchGivesUp, Goes, MediaTypes, Handler
<1>7. ASSUME NEW s \in Stream,
             HearMachine(s) \/ TakeForHuman(s) \/ StartSession(s) \/ SessionEnds(s)
             \/ VoicemailDone(s)
      PROVE  MediaTypes'
  BY <1>7 DEF HearMachine, TakeForHuman, StartSession, SessionEnds, VoicemailDone, EndLeg,
              Goes, MediaTypes, Handler
<1>8. CASE LeaveCall \/ LeaveCallStops
  BY <1>8 DEF LeaveCall, LeaveCallStops, StopMedia, MediaTypes, media
<1>9. QED
  BY <1>1, <1>2, <1>3, <1>4, <1>5, <1>6, <1>7, <1>8 DEF Next, WebhookStep, MediaStep

LEMMA TypeStep == TypeOK /\ [Next]_vars => TypeOK'
  BY FlagsStep, CallTypesStep, MediaTypesStep DEF TypeOK

(* The states, their events and their numbers are what they should be.     *)
THEOREM TypeCorrect == Spec => []TypeOK
  BY TypeInit, TypeStep, PTL DEF Spec

-----------------------------------------------------------------------------
(* Who has reported the call, and what is left of it in the registry.      *)
Contract ==
  /\ Len(reports) <= 1
  /\ reported => reports # <<>>
  /\ reports # <<>> => reported \/ dispatch = "failed"
  /\ reported \/ entry => dispatch = "registered"
  /\ dispatch = "failed" => reports # <<>>
  /\ deleting => hungUp # "no"
  /\ dispatch = "registered" /\ hungUp = "no" => entry
  /\ hungUp = "yes" => reports # <<>> /\ dispatch # "dialling"
  /\ hungUp = "yes" /\ dispatch = "registered" => kept \/ hungFor > EndedTTL
  /\ kept => keptFor <= hungFor
  /\ hungUp # "early" => ~dropped

LEMMA ContractInit == Init => Contract
  BY DEF Init, Contract

(* A first report makes one. *)
LEMMA FirstReport ==
  ASSUME CallTypes, reports = <<>>, NEW x, reports' = Append(reports, x)
  PROVE  Len(reports') = 1 /\ reports' # <<>>
  BY DEF CallTypes

LEMMA ContractStep == TypeOK /\ Contract /\ [Next]_vars => Contract'
<1> SUFFICES ASSUME TypeOK, Contract, [Next]_vars PROVE Contract'
  OBVIOUS
<1>1. CASE UNCHANGED <<dispatch, entry, memory, deleting, reported, reports, hungUp, dropped>>
  BY <1>1 DEF Contract, memory
<1>2. CASE DialReturns
  BY <1>2 DEF DialReturns, Contract, contract, memory, carrier
<1>3. CASE DialFails
  BY <1>3 DEF DialFails, Contract, contract, memory, carrier
<1>4. CASE WebhookHangup
  <2>0. keptFor' = 0 /\ hungFor' \in Nat
    BY <1>4, PhoneAssumption DEF WebhookHangup, TypeOK, CallTypes
  <2>1. HungUp /\ ClaimReport /\ UNCHANGED <<dispatch, entry, hungFor, dropped>>
    BY <1>4 DEF WebhookHangup
  <2>2. (kept => kept') /\ (entry => kept')
    BY <1>4, Zenon DEF WebhookHangup
  <2>3. hungUp' # "no" /\ (hungUp' = "early" => hungUp = "early" \/ dispatch = "dialling")
        /\ (hungUp = "early" => hungUp' = "early")
    BY <2>1 DEF HungUp
  <2>4. hungUp' = "yes" /\ dispatch = "registered" => kept' \/ hungFor > EndedTTL
    BY <2>1, <2>2 DEF HungUp, Contract
  <2>5. CASE entry /\ ~reported
    <3>1. dispatch = "registered" /\ reports = <<>>
      BY <2>5 DEF Contract
    <3>2. reported' /\ reports' = Append(reports, Status)
      BY <2>1, <2>5, Zenon DEF ClaimReport
    <3>3. Len(reports') = 1 /\ reports' # <<>>
      BY <3>1, <3>2, FirstReport DEF TypeOK
    <3>4. QED BY <2>0, <2>1, <2>3, <2>4, <3>1, <3>2, <3>3 DEF Contract
  <2>6. CASE ~(entry /\ ~reported)
    <3>1. UNCHANGED <<reported, reports>>
      BY <2>1, <2>6, Zenon DEF ClaimReport
    <3>2. hungUp' = "yes" => reports # <<>> /\ dispatch # "dialling"
      BY <2>1, <2>6 DEF HungUp, Contract, TypeOK, CallTypes
    <3>3. QED BY <2>0, <2>1, <2>3, <2>4, <3>1, <3>2 DEF Contract
  <2>7. QED BY <2>5, <2>6
<1>5. CASE HangupDeletes
  BY <1>5 DEF HangupDeletes, Contract, contract, memory, carrier
<1>6. CASE WebhookRecording
  <2> DEFINE lost == /\ dispatch = "registered" /\ ~entry /\ ~kept
                     /\ hungFor <= EndedTTL
  <2>1. UNCHANGED <<hungUp, reports, reported, dispatch, entry, deleting, memory>>
    BY <1>6 DEF WebhookRecording
  <2>2. dropped' => dropped \/ lost
    BY <1>6, Zenon DEF WebhookRecording
  <2>3. hungUp # "early" => ~lost
    BY PhoneAssumption DEF TypeOK, CallTypes, Contract
  <2>4. QED BY <2>1, <2>2, <2>3 DEF Contract, memory
<1>12. CASE Sweep
  <2>1. kept /\ ~kept' /\ hungFor > EndedTTL /\ UNCHANGED hungFor
    BY <1>12, PhoneAssumption DEF Sweep, Contract, TypeOK, CallTypes
  <2>2. UNCHANGED <<dispatch, entry, deleting, reported, reports, hungUp, dropped>>
    BY <1>12 DEF Sweep
  <2>3. QED BY <2>1, <2>2 DEF Contract
<1>13. CASE TimePasses
  <2>1. /\ hungFor > EndedTTL => hungFor' > EndedTTL
        /\ kept => keptFor' <= hungFor'
    BY <1>13, PhoneAssumption DEF TimePasses, Older, Contract, TypeOK, CallTypes
  <2>2. UNCHANGED <<dispatch, entry, kept, deleting, reported, reports, hungUp, dropped>>
    BY <1>13 DEF TimePasses
  <2>3. QED BY <2>1, <2>2 DEF Contract
<1>7. CASE CarrierStep \/ UNCHANGED vars
  BY <1>1, <1>7 DEF CarrierStep, Ring, Answer, Detect, LegEnds, EndLeg, SocketDrops, contract, memory,
      vars
<1>8. CASE WebhookAnswered \/ WebhookDetection \/ WebhookGreeting \/ MaxCallSecs
  BY <1>1, <1>8 DEF WebhookAnswered, WebhookDetection, WebhookGreeting, MaxCallSecs, contract, memory
<1>9. ASSUME NEW s \in Stream, MediaStep(s) PROVE Contract'
  BY <1>1, <1>9
  DEF MediaStep, Fork, Greet, Forward, ForwarderStops, HearMachine, TakeForHuman,
      StartSession, SessionEnds, VoicemailDone, WatchTakes, WatchGivesUp, contract, memory
<1>10. CASE LeaveCall \/ LeaveCallStops
  BY <1>1, <1>10 DEF LeaveCall, LeaveCallStops, contract, memory
<1>11. QED
  BY <1>2, <1>3, <1>4, <1>5, <1>6, <1>7, <1>8, <1>9, <1>10, <1>12, <1>13
  DEF Next, WebhookStep

-----------------------------------------------------------------------------
(* Nothing leaves or watches a call before it is registered, and a call    *)
(* that was left is latched for as long as it is in the registry.          *)
HandOver ==
  /\ gone => open = {} /\ dispatch = "registered" /\ (entry => handedOver)
  /\ leaving => dispatch = "registered" /\ (entry => handedOver)
  /\ watching # {} => dispatch = "registered"
  /\ \A s \in Stream : handler[s] # "none" => dispatch = "registered"

LEMMA HandOverInit == Init => HandOver
  BY DEF Init, HandOver

LEMMA HandOverStep == TypeOK /\ Contract /\ HandOver /\ [Next]_vars => HandOver'
<1> SUFFICES ASSUME TypeOK, Contract, HandOver, [Next]_vars PROVE HandOver'
  OBVIOUS
<1>1. ASSUME UNCHANGED <<gone, dispatch, entry, handedOver, leaving, watching, handler>>,
             open' \subseteq open
      PROVE  HandOver'
  BY <1>1 DEF HandOver
<1>2. CASE CarrierStep \/ UNCHANGED vars
  <2>1. UNCHANGED <<gone, dispatch, entry, handedOver, leaving, watching, handler>>
    BY <1>2 DEF CarrierStep, Ring, Answer, Detect, LegEnds, SocketDrops, marks, media, vars
  <2>2. open' \subseteq open
    BY <1>2 DEF CarrierStep, Ring, Answer, Detect, LegEnds, EndLeg, SocketDrops, media, vars
  <2>3. QED BY <1>1, <2>1, <2>2
<1>3. CASE DialReturns
  BY <1>3 DEF DialReturns, HandOver, Contract, marks, media
<1>4. CASE DialFails
  BY <1>4 DEF DialFails, HandOver, marks, media
<1>5. CASE WebhookStep
  <2>1. UNCHANGED <<gone, dispatch, handedOver, leaving, watching, handler, open>>
    BY <1>5 DEF WebhookStep, WebhookAnswered, WebhookDetection, WebhookGreeting, WebhookHangup,
                HangupDeletes, WebhookRecording, Sweep, TimePasses, marks, media
  <2>2. entry' => entry
    BY <1>5 DEF WebhookStep, WebhookAnswered, WebhookDetection, WebhookGreeting, WebhookHangup,
                HangupDeletes, WebhookRecording, Sweep, TimePasses
  <2>3. QED BY <2>1, <2>2 DEF HandOver
<1>6. CASE MaxCallSecs
  BY <1>1, <1>6 DEF MaxCallSecs, EndLeg
<1>7. ASSUME NEW s \in Stream, Fork(s) PROVE HandOver'
  <2>1. ~gone /\ dispatch = "registered"
        /\ UNCHANGED <<gone, leaving, dispatch, entry, handedOver, watching>>
    BY <1>7 DEF Fork, HandOver, Contract, marks, media
  <2>2. QED BY <2>1 DEF HandOver
<1>8. ASSUME NEW s \in Stream,
             Greet(s) \/ HearMachine(s) \/ TakeForHuman(s) \/ StartSession(s)
             \/ SessionEnds(s) \/ VoicemailDone(s)
      PROVE  HandOver'
  <2>1. handler[s] # "none" /\ \A r \in Stream : r # s => handler'[r] = handler[r]
    BY <1>8 DEF Greet, HearMachine, TakeForHuman, StartSession, SessionEnds, VoicemailDone,
               Goes, TypeOK, MediaTypes
  <2>2. UNCHANGED <<gone, dispatch, entry, handedOver, leaving>> /\ open' \subseteq open
    BY <1>8 DEF Greet, HearMachine, TakeForHuman, StartSession, SessionEnds, VoicemailDone,
               EndLeg, marks
  <2>3. QED BY <2>1, <2>2 DEF HandOver
<1>9. ASSUME NEW s \in Stream, Forward(s) \/ ForwarderStops(s) \/ WatchGivesUp(s)
      PROVE  HandOver'
  BY <1>9 DEF Forward, ForwarderStops, WatchGivesUp, HandOver, marks
<1>10. ASSUME NEW s \in Stream, WatchTakes(s) PROVE HandOver'
  <2>1. dispatch = "registered" /\ UNCHANGED <<leaving, dispatch, entry, handler>>
    BY <1>10 DEF WatchTakes, HandOver
  <2>2. handedOver => handedOver'
    BY <1>10, Zenon DEF WatchTakes
  <2>3. gone' => (gone /\ open' \subseteq open) \/ (open' = {} /\ (entry => handedOver'))
    <3>1. CASE StopMedia /\ handedOver' = (handedOver \/ entry)
      BY <3>1 DEF StopMedia
    <3>2. CASE UNCHANGED <<gone, open>>
      BY <3>2
    <3>3. QED BY <1>10, <3>1, <3>2 DEF WatchTakes
  <2>4. QED BY <2>1, <2>2, <2>3 DEF HandOver
<1>11. CASE LeaveCall
  BY <1>11 DEF LeaveCall, HandOver, marks, media, Contract
<1>12. CASE LeaveCallStops
  BY <1>12 DEF LeaveCallStops, StopMedia, HandOver, marks, media
<1>13. QED
  BY <1>2, <1>3, <1>4, <1>5, <1>6, <1>7, <1>8, <1>9, <1>10, <1>11, <1>12
  DEF Next, MediaStep

-----------------------------------------------------------------------------
(* The strengthened invariant: types, contract, memory and hand-over together.     *)
PhoneInv == TypeOK /\ Contract /\ HandOver

LEMMA PhoneInvariant == Spec => []PhoneInv
<1>1. Init => PhoneInv
  BY TypeInit, ContractInit, HandOverInit DEF PhoneInv
<1>2. PhoneInv /\ [Next]_vars => PhoneInv'
  BY TypeStep, ContractStep, HandOverStep DEF PhoneInv
<1>3. QED BY <1>1, <1>2, PTL DEF Spec

(* The report is sent at most once: claimReport under any number of        *)
(* hangups handled at once, and the failure report of a dial that rang.    *)
THEOREM ReportedOnceHolds == Spec => []ReportedOnce
<1>1. PhoneInv => ReportedOnce
  BY DEF PhoneInv, Contract, ReportedOnce
<1>2. QED BY <1>1, PhoneInvariant, PTL

(* A call whose first hangup found it registered has been reported once    *)
(* the handling is over.                                                   *)
THEOREM ReportedUnlessEarlyHolds == Spec => []ReportedUnlessEarly
<1>1. PhoneInv => ReportedUnlessEarly
  BY DEF PhoneInv, TypeOK, CallTypes, Contract, ReportedUnlessEarly, Settled
<1>2. QED BY <1>1, PhoneInvariant, PTL

(* A recording saved within endedTTL of the first hangup finds the call,   *)
(* live or remembered (telnyx_call.go platformOf, remember): a sweep takes *)
(* only what was remembered longer ago than that.                          *)
THEOREM RecordingReportedHolds == Spec => []RecordingReported
<1>1. PhoneInv => RecordingReported
  BY DEF PhoneInv, Contract, RecordingReported
<1>2. QED BY <1>1, PhoneInvariant, PTL

(* No second agent after a hand-over that the carrier has confirmed.       *)
THEOREM AgentGoneForGoodHolds == Spec => []AgentGoneForGood
<1>1. PhoneInv => AgentGoneForGood
  BY DEF PhoneInv, HandOver, AgentGoneForGood
<1>2. QED BY <1>1, PhoneInvariant, PTL
=============================================================================
