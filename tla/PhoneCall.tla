------------------------------ MODULE PhoneCall ------------------------------
(***************************************************************************)
(* One outbound platform call (examples/websocket/telnyx_call.go,          *)
(* rexa_dispatch.go): the dispatch that dials it, the carrier's webhooks   *)
(* in whatever order and number they arrive, the media streams the carrier *)
(* forks to the agent, the answering-machine protocol between them, the    *)
(* hand-over to somebody else, and the one end-of-call report.             *)
(*                                                                         *)
(* A critical section of the call registry is never interrupted, and a     *)
(* webhook handler is one action, except for call.hangup: another handler  *)
(* may come between its report and its removal of the call.                *)
(***************************************************************************)
EXTENDS Integers, Sequences

CONSTANTS MaxStreams,   \* bound: media connections per call
          ChannelSize,  \* of the channel that carries verdicts
          EndedTTL,     \* endedTTL, in ticks
          Greeted       \* may a stream be greeted from the cache, or not, or both

ASSUME PhoneAssumption ==
  /\ MaxStreams \in Nat \ {0} /\ ChannelSize \in Nat \ {0}
  /\ EndedTTL \in Nat
  /\ Greeted \subseteq BOOLEAN

Stream == 1..MaxStreams

VARIABLES
  \* the carrier
  leg,         \* "none", "ringing", "answered", "over" or "missed"
  who,         \* who answers: "human" or "machine"
  detected,    \* what detection concluded, "none" before that
  streaming,   \* the call's audio is forked to the agent
  \* the dispatch
  dispatch,    \* "dialling", "registered" or "failed"
  \* the call registry
  entry,       \* the call is in the registry
  kept,        \* it is among the recently ended
  keptFor,     \* ticks since it was last remembered there
  deleting,    \* a hangup handler has reported and not yet deleted
  verdict,     \* amdVerdict
  answered, agentEnded, reported, handedOver,
  stopMedia,   \* the stream stopMedia would close, 0 for none
  amdCh,       \* verdicts on their way to whoever reads them first
  \* the media handlers
  handler,     \* [Stream -> where its handler is]
  open,        \* the streams whose socket is open
  forwarding,  \* the streams whose forwarder waits for a verdict
  got,         \* [Stream -> the verdict its forwarder has passed on]
  watching,    \* the streams whose watchLateAMD waits for a verdict
  leaving,     \* leaveCall's goroutine has yet to stop the media
  \* what the platform hears
  reports,     \* the statuses of the end-of-call reports
  \* history
  hungUp,      \* the first hangup was handled: "no", "early" (while the
               \* call was not registered yet) or "yes"
  hungFor,     \* ticks since then
  dropped,     \* a recording of a registered call, saved no more than
               \* endedTTL after its first hangup, was not reported
  gone         \* the agent was taken off and the carrier stopped the fork

carrier  == <<leg, who, detected, streaming>>
memory   == <<kept, keptFor, hungFor>>
contract == <<memory, deleting, answered, reported, reports, hungUp, dropped>>
marks    == <<verdict, agentEnded, handedOver, gone>>
media    == <<handler, open, forwarding, got, watching, stopMedia>>
vars == <<carrier, dispatch, entry, contract, marks, amdCh, media, leaving>>

(* What the decisions tell apart: "unclear" is any verdict they all take    *)
(* for a person, not_sure among them.                                       *)
Verdict == {"unclear", "silence", "machine"}
Handler == {"none", "accepted", "waiting", "starting", "on", "voicemail", "over"}

(* What detection may conclude of each: it is never certain of a person. *)
Conclusions(w) ==
  IF w = "human" THEN {"unclear", "silence"} ELSE Verdict

(* isMachineVerdict: `silence` is taken for a person. *)
IsMachineVerdict(v) == v = "machine"

(* isMachineAMD, for the report: `silence` is taken for a machine. *)
IsMachineAMD(v) == v \in {"machine", "silence"}

Init ==
  /\ leg = "none" /\ who \in {"human", "machine"} /\ detected = "none"
  /\ streaming = FALSE
  /\ dispatch = "dialling" /\ entry = FALSE
  /\ kept = FALSE /\ keptFor = 0 /\ hungFor = 0 /\ deleting = FALSE
  /\ verdict = "none" /\ answered = FALSE /\ agentEnded = FALSE
  /\ reported = FALSE /\ handedOver = FALSE /\ stopMedia = 0
  /\ amdCh = <<>>
  /\ handler = [s \in Stream |-> "none"] /\ got = [s \in Stream |-> "none"]
  /\ open = {} /\ forwarding = {} /\ watching = {} /\ leaving = FALSE
  /\ reports = <<>>
  /\ hungUp = "no" /\ dropped = FALSE /\ gone = FALSE

-----------------------------------------------------------------------------
(* The carrier.  A webhook may be delivered late, any number of times, or   *)
(* never: one that has been sent is deliverable from then on.               *)

Answered == leg \in {"answered", "over"}
Ended    == leg \in {"over", "missed"}

Ring ==
  /\ leg = "none" /\ dispatch = "dialling"
  /\ leg' = "ringing"
  /\ UNCHANGED <<who, detected, streaming, dispatch, entry,
                 contract, marks, amdCh, media, leaving>>

Answer ==
  /\ leg = "ringing"
  /\ leg' = "answered"
  /\ UNCHANGED <<who, detected, streaming, dispatch, entry, contract, marks,
                 amdCh, media, leaving>>

(* call.machine.detection.ended, which some calls never get. *)
Detect ==
  /\ leg = "answered" /\ detected = "none"
  /\ detected' \in Conclusions(who)
  /\ UNCHANGED <<leg, who, streaming, dispatch, entry, contract, marks,
                 amdCh, media, leaving>>

(* The far end hangs up, or nobody answers.  The sockets close with the leg. *)
EndLeg ==
  /\ leg \in {"ringing", "answered"}
  /\ leg' = IF leg = "answered" THEN "over" ELSE "missed"
  /\ streaming' = FALSE
  /\ open' = {}

LegEnds ==
  /\ EndLeg
  /\ UNCHANGED <<who, detected, dispatch, entry, contract, marks, amdCh,
                 handler, forwarding, got, watching, stopMedia, leaving>>

SocketDrops(s) ==
  /\ s \in open
  /\ open' = open \ {s}
  /\ UNCHANGED <<carrier, dispatch, entry, contract, marks, amdCh, handler,
                 forwarding, got, watching, stopMedia, leaving>>

-----------------------------------------------------------------------------
(* DispatchPhone.                                                          *)

(* Dial returns the call's id, and the call is registered. *)
DialReturns ==
  /\ dispatch = "dialling" /\ leg # "none"
  /\ dispatch' = "registered"
  /\ entry' = TRUE
  /\ UNCHANGED <<carrier, contract, marks, amdCh, media, leaving>>

(* Dial returns an error, which need not mean that nothing rings: the       *)
(* failure is reported, and the call never registered.                      *)
DialFails ==
  /\ dispatch = "dialling"
  /\ dispatch' = "failed"
  /\ reports' = Append(reports, "failed")
  /\ UNCHANGED <<carrier, entry, memory, deleting, answered, reported, hungUp,
                 dropped, marks, amdCh, media, leaving>>

-----------------------------------------------------------------------------
(* handleTelnyxWebhook.                                                    *)

(* call.answered asks the carrier for the audio, which it may refuse. *)
WebhookAnswered ==
  /\ Answered
  /\ answered' = (answered \/ entry)
  /\ IF entry /\ leg = "answered"
     THEN streaming' \in {streaming, TRUE} ELSE UNCHANGED streaming
  /\ UNCHANGED <<leg, who, detected, dispatch, entry, memory, deleting,
                 reported, reports, hungUp, dropped, marks, amdCh, media, leaving>>

(* Mutant of Signal: the channel is not checked. *)
SignalAlways(v) == amdCh' = Append(amdCh, v)

(* signalAMD: a full channel loses the verdict. *)
Signal(v) ==
  amdCh' = IF Len(amdCh) < ChannelSize THEN Append(amdCh, v) ELSE amdCh

(* recordAMD, then signalAMD. *)
NoteVerdict(v) ==
  IF entry THEN verdict' = v /\ Signal(v) ELSE UNCHANGED <<verdict, amdCh>>

WebhookDetection ==
  /\ detected # "none"
  /\ NoteVerdict(detected)
  /\ UNCHANGED <<leg, who, detected, streaming, dispatch, entry, contract,
                 agentEnded, handedOver, gone, media, leaving>>

(* greeting.ended, which a person never causes, is a machine verdict too,    *)
(* unless one is already recorded.                                          *)
WebhookGreeting ==
  /\ Answered /\ who = "machine"
  /\ IF IsMachineVerdict(verdict)
     THEN UNCHANGED <<verdict, amdCh>> ELSE NoteVerdict("machine")
  /\ UNCHANGED <<leg, who, detected, streaming, dispatch, entry, contract,
                 agentEnded, handedOver, gone, media, leaving>>

(* Outcome.Report: what the call is said to have been. *)
Status ==
  IF IsMachineAMD(verdict) THEN "voicemail"
  ELSE IF ~answered THEN "unanswered"
  ELSE IF agentEnded THEN "agent_hung_up" ELSE "far_end_hung_up"

(* Mutant of ClaimReport: whoever finds the call reports it. *)
ClaimReportAlways ==
  IF entry
  THEN reported' = TRUE /\ reports' = Append(reports, Status)
  ELSE UNCHANGED <<reported, reports>>

(* Mutant of ClaimReport: only a call that was answered is reported. *)
ClaimReportAnswered ==
  IF entry /\ ~reported /\ answered
  THEN reported' = TRUE /\ reports' = Append(reports, Status)
  ELSE UNCHANGED <<reported, reports>>

(* claimReport and reportCallEnded. *)
ClaimReport ==
  IF entry /\ ~reported
  THEN reported' = TRUE /\ reports' = Append(reports, Status)
  ELSE UNCHANGED <<reported, reports>>

(* History: whether the first hangup handled found the call registered. *)
HungUp ==
  hungUp' = IF hungUp # "no" THEN hungUp
            ELSE IF dispatch = "dialling" THEN "early" ELSE "yes"

(* Mutant of WebhookHangup: the call is not kept for late events. *)
WebhookHangupForgets ==
  /\ Ended
  /\ ClaimReport
  /\ deleting' = TRUE
  /\ HungUp
  /\ UNCHANGED <<leg, who, detected, streaming, dispatch, entry, memory,
                 answered, dropped, marks, amdCh, media, leaving>>

(* call.hangup: the call, found among the live or the recently ended, is    *)
(* remembered as ended now, and reported ...                                *)
WebhookHangup ==
  /\ Ended
  /\ kept' = (kept \/ entry)
  /\ keptFor' = 0
  /\ ClaimReport
  /\ deleting' = TRUE
  /\ HungUp
  /\ UNCHANGED <<leg, who, detected, streaming, dispatch, entry, answered,
                 hungFor, dropped, marks, amdCh, media, leaving>>

(* ... and then deleted. *)
HangupDeletes ==
  /\ deleting
  /\ entry' = FALSE /\ deleting' = FALSE
  /\ UNCHANGED <<carrier, dispatch, memory, answered, reported, reports, hungUp,
                 dropped, marks, amdCh, media, leaving>>

(* Another call is remembered: what was remembered over endedTTL ago goes. *)
Sweep ==
  /\ kept /\ keptFor > EndedTTL
  /\ kept' = FALSE /\ keptFor' = 0
  /\ UNCHANGED <<carrier, dispatch, entry, deleting, answered, reported, reports,
                 hungUp, hungFor, dropped, marks, amdCh, media, leaving>>

Older(ticks) == IF ticks > EndedTTL THEN ticks ELSE ticks + 1

TimePasses ==
  /\ hungUp # "no"
  /\ hungFor' = Older(hungFor)
  /\ keptFor' = IF kept THEN Older(keptFor) ELSE keptFor
  /\ UNCHANGED <<carrier, dispatch, entry, kept, deleting, answered, reported,
                 reports, hungUp, dropped, marks, amdCh, media, leaving>>

(* A recording is finalised after the call: reportRecordingSaved looks     *)
(* among the live and the recently ended calls.                            *)
WebhookRecording ==
  /\ leg = "over"
  /\ dropped' = (dropped \/ (/\ dispatch = "registered" /\ ~entry /\ ~kept
                              /\ hungFor <= EndedTTL))
  /\ UNCHANGED <<leg, who, detected, streaming, dispatch, entry, memory,
                 deleting, answered, reported, reports, hungUp, marks, amdCh,
                 media, leaving>>

(* The safety net on the length of a call. *)
MaxCallSecs ==
  /\ answered /\ entry /\ ~agentEnded
  /\ agentEnded' = TRUE
  /\ \/ EndLeg
     \/ UNCHANGED <<leg, streaming, open>>
  /\ UNCHANGED <<who, detected, dispatch, entry, contract, verdict, handedOver,
                 gone, amdCh, handler, forwarding, got, watching, stopMedia,
                 leaving>>

-----------------------------------------------------------------------------
(* handleTelnyxMedia, one handler per stream.                              *)

Goes(s, from, to) ==
  handler[s] = from /\ handler' = [handler EXCEPT ![s] = to]

(* Mutant of Fork: a call that was handed over is greeted again. *)
ForkAnyCall(s) ==
  /\ streaming /\ leg = "answered" /\ open = {}
  /\ \A r \in Stream : r < s => handler[r] # "none"
  /\ entry
  /\ Goes(s, "none", "accepted")
  /\ open' = {s}
  /\ UNCHANGED <<carrier, dispatch, entry, contract, marks, amdCh, forwarding,
                 got, watching, stopMedia, leaving>>

(* The carrier forks the audio, first or again because the socket closed.  *)
(* Only a known call that was not handed over is accepted.                 *)
Fork(s) ==
  /\ streaming /\ leg = "answered" /\ open = {}
  /\ \A r \in Stream : r < s => handler[r] # "none"
  /\ entry /\ ~handedOver
  /\ Goes(s, "none", "accepted")
  /\ open' = {s}
  /\ UNCHANGED <<carrier, dispatch, entry, contract, marks, amdCh, forwarding,
                 got, watching, stopMedia, leaving>>

(* setStopMedia, then the greeting, with a goroutine forwarding the verdict; *)
(* or, with no greeting in the cache or no detection, the pipeline at once.  *)
Greet(s) ==
  /\ \/ /\ TRUE \in Greeted
        /\ Goes(s, "accepted", "waiting")
        /\ forwarding' = forwarding \cup {s}
     \/ /\ FALSE \in Greeted
        /\ Goes(s, "accepted", "starting")
        /\ UNCHANGED forwarding
  /\ stopMedia' = IF entry THEN s ELSE stopMedia
  /\ UNCHANGED <<carrier, dispatch, entry, contract, marks, amdCh, open, got,
                 watching, leaving>>

(* The forwarder takes a verdict from the channel, wanted or no more: what   *)
(* it takes when the wait is over is lost.                                   *)
Forward(s) ==
  /\ s \in forwarding /\ amdCh # <<>>
  /\ got' = IF handler[s] = "waiting" THEN [got EXCEPT ![s] = Head(amdCh)] ELSE got
  /\ amdCh' = Tail(amdCh)
  /\ forwarding' = forwarding \ {s}
  /\ UNCHANGED <<carrier, dispatch, entry, contract, marks, handler, open,
                 watching, stopMedia, leaving>>

(* The forwarder sees that the handler has stopped waiting. *)
ForwarderStops(s) ==
  /\ s \in forwarding /\ handler[s] \notin {"accepted", "waiting"}
  /\ forwarding' = forwarding \ {s}
  /\ UNCHANGED <<carrier, dispatch, entry, contract, marks, amdCh, handler,
                 open, got, watching, stopMedia, leaving>>

(* The wait ends with a machine verdict: no pipeline. *)
HearMachine(s) ==
  /\ IsMachineVerdict(got[s])
  /\ Goes(s, "waiting", "voicemail")
  /\ got' = [got EXCEPT ![s] = "none"]
  /\ UNCHANGED <<carrier, dispatch, entry, contract, marks, amdCh, open,
                 forwarding, watching, stopMedia, leaving>>

(* The wait ends with another verdict, or runs out: the pipeline is about to *)
(* start, and watchLateAMD with it.                                          *)
TakeForHuman(s) ==
  /\ Goes(s, "waiting", "starting")
  /\ watching' = watching \cup {s}
  /\ got' = [got EXCEPT ![s] = "none"]
  /\ UNCHANGED <<carrier, dispatch, entry, contract, marks, amdCh, open,
                 forwarding, stopMedia, leaving>>

(* runVoiceSession. *)
StartSession(s) ==
  /\ Goes(s, "starting", "on")
  /\ UNCHANGED <<carrier, dispatch, entry, contract, marks, amdCh, open,
                 forwarding, got, watching, stopMedia, leaving>>

SessionEnds(s) ==
  /\ s \notin open
  /\ Goes(s, "on", "over")
  /\ UNCHANGED <<carrier, dispatch, entry, contract, marks, amdCh, open,
                 forwarding, got, watching, stopMedia, leaving>>

(* runVoicemailCall leaves the message and hangs up; the hangup may fail,  *)
(* and the handler's return closes the socket.                             *)
VoicemailDone(s) ==
  /\ Goes(s, "voicemail", "over")
  /\ \/ EndLeg
     \/ open' = open \ {s} /\ UNCHANGED <<leg, streaming>>
  /\ UNCHANGED <<who, detected, dispatch, entry, contract, marks, amdCh,
                 forwarding, got, watching, stopMedia, leaving>>

-----------------------------------------------------------------------------
(* Leaving the call to somebody else.                                      *)

(* stopMediaFor closes the socket at most once; StreamingStop, when the    *)
(* carrier grants it, ends the fork and closes whatever socket it holds.   *)
StopMedia ==
  /\ stopMedia' = IF entry THEN 0 ELSE stopMedia
  /\ \/ streaming' = FALSE /\ open' = {} /\ gone' = TRUE
     \/ /\ UNCHANGED <<streaming, gone>>
        /\ open' = IF entry THEN open \ {stopMedia} ELSE open

(* watchLateAMD: a late machine takes the agent off, and the carrier is left *)
(* to speak the message and hang up.  Any other verdict ends the watch.      *)
WatchTakes(s) ==
  /\ s \in watching /\ amdCh # <<>>
  /\ watching' = watching \ {s}
  /\ amdCh' = Tail(amdCh)
  /\ \/ /\ IsMachineVerdict(Head(amdCh))
        /\ handedOver' = (handedOver \/ entry)
        /\ agentEnded' = (agentEnded \/ entry)
        /\ StopMedia
     \/ /\ ~IsMachineVerdict(Head(amdCh))
        /\ UNCHANGED <<handedOver, agentEnded, gone, streaming, open, stopMedia>>
  /\ UNCHANGED <<leg, who, detected, dispatch, entry, contract,
                 verdict, handler, forwarding, got, leaving>>

WatchGivesUp(s) ==
  /\ s \in watching
  /\ watching' = watching \ {s}
  /\ UNCHANGED <<carrier, dispatch, entry, contract, marks, amdCh, handler,
                 open, forwarding, got, stopMedia, leaving>>

(* leaveCall, after a transfer or an operator's barge-in, or both: the call *)
(* is latched at once ...                                                   *)
LeaveCall ==
  /\ entry /\ answered /\ ~leaving
  /\ handedOver' = TRUE
  /\ leaving' = TRUE
  /\ UNCHANGED <<carrier, dispatch, entry, contract, verdict, agentEnded, gone,
                 amdCh, media>>

(* ... and the media stopped a moment later. *)
LeaveCallStops ==
  /\ leaving
  /\ leaving' = FALSE
  /\ StopMedia
  /\ UNCHANGED <<leg, who, detected, dispatch, entry, contract,
                 verdict, agentEnded, handedOver, amdCh, handler, forwarding,
                 got, watching>>

-----------------------------------------------------------------------------
CarrierStep ==
  \/ Ring \/ Answer \/ Detect \/ LegEnds
  \/ \E s \in Stream : SocketDrops(s)

WebhookStep ==
  \/ WebhookAnswered \/ WebhookDetection \/ WebhookGreeting
  \/ WebhookHangup \/ HangupDeletes \/ WebhookRecording
  \/ Sweep \/ TimePasses

MediaStep(s) ==
  \/ Fork(s) \/ Greet(s) \/ Forward(s) \/ ForwarderStops(s)
  \/ HearMachine(s) \/ TakeForHuman(s)
  \/ StartSession(s) \/ SessionEnds(s) \/ VoicemailDone(s)
  \/ WatchTakes(s) \/ WatchGivesUp(s)

Next ==
  \/ CarrierStep \/ DialReturns \/ DialFails \/ WebhookStep \/ MaxCallSecs
  \/ \E s \in Stream : MediaStep(s)
  \/ LeaveCall \/ LeaveCallStops

Spec == Init /\ [][Next]_vars

-----------------------------------------------------------------------------
Flags ==
  /\ streaming \in BOOLEAN /\ entry \in BOOLEAN /\ kept \in BOOLEAN
  /\ deleting \in BOOLEAN /\ answered \in BOOLEAN /\ agentEnded \in BOOLEAN
  /\ reported \in BOOLEAN /\ handedOver \in BOOLEAN /\ leaving \in BOOLEAN
  /\ dropped \in BOOLEAN /\ gone \in BOOLEAN

CallTypes ==
  /\ leg \in {"none", "ringing", "answered", "over", "missed"}
  /\ who \in {"human", "machine"}
  /\ detected \in Verdict \cup {"none"} /\ verdict \in Verdict \cup {"none"}
  /\ dispatch \in {"dialling", "registered", "failed"}
  /\ hungUp \in {"no", "early", "yes"}
  /\ keptFor \in 0..(EndedTTL + 1) /\ hungFor \in 0..(EndedTTL + 1)
  /\ reports \in Seq({"failed", "voicemail", "unanswered", "agent_hung_up",
                      "far_end_hung_up"})

MediaTypes ==
  /\ stopMedia \in Stream \cup {0}
  /\ amdCh \in Seq(Verdict) /\ Len(amdCh) <= ChannelSize
  /\ handler \in [Stream -> Handler] /\ got \in [Stream -> Verdict \cup {"none"}]
  /\ open \in SUBSET Stream /\ forwarding \in SUBSET Stream
  /\ watching \in SUBSET Stream

TypeOK == Flags /\ CallTypes /\ MediaTypes

(* A call is reported at most once, however many hangups are handled at the *)
(* same time, and not again after a dial that was reported as failed.      *)
ReportedOnce == Len(reports) <= 1

(* Every hangup handled, nothing in flight: the call has been reported,     *)
(* unless its hangup came before the dial returned.                         *)
Settled == Ended /\ dispatch # "dialling" /\ hungUp # "no" /\ ~deleting
ReportedUnlessEarly == Settled /\ hungUp # "early" => reports # <<>>

(* A recording saved no more than endedTTL after the call's first hangup    *)
(* finds it, however often that is delivered again and whatever other calls *)
(* sweep; only a hangup handled before the dial returned may leave nothing. *)
RecordingReported == hungUp # "early" => ~dropped

(* Once the agent has been taken off and the carrier has stopped the fork,  *)
(* no stream of the call is open: whatever webhook is delivered again, and  *)
(* however far a handler had got, nobody gets a second agent.               *)
AgentGoneForGood == gone => open = {}

(* PostEndOfCall's comment: it "must be called for every dispatched call".  *)
EveryCallReported == Settled => reports # <<>>
=============================================================================
