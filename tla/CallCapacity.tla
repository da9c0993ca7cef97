---------------------------- MODULE CallCapacity ----------------------------
(***************************************************************************)
(* The life of a call against the capacity registry: what the dispatch     *)
(* handlers, the carrier's webhooks and the media handlers do to a slot,   *)
(* in whatever order they interleave (pkg/rexa/server.go,                  *)
(* examples/websocket/rexa_dispatch.go, telnyx_call.go, room_media.go).    *)
(*                                                                         *)
(* An outbound call is admitted under its session id and moves to the      *)
(* carrier's id once the dial is accepted; an inbound one is tracked under *)
(* the carrier's id; a browser call keeps its session id.                  *)
(*                                                                         *)
(* The latency gates stay open here: they only refuse admissions, and a    *)
(* dispatch that is not admitted is one this module simply does not take.  *)
(***************************************************************************)
EXTENDS Metrics

CONSTANTS Outbound, Inbound, Browser,  \* the calls, by how they begin
          MediaDeadline   \* ticks from dispatch within which media starts

Phone == Outbound \cup Inbound
Call  == Phone \cup Browser
Sid(c) == <<c, "sid">>
Cc(c)  == <<c, "cc">>

ASSUME CapacityAssumption ==
  /\ Outbound \cap Inbound = {} /\ Phone \cap Browser = {}
  /\ CallId = Call \X {"sid", "cc"}
  /\ MediaDeadline \in Nat /\ MediaDeadline <= ReservationTTL

VARIABLES phase,     \* [Call -> where the call is]
          keyed,     \* the calls known under their media key
          pipeline,  \* [Call -> its voice session]
          left,      \* the calls the agent has been taken off
          hangups,   \* the calls whose hangup webhook is on its way
          lost       \* history: the calls whose hangup webhook was lost

lifeVars == <<phase, keyed, pipeline, left, hangups, lost>>
capacityVars == <<vars, lifeVars>>

Phase == {"new", "admitted", "ringing", "up", "over", "failed"}
Session == {"never", "starting", "on", "ended"}

(* The id every webhook and media handler uses. *)
Key(c) == IF c \in Browser THEN Sid(c) ELSE Cc(c)

CapacityInit ==
  /\ Init
  /\ phase = [c \in Call |-> "new"]
  /\ pipeline = [c \in Call |-> "never"]
  /\ keyed = {} /\ left = {} /\ hangups = {} /\ lost = {}

Goes(c, from, to) ==
  phase[c] = from /\ phase' = [phase EXCEPT ![c] = to]

SessionGoes(c, from, to) ==
  pipeline[c] = from /\ pipeline' = [pipeline EXCEPT ![c] = to]

-----------------------------------------------------------------------------
(* handlePhone, handleWebrtc: admitted, or refused and held by the platform. *)
Dispatch(c) ==
  /\ c \in Outbound \cup Browser
  /\ Goes(c, "new", "admitted")
  /\ TryReserve(Sid(c))
  /\ UNCHANGED <<keyed, pipeline, left, hangups, lost>>

(* DispatchPhone turns the dispatch down before dialling: nothing releases  *)
(* the slot taken at admission.                                             *)
CredentialsRejected(c) ==
  /\ c \in Outbound
  /\ Goes(c, "admitted", "failed")
  /\ UNCHANGED <<vars, keyed, pipeline, left, hangups, lost>>

(* Dial failed, or no room could be made: the slot goes back at once. *)
DispatchFails(c) ==
  /\ c \in Outbound \cup Browser
  /\ Goes(c, "admitted", "failed")
  /\ Release(Sid(c))
  /\ UNCHANGED <<keyed, pipeline, left, hangups, lost>>

(* The carrier accepts the dial; DispatchPhone has yet to hear of it. *)
DialAccepted(c) ==
  /\ c \in Outbound
  /\ Goes(c, "admitted", "ringing")
  /\ UNCHANGED <<vars, keyed, pipeline, left, hangups, lost>>

(* Dial returns: the slot is re-keyed and the call registered, whatever the *)
(* carrier's webhooks have said meanwhile.                                  *)
RekeyDialled(c) ==
  /\ c \in Outbound \ keyed
  /\ phase[c] \in {"ringing", "up", "over"}
  /\ Rekey(Sid(c), Cc(c))
  /\ keyed' = keyed \cup {c}
  /\ UNCHANGED <<phase, pipeline, left, hangups, lost>>

(* DispatchIncoming registers and counts the call, then asks for an answer. *)
Incoming(c) ==
  /\ c \in Inbound
  /\ Goes(c, "new", "admitted")
  /\ Track(Cc(c))
  /\ keyed' = keyed \cup {c}
  /\ UNCHANGED <<pipeline, left, hangups, lost>>

(* Answer fails, or times out though the carrier acts on it, before or      *)
(* after: the call is unregistered, whatever has begun on it.  That it has  *)
(* returned well is only that this step does not come.                      *)
AnswerFails(c) ==
  /\ c \in Inbound \cap keyed
  /\ keyed' = keyed \ {c}
  /\ Release(Cc(c))
  /\ UNCHANGED <<phase, pipeline, left, hangups, lost>>
Disowned(c) == c \in Inbound \ keyed /\ phase[c] # "new"

(* The far end is there: a leg is answered, or a sidecar has started.       *)
Connected(c) ==
  /\ IF c \in Outbound THEN Goes(c, "ringing", "up") ELSE Goes(c, "admitted", "up")
  /\ keyed' = IF c \in Browser THEN keyed \cup {c} ELSE keyed
  /\ UNCHANGED <<vars, pipeline, left, hangups, lost>>

(* handleTelnyxMedia stops waiting for a verdict and starts a session: a    *)
(* registered call only.  From here a late machine verdict can arrive.      *)
VerdictWaitOver(c) ==
  /\ c \in Phone \cap keyed
  /\ phase[c] = "up"
  /\ SessionGoes(c, "never", "starting")
  /\ UNCHANGED <<vars, phase, keyed, left, hangups, lost>>

(* runVoiceSession, or handleRoomMedia, promotes the call. *)
StartPipeline(c) ==
  /\ IF c \in Browser
     THEN phase[c] = "up" /\ SessionGoes(c, "never", "on")
     ELSE SessionGoes(c, "starting", "on")
  /\ MarkOnGPU(Key(c))
  /\ UNCHANGED <<phase, keyed, left, hangups, lost>>

(* runVoicemailCall: a machine answered in time, no pipeline is started. *)
LeaveVoicemail(c) ==
  /\ c \in Outbound \cap keyed
  /\ phase[c] = "up"
  /\ SessionGoes(c, "never", "ended")
  /\ MarkVoicemail(Key(c))
  /\ UNCHANGED <<phase, keyed, left, hangups, lost>>

(* Mutant of TakeAgentOff: a browser call is taken for a phone call. *)
TakeAgentOffAnyCall(c) ==
  /\ c \notin left
  /\ pipeline[c] \in {"starting", "on"}
  /\ left' = left \cup {c}
  /\ MarkVoicemail(Key(c))
  /\ UNCHANGED <<phase, keyed, pipeline, hangups, lost>>

(* watchLateAMD, or a transfer, takes the agent off a call whose session is *)
(* running or about to.                                                     *)
TakeAgentOff(c) ==
  /\ c \in Phone \ left
  /\ pipeline[c] \in {"starting", "on"}
  /\ left' = left \cup {c}
  /\ MarkVoicemail(Key(c))
  /\ UNCHANGED <<phase, keyed, pipeline, hangups, lost>>

(* The media socket closes: only a browser call gives its slot back here. *)
PipelineEnds(c) ==
  /\ SessionGoes(c, "on", "ended")
  /\ IF c \in Browser
     THEN Release(Key(c)) /\ phase' = [phase EXCEPT ![c] = "over"]
     ELSE UNCHANGED <<vars, phase>>
  /\ UNCHANGED <<keyed, left, hangups, lost>>

(* The stream or the sidecar never connects. *)
MediaNeverComes(c) ==
  /\ phase[c] = "up"
  /\ SessionGoes(c, "never", "ended")
  /\ UNCHANGED <<vars, phase, keyed, left, hangups, lost>>

(* A phone leg ends, by either side; call.hangup is sent, and may be lost. *)
LegEnds(c) ==
  /\ c \in Phone
  /\ phase[c] \in {"ringing", "up"} \/ (c \in Inbound /\ phase[c] = "admitted")
  /\ phase' = [phase EXCEPT ![c] = "over"]
  /\ \/ hangups' = hangups \cup {c} /\ UNCHANGED lost
     \/ lost' = lost \cup {c} /\ UNCHANGED hangups
  /\ UNCHANGED <<vars, keyed, pipeline, left>>

(* Mutant of HangupWebhook: a voicemail is thought to hold nothing. *)
HangupForgetsVoicemail(c) ==
  /\ c \in hangups
  /\ IF state[Cc(c)] = "voicemail" THEN UNCHANGED vars ELSE Release(Cc(c))
  /\ hangups' \in {hangups, hangups \ {c}}
  /\ UNCHANGED <<phase, keyed, pipeline, left, lost>>

(* handleTelnyxWebhook on call.hangup, which the carrier may deliver again. *)
HangupWebhook(c) ==
  /\ c \in hangups
  /\ Release(Cc(c))
  /\ hangups' \in {hangups, hangups \ {c}}
  /\ UNCHANGED <<phase, keyed, pipeline, left, lost>>

(* The reaper's tick. *)
Reap == ReapStale /\ UNCHANGED lifeVars

(* A call that can still start a session on its slot does so within         *)
(* MediaDeadline of its dispatch: the dial timeout plus the bounded wait    *)
(* for a verdict.                                                           *)
MayStillStart(c) ==
  /\ phase[c] \in {"admitted", "ringing", "up"} /\ ~Disowned(c)
  /\ pipeline[c] \in {"never", "starting"}

TimePasses ==
  /\ \A c \in Call : MayStillStart(c) =>
       age[Sid(c)] < MediaDeadline /\ age[Cc(c)] < MediaDeadline
  /\ Tick
  /\ UNCHANGED lifeVars

CallStep(c) ==
  \/ Dispatch(c) \/ CredentialsRejected(c) \/ DispatchFails(c)
  \/ DialAccepted(c) \/ RekeyDialled(c)
  \/ Incoming(c) \/ AnswerFails(c) \/ Connected(c)
  \/ VerdictWaitOver(c) \/ StartPipeline(c) \/ LeaveVoicemail(c)
  \/ TakeAgentOff(c) \/ PipelineEnds(c) \/ MediaNeverComes(c)
  \/ LegEnds(c) \/ HangupWebhook(c)

CapacityNext == (\E c \in Call : CallStep(c)) \/ Reap \/ TimePasses

CapacitySpec == CapacityInit /\ [][CapacityNext]_capacityVars

-----------------------------------------------------------------------------
(* What the code's own scheduling guarantees: handlers run to their end,    *)
(* calls end (the carrier's own limits and MaxCallSecs), a webhook that was *)
(* sent and not lost is delivered, sessions stop once the leg is down, and  *)
(* the reaper's ticker keeps ticking.                                       *)
Fairness ==
  /\ WF_capacityVars(Reap) /\ WF_capacityVars(TimePasses)
  /\ \A c \in Call :
       /\ WF_capacityVars(phase[c] = "admitted" /\ (\/ DispatchFails(c) \/ DialAccepted(c)
                                                   \/ AnswerFails(c) \/ Connected(c)))
       /\ WF_capacityVars(RekeyDialled(c))
       /\ WF_capacityVars(VerdictWaitOver(c) \/ LeaveVoicemail(c) \/ MediaNeverComes(c))
       /\ WF_capacityVars(StartPipeline(c))
       /\ WF_capacityVars(PipelineEnds(c))
       /\ WF_capacityVars(LegEnds(c))
       /\ WF_capacityVars(HangupWebhook(c) /\ c \notin hangups')

FairSpec == CapacitySpec /\ Fairness

-----------------------------------------------------------------------------
LifeTypeOK ==
  /\ phase \in [Call -> Phase] /\ pipeline \in [Call -> Session]
  /\ keyed \in SUBSET Call
  /\ left \in SUBSET Phone /\ hangups \in SUBSET Phone /\ lost \in SUBSET Phone

(* A call is never counted twice: not under its session id and the         *)
(* carrier's id at once, whatever arrives between the dial and the re-key. *)
OneSlotPerCall == \A c \in Call : ~(Sid(c) \in Live /\ Cc(c) \in Live)

(* Every running session is counted as one, until the agent is taken off   *)
(* or the leg is down: the reaper never takes the slot of a call that goes *)
(* on to hold a pipeline.  The code's one exception is declared: a session *)
(* on an inbound leg the carrier answered though Answer itself failed, for *)
(* that failure gives the slot back under it.                              *)
RunningPipelineCounted ==
  \A c \in Call : pipeline[c] = "on" /\ phase[c] = "up" /\ c \notin left /\ ~Disowned(c)
     => state[Key(c)] = "on_gpu"

(* Every slot ever taken is in the map, was reaped, or was resolved exactly *)
(* once: hangups delivered twice and ids re-keyed late lose and invent none.*)
SlotsConserved ==
  Len(outcomes) < OutcomeWindow =>
    totalCalls = Cardinality(Live) + Len(outcomes) + totalReaped

(* The registry keeps the promise of SlotLedger: a call holds one slot,    *)
(* under whichever id, from its admission until the first thing that ends  *)
(* it; no late, repeated or misordered transition brings the slot back.    *)
SlotOf(c) ==
  IF Sid(c) \in Live \/ Cc(c) \in Live THEN "held"
  ELSE IF phase[c] = "new" THEN "new" ELSE "done"

Ledger == INSTANCE SlotLedger WITH
  Exempt <- Inbound, Ceiling <- MaxTotalCalls, status <- [c \in Call |-> SlotOf(c)]

KeepsLedger == Ledger!Spec

(* Every slot comes back: by the hangup, by the end of a browser session,   *)
(* or by the reaper, which takes back reservations only: a call that got as *)
(* far as a session or a voicemail and whose hangup the carrier loses is    *)
(* the one exception.                                                       *)
SlotsReturn ==
  \A c \in Call : SlotOf(c) = "held"
     ~> SlotOf(c) # "held" \/ (c \in lost /\ state[Cc(c)] # "reserved")
=============================================================================
