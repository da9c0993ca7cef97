---------------------------- MODULE Conversation ----------------------------
(***************************************************************************)
(* What happens inside one call, part by part: the turn gate, the path of  *)
(* the caller's speech, the carrier's media stream, the reply, the room an *)
(* operator comes in by, the transfer tool, the cache of announcements and *)
(* the message left to a machine.  They keep no state of each other's; a   *)
(* behaviour is one part's, for interleaving steps that cannot see each    *)
(* other would only multiply the states.                                   *)
(***************************************************************************)
EXTENDS TurnGate, SpeechPath, MediaGate, Reply, LiveRoom, TransferTool, Voicemail

CONSTANT Parts
VARIABLE part

vars == <<part, gateVars, speechVars, mediaVars, replyVars, roomVars, transferVars,
          voicemailVars>>

Init ==
  /\ part \in Parts
  /\ GateInit /\ TransferInit /\ VoicemailInit
  /\ SpeechInit /\ (part # "speech" => blocks /\ \A n \in StartFrames : vadStart <= n)
  /\ MediaInit /\ (part # "media" => carrier = 0)
  /\ ReplyInit /\ (part # "reply" => transcript = <<>> /\ tools = (TRUE \in HasTools))
  /\ (part # "transfer" => offered)
  /\ RoomInit /\ (part # "room" => setup = CHOOSE x \in Setups : TRUE)

OnGate == part = "gate" /\
  UNCHANGED <<part, speechVars, mediaVars, replyVars, roomVars, transferVars, voicemailVars>>
OnSpeech == part = "speech" /\
  UNCHANGED <<part, gateVars, mediaVars, replyVars, roomVars, transferVars, voicemailVars>>
OnMedia == part = "media" /\
  UNCHANGED <<part, gateVars, speechVars, replyVars, roomVars, transferVars, voicemailVars>>
OnReply == part = "reply" /\
  UNCHANGED <<part, gateVars, speechVars, mediaVars, roomVars, transferVars, voicemailVars>>
OnRoom == part = "room" /\
  UNCHANGED <<part, gateVars, speechVars, mediaVars, replyVars, transferVars, voicemailVars>>
OnTransfer == part = "transfer" /\
  UNCHANGED <<part, gateVars, speechVars, mediaVars, replyVars, roomVars, voicemailVars>>
OnVoicemail ==
  UNCHANGED <<part, gateVars, speechVars, mediaVars, replyVars, roomVars, transferVars>>
OnCache == part = "cache" /\ OnVoicemail
OnMachine == part = "machine" /\ OnVoicemail

Gate ==
  \/ OnGate /\ GateHear
  \/ OnGate /\ GateComplete
  \/ OnGate /\ GateIncomplete
  \/ \E t \in 1..MaxHeard : OnGate /\ GateExpire(t)
  \/ \E t \in 1..MaxHeard : OnGate /\ GateTake(t)
  \/ OnGate /\ GateEnds

Speech ==
  \/ \E n \in Packets : OnSpeech /\ ReceivePacket(n)
  \/ OnSpeech /\ DropPacket
  \/ OnSpeech /\ TakePacket
  \/ \E speech \in BOOLEAN : OnSpeech /\ TakeWindow(speech)
  \/ OnSpeech /\ Recognise
  \/ OnSpeech /\ PathEnds

Media ==
  \/ OnMedia /\ MediaTick
  \/ \E level \in Levels : OnMedia /\ Hear(level)
  \/ \E w \in Writers :
       \/ OnMedia /\ PassMute(w)
       \/ OnMedia /\ DropMuted(w)
       \/ OnMedia /\ NoteOutbound(w)
       \/ OnMedia /\ WriteAudio(w)
  \/ OnMedia /\ AskIfThere
  \/ OnMedia /\ CallerAnswers
  \/ OnMedia /\ Interrupt
  \/ OnMedia /\ ResetPlayback
  \/ OnMedia /\ MuteAfterReset
  \/ OnMedia /\ WriteClear
  \/ OnMedia /\ Hush

Replies ==
  \/ OnReply /\ SkipPickup
  \/ OnReply /\ CallerTurn
  \/ OnReply /\ BeginTurn
  \/ OnReply /\ Ask
  \/ OnReply /\ Chunk
  \/ OnReply /\ RanTools
  \/ OnReply /\ Spoke
  \/ OnReply /\ ForcedTool
  \/ OnReply /\ AskAgain
  \/ OnReply /\ Silent
  \/ OnReply /\ EndTurn
  \/ OnReply /\ Speak
  \/ OnReply /\ Voice
  \/ OnReply /\ Unmute
  \/ OnReply /\ SpeakOver

Room ==
  \/ \E o \in Operators :
       \/ \E listen \in BOOLEAN : OnRoom /\ Join(o, listen)
       \/ OnRoom /\ MakeRoom(o)
       \/ OnRoom /\ MakeRoomFails(o)
       \/ OnRoom /\ ReplyToJoin(o)
       \/ OnRoom /\ WatchAfterJoin(o)
  \/ \E r \in links : OnRoom /\ EnterRoom(r)
  \/ OnRoom /\ CallAnswered
  \/ \E ok \in BOOLEAN : OnRoom /\ Prewarmed(ok)
  \/ \E d \in Detectors :
       \/ \E r \in watched : OnRoom /\ PollFinds(d, r)
       \/ \E ev \in joined : OnRoom /\ WebhookTells(d, ev)
       \/ OnRoom /\ Decide(d)
       \/ OnRoom /\ RegisterRelay(d)
       \/ OnRoom /\ SidecarStarts(d)
       \/ OnRoom /\ RelayFails(d)
       \/ \E ok \in BOOLEAN : OnRoom /\ StartConference(d, ok)
       \/ OnRoom /\ CallGone(d)
       \/ \E last \in BOOLEAN : OnRoom /\ DialFails(d, last)
       \/ OnRoom /\ Dial(d)
       \/ OnRoom /\ Dialled(d)
       \/ OnRoom /\ StepOut(d)
       \/ OnRoom /\ SidecarExits(d)
  \/ OnRoom /\ EndLiveRoom
  \/ OnRoom /\ UnwatchRoom
  \/ OnRoom /\ StopPrewarm
  \/ OnRoom /\ EndCallRelay
  \/ OnRoom /\ ForgetRoom
  \/ \E r \in Expiring : OnRoom /\ DeleteRoom(r)
  \/ OnRoom /\ RemoveCall

Transfer ==
  \/ \E promise \in BOOLEAN : OnTransfer /\ AgentSpeaks(promise)
  \/ OnTransfer /\ CallTool
  \/ \E interrupted \in BOOLEAN : OnTransfer /\ TurnReported(interrupted)
  \/ \E c \in Callers :
       \/ OnTransfer /\ AlreadyDone(c)
       \/ OnTransfer /\ GoAhead(c)
       \/ OnTransfer /\ Announce(c)
       \/ OnTransfer /\ TransferFails(c)
       \/ OnTransfer /\ TransferMade(c)

Message ==
  \/ \E g \in Getters :
       \/ \E k \in Announcements : OnCache /\ LookUp(g, k)
       \/ OnCache /\ NoEngine(g)
       \/ OnCache /\ Render(g)
  \/ OnMachine /\ MailboxSpeaks
  \/ OnMachine /\ MailboxPauses
  \/ OnMachine /\ MailboxQuiet
  \/ OnMachine /\ MailboxEnds
  \/ OnMachine /\ MailboxBeeps
  \/ \E result \in {"beep_detected", "no_beep_detected"} : OnMachine /\ SignalBeep(result)
  \/ OnMachine /\ CallRemoved
  \/ \E message \in BOOLEAN : OnMachine /\ GreetingOver(message)
  \/ OnMachine /\ WaitBeep
  \/ OnMachine /\ BeepDeadline
  \/ OnMachine /\ NoticesTheEnd
  \/ \E capped \in BOOLEAN : OnMachine /\ Listen(capped)
  \/ OnMachine /\ ReadFails
  \/ OnMachine /\ PlayMessage
  \/ OnMachine /\ AwaitMark
  \/ OnMachine /\ HangUpMailbox

Next == Gate \/ Speech \/ Media \/ Replies \/ Room \/ Transfer \/ Message

Spec == Init /\ [][Next]_vars

TypeOK ==
  /\ part \in Parts
  /\ GateTypeOK /\ SpeechTypeOK /\ MediaTypeOK /\ ReplyTypeOK /\ RoomTypeOK /\ TransferTypeOK
  /\ VoicemailTypeOK
=============================================================================
