----------------------------- MODULE MediaGate ------------------------------
(***************************************************************************)
(* The carrier's media stream as the agent hears and speaks it             *)
(* (telnyx/media.go): the clock that estimates when the carrier has played *)
(* what it was sent, the echo gate that clock drives, the mute after an    *)
(* interruption, the hold over a greeting, and Hush.                       *)
(*                                                                         *)
(* Three kinds of goroutine meet under one lock taken call by call: the    *)
(* socket's reader, the writers of audio (the pipeline's, and the one that *)
(* asks whether the caller is still there), and the one that delivers an   *)
(* interruption.  Instants are the ticks left until them; a chunk plays    *)
(* for a tick; a level of sound is a rank, 1 below bargeAbsFloor.  A write *)
(* to the socket is taken to cost less than a tick.                        *)
(***************************************************************************)
EXTENDS Integers, FiniteSetsExt

CONSTANTS
  EchoTail, InterruptMute, GateHold, PreRoll,   \* echoTail, interruptMute, gateHold, preRoll
  Forever,       \* Hush's 24 hours
  Writers,       \* goroutines that write audio
  Prompter,      \* the one that asks whether the caller is still there
  PromptChunks,  \* bound: chunks of that question
  Greeting,      \* bound: ticks of a greeting still playing when the pipeline opens
  MaxLead        \* bound: chunks the carrier holds
Levels == 1..3
ASSUME MediaAssumption ==
  /\ {EchoTail, InterruptMute, GateHold, PreRoll, Forever, Greeting, MaxLead} \subseteq Nat
  /\ Prompter \in Writers /\ PromptChunks \in Nat
  /\ 0 < InterruptMute /\ InterruptMute < Forever
  /\ IsFiniteSet(Writers) /\ EchoTail >= Cardinality(Writers)

VARIABLES
  playEnds,    \* playbackEndsAt
  mutedFor,    \* mutedUntil
  openFor,     \* gateOpenUntil
  heldFor,     \* holdInterruptsUntil
  floor,       \* echoFloor, 0 before the first gated chunk
  preRolled,   \* chunks in preRollBuf
  awaitingBot,
  wire,        \* what each writer is about to do with its chunk
  clearing,    \* how far an interruption has come: its lock sections, and its "clear"
  carrier,     \* chunks the carrier has still to play
  onset,       \* the pipeline heard speech, and has not interrupted for it
  hushed,
  slipped,     \* ghost: chunks past an interruption's mute after its reset, not yet made up for
  asked        \* chunks of the question left to write, and how often it was asked

mediaVars == <<playEnds, mutedFor, openFor, heldFor, floor, preRolled, awaitingBot, wire,
               clearing, carrier, onset, hushed, slipped, asked>>

Past == -(EchoTail + 1)              \* "long ago"
BotIdle == playEnds < -EchoTail

(* The greeting is handed over whole before the pipeline opens:            *)
(* NoteAnnouncement told the clock, HoldInterrupts covers the rest of it.  *)
MediaInit ==
  /\ carrier \in 0..Greeting
  /\ playEnds = IF carrier = 0 THEN Past ELSE carrier
  /\ heldFor = carrier
  /\ mutedFor = 0 /\ openFor = 0 /\ floor = 0 /\ preRolled = 0
  /\ awaitingBot = FALSE /\ onset = FALSE /\ hushed = FALSE
  /\ wire = [w \in Writers |-> "none"] /\ clearing = "no" /\ slipped = 0
  /\ asked = [left |-> 0, times |-> 0]

Later(t) == IF t = Forever THEN t ELSE Max({0, t - 1})
MediaTick ==
  /\ \A w \in Writers : wire[w] = "none"
  /\ clearing = "no"
  /\ playEnds' = Max({Past, playEnds - 1})
  /\ mutedFor' = Later(mutedFor) /\ openFor' = Later(openFor) /\ heldFor' = Later(heldFor)
  /\ carrier' = Max({0, carrier - 1})
  /\ slipped' = IF carrier > 0 THEN slipped ELSE Max({0, slipped - 1})
  /\ UNCHANGED <<floor, preRolled, awaitingBot, wire, clearing, onset, hushed, asked>>

(* keepInbound.  A chunk reaches the pipeline, or is held back in case the *)
(* caller turns out to be speaking.                                        *)
PassIdle ==
  /\ BotIdle
  /\ floor' = 0 /\ preRolled' = 0 /\ openFor' = 0
PassGate(level) ==
  LET gate == IF floor = 0 THEN level ELSE floor
  IN /\ ~BotIdle
     /\ openFor > 0 \/ (level > 1 /\ level > gate)
     /\ floor' = gate /\ preRolled' = 0
     /\ openFor' = IF level > 1 THEN GateHold ELSE openFor
HoldBack(level) ==
  LET gate == IF floor = 0 THEN level ELSE floor
  IN /\ ~BotIdle /\ openFor = 0 /\ ~(level > 1 /\ level > gate)
     /\ floor' \in level..gate
     /\ preRolled' = Min({preRolled + 1, PreRoll})
     /\ UNCHANGED openFor
Hear(level) ==
  /\ \/ (PassIdle \/ PassGate(level)) /\ onset' = (onset \/ level > 1)
     \/ HoldBack(level) /\ UNCHANGED onset
  /\ awaitingBot' = (awaitingBot \/ (level > 1 /\ BotIdle))
  /\ UNCHANGED <<playEnds, mutedFor, heldFor, wire, clearing, carrier, hushed, slipped, asked>>

(* The line has been silent for idleSecs, on the agent's side and, as far  *)
(* as can be told here, on the caller's: ask, at most twice.               *)
AskIfThere ==
  /\ playEnds = Past /\ asked.left = 0 /\ asked.times < 2
  /\ asked' = [asked EXCEPT !.left = PromptChunks]
  /\ UNCHANGED <<playEnds, mutedFor, openFor, heldFor, floor, preRolled, awaitingBot, wire,
                 clearing, carrier, onset, hushed, slipped>>
(* touchUser: the caller has said something.                               *)
CallerAnswers ==
  /\ asked.times > 0 /\ asked' = [asked EXCEPT !.times = 0]
  /\ UNCHANGED <<playEnds, mutedFor, openFor, heldFor, floor, preRolled, awaitingBot, wire,
                 clearing, carrier, onset, hushed, slipped>>
(* The pipeline may have audio at any time; sendAudioChunks goes through   *)
(* the question to its end, whatever has begun meanwhile.                  *)
HasChunk(w) ==
  IF w = Prompter
    THEN asked.left > 0 /\ asked' = [left |-> asked.left - 1,
           times |-> IF asked.left = 1 THEN asked.times + 1 ELSE asked.times]
    ELSE UNCHANGED asked

(* Serialize of audio: look at the mute, then noteOutbound, then write.    *)
PassMute(w) ==
  /\ wire[w] = "none" /\ mutedFor = 0 /\ carrier + Cardinality(Writers) <= MaxLead
  /\ HasChunk(w)
  /\ wire' = [wire EXCEPT ![w] = "encoding"]
  /\ UNCHANGED <<playEnds, mutedFor, openFor, heldFor, floor, preRolled, awaitingBot,
                 clearing, carrier, onset, hushed, slipped>>
DropMuted(w) ==
  /\ wire[w] = "none" /\ mutedFor > 0
  /\ HasChunk(w)
  /\ UNCHANGED <<playEnds, mutedFor, openFor, heldFor, floor, preRolled, awaitingBot, wire,
                 clearing, carrier, onset, hushed, slipped>>
NoteOutbound(w) ==
  /\ wire[w] = "encoding"
  /\ wire' = [wire EXCEPT ![w] = "writing"]
  /\ playEnds' = Max({playEnds, 0}) + 1
  /\ slipped' = IF clearing = "mute" THEN slipped + 1 ELSE slipped
  /\ awaitingBot' = FALSE
  /\ UNCHANGED <<mutedFor, openFor, heldFor, floor, preRolled, clearing, carrier, onset,
                 hushed, asked>>
WriteAudio(w) ==
  /\ wire[w] = "writing"
  /\ wire' = [wire EXCEPT ![w] = "none"]
  /\ carrier' = carrier + 1
  /\ UNCHANGED <<playEnds, mutedFor, openFor, heldFor, floor, preRolled, awaitingBot,
                 clearing, onset, hushed, slipped, asked>>

(* Serialize of an interruption, which the pipeline raises whenever the    *)
(* caller starts to speak, whoever was speaking: nothing under the hold;   *)
(* else resetPlayback, the mute and a "clear", each on its own, while the  *)
(* writers go on.                                                          *)
Interrupt ==
  /\ onset /\ clearing = "no" /\ onset' = FALSE
  /\ clearing' = IF heldFor > 0 THEN "no" ELSE "reset"
  /\ UNCHANGED <<playEnds, mutedFor, openFor, heldFor, floor, preRolled, awaitingBot, wire,
                 carrier, hushed, slipped, asked>>

(* Mutant of ResetPlayback: the clock is left running over a flushed buffer. *)
ResetKeepsClock ==
  /\ clearing = "reset" /\ clearing' = "mute"
  /\ slipped' = 0
  /\ UNCHANGED <<playEnds, mutedFor, openFor, heldFor, floor, preRolled, awaitingBot, wire,
                 carrier, onset, hushed, asked>>

ResetPlayback ==
  /\ clearing = "reset" /\ clearing' = "mute"
  /\ playEnds' = 0 /\ slipped' = 0
  /\ UNCHANGED <<mutedFor, openFor, heldFor, floor, preRolled, awaitingBot, wire, carrier,
                 onset, hushed, asked>>
MuteAfterReset ==
  /\ clearing = "mute" /\ clearing' = "write"
  /\ mutedFor' = InterruptMute
  /\ UNCHANGED <<playEnds, openFor, heldFor, floor, preRolled, awaitingBot, wire, carrier,
                 onset, hushed, slipped, asked>>
WriteClear ==
  /\ clearing = "write" /\ clearing' = "no"
  /\ carrier' = 0
  /\ UNCHANGED <<playEnds, mutedFor, openFor, heldFor, floor, preRolled, awaitingBot,
                 wire, onset, hushed, slipped, asked>>

(* Hush: an operator is taking the call.                                   *)
Hush ==
  /\ ~hushed /\ hushed' = TRUE
  /\ mutedFor' = Forever
  /\ UNCHANGED <<playEnds, openFor, heldFor, floor, preRolled, awaitingBot, wire,
                 clearing, carrier, onset, slipped, asked>>

MediaTypeOK ==
  /\ playEnds \in Past..(2 * (MaxLead + Greeting) + EchoTail)
  /\ carrier \in 0..(MaxLead + Greeting) /\ slipped \in 0..(MaxLead + Greeting)
  /\ mutedFor \in 0..Forever /\ openFor \in 0..GateHold /\ heldFor \in 0..Greeting
  /\ floor \in {0} \union Levels /\ preRolled \in 0..PreRoll
  /\ {awaitingBot, onset, hushed} \subseteq BOOLEAN
  /\ clearing \in {"no", "reset", "mute", "write"}
  /\ asked.left \in 0..PromptChunks /\ asked.times \in 0..2
  /\ wire \in [Writers -> {"none", "encoding", "writing"}]

(* The clock the echo gate goes by follows what the carrier is playing,    *)
(* whatever chunks and clears overtook each other.  It is never behind by  *)
(* more than the tail it allows for, so the gate is shut while the caller  *)
(* can hear the agent; and it runs ahead, shutting the caller out for      *)
(* audio nobody will hear, by the tail and what slipped past the mute of   *)
(* an interruption, no more.                                               *)
GateTracksPlayback ==
  (clearing = "no" /\ \A w \in Writers : wire[w] = "none") =>
    /\ carrier - Max({playEnds, 0}) \in -(EchoTail + slipped)..EchoTail
    /\ carrier > 0 => ~BotIdle

(* "Deliberately permanent: ... there is no state in which the agent       *)
(* should start talking again" (Hush): no chunk passes the mute after it.  *)
HushIsForGood == [][hushed => \A w \in Writers : wire[w] = "none" => wire'[w] = "none"]_wire
=============================================================================
