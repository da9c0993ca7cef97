----------------------------- MODULE SpeechPath -----------------------------
(***************************************************************************)
(* From the socket to recognition: packets are queued, cut into windows,   *)
(* given to the detector, and the caller's speech is gathered into the     *)
(* segments recognition is asked about (websocket_server_input_processor,  *)
(* audio_input_processor, vad_analyzer, ring_buffer,                       *)
(* audio_response_aggregator, asr_processor).                              *)
(*                                                                         *)
(* The read loop fills the queue and one goroutine empties it; what it     *)
(* pushes reaches the aggregator, and then the recogniser, in order.       *)
(* Sizes are in half windows; a window is named by its number.             *)
(***************************************************************************)
EXTENDS Integers, Sequences, SequencesExt

CONSTANTS
  Packets,        \* the sizes a packet may have
  QueueLen,       \* audioInQueue: 1024 in the code
  RingLen,        \* AudioInBufferSecs, as half windows
  StartFrames,    \* the values of vadStartFrames to try
  StopFrames,     \* vadStopFrames
  MaxWindows      \* bound: windows of a behaviour
Window == 2
ASSUME SpeechAssumption ==
  /\ QueueLen \in Nat \ {0} /\ RingLen \in Nat /\ RingLen >= Window
  /\ Packets \subseteq Nat \ {0} /\ StartFrames \subseteq Nat \ {0}
  /\ StopFrames \in Nat \ {0} /\ MaxWindows \in Nat

VARIABLES
  inQueue,     \* audioInQueue
  blocks,      \* isPushAudioBlock
  ring,        \* bytes in vadRingBuffer
  vadStart,    \* vadStartFrames
  vad,         \* vadState and the count that goes with it
  lastVad,     \* audioTaskHandler's vadState
  agg,         \* aggregating, seenEndFrame and aggregation
  asking,      \* segments on their way to recognition
  segments,    \* the segments recognition was asked about
  spoken,      \* the caller's utterances, as the detector delimits them
  windows,     \* windows so far
  pathEnded    \* audioTaskHandler has returned

speechVars == <<inQueue, blocks, ring, vadStart, vad, lastVad, agg, asking,
                segments, spoken, windows, pathEnded>>

SpeechInit ==
  /\ inQueue = <<>> /\ ring = 0 /\ blocks \in BOOLEAN
  /\ vadStart \in StartFrames
  /\ vad = [state |-> "quiet", count |-> 0] /\ lastVad = "quiet"
  /\ agg = [on |-> FALSE, seenEnd |-> FALSE, held |-> <<>>]
  /\ asking = <<>> /\ segments = <<>> /\ spoken = <<>>
  /\ windows = 0 /\ pathEnded = FALSE

(* receiveMessages, PushAudioFrame: with room, queued; else it waits for   *)
(* room or for the end (blocks), or the packet is dropped.                 *)
ReceivePacket(n) ==
  /\ Len(inQueue) < QueueLen
  /\ inQueue' = Append(inQueue, n)
  /\ UNCHANGED <<blocks, ring, vadStart, vad, lastVad, agg, asking, segments,
                 spoken, windows, pathEnded>>
DropPacket ==
  /\ pathEnded \/ (Len(inQueue) = QueueLen /\ ~blocks)
  /\ UNCHANGED speechVars

(* The goroutine takes a packet once the ring holds less than a window;    *)
(* the ring drops its oldest bytes.                                        *)
TakePacket ==
  /\ ~pathEnded /\ inQueue # <<>> /\ ring < Window
  /\ ring' = IF ring + Head(inQueue) > RingLen THEN RingLen ELSE ring + Head(inQueue)
  /\ inQueue' = Tail(inQueue)
  /\ UNCHANGED <<blocks, vadStart, vad, lastVad, agg, asking, segments, spoken,
                 windows, pathEnded>>

(* AnalyzeAudio: the state the window leaves the analyzer in.              *)
Began(c) == [state |-> IF c >= vadStart THEN "speaking" ELSE "starting",
             count |-> IF c >= vadStart THEN 0 ELSE c]
Paused(c) == [state |-> IF c >= StopFrames THEN "quiet" ELSE "stopping",
              count |-> IF c >= StopFrames THEN 0 ELSE c]
Analyzed(speech) ==
  IF speech
    THEN CASE vad.state = "quiet" -> Began(1)
           [] vad.state = "starting" -> Began(vad.count + 1)
           [] OTHER -> [state |-> "speaking", count |-> 0]
    ELSE CASE vad.state = "speaking" -> Paused(1)
           [] vad.state = "stopping" -> Paused(vad.count + 1)
           [] OTHER -> [state |-> "quiet", count |-> 0]

(* Mutant of OnStarted: a Started frame begins a new aggregation. *)
StartedAfresh(a) == [on |-> TRUE, seenEnd |-> FALSE, held |-> <<>>]

(* The aggregator, on a Started frame, on audio, on a Stopped frame.       *)
Nothing == [on |-> FALSE, seenEnd |-> FALSE, held |-> <<>>]
OnStarted(a) == [on |-> TRUE, seenEnd |-> FALSE, held |-> a.held]
OnAudio(a, w) == IF a.on THEN [a EXCEPT !.held = Append(@, w)] ELSE a
OnStopped(a) == [on |-> a.held = <<>>, seenEnd |-> TRUE, held |-> a.held]
Sends(a) == a.seenEnd /\ a.held # <<>>

(* The detector's utterances, a history variable: from the window that     *)
(* makes the state Speaking to the one that makes it Quiet.                *)
Heard(from, to, w) ==
  IF from \in {"quiet", "starting"} /\ to = "speaking"
    THEN Append(spoken, <<w>>)
    ELSE IF from \in {"speaking", "stopping"}
      THEN [spoken EXCEPT ![Len(spoken)] = Append(@, w)] ELSE spoken

(* One window: the events of handleVAD around its audio.  `lastVad` takes  *)
(* every state while an event needs Speaking or Quiet, so a false start    *)
(* raises a Stopped, and a resumed pause a second Started.                 *)
TakeWindow(speech) ==
  /\ ~pathEnded /\ ring >= Window /\ windows < MaxWindows
  /\ LET w == windows + 1
         v == Analyzed(speech)
         changed == v.state # lastVad
         begun == IF changed /\ v.state = "speaking" THEN OnStarted(agg) ELSE agg
         fed == OnAudio(begun, w)
         early == Sends(fed)
         after == IF early THEN Nothing ELSE fed
         done == IF changed /\ v.state = "quiet" THEN OnStopped(after) ELSE after
         sent == IF early THEN fed.held ELSE IF Sends(done) THEN done.held ELSE <<>>
     IN /\ windows' = w /\ vad' = v /\ lastVad' = v.state
        /\ spoken' = Heard(vad.state, v.state, w)
        /\ agg' = IF Sends(done) THEN Nothing ELSE done
        /\ asking' = IF sent = <<>> THEN asking ELSE Append(asking, sent)
  /\ ring' = ring - Window
  /\ UNCHANGED <<inQueue, blocks, vadStart, segments, pathEnded>>

(* emit: the segment's text goes on, unless it is empty or only filler.    *)
Recognise ==
  /\ asking # <<>> /\ asking' = Tail(asking)
  /\ segments' = Append(segments, Head(asking))
  /\ UNCHANGED <<inQueue, blocks, ring, vadStart, vad, lastVad, agg, spoken,
                 windows, pathEnded>>

(* p.ctx is done, and the goroutine, back at its select, goes by that.     *)
PathEnds ==
  /\ ~pathEnded /\ ring < Window
  /\ pathEnded' = TRUE
  /\ UNCHANGED <<inQueue, blocks, ring, vadStart, vad, lastVad, agg, asking,
                 segments, spoken, windows>>

SpeechTypeOK ==
  /\ inQueue \in Seq(Packets) /\ Len(inQueue) <= QueueLen
  /\ blocks \in BOOLEAN /\ ring \in 0..RingLen /\ pathEnded \in BOOLEAN
  /\ vad.state \in {"quiet", "starting", "speaking", "stopping"} /\ lastVad = vad.state
  /\ windows \in 0..MaxWindows
  /\ agg.held \in Seq(1..windows)
  /\ {asking, segments, spoken} \subseteq Seq(Seq(1..windows))

(* Recognition is asked about each finished utterance of the caller once,  *)
(* whole and in order, whatever pauses and false starts came with it; all  *)
(* it is asked about besides is the lone window after a false start.       *)
SegmentsAreWhole ==
  LET finished == IF vad.state \in {"speaking", "stopping"}
                    THEN SubSeq(spoken, 1, Len(spoken) - 1) ELSE spoken
      asked == segments \o asking
      whole == {i \in DOMAIN asked : Len(asked[i]) > 1}
  IN /\ Cardinality(whole) = Len(finished)
     /\ \A i \in whole : asked[i] = finished[Cardinality({j \in whole : j <= i})]
=============================================================================
