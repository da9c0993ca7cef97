------------------------------- MODULE Reply --------------------------------
(***************************************************************************)
(* One caller turn and its reply: the model is asked, asked again when it  *)
(* says nothing, runs tools, and its words go to speech while the session  *)
(* keeps account of what was said (openai_api_processor.go, session.go,    *)
(* chat_history.go, transcript.go, pickup.go, fast_first_aggregator.go,    *)
(* tts_processor.go, and the output side of the transport).                *)
(*                                                                         *)
(* chat() runs one turn at a time on the goroutine that brings the text;   *)
(* an interruption comes on another, and the voice is written by a third.  *)
(* A chunk <<turn, k>> is the k-th piece of a reply and as long in speech  *)
(* as any other.                                                           *)
(***************************************************************************)
EXTENDS Integers, Sequences, SequencesExt, FiniteSets

CONSTANTS
  ChatSize,        \* chat_history_size
  MaxTranscript,   \* MaxTranscriptTurns
  HasTools,        \* the values of "a tool is advertised" to try
  MaxCallerTurns, MaxChunks, MaxBreaks   \* bounds: turns, chunks of a turn, interruptions
MaxRounds == 3                           \* the tool budget
MaxEmptyTurnRetries == 2
ASSUME ReplyAssumption ==
  /\ ChatSize \in Nat /\ HasTools \subseteq BOOLEAN
  /\ MaxTranscript \in Nat /\ MaxTranscript >= 4 /\ MaxTranscript % 2 = 0
  /\ {MaxCallerTurns, MaxChunks, MaxBreaks} \subseteq Nat

VARIABLES
  chat,        \* the turn being run: see ReplyInit
  tools,       \* the provider has tools
  pickup,      \* filterPickup and heardContent
  agentTurn,   \* chunks recorded for the turn under way
  spokenAudio, \* chunks' worth of audio sent since agentTurn was last reported
  reports,     \* what the agent-turn observer was given
  line,        \* the reply on its way out: see Line
  history,     \* the model's window: the roles in it
  transcript,  \* the call's transcript: the roles in it
  cutShort,    \* turns interrupted before their voice was over
  breaks       \* interruptions so far

replyVars == <<chat, tools, pickup, agentTurn, spokenAudio, reports, line, history,
               transcript, cutShort, breaks>>

(* What the aggregator holds and whether it has passed on the opening,     *)
(* what is being synthesised, audioOutQueue, what was sent, the mute.      *)
Line == [agg |-> <<>>, opened |-> FALSE, voice |-> <<>>, out |-> <<>>, sent |-> <<>>,
         muted |-> FALSE]
ReplyInit ==
  /\ chat = [phase |-> "idle", no |-> 0, rounds |-> 0, empties |-> 0, made |-> 0, now |-> 0,
             ran |-> 0, lastResort |-> FALSE, cancelled |-> FALSE, inFlight |-> FALSE]
  /\ tools \in HasTools
  /\ agentTurn = <<>> /\ spokenAudio = 0 /\ reports = <<>>
  /\ line = Line
  /\ history = <<>> /\ cutShort = {} /\ breaks = 0
  /\ transcript \in {<<>>, <<"greeting">>}          \* SeedGreeting
  /\ pickup = [filter |-> transcript # <<>>, heard |-> FALSE]

(* Mutant of Kept: the window is never cut. *)
KeptUntrimmed(h, role) == Append(h, role)

(* ChatHistory.Append: the oldest pair goes when the window is full.       *)
Kept(h, role) ==
  LET b == Append(h, role)
  IN IF Len(b) = 2 * (ChatSize + 1) THEN SubSeq(b, 3, Len(b)) ELSE b
ToolRound(h) == Kept(Kept(h, "assistant"), "tool")

(* Mutant of Added: a full transcript loses its oldest turn.               *)
AddedDroppingOldest(t, role) ==
  Append(IF Len(t) >= MaxTranscript THEN Tail(t) ELSE t, role)

(* Transcript.Add: a full transcript loses its middle, and an agent turn   *)
(* before the caller's first was never spoken.                             *)
Added(t, role) ==
  LET half == MaxTranscript \div 2
      cut == IF Len(t) >= MaxTranscript
               THEN SubSeq(t, 1, half) \o SubSeq(t, Len(t) - half + 2, Len(t)) ELSE t
  IN IF role = "agent" /\ Contains(t, "greeting") /\ ~Contains(t, "user")
       THEN t ELSE Append(cut, role)

(* Session.FlushAgentTurn, reporting the first n chunks of the turn.       *)
Report(n) ==
  /\ agentTurn' = <<>> /\ spokenAudio' = 0
  /\ reports' = IF n = 0 THEN reports ELSE Append(reports, SubSeq(agentTurn, 1, n))
  /\ transcript' = IF n = 0 THEN transcript ELSE Added(transcript, "agent")
(* trimToSpoken cuts after the word speech was in: up to a word too many,  *)
(* and nothing at all inside the first.                                    *)
SpokenPrefix ==
  {n \in 0..Len(agentTurn) :
     \/ n = 0 /\ spokenAudio <= 1
     \/ n > 0 /\ spokenAudio > 0 /\ n \in {spokenAudio, spokenAudio + 1}
     \/ n = Len(agentTurn) /\ spokenAudio >= n}

(* ShouldSkipCallerTurn: a bare greeting before anything with content.     *)
SkipPickup ==
  /\ chat.phase = "idle" /\ chat.no < MaxCallerTurns
  /\ pickup.filter /\ ~pickup.heard
  /\ chat' = [chat EXCEPT !.no = @ + 1]
  /\ UNCHANGED <<tools, pickup, agentTurn, spokenAudio, reports, line, history, transcript,
                 cutShort, breaks>>
(* chat(), as far as the caller's words in history and transcript.         *)
CallerTurn ==
  /\ chat.phase = "idle" /\ chat.no < MaxCallerTurns
  /\ chat' = [phase |-> "heard", no |-> chat.no + 1, rounds |-> 0, empties |-> 0, made |-> 0,
              now |-> 0, ran |-> 0, lastResort |-> FALSE, cancelled |-> FALSE,
              inFlight |-> FALSE]
  /\ pickup' = [pickup EXCEPT !.heard = @ \/ pickup.filter]
  /\ history' = Kept(history, "user")
  /\ transcript' = Added(transcript, "user")
  /\ UNCHANGED <<tools, agentTurn, spokenAudio, reports, line, cutShort, breaks>>
(* From here on an interruption finds a turn to cancel.                    *)
BeginTurn ==
  /\ chat.phase = "heard"
  /\ chat' = [chat EXCEPT !.phase = "ask"]
  /\ UNCHANGED <<tools, pickup, agentTurn, spokenAudio, reports, line, history, transcript,
                 cutShort, breaks>>

(* The head of the loop: each request takes from the tool budget, a retry  *)
(* too; an exhausted turn ends.                                            *)
Ask ==
  /\ chat.phase = "ask"
  /\ chat' = IF chat.rounds > MaxRounds
               THEN [chat EXCEPT !.phase = "end"]
               ELSE [chat EXCEPT !.phase = "stream", !.rounds = @ + 1, !.now = 0]
  /\ UNCHANGED <<tools, pickup, agentTurn, spokenAudio, reports, line, history, transcript,
                 cutShort, breaks>>

(* FastFirstAggregator: holds the text, passes it on where a sentence ends, *)
(* and once a reply passes on its opening words, keeping the last.         *)
Aggregated(text) ==
  {[line EXCEPT !.agg = text],
   [line EXCEPT !.agg = <<>>, !.opened = TRUE, !.voice = @ \o text]}
  \union (IF line.opened \/ Len(text) < 2 THEN {}
          ELSE {[line EXCEPT !.agg = <<Last(text)>>, !.opened = TRUE, !.voice = @ \o Front(text)]})
(* The turn-end frame empties it. *)
FlushAll == [line EXCEPT !.agg = <<>>, !.opened = FALSE, !.voice = @ \o line.agg]
RecordAgentChunk(c) == agentTurn' = Append(agentTurn, c)
RecordSpokenAudio == spokenAudio' = spokenAudio + 1

(* A piece of text: recorded, and given to the aggregator.                 *)
Chunk ==
  /\ chat.phase \in {"stream", "lastResort"} /\ chat.made < MaxChunks
  /\ ~chat.cancelled \/ chat.inFlight
  /\ LET c == <<chat.no, chat.made + 1>>
     IN RecordAgentChunk(c) /\ line' \in Aggregated(Append(line.agg, c))
  /\ chat' = [chat EXCEPT !.made = @ + 1, !.now = @ + 1, !.inFlight = FALSE]
  /\ UNCHANGED <<tools, pickup, spokenAudio, reports, history, transcript, cutShort, breaks>>

(* The completion is whole.  It ran tools, it spoke, or both: when both,   *)
(* the message is kept twice and the tools' results are not answered.      *)
RanTools ==
  /\ chat.phase = "stream" /\ tools
  /\ history' = IF chat.now > 0 THEN Kept(ToolRound(history), "assistant")
                                ELSE ToolRound(history)
  /\ chat' = [chat EXCEPT !.phase = IF chat.now > 0 THEN "end" ELSE "ask",
                          !.rounds = @ + 1, !.ran = @ + 1]
  /\ UNCHANGED <<tools, pickup, agentTurn, spokenAudio, reports, line, transcript, cutShort,
                 breaks>>
Spoke ==
  /\ chat.phase \in {"stream", "lastResort"} /\ chat.now > 0
  /\ history' = Kept(history, "assistant")
  /\ chat' = [chat EXCEPT !.phase = "end"]
  /\ UNCHANGED <<tools, pickup, agentTurn, spokenAudio, reports, line, transcript, cutShort,
                 breaks>>

(* It was empty, or its tools failed.  The first time a tool call is       *)
(* forced; then it is asked again; at last without tools.                  *)
Empty == chat.phase = "stream" /\ chat.now = 0
ForcedTool ==
  /\ Empty /\ chat.empties = 0 /\ tools
  /\ history' = ToolRound(history)
  /\ chat' = [chat EXCEPT !.phase = "ask", !.empties = 1, !.rounds = @ + 1, !.ran = @ + 1]
  /\ UNCHANGED <<tools, pickup, agentTurn, spokenAudio, reports, line, transcript, cutShort,
                 breaks>>

(* Mutant of AskAgain: the last retry is the end of the turn.              *)
AskAgainOrGiveUp ==
  /\ Empty
  /\ chat' = [chat EXCEPT !.phase = IF chat.empties < MaxEmptyTurnRetries THEN "ask" ELSE "end",
                          !.empties = MaxEmptyTurnRetries]
  /\ UNCHANGED <<tools, pickup, agentTurn, spokenAudio, reports, line, history, transcript,
                 cutShort, breaks>>

AskAgain ==
  /\ Empty
  /\ chat' = IF chat.empties < MaxEmptyTurnRetries
               THEN [chat EXCEPT !.phase = "ask", !.empties = MaxEmptyTurnRetries]
               ELSE [chat EXCEPT !.phase = "lastResort", !.lastResort = TRUE, !.now = 0]
  /\ UNCHANGED <<tools, pickup, agentTurn, spokenAudio, reports, line, history, transcript,
                 cutShort, breaks>>
Silent ==
  /\ chat.phase = "lastResort" /\ chat.now = 0
  /\ chat' = [chat EXCEPT !.phase = "end"]
  /\ UNCHANGED <<tools, pickup, agentTurn, spokenAudio, reports, line, history, transcript,
                 cutShort, breaks>>

(* Mutant of EndTurn: only an interruption reports a turn.                 *)
EndTurnUnreported ==
  /\ chat.phase = "end"
  /\ chat' = [chat EXCEPT !.phase = "idle"]
  /\ line' = FlushAll
  /\ UNCHANGED <<tools, pickup, agentTurn, spokenAudio, reports, history, transcript, cutShort,
                 breaks>>

(* The turn-end frame empties the aggregator, even for a turn that was cut *)
(* short; what was recorded and not yet reported is reported in full.      *)
EndTurn ==
  /\ chat.phase = "end"
  /\ chat' = [chat EXCEPT !.phase = "idle"]
  /\ line' = FlushAll
  /\ Report(Len(agentTurn))
  /\ UNCHANGED <<tools, pickup, history, cutShort, breaks>>

(* Synthesis, and handleAudio: the order is kept.                          *)
Queued == [line EXCEPT !.voice = Tail(@), !.out = Append(@, Head(line.voice))]
Speak ==
  /\ line.voice # <<>> /\ line' = Queued
  /\ UNCHANGED <<chat, tools, pickup, agentTurn, spokenAudio, reports, history, transcript,
                 cutShort, breaks>>
(* WriteRawAudio and SendPayload: the serializer drops what comes under    *)
(* the mute, without an error, and counts what it lets through.            *)
SendPayload ==
  IF line.muted
    THEN line' = [line EXCEPT !.out = Tail(@)] /\ UNCHANGED spokenAudio
    ELSE line' = [line EXCEPT !.out = Tail(@), !.sent = Append(@, Head(line.out))]
         /\ RecordSpokenAudio
(* audioOutTaskHandler. *)
Voice ==
  /\ line.out # <<>> /\ SendPayload
  /\ UNCHANGED <<chat, tools, pickup, agentTurn, reports, history, transcript, cutShort, breaks>>
Unmute ==
  /\ line.muted /\ line' = [line EXCEPT !.muted = FALSE]
  /\ UNCHANGED <<chat, tools, pickup, agentTurn, spokenAudio, reports, history, transcript,
                 cutShort, breaks>>

(* The caller speaks over the agent: the generation is cancelled, the turn *)
(* reported as far as it was spoken, and the frame goes on, past what is   *)
(* being synthesised, which it may drop, and audioOutQueue, which it does  *)
(* not, to mute the rest.  The stream may be inside its callback.          *)
Unsent == {c[1] : c \in ToSet(line.agg \o line.voice \o line.out)}
Interrupted == {[line EXCEPT !.voice = left, !.muted = TRUE] : left \in {line.voice, <<>>}}
SpeakOver ==
  /\ breaks < MaxBreaks /\ breaks' = breaks + 1
  /\ \E late \in BOOLEAN :
       chat' = IF chat.phase \in {"ask", "stream", "lastResort", "end"}
                 THEN [chat EXCEPT !.cancelled = TRUE,
                                   !.inFlight = late /\ chat.phase \in {"stream", "lastResort"}]
                 ELSE chat
  /\ \E n \in SpokenPrefix : Report(n)
  /\ line' \in Interrupted
  /\ cutShort' = cutShort \union Unsent
  /\ UNCHANGED <<tools, pickup, history>>

ReplyTypeOK ==
  /\ chat.phase \in {"idle", "heard", "ask", "stream", "lastResort", "end"}
  /\ chat.rounds \in 0..MaxRounds + 2 /\ chat.empties \in 0..MaxEmptyTurnRetries
  /\ chat.made \in 0..MaxChunks /\ spokenAudio \in Nat
  /\ Len(history) < 2 * (ChatSize + 1)
  /\ ToSet(history) \subseteq {"user", "assistant", "tool"}
  /\ ToSet(transcript) \subseteq {"greeting", "user", "agent"}

(* "this turn is silent" is the last word (chat): a turn nobody spoke over *)
(* ends without a word only when two tool rounds used its budget up, or    *)
(* the model had nothing to say even with its tools taken away.            *)
SilenceIsLast ==
  chat.phase = "idle" /\ chat.rounds > 0 /\ ~chat.cancelled /\ chat.made = 0 =>
    chat.ran >= 2 \/ chat.lastResort

(* What the observer is told are the agent's turns (FlushAgentTurn): each  *)
(* report is consecutive words of one reply, and no word is told twice,    *)
(* with interruptions, late chunks and the turn's own end all reporting.   *)
ReportsKeepApart ==
  \A i \in DOMAIN reports : \A j \in DOMAIN reports[i] :
    /\ j > 1 => reports[i][j] = <<reports[i][j - 1][1], reports[i][j - 1][2] + 1>>
    /\ \A k \in DOMAIN reports : \A l \in DOMAIN reports[k] :
         reports[i][j] = reports[k][l] => i = k /\ j = l

(* "The opening states intent and the ending states the outcome"           *)
(* (Transcript.Add): however long the call, a transcript that began with a *)
(* greeting still does, the caller answers first, and it stays bounded.    *)
TranscriptKeepsOpening ==
  /\ Len(transcript) <= MaxTranscript
  /\ pickup.filter => transcript[1] = "greeting"
  /\ pickup.filter /\ Len(transcript) > 1 => transcript[2] = "user"

(* "A turn cut short is reported as what they heard rather than what was   *)
(* generated": no more than a word beyond what was sent of it.             *)
ReportedWasHeard ==
  \A t \in cutShort :
    LET OfTurn(c) == c[1] = t
    IN Len(SelectSeq(FlattenSeq(reports), OfTurn)) <= Len(SelectSeq(line.sent, OfTurn)) + 1
=============================================================================
