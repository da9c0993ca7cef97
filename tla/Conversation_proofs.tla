------------------------ MODULE Conversation_proofs ------------------------
(***************************************************************************)
(* The parts of a call in which the agent and the caller talk, for every   *)
(* number of utterances, turns, chunks, interruptions and writers: the     *)
(* gate does not lose the caller's words, the model's silence is its last  *)
(* resort, the agent's turns are reported apart and the transcript keeps   *)
(* its opening, and the echo gate follows what the carrier plays.          *)
(* Handover_proofs goes on with the parts that hand the call to somebody.  *)
(***************************************************************************)
EXTENDS Conversation, FiniteSetTheorems, SequenceTheorems, TLAPS

-----------------------------------------------------------------------------
(* The gate.  While the classifier has a text, it is what the buffer held  *)
(* when it was asked, unless a timer that had fired took the buffer since. *)
GateInv ==
  /\ GateTypeOK
  /\ judged # <<>> => heard > 0 /\ gateBuf \in {judged, <<>>}
  /\ WordsAreNotLost

-----------------------------------------------------------------------------
(* The reply.  Every request but the one under way ended in a round of     *)
(* tools or in being asked again, which happens once; so the budget is     *)
(* used up by two rounds at least.                                         *)
AskedAgain == IF chat.empties = MaxEmptyTurnRetries THEN 1 ELSE 0
Phases == {"idle", "heard", "ask", "stream", "lastResort", "end"}
ChatTypes ==
  chat \in [phase : Phases, no : Nat, rounds : 0 .. MaxRounds + 2,
            empties : 0 .. MaxEmptyTurnRetries, made : 0 .. MaxChunks, now : 0 .. MaxChunks,
            ran : Nat, lastResort : BOOLEAN, cancelled : BOOLEAN, inFlight : BOOLEAN]
LoopInv ==
  /\ ChatTypes
  /\ chat.now <= chat.made
  /\ chat.phase = "heard" => chat.rounds = 0 /\ chat.ran = 0 /\ chat.empties = 0 /\ chat.made = 0
  /\ chat.phase = "ask" => chat.rounds = 2 * chat.ran + AskedAgain /\ chat.made = 0
  /\ chat.phase = "stream" => chat.rounds = 2 * chat.ran + AskedAgain + 1
                              /\ chat.rounds <= MaxRounds + 1 /\ chat.made = chat.now
  /\ chat.phase = "lastResort" => chat.lastResort /\ chat.made = chat.now
  /\ chat.phase = "end" \/ (chat.phase = "idle" /\ chat.rounds > 0) =>
       chat.made > 0 \/ chat.ran >= 2 \/ chat.lastResort

(* What is recorded of a reply is its latest words in a row; what was      *)
(* reported came before them.                                              *)
Before(c, no, k) == c[1] < no \/ (c[1] = no /\ c[2] <= k)
InARow(rs) ==
  \A i \in DOMAIN rs : \A j \in DOMAIN rs[i] :
    j > 1 => rs[i][j] = <<rs[i][j - 1][1], rs[i][j - 1][2] + 1>>
OnceEach(rs) ==
  \A i, k \in DOMAIN rs : \A j \in DOMAIN rs[i], l \in DOMAIN rs[k] :
    rs[i][j] = rs[k][l] => i = k /\ j = l
Reported(c) == \E i \in DOMAIN reports : \E j \in DOMAIN reports[i] : reports[i][j] = c
ReportInv ==
  /\ agentTurn \in Seq(Nat \X Nat) /\ Len(agentTurn) <= chat.made
  /\ chat.phase \in {"idle", "heard"} => agentTurn = <<>>
  /\ \A j \in DOMAIN agentTurn : agentTurn[j] = <<chat.no, chat.made - Len(agentTurn) + j>>
  /\ reports \in Seq(Seq(Nat \X Nat))
  /\ \A c \in Nat \X Nat : Reported(c) => Before(c, chat.no, chat.made - Len(agentTurn))
  /\ InARow(reports) /\ OnceEach(reports)

FitsWindow(h) == h \in Seq({"user", "assistant", "tool"}) /\ Len(h) < 2 * (ChatSize + 1)
Bounded(t) == t \in Seq({"greeting", "user", "agent"}) /\ Len(t) <= MaxTranscript
Opens(t) == t # <<>> /\ t[1] = "greeting" /\ (Len(t) > 1 => t[2] = "user")
AccountInv ==
  /\ FitsWindow(history) /\ Bounded(transcript)
  /\ "filter" \in DOMAIN pickup /\ (pickup.filter => Opens(transcript))
  /\ spokenAudio \in Nat

ReplyInv == LoopInv /\ ReportInv /\ AccountInv

-----------------------------------------------------------------------------
(* The carrier's stream.  Under way: chunks the clock has been told of and *)
(* the carrier has not played.  Between two clears the clock is off by     *)
(* what the last one threw away or let through: chunks past the mute when  *)
(* it was raised, and those that slipped past it after the reset.  During  *)
(* one, the clock counts from the reset.                                   *)
At(f, x) == {w \in Writers : f[w] = x}
Count(f, x) == Cardinality(At(f, x))
Encoding(f) == Count(f, "encoding")
Writing(f) == Count(f, "writing")
UnderWay == carrier + Writing(wire)
Clock == IF playEnds > 0 THEN playEnds ELSE 0
StreamTypes ==
  /\ mutedFor \in 0 .. Forever /\ openFor \in 0 .. GateHold /\ heldFor \in 0 .. Greeting
  /\ floor \in {0} \union Levels /\ preRolled \in 0 .. PreRoll
  /\ {awaitingBot, onset, hushed} \subseteq BOOLEAN
  /\ clearing \in {"no", "reset", "mute", "write"}
  /\ asked \in [left : 0 .. PromptChunks, times : 0 .. 2] /\ (asked.left > 0 => asked.times < 2)
  /\ wire \in [Writers -> {"none", "encoding", "writing"}]
ClockFollows ==
  /\ playEnds \in Int /\ playEnds >= Past /\ carrier \in Nat
  /\ UnderWay + Encoding(wire) <= MaxLead + Greeting
  /\ slipped \in 0 .. (MaxLead + Greeting)
  /\ clearing = "mute" => playEnds = slipped /\ slipped <= UnderWay
  /\ clearing = "write" =>
       mutedFor > 0 /\ playEnds \in 0 .. (slipped + Cardinality(Writers) - Encoding(wire))
  /\ clearing \in {"no", "reset"} =>
       /\ UnderWay - Clock \in -(EchoTail + slipped) .. EchoTail
       /\ UnderWay > 0 => UnderWay - playEnds <= EchoTail
MediaInv == StreamTypes /\ ClockFollows

-----------------------------------------------------------------------------
(* The caller's speech.  While an utterance lasts, the aggregator holds    *)
(* what has been heard of it; between two, nothing, though a false start   *)
(* leaves it open for a window.  What has been asked about, but for the    *)
(* lone windows, is the finished utterances in order.                      *)
Whole(s) == {i \in DOMAIN s : Len(s[i]) > 1}
UpTo(s, i) == {j \in Whole(s) : j <= i}
Matches(s, f) ==
  /\ Cardinality(Whole(s)) = Len(f)
  /\ \A i \in Whole(s) : s[i] = f[Cardinality(UpTo(s, i))]
Speaking == vad.state \in {"speaking", "stopping"}
Finished == IF Speaking THEN SubSeq(spoken, 1, Len(spoken) - 1) ELSE spoken
Gathering(on, seenEnd, got) == [on |-> on, seenEnd |-> seenEnd, held |-> got]
LeftOpen == Gathering(TRUE, TRUE, <<>>)
PathTypes ==
  /\ inQueue \in Seq(Packets) /\ Len(inQueue) <= QueueLen /\ blocks \in BOOLEAN
  /\ ring \in 0 .. RingLen /\ pathEnded \in BOOLEAN /\ windows \in 0 .. MaxWindows
  /\ vad \in [state : {"quiet", "starting", "speaking", "stopping"}, count : Nat]
  /\ lastVad = vad.state
  /\ {asking, segments, spoken} \subseteq Seq(Seq(1 .. windows))
Aggregates ==
  /\ Speaking => /\ spoken # <<>> /\ spoken[Len(spoken)] # <<>>
                 /\ agg = Gathering(TRUE, FALSE, spoken[Len(spoken)])
  /\ vad.state = "starting" => agg = Nothing
  /\ vad.state = "quiet" => agg \in {Nothing, LeftOpen}
SpeechInv == PathTypes /\ Aggregates /\ Matches(segments \o asking, Finished)

-----------------------------------------------------------------------------
(* A step is one part's, and leaves the others' state alone.               *)
LEMMA GateIsApart ==
  ASSUME Gate
  PROVE  UNCHANGED <<part, speechVars, mediaVars, replyVars, roomVars, transferVars,
                     voicemailVars>>
BY Zenon DEF Gate, OnGate
LEMMA SpeechIsApart ==
  ASSUME Speech
  PROVE  UNCHANGED <<part, gateVars, mediaVars, replyVars, roomVars, transferVars,
                     voicemailVars>>
BY Zenon DEF Speech, OnSpeech
LEMMA MediaIsApart ==
  ASSUME Media
  PROVE  UNCHANGED <<part, gateVars, speechVars, replyVars, roomVars, transferVars,
                     voicemailVars>>
BY Zenon DEF Media, OnMedia
LEMMA ReplyIsApart ==
  ASSUME Replies
  PROVE  UNCHANGED <<part, gateVars, speechVars, mediaVars, roomVars, transferVars,
                     voicemailVars>>
BY Zenon DEF Replies, OnReply
LEMMA RoomIsApart ==
  ASSUME Room
  PROVE  UNCHANGED <<part, gateVars, speechVars, mediaVars, replyVars, transferVars,
                     voicemailVars>>
BY Zenon DEF Room, OnRoom
LEMMA TransferIsApart ==
  ASSUME Transfer
  PROVE  UNCHANGED <<part, gateVars, speechVars, mediaVars, replyVars, roomVars,
                     voicemailVars>>
BY Zenon DEF Transfer, OnTransfer
LEMMA MessageIsApart ==
  ASSUME Message
  PROVE  UNCHANGED <<part, gateVars, speechVars, mediaVars, replyVars, roomVars,
                     transferVars>>
BY Zenon DEF Message, OnCache, OnMachine, OnVoicemail

LEMMA PartsStepApart ==
  ASSUME [Next]_vars
  PROVE  /\ part' = part
         /\ Gate \/ UNCHANGED gateVars
         /\ Speech \/ UNCHANGED speechVars
         /\ Media \/ UNCHANGED mediaVars
         /\ Replies \/ UNCHANGED replyVars
         /\ Room \/ UNCHANGED roomVars
         /\ Transfer \/ UNCHANGED transferVars
         /\ Message \/ UNCHANGED voicemailVars
<1>1. CASE Next
  BY Zenon, <1>1, GateIsApart, SpeechIsApart, MediaIsApart, ReplyIsApart, RoomIsApart,
     TransferIsApart, MessageIsApart DEF Next
<1>2. CASE UNCHANGED vars
  BY Zenon, <1>2 DEF vars
<1>3. QED BY <1>1, <1>2

-----------------------------------------------------------------------------
(* Lemmas about sequences.                                                 *)
LEMMA WiderSeqs ==
  ASSUME NEW m \in Nat, NEW n \in Nat, m <= n, NEW s \in Seq(Seq(1 .. m))
  PROVE  s \in Seq(Seq(1 .. n))
<1>1. 1 .. m \subseteq 1 .. n
  OBVIOUS
<1>2. Seq(1 .. m) \subseteq Seq(1 .. n)
  BY <1>1, SeqMonotonic
<1>3. QED BY <1>2, SeqMonotonic

LEMMA ContainsAppend ==
  ASSUME NEW S, NEW s \in Seq(S), NEW e
  PROVE  /\ Contains(Append(s, e), e)
         /\ \A x : Contains(s, x) => Contains(Append(s, e), x)
BY DEF Contains

-----------------------------------------------------------------------------
(* The gate's steps.                                                       *)
LEMMA GateInitially ==
  ASSUME GateInit PROVE GateInv
<1>1. GateTypeOK
  <2>1. heard \in 0 .. MaxHeard /\ gateTimer \in 0 .. heard
    BY MaxHeardAssumption DEF GateInit
  <2>2. \A S : <<>> \in Seq(S)
    OBVIOUS
  <2>3. gateBuf \in Seq(1 .. heard) /\ judged \in Seq(1 .. heard)
        /\ forwarded \in Seq(Seq(1 .. heard))
    BY <2>2 DEF GateInit
  <2>4. gateEnded \in BOOLEAN /\ waiting \union fired \subseteq 1 .. heard
    BY Zenon DEF GateInit
  <2>5. QED BY <2>1, <2>3, <2>4 DEF GateTypeOK
<1>2. WordsAreNotLost
  BY DEF GateInit, WordsAreNotLost
<1>3. QED BY <1>1, <1>2 DEF GateInit, GateInv

LEMMA GateStands ==
  ASSUME GateInv, UNCHANGED gateVars PROVE GateInv'
BY Zenon DEF GateInv, gateVars, GateTypeOK, WordsAreNotLost

\* What is forwarded stays forwarded, and a text that is, with all its words.
LEMMA ForwardKeeps ==
  ASSUME GateTypeOK, NEW text \in Seq(1 .. heard), Forward(text)
  PROVE  /\ forwarded' \in Seq(Seq(1 .. heard))
         /\ \A i \in DOMAIN forwarded : i \in DOMAIN forwarded' /\ forwarded'[i] = forwarded[i]
         /\ \A w : Contains(text, w) => \E i \in DOMAIN forwarded' : Contains(forwarded'[i], w)
<1>1. CASE text = <<>>
  BY <1>1 DEF Forward, Contains, GateTypeOK
<1>2. CASE text # <<>>
  <2>1. forwarded' = Append(forwarded, text)
    BY <1>2 DEF Forward
  <2>2. Len(forwarded) + 1 \in DOMAIN forwarded' /\ forwarded'[Len(forwarded) + 1] = text
    BY <2>1 DEF GateTypeOK
  <2>3. forwarded' \in Seq(Seq(1 .. heard))
    BY <2>1 DEF GateTypeOK
  <2>4. \A i \in DOMAIN forwarded : i \in DOMAIN forwarded' /\ forwarded'[i] = forwarded[i]
    BY <2>1 DEF GateTypeOK
  <2>5. QED BY <2>2, <2>3, <2>4
<1>3. QED BY <1>1, <1>2

LEMMA GateHearKeeps ==
  ASSUME GateInv, GateHear PROVE GateInv'
<1>1. heard \in 0 .. MaxHeard /\ heard' = heard + 1 /\ heard' \in 0 .. MaxHeard
  BY MaxHeardAssumption DEF GateInv, GateTypeOK, GateHear
<1>2. gateBuf \in Seq(1 .. heard') /\ forwarded' \in Seq(Seq(1 .. heard'))
  BY <1>1, SeqMonotonic, WiderSeqs DEF GateInv, GateTypeOK, GateHear
<1>3. gateBuf' \in Seq(1 .. heard') /\ judged' = gateBuf' /\ judged' # <<>>
  <2>1. gateBuf' = Append(gateBuf, heard + 1) /\ judged' = gateBuf' /\ heard + 1 \in 1 .. heard'
    BY <1>1 DEF GateHear
  <2>2. QED BY <1>2, <2>1
<1>4. GateTypeOK'
  BY <1>1, <1>2, <1>3 DEF GateInv, GateTypeOK, GateHear
<1>5. /\ Contains(gateBuf', heard + 1)
      /\ \A w : Contains(gateBuf, w) => Contains(gateBuf', w)
  BY <1>2, ContainsAppend DEF GateHear
<1>6. WordsAreNotLost'
  <2>1. SUFFICES ASSUME NEW w \in 1 .. heard'
                 PROVE  \/ gateEnded'
                        \/ \E i \in DOMAIN forwarded' : Contains(forwarded'[i], w)
                        \/ Contains(gateBuf', w)
    BY <1>3 DEF WordsAreNotLost
  <2>2. CASE w \in 1 .. heard
    BY <1>5, <2>2 DEF GateInv, WordsAreNotLost, GateHear
  <2>3. CASE w = heard + 1
    BY <1>5, <2>3
  <2>4. QED BY <1>1, <2>1, <2>2, <2>3
<1>7. QED BY <1>1, <1>3, <1>4, <1>6 DEF GateInv

LEMMA GateCompleteKeeps ==
  ASSUME GateInv, GateComplete PROVE GateInv'
<1>1. judged # <<>> /\ gateBuf \in {judged, <<>>} /\ judged \in Seq(1 .. heard) /\ heard' = heard
      /\ gateBuf' = <<>> /\ judged' = <<>> /\ gateEnded' = gateEnded
  BY DEF GateInv, GateTypeOK, GateComplete
<1>2. /\ forwarded' \in Seq(Seq(1 .. heard))
      /\ \A i \in DOMAIN forwarded : i \in DOMAIN forwarded' /\ forwarded'[i] = forwarded[i]
      /\ \A w : Contains(judged, w) => \E i \in DOMAIN forwarded' : Contains(forwarded'[i], w)
  BY <1>1, ForwardKeeps DEF GateInv, GateComplete
<1>3. GateTypeOK'
  BY <1>1, <1>2 DEF GateInv, GateTypeOK, GateComplete, Stopped
<1>4. WordsAreNotLost'
  <2>1. SUFFICES ASSUME NEW w \in 1 .. heard
                 PROVE  gateEnded \/ \E i \in DOMAIN forwarded' : Contains(forwarded'[i], w)
    BY <1>1 DEF WordsAreNotLost
  <2>2. \/ gateEnded
        \/ \E i \in DOMAIN forwarded : Contains(forwarded[i], w)
        \/ Contains(gateBuf, w)
    BY DEF GateInv, WordsAreNotLost
  <2>3. Contains(gateBuf, w) => Contains(judged, w)
    BY <1>1 DEF Contains
  <2>4. QED BY <1>2, <2>2, <2>3
<1>5. QED BY <1>1, <1>3, <1>4 DEF GateInv

LEMMA GateIncompleteKeeps ==
  ASSUME GateInv, GateIncomplete PROVE GateInv'
<1>1. GateTypeOK'
  BY DEF GateInv, GateTypeOK, GateIncomplete, Stopped
<1>2. heard \in waiting'
  BY DEF GateIncomplete
<1>3. WordsAreNotLost'
  BY <1>2 DEF GateInv, WordsAreNotLost, GateIncomplete
<1>4. QED BY <1>1, <1>3 DEF GateInv, GateIncomplete

LEMMA GateExpireKeeps ==
  ASSUME GateInv, NEW t, GateExpire(t) PROVE GateInv'
<1>1. GateTypeOK'
  BY DEF GateInv, GateTypeOK, GateExpire
<1>2. t \in fired'
  BY DEF GateExpire
<1>3. WordsAreNotLost'
  BY <1>2 DEF GateInv, WordsAreNotLost, GateExpire
<1>4. QED BY <1>1, <1>3 DEF GateInv, GateExpire

LEMMA GateTakeKeeps ==
  ASSUME GateInv, NEW t, GateTake(t) PROVE GateInv'
<1>1. gateBuf \in Seq(1 .. heard) /\ heard' = heard /\ gateBuf' = <<>> /\ gateEnded' = gateEnded
      /\ judged' = judged
  BY DEF GateInv, GateTypeOK, GateTake
<1>2. /\ forwarded' \in Seq(Seq(1 .. heard))
      /\ \A i \in DOMAIN forwarded : i \in DOMAIN forwarded' /\ forwarded'[i] = forwarded[i]
      /\ \A w : Contains(gateBuf, w) => \E i \in DOMAIN forwarded' : Contains(forwarded'[i], w)
  BY <1>1, ForwardKeeps DEF GateInv, GateTake
<1>3. GateTypeOK'
  BY <1>1, <1>2 DEF GateInv, GateTypeOK, GateTake
<1>4. WordsAreNotLost'
  <2>1. SUFFICES ASSUME NEW w \in 1 .. heard
                 PROVE  gateEnded \/ \E i \in DOMAIN forwarded' : Contains(forwarded'[i], w)
    BY <1>1 DEF WordsAreNotLost
  <2>2. \/ gateEnded
        \/ \E i \in DOMAIN forwarded : Contains(forwarded[i], w)
        \/ Contains(gateBuf, w)
    BY DEF GateInv, WordsAreNotLost
  <2>3. QED BY <1>2, <2>2
<1>5. QED BY <1>1, <1>3, <1>4 DEF GateInv

LEMMA GateEndsKeeps ==
  ASSUME GateInv, GateEnds PROVE GateInv'
<1>1. GateTypeOK'
  BY DEF GateInv, GateTypeOK, GateEnds, Stopped
<1>2. QED BY <1>1 DEF GateInv, WordsAreNotLost, GateEnds

LEMMA GateInvHolds == Spec => []GateInv
<1>1. Init => GateInv
  BY GateInitially DEF Init
<1>2. GateInv /\ [Next]_vars => GateInv'
  <2>1. SUFFICES ASSUME GateInv, Gate PROVE GateInv'
    BY PartsStepApart, GateStands
  <2>2. QED BY <2>1, GateHearKeeps, GateCompleteKeeps, GateIncompleteKeeps, GateExpireKeeps,
               GateTakeKeeps, GateEndsKeeps DEF Gate
<1>3. QED BY <1>1, <1>2, PTL DEF Spec

(* "... so the agent never dead-airs when the gate misjudges"              *)
(* (turn_gate_processor.go): whatever the classifier says, and however its *)
(* timers race its verdicts, a word of the caller's has been forwarded, or *)
(* is held with a verdict or a timer to come that will release it.         *)
THEOREM WordsAreNotLostHolds == Spec => []WordsAreNotLost
BY GateInvHolds, PTL DEF GateInv

-----------------------------------------------------------------------------
(* The reply's steps: the loop that asks the model.                        *)
LEMMA LoopInitially ==
  ASSUME ReplyInit PROVE LoopInv
BY ReplyAssumption DEF ReplyInit, LoopInv, ChatTypes, Phases, MaxRounds, MaxEmptyTurnRetries

LEMMA LoopStands ==
  ASSUME LoopInv, UNCHANGED chat PROVE LoopInv'
BY Zenon DEF LoopInv, ChatTypes, AskedAgain

USE DEF Phases, MaxRounds, MaxEmptyTurnRetries

LEMMA SkipPickupKeepsLoop ==
  ASSUME LoopInv, SkipPickup PROVE LoopInv'
BY ReplyAssumption DEF LoopInv, ChatTypes, AskedAgain, SkipPickup

LEMMA CallerTurnKeepsLoop ==
  ASSUME LoopInv, CallerTurn PROVE LoopInv'
BY ReplyAssumption DEF LoopInv, ChatTypes, AskedAgain, CallerTurn

LEMMA BeginTurnKeepsLoop ==
  ASSUME LoopInv, BeginTurn PROVE LoopInv'
BY ReplyAssumption DEF LoopInv, ChatTypes, AskedAgain, BeginTurn

LEMMA AskKeepsLoop ==
  ASSUME LoopInv, Ask PROVE LoopInv'
<1>1. ChatTypes /\ chat.phase = "ask"
  BY DEF LoopInv, Ask
<1>2. CASE chat.rounds > MaxRounds
  <2>1. chat' = [chat EXCEPT !.phase = "end"]
    BY <1>2 DEF Ask
  <2>2. ChatTypes'
    BY <1>1, <2>1 DEF ChatTypes
  <2>3. QED BY <1>1, <1>2, <2>1, <2>2 DEF LoopInv, ChatTypes, AskedAgain
<1>3. CASE ~(chat.rounds > MaxRounds)
  <2>1. chat' = [chat EXCEPT !.phase = "stream", !.rounds = @ + 1, !.now = 0]
    BY <1>3 DEF Ask
  <2>2. chat.rounds + 1 \in 0 .. MaxRounds + 2 /\ 0 \in 0 .. MaxChunks
    BY <1>1, <1>3, ReplyAssumption DEF ChatTypes
  <2>3. ChatTypes'
    BY <1>1, <2>1, <2>2 DEF ChatTypes
  <2>4. QED BY <1>1, <1>3, <2>1, <2>3 DEF LoopInv, ChatTypes, AskedAgain
<1>4. QED BY <1>2, <1>3

LEMMA ChunkKeepsLoop ==
  ASSUME LoopInv, Chunk PROVE LoopInv'
<1>1. /\ chat' = [chat EXCEPT !.made = @ + 1, !.now = @ + 1, !.inFlight = FALSE]
      /\ chat.phase \in {"stream", "lastResort"} /\ chat.made < MaxChunks
  BY Zenon DEF Chunk
<1>2. ChatTypes /\ chat.now <= chat.made /\ MaxChunks \in Nat
  BY ReplyAssumption DEF LoopInv
<1>3. ChatTypes'
  <2>1. chat.made + 1 \in 0 .. MaxChunks /\ chat.now + 1 \in 0 .. MaxChunks
    BY <1>1, <1>2 DEF ChatTypes
  <2>2. QED BY <1>1, <1>2, <2>1 DEF ChatTypes
<1>4. QED BY <1>1, <1>3 DEF LoopInv, ChatTypes, AskedAgain

LEMMA RanToolsKeepsLoop ==
  ASSUME LoopInv, RanTools PROVE LoopInv'
<1>1. /\ chat' = [chat EXCEPT !.phase = IF chat.now > 0 THEN "end" ELSE "ask",
                              !.rounds = @ + 1, !.ran = @ + 1]
      /\ chat.phase = "stream"
  BY Zenon DEF RanTools
<1>2. ChatTypes /\ chat.rounds <= MaxRounds + 1
  BY <1>1 DEF LoopInv
<1>3. ChatTypes'
  <2>1. chat.rounds + 1 \in 0 .. MaxRounds + 2 /\ chat.ran + 1 \in Nat
    BY <1>2 DEF ChatTypes
  <2>2. PICK next \in {"end", "ask"} :
          chat' = [chat EXCEPT !.phase = next, !.rounds = @ + 1, !.ran = @ + 1]
    BY <1>1
  <2>3. QED BY <1>2, <2>1, <2>2 DEF ChatTypes
<1>4. QED BY <1>1, <1>3 DEF LoopInv, ChatTypes, AskedAgain

LEMMA SpokeKeepsLoop ==
  ASSUME LoopInv, Spoke PROVE LoopInv'
<1>1. /\ chat' = [chat EXCEPT !.phase = "end"]
      /\ chat.phase \in {"stream", "lastResort"} /\ chat.now > 0
  BY Zenon DEF Spoke
<1>2. ChatTypes
  BY DEF LoopInv
<1>3. ChatTypes'
  BY <1>1, <1>2 DEF ChatTypes
<1>4. QED BY <1>1, <1>3 DEF LoopInv, ChatTypes, AskedAgain

LEMMA ForcedToolKeepsLoop ==
  ASSUME LoopInv, ForcedTool PROVE LoopInv'
<1>1. /\ chat' = [chat EXCEPT !.phase = "ask", !.empties = 1, !.rounds = @ + 1, !.ran = @ + 1]
      /\ chat.phase = "stream" /\ chat.now = 0 /\ chat.empties = 0
  BY Zenon DEF ForcedTool, Empty
<1>2. ChatTypes /\ chat.rounds <= MaxRounds + 1
  BY <1>1 DEF LoopInv
<1>3. ChatTypes'
  <2>1. /\ chat.rounds + 1 \in 0 .. MaxRounds + 2 /\ chat.ran + 1 \in Nat
        /\ 1 \in 0 .. MaxEmptyTurnRetries
    BY <1>2 DEF ChatTypes
  <2>2. PICK count \in 0 .. MaxEmptyTurnRetries :
          chat' = [chat EXCEPT !.phase = "ask", !.empties = count, !.rounds = @ + 1, !.ran = @ + 1]
    BY <1>1, <2>1
  <2>3. QED BY <1>2, <2>1, <2>2 DEF ChatTypes
<1>4. QED BY <1>1, <1>3 DEF LoopInv, ChatTypes, AskedAgain

LEMMA AskAgainKeepsLoop ==
  ASSUME LoopInv, AskAgain PROVE LoopInv'
<1>1. ChatTypes /\ chat.phase = "stream" /\ chat.now = 0
  BY DEF LoopInv, AskAgain, Empty
<1>2. CASE chat.empties < MaxEmptyTurnRetries
  <2>1. chat' = [chat EXCEPT !.phase = "ask", !.empties = MaxEmptyTurnRetries]
    BY <1>2 DEF AskAgain
  <2>2. ChatTypes'
    <3>1. PICK twice \in 0 .. MaxEmptyTurnRetries :
            chat' = [chat EXCEPT !.phase = "ask", !.empties = twice]
      BY <2>1
    <3>2. QED BY <1>1, <3>1 DEF ChatTypes
  <2>3. QED BY <1>1, <1>2, <2>1, <2>2 DEF LoopInv, ChatTypes, AskedAgain
<1>3. CASE ~(chat.empties < MaxEmptyTurnRetries)
  <2>1. chat' = [chat EXCEPT !.phase = "lastResort", !.lastResort = TRUE, !.now = 0]
    BY <1>3 DEF AskAgain
  <2>2. ChatTypes' /\ chat'.now = 0
    BY <1>1, <2>1 DEF ChatTypes
  <2>3. QED BY <1>1, <2>1, <2>2 DEF LoopInv, ChatTypes, AskedAgain
<1>4. QED BY <1>2, <1>3

LEMMA SilentKeepsLoop ==
  ASSUME LoopInv, Silent PROVE LoopInv'
<1>1. chat' = [chat EXCEPT !.phase = "end"] /\ chat.phase = "lastResort"
  BY Zenon DEF Silent
<1>2. ChatTypes
  BY DEF LoopInv
<1>3. ChatTypes'
  BY <1>1, <1>2 DEF ChatTypes
<1>4. QED BY <1>1, <1>3 DEF LoopInv, ChatTypes, AskedAgain

LEMMA EndTurnKeepsLoop ==
  ASSUME LoopInv, EndTurn PROVE LoopInv'
<1>1. chat' = [chat EXCEPT !.phase = "idle"] /\ chat.phase = "end"
  BY Zenon DEF EndTurn
<1>2. ChatTypes
  BY DEF LoopInv
<1>3. ChatTypes'
  BY <1>1, <1>2 DEF ChatTypes
<1>4. QED BY <1>1, <1>3 DEF LoopInv, ChatTypes, AskedAgain

\* An interruption marks the turn and moves it nowhere.
LEMMA SpeakOverKeepsLoop ==
  ASSUME LoopInv, SpeakOver PROVE LoopInv'
<1>1. PICK late \in BOOLEAN :
        chat' = IF chat.phase \in {"ask", "stream", "lastResort", "end"}
                  THEN [chat EXCEPT !.cancelled = TRUE,
                          !.inFlight = late /\ chat.phase \in {"stream", "lastResort"}]
                  ELSE chat
  BY Zenon DEF SpeakOver
<1>2. ChatTypes
  BY DEF LoopInv
<1>3. CASE chat' = chat
  BY <1>3, LoopStands
<1>4. CASE chat' # chat
  <2> DEFINE flying == late /\ chat.phase \in {"stream", "lastResort"}
  <2>1. chat' = [chat EXCEPT !.cancelled = TRUE, !.inFlight = flying]
    BY <1>1, <1>4
  <2>2. flying \in BOOLEAN
    BY Zenon
  <2> HIDE DEF flying
  <2>3. ChatTypes'
    BY <1>2, <2>1, <2>2 DEF ChatTypes
  <2>4. QED BY <2>1, <2>3 DEF LoopInv, ChatTypes, AskedAgain
<1>5. QED BY <1>3, <1>4
HIDE DEF Phases, MaxRounds, MaxEmptyTurnRetries

-----------------------------------------------------------------------------
(* The reply's steps: what is recorded and reported.                       *)
LEMMA ReportInitially ==
  ASSUME ReplyInit PROVE ReportInv
<1>1. \A S : <<>> \in Seq(S)
  OBVIOUS
<1>2. agentTurn \in Seq(Nat \X Nat) /\ reports \in Seq(Seq(Nat \X Nat))
  BY <1>1 DEF ReplyInit
<1>3. agentTurn = <<>> /\ reports = <<>> /\ chat.made = 0
  BY DEF ReplyInit
<1>4. InARow(reports) /\ OnceEach(reports)
  BY <1>3 DEF InARow, OnceEach
<1>5. \A c : ~Reported(c)
  BY <1>3 DEF Reported
<1>6. Len(agentTurn) <= chat.made /\ \A j \in DOMAIN agentTurn : FALSE
  BY <1>3
<1>7. QED BY <1>2, <1>3, <1>4, <1>5, <1>6 DEF ReportInv

\* Most steps move the turn on, and neither say nor report anything.
LEMMA ReportStands ==
  ASSUME ReportInv, UNCHANGED <<agentTurn, reports>>,
         chat'.no = chat.no, chat'.made = chat.made,
         chat'.phase \in {"idle", "heard"} => chat.phase \in {"idle", "heard"}
  PROVE  ReportInv'
<1>1. \A c : Reported(c) <=> Reported(c)'
  BY DEF Reported
<1>2. QED BY <1>1 DEF ReportInv

\* The caller's next turn: nothing of the last one is left to report.
LEMMA NextTurnKeepsReports ==
  ASSUME LoopInv, ReportInv, UNCHANGED <<agentTurn, reports>>,
         agentTurn = <<>>, chat'.no = chat.no + 1, chat'.made \in Nat
  PROVE  ReportInv'
<1>1. chat.no \in Nat
  BY DEF LoopInv, ChatTypes
<1>2. \A c \in Nat \X Nat : Before(c, chat.no, chat.made - Len(agentTurn))
                              => Before(c, chat'.no, chat'.made - Len(agentTurn'))
  BY <1>1 DEF Before
<1>3. \A c : Reported(c) <=> Reported(c)'
  BY DEF Reported
<1>4. (InARow(reports) /\ OnceEach(reports))'
  BY DEF ReportInv
<1>5. QED BY <1>2, <1>3, <1>4 DEF ReportInv

LEMMA ChunkKeepsReports ==
  ASSUME LoopInv, ReportInv, Chunk PROVE ReportInv'
<1>1. /\ chat' = [chat EXCEPT !.made = @ + 1, !.now = @ + 1, !.inFlight = FALSE]
      /\ chat.phase \in {"stream", "lastResort"}
      /\ agentTurn' = Append(agentTurn, <<chat.no, chat.made + 1>>) /\ reports' = reports
  BY Zenon DEF Chunk, RecordAgentChunk
<1>2. chat.no \in Nat /\ chat.made \in Nat
  BY ReplyAssumption DEF LoopInv, ChatTypes
<1>3. chat'.no = chat.no /\ chat'.made = chat.made + 1 /\ chat'.phase = chat.phase
  BY <1>1 DEF LoopInv, ChatTypes
<1>4. agentTurn' \in Seq(Nat \X Nat) /\ Len(agentTurn') = Len(agentTurn) + 1
      /\ Len(agentTurn) \in Nat
  BY <1>1, <1>2 DEF ReportInv
<1>5. \A j \in DOMAIN agentTurn' :
        agentTurn'[j] = <<chat'.no, chat'.made - Len(agentTurn') + j>>
  BY SMTT(30), <1>1, <1>2, <1>3, <1>4 DEF ReportInv
<1>6. chat'.made - Len(agentTurn') = chat.made - Len(agentTurn)
  <2>1. \A m, n \in Nat : (m + 1) - (n + 1) = m - n
    OBVIOUS
  <2>2. QED BY <1>2, <1>3, <1>4, <2>1
<1>7. \A c : Reported(c) <=> Reported(c)'
  BY <1>1 DEF Reported
<1>8. (InARow(reports) /\ OnceEach(reports))'
  BY <1>1 DEF ReportInv
<1>9. Len(agentTurn') <= chat'.made
  BY <1>2, <1>3, <1>4 DEF ReportInv
<1>10. QED BY <1>1, <1>3, <1>4, <1>5, <1>6, <1>7, <1>8, <1>9 DEF ReportInv

\* A report is of words that come after all that was reported, and before all to come.
LEMMA ReportKeepsReports ==
  ASSUME LoopInv, ReportInv, NEW n \in 0 .. Len(agentTurn), Report(n),
         chat'.no = chat.no, chat'.made = chat.made
  PROVE  ReportInv'
<1>1. chat.no \in Nat /\ chat.made \in Nat /\ agentTurn' = <<>> /\ Len(agentTurn) \in Nat
      /\ Len(agentTurn) <= chat.made
  BY ReplyAssumption DEF LoopInv, ChatTypes, Report, ReportInv
<1>2. \A c \in Nat \X Nat : Before(c, chat.no, chat.made - Len(agentTurn))
                              => Before(c, chat'.no, chat'.made - Len(agentTurn'))
  BY <1>1 DEF Before
<1>3. \A i \in DOMAIN reports : /\ reports[i] \in Seq(Nat \X Nat)
                                /\ \A j \in DOMAIN reports[i] : reports[i][j] \in Nat \X Nat
  BY DEF ReportInv
<1>4. CASE n = 0
  <2>1. reports' = reports
    BY <1>4 DEF Report
  <2>2. (InARow(reports) /\ OnceEach(reports))'
    BY <2>1 DEF ReportInv
  <2>3. \A c : Reported(c) <=> Reported(c)'
    BY <2>1 DEF Reported
  <2>4. QED BY <1>1, <1>2, <2>1, <2>2, <2>3 DEF ReportInv
<1>5. CASE n # 0
  <2> DEFINE new == SubSeq(agentTurn, 1, n)
             last == Len(reports) + 1
  <2>1. new \in Seq(Nat \X Nat) /\ DOMAIN new = 1 .. n
        /\ \A j \in 1 .. n : new[j] = <<chat.no, chat.made - Len(agentTurn) + j>>
    BY DEF ReportInv
  <2>2. reports' = Append(reports, new)
    BY <1>5 DEF Report
  <2> HIDE DEF new
  <2>3. /\ reports' \in Seq(Seq(Nat \X Nat)) /\ DOMAIN reports' = 1 .. last
        /\ DOMAIN reports = 1 .. (last - 1) /\ last \in Nat
        /\ \A i \in 1 .. (last - 1) : reports'[i] = reports[i]
        /\ reports'[last] = new
    BY <2>1, <2>2 DEF ReportInv
  <2> HIDE DEF last
  <2>4. ASSUME NEW j \in 1 .. n
        PROVE  /\ new[j] \in Nat \X Nat
               /\ Before(new[j], chat'.no, chat'.made - Len(agentTurn'))
               /\ ~Before(new[j], chat.no, chat.made - Len(agentTurn))
    <3>1. /\ new[j] \in Nat \X Nat
          /\ new[j][1] = chat.no /\ new[j][2] = chat.made - Len(agentTurn) + j
      BY <2>1
    <3>2. Len(agentTurn') = 0
      BY <1>1
    <3>3. chat.made - Len(agentTurn) + j <= chat.made
      BY <1>1
    <3>4. QED BY <1>1, <3>1, <3>2, <3>3 DEF Before
  <2>5. \A j \in 1 .. n : ~Reported(new[j])
    BY <2>4 DEF ReportInv
  <2> DEFINE Differ(i, j, k, l) == reports'[i][j] = reports'[k][l] => i = k /\ j = l
  <2>6. ASSUME NEW c \in Nat \X Nat, Reported(c)'
        PROVE  Before(c, chat'.no, chat'.made - Len(agentTurn'))
    <3>1. PICK i \in 1 .. last : \E j \in DOMAIN reports'[i] : reports'[i][j] = c
      BY <2>3, <2>6 DEF Reported
    <3>2. CASE i = last
      BY <2>1, <2>3, <2>4, <3>1, <3>2
    <3>3. CASE i # last
      <4>1. i \in DOMAIN reports /\ reports'[i] = reports[i]
        BY <2>3, <3>1, <3>3
      <4>2. Reported(c)
        BY <3>1, <4>1 DEF Reported
      <4>3. QED BY <1>2, <4>2 DEF ReportInv
    <3>4. QED BY <3>2, <3>3
  <2>7. ASSUME NEW i \in 1 .. last, NEW j \in DOMAIN reports'[i], j > 1
        PROVE  reports'[i][j] = <<reports'[i][j - 1][1], reports'[i][j - 1][2] + 1>>
    <3>1. CASE i = last
      <4>1. j \in 1 .. n /\ j - 1 \in 1 .. n
        BY SMTT(30), <2>1, <2>3, <2>7, <3>1
      <4>2. /\ new[j] = <<chat.no, chat.made - Len(agentTurn) + j>>
            /\ new[j - 1] = <<chat.no, chat.made - Len(agentTurn) + (j - 1)>>
        BY <2>1, <4>1
      <4>3. j \in Int /\ (chat.made - Len(agentTurn) + (j - 1)) + 1 = chat.made - Len(agentTurn) + j
        BY <1>1, <4>1
      <4>4. new[j] = <<new[j - 1][1], new[j - 1][2] + 1>>
        BY <4>2, <4>3
      <4>5. QED BY <2>3, <3>1, <4>4
    <3>2. CASE i # last
      <4>1. i \in DOMAIN reports /\ reports'[i] = reports[i]
        BY <2>3, <2>7, <3>2
      <4>2. InARow(reports)
        BY DEF ReportInv
      <4>3. QED BY <2>7, <4>1, <4>2 DEF InARow
    <3>3. QED BY <3>1, <3>2
  <2>8. ASSUME NEW i \in 1 .. last, NEW j \in DOMAIN reports'[i],
               NEW k \in 1 .. last, NEW l \in DOMAIN reports'[k]
        PROVE  Differ(i, j, k, l)
    <3>1. CASE i = last /\ k = last
      <4>1. /\ j \in 1 .. n /\ new[j] = <<chat.no, chat.made - Len(agentTurn) + j>>
            /\ l \in 1 .. n /\ new[l] = <<chat.no, chat.made - Len(agentTurn) + l>>
        BY <2>1, <2>3, <2>8, <3>1
      <4>2. QED BY SMTT(30), <1>1, <2>3, <3>1, <4>1
    <3>2. CASE i = last /\ k # last
      <4>1. k \in DOMAIN reports /\ reports'[k] = reports[k] /\ l \in DOMAIN reports[k]
        BY <2>3, <2>8, <3>2
      <4>2. Reported(reports'[k][l]) /\ j \in 1 .. n /\ reports'[i][j] = new[j]
        BY <2>1, <2>3, <2>8, <3>2, <4>1 DEF Reported
      <4>3. QED BY <2>5, <4>2
    <3>3. CASE i # last /\ k = last
      <4>1. i \in DOMAIN reports /\ reports'[i] = reports[i] /\ j \in DOMAIN reports[i]
        BY <2>3, <2>8, <3>3
      <4>2. Reported(reports'[i][j]) /\ l \in 1 .. n /\ reports'[k][l] = new[l]
        BY <2>1, <2>3, <2>8, <3>3, <4>1 DEF Reported
      <4>3. QED BY <2>5, <4>2
    <3>4. CASE i # last /\ k # last
      <4>1. /\ i \in DOMAIN reports /\ reports'[i] = reports[i] /\ j \in DOMAIN reports[i]
            /\ k \in DOMAIN reports /\ reports'[k] = reports[k] /\ l \in DOMAIN reports[k]
        BY <2>3, <2>8, <3>4
      <4>2. OnceEach(reports)
        BY DEF ReportInv
      <4>3. reports[i][j] = reports[k][l] => i = k /\ j = l
        BY <4>1, <4>2 DEF OnceEach
      <4>4. QED BY <4>1, <4>3
    <3>5. QED BY <3>1, <3>2, <3>3, <3>4
  <2> HIDE DEF Differ
  <2>9. InARow(reports') /\ OnceEach(reports')
    <3>1. InARow(reports')
      BY Zenon, <2>3, <2>7 DEF InARow
    <3>2. OnceEach(reports')
      BY <2>3, <2>8 DEF OnceEach, Differ
    <3>3. QED BY <3>1, <3>2
  <2>10. QED BY <1>1, <2>3, <2>6, <2>9 DEF ReportInv
<1>6. QED BY <1>4, <1>5

-----------------------------------------------------------------------------
(* The reply's steps: the model's window and the call's transcript.        *)
LEMMA KeptFits ==
  ASSUME NEW h, FitsWindow(h), NEW role \in {"user", "assistant", "tool"}
  PROVE  FitsWindow(Kept(h, role))
<1> DEFINE b == Append(h, role)
           Role == {"user", "assistant", "tool"}
<1>1. b \in Seq(Role) /\ Len(b) = Len(h) + 1 /\ Len(h) \in Nat
  BY DEF FitsWindow
<1>2. ChatSize \in Nat /\ Len(h) < 2 * (ChatSize + 1)
  BY ReplyAssumption DEF FitsWindow
<1>3. Kept(h, role) = IF Len(b) = 2 * (ChatSize + 1) THEN SubSeq(b, 3, Len(b)) ELSE b
  BY Zenon DEF Kept
<1> HIDE DEF b
<1>4. CASE Len(b) = 2 * (ChatSize + 1)
  <2>1. SubSeq(b, 3, Len(b)) \in Seq(Role) /\ Len(SubSeq(b, 3, Len(b))) = Len(b) - 2
    <3>1. Len(b) \in Nat /\ Len(b) >= 2
      BY <1>1, <1>2, <1>4
    <3>2. \A i \in 3 .. Len(b) : b[i] \in Role
      BY <1>1, <3>1
    <3>3. /\ SubSeq(b, 3, Len(b)) \in Seq(Role)
          /\ Len(SubSeq(b, 3, Len(b))) = IF 3 <= Len(b) THEN Len(b) - 3 + 1 ELSE 0
      <4>1. 3 \in Int /\ Len(b) \in Int
        BY <3>1
      <4> HIDE DEF Role
      <4>2. QED BY <3>2, <4>1, SubSeqProperties
    <3>4. \A n \in Nat : n >= 2 => (IF 3 <= n THEN n - 3 + 1 ELSE 0) = n - 2
      OBVIOUS
    <3>5. QED BY <3>1, <3>3, <3>4
  <2>2. QED BY <1>1, <1>2, <1>3, <1>4, <2>1 DEF FitsWindow
<1>5. CASE Len(b) # 2 * (ChatSize + 1)
  BY <1>1, <1>2, <1>3, <1>5 DEF FitsWindow
<1>6. QED BY <1>4, <1>5

LEMMA ToolRoundFits ==
  ASSUME NEW h, FitsWindow(h) PROVE FitsWindow(ToolRound(h))
BY KeptFits DEF ToolRound

\* A full transcript loses its middle: both ends stay, and so does the bound.
LEMMA AddedFits ==
  ASSUME NEW t, Bounded(t), NEW role \in {"user", "agent"}
  PROVE  Bounded(Added(t, role)) /\ (Opens(t) => Opens(Added(t, role)))
<1> DEFINE half == MaxTranscript \div 2
           cut == IF Len(t) >= MaxTranscript
                    THEN SubSeq(t, 1, half) \o SubSeq(t, Len(t) - half + 2, Len(t)) ELSE t
           Role == {"greeting", "user", "agent"}
<1>1. MaxTranscript \in Nat /\ half \in Nat /\ 2 <= half /\ MaxTranscript = 2 * half
  BY ReplyAssumption
<1>2. t \in Seq(Role) /\ Len(t) \in Nat /\ Len(t) <= MaxTranscript
  BY DEF Bounded
<1>3. Added(t, role) = IF role = "agent" /\ Contains(t, "greeting") /\ ~Contains(t, "user")
                         THEN t ELSE Append(cut, role)
  BY Zenon DEF Added
<1> HIDE DEF half
<1>4. /\ cut \in Seq(Role) /\ Len(cut) <= MaxTranscript - 1
      /\ Len(t) > 0 => Len(cut) > 0 /\ cut[1] = t[1]
      /\ Len(cut) > 1 => Len(t) > 1 /\ cut[2] = t[2]
      /\ Len(t) > 1 => Len(cut) > 1
  <2>1. CASE Len(t) >= MaxTranscript
    <3> DEFINE opening == SubSeq(t, 1, half)
               ending == SubSeq(t, Len(t) - half + 2, Len(t))
    <3>1. Len(t) = MaxTranscript
      BY <1>1, <1>2, <2>1
    <3>2. /\ opening \in Seq(Role) /\ Len(opening) = half
          /\ opening[1] = t[1] /\ opening[2] = t[2]
      BY <1>1, <1>2, <3>1
    <3>3. ending \in Seq(Role) /\ Len(ending) = half - 1
      BY <1>1, <1>2, <3>1
    <3>4. cut = opening \o ending
      BY <2>1
    <3> HIDE DEF opening, ending, cut
    <3>5. cut \in Seq(Role) /\ Len(cut) = half + (half - 1) /\ cut[1] = opening[1] /\ cut[2] = opening[2]
      <4>1. /\ opening \o ending \in Seq(Role)
            /\ Len(opening \o ending) = Len(opening) + Len(ending)
            /\ \A i \in 1 .. Len(opening) + Len(ending) : (opening \o ending)[i] =
                 IF i <= Len(opening) THEN opening[i] ELSE ending[i - Len(opening)]
        <5> HIDE DEF Role
        <5>1. QED BY Zenon, <3>2, <3>3, ConcatProperties
      <4>2. 1 \in 1 .. half + (half - 1) /\ 2 \in 1 .. half + (half - 1)
        BY <1>1
      <4>3. QED BY <1>1, <3>2, <3>3, <3>4, <4>1, <4>2
    <3>6. QED BY <1>1, <3>1, <3>2, <3>5
  <2>2. CASE ~(Len(t) >= MaxTranscript)
    BY <1>1, <1>2, <2>2
  <2>3. QED BY <2>1, <2>2
<1> HIDE DEF cut
<1>5. CASE Added(t, role) = t
  BY <1>5
<1>6. CASE Added(t, role) # t
  <2> DEFINE new == Append(cut, role)
  <2>1. Added(t, role) = new /\ (role = "agent" /\ Contains(t, "greeting") => Contains(t, "user"))
    BY <1>3, <1>6
  <2>2. new \in Seq(Role) /\ Len(new) = Len(cut) + 1 /\ Len(cut) \in Nat
        /\ new[Len(new)] = role /\ \A i \in 1 .. Len(cut) : new[i] = cut[i]
    BY <1>4
  <2> HIDE DEF new
  <2>3. Bounded(new)
    BY <1>1, <1>4, <2>2 DEF Bounded
  <2>4. ASSUME Opens(t) PROVE Opens(new)
    <3>1. Len(t) > 0 /\ t[1] = "greeting" /\ (Len(t) > 1 => t[2] = "user")
      BY <1>2, <2>4 DEF Opens
    <3>2. Contains(t, "greeting")
      BY <1>2, <3>1 DEF Contains
    <3>3. Len(new) > 1 /\ new[1] = "greeting"
      BY <1>4, <2>2, <3>1
    <3>4. CASE Len(t) > 1
      BY <1>4, <2>2, <3>1, <3>3, <3>4 DEF Opens
    <3>5. CASE Len(t) = 1
      <4>1. ~Contains(t, "user")
        BY <3>1, <3>5 DEF Contains
      <4>2. role = "user"
        BY <2>1, <3>2, <4>1
      <4>3. Len(cut) = 1
        <5>1. ~(Len(cut) > 1) /\ Len(cut) > 0
          BY <1>2, <1>4, <3>1, <3>5
        <5>2. \A n \in Nat : ~(n > 1) /\ n > 0 => n = 1
          OBVIOUS
        <5>3. QED BY <2>2, <5>1, <5>2
      <4>4. QED BY <2>2, <3>3, <4>2, <4>3 DEF Opens
    <3>6. QED BY <1>2, <3>1, <3>4, <3>5
  <2>5. QED BY <2>1, <2>3, <2>4
<1>7. QED BY <1>5, <1>6

LEMMA AccountInitially ==
  ASSUME ReplyInit PROVE AccountInv
<1>1. history = <<>> /\ transcript \in {<<>>, <<"greeting">>} /\ spokenAudio = 0
      /\ pickup = [filter |-> transcript # <<>>, heard |-> FALSE]
  BY DEF ReplyInit
<1>2. FitsWindow(history)
  BY <1>1, ReplyAssumption DEF FitsWindow
<1>3. Bounded(transcript) /\ (transcript # <<>> => Opens(transcript))
  <2>1. CASE transcript = <<>>
    BY <2>1, EmptySeq, ReplyAssumption DEF Bounded
  <2>2. CASE transcript = <<"greeting">>
    BY <2>2, ReplyAssumption DEF Bounded, Opens
  <2>3. QED BY <1>1, <2>1, <2>2
<1>4. "filter" \in DOMAIN pickup /\ (pickup.filter => transcript # <<>>)
  BY <1>1
<1>5. QED BY <1>1, <1>2, <1>3, <1>4 DEF AccountInv

Turned == {transcript} \union {Added(transcript, role) : role \in {"user", "agent"}}
LEMMA AccountKept ==
  ASSUME AccountInv, FitsWindow(history'), transcript' \in Turned,
         pickup'.filter = pickup.filter, DOMAIN pickup' = DOMAIN pickup, spokenAudio' \in Nat
  PROVE  AccountInv'
<1>1. Bounded(transcript') /\ (Opens(transcript) => Opens(transcript'))
  BY AddedFits DEF AccountInv, Turned
<1>2. QED BY <1>1 DEF AccountInv

-----------------------------------------------------------------------------
(* The reply's steps, together.                                            *)
LEMMA RepliesKeepLoop ==
  ASSUME LoopInv, Replies PROVE LoopInv'
<1>1. Speak \/ Voice \/ Unmute => UNCHANGED chat
  BY Zenon DEF Speak, Voice, Unmute
<1>2. QED BY Zenon, <1>1, LoopStands, SkipPickupKeepsLoop, CallerTurnKeepsLoop,
  BeginTurnKeepsLoop, AskKeepsLoop, ChunkKeepsLoop, RanToolsKeepsLoop, SpokeKeepsLoop,
  ForcedToolKeepsLoop, AskAgainKeepsLoop, SilentKeepsLoop, EndTurnKeepsLoop,
  SpeakOverKeepsLoop DEF Replies

LEMMA RepliesKeepReports ==
  ASSUME LoopInv, ReportInv, Replies PROVE ReportInv'
<1>1. chat.no \in Nat /\ chat.made \in Nat /\ ChatTypes
  BY ReplyAssumption DEF LoopInv, ChatTypes
<1>2. CASE SkipPickup
  BY <1>1, <1>2, NextTurnKeepsReports DEF SkipPickup, ReportInv, ChatTypes
<1>3. CASE CallerTurn
  BY <1>1, <1>3, NextTurnKeepsReports DEF CallerTurn, ReportInv
<1>4. CASE Chunk
  BY <1>4, ChunkKeepsReports
<1>5. CASE EndTurn
  <2>1. Len(agentTurn) \in 0 .. Len(agentTurn)
    BY DEF ReportInv
  <2>2. chat'.no = chat.no /\ chat'.made = chat.made
    BY <1>1, <1>5 DEF EndTurn, ChatTypes
  <2>3. QED BY <1>5, <2>1, <2>2, ReportKeepsReports DEF EndTurn
<1>6. CASE SpeakOver
  <2>1. PICK n \in SpokenPrefix : Report(n)
    BY Zenon, <1>6 DEF SpeakOver
  <2>2. n \in 0 .. Len(agentTurn)
    BY DEF SpokenPrefix
  <2>3. chat'.no = chat.no /\ chat'.made = chat.made
    BY <1>1, <1>6 DEF SpeakOver, ChatTypes
  <2>4. QED BY <2>1, <2>2, <2>3, ReportKeepsReports
<1>7. CASE \/ BeginTurn \/ Ask \/ RanTools \/ Spoke \/ ForcedTool \/ AskAgain \/ Silent
           \/ Speak \/ Voice \/ Unmute
  <2>1. UNCHANGED <<agentTurn, reports>>
    BY Zenon, <1>7 DEF BeginTurn, Ask, RanTools, Spoke, ForcedTool, AskAgain, Silent,
                       Speak, Voice, Unmute
  <2>2. CASE BeginTurn
    BY <1>1, <2>1, <2>2, ReportStands DEF BeginTurn, ChatTypes
  <2>3. CASE Ask
    BY <1>1, <2>1, <2>3, ReportStands DEF Ask, ChatTypes
  <2>4. CASE RanTools
    BY <1>1, <2>1, <2>4, ReportStands DEF RanTools, ChatTypes
  <2>5. CASE Spoke
    BY <1>1, <2>1, <2>5, ReportStands DEF Spoke, ChatTypes
  <2>6. CASE ForcedTool
    BY <1>1, <2>1, <2>6, ReportStands DEF ForcedTool, ChatTypes
  <2>7. CASE AskAgain
    BY <1>1, <2>1, <2>7, ReportStands DEF AskAgain, ChatTypes
  <2>8. CASE Silent
    BY <1>1, <2>1, <2>8, ReportStands DEF Silent, ChatTypes
  <2>9. CASE Speak \/ Voice \/ Unmute
    <3>1. UNCHANGED chat
      BY Zenon, <2>9 DEF Speak, Voice, Unmute
    <3>2. QED BY <2>1, <3>1, ReportStands
  <2>10. QED BY <1>7, <2>2, <2>3, <2>4, <2>5, <2>6, <2>7, <2>8, <2>9
<1>8. QED BY Zenon, <1>2, <1>3, <1>4, <1>5, <1>6, <1>7 DEF Replies

LEMMA RepliesKeepAccount ==
  ASSUME AccountInv, LoopInv, ReportInv, Replies PROVE AccountInv'
<1>1. FitsWindow(history) /\ spokenAudio \in Nat /\ 0 \in Nat
  BY DEF AccountInv
<1>2. FitsWindow(history')
  <2>1. \/ history' = history
        \/ history' = ToolRound(history)
        \/ history' = Kept(ToolRound(history), "assistant")
        \/ \E role \in {"user", "assistant", "tool"} : history' = Kept(history, role)
    BY Zenon DEF Replies, SkipPickup, CallerTurn, BeginTurn, Ask, Chunk, RanTools, Spoke,
      ForcedTool, AskAgain, Silent, EndTurn, Speak, Voice, Unmute, SpeakOver
  <2>2. QED BY <1>1, <2>1, KeptFits, ToolRoundFits
<1>3. transcript' \in Turned
  <2>1. \/ transcript' = transcript
        \/ transcript' = Added(transcript, "user")
        \/ transcript' = Added(transcript, "agent")
    BY Zenon DEF Replies, SkipPickup, CallerTurn, BeginTurn, Ask, Chunk, RanTools, Spoke,
      ForcedTool, AskAgain, Silent, EndTurn, Speak, Voice, Unmute, SpeakOver, Report
  <2>2. QED BY <2>1 DEF Turned
<1>4. pickup'.filter = pickup.filter /\ DOMAIN pickup' = DOMAIN pickup
  <2>1. \/ pickup' = pickup
        \/ pickup' = [pickup EXCEPT !.heard = @ \/ pickup.filter]
    BY Zenon DEF Replies, SkipPickup, CallerTurn, BeginTurn, Ask, Chunk, RanTools, Spoke,
      ForcedTool, AskAgain, Silent, EndTurn, Speak, Voice, Unmute, SpeakOver
  <2>2. QED BY <2>1 DEF AccountInv
<1>5. spokenAudio' \in Nat
  <2>1. \/ spokenAudio' = spokenAudio
        \/ spokenAudio' = spokenAudio + 1
        \/ spokenAudio' = 0
    BY Zenon DEF Replies, SkipPickup, CallerTurn, BeginTurn, Ask, Chunk, RanTools, Spoke,
      ForcedTool, AskAgain, Silent, EndTurn, Speak, Voice, Unmute, SpeakOver, Report,
      SendPayload, RecordSpokenAudio
  <2>2. QED BY <1>1, <2>1
<1>6. QED BY <1>2, <1>3, <1>4, <1>5, AccountKept

LEMMA ReplyStands ==
  ASSUME ReplyInv, UNCHANGED replyVars PROVE ReplyInv'
<1>1. LoopInv'
  BY LoopStands DEF ReplyInv, replyVars
<1>2. ReportInv'
  BY ReportStands DEF ReplyInv, replyVars
<1>3. AccountInv'
  BY DEF ReplyInv, AccountInv, replyVars
<1>4. QED BY <1>1, <1>2, <1>3 DEF ReplyInv

LEMMA ReplyInvHolds == Spec => []ReplyInv
<1>1. Init => ReplyInv
  BY LoopInitially, ReportInitially, AccountInitially DEF Init, ReplyInv
<1>2. ReplyInv /\ [Next]_vars => ReplyInv'
  BY PartsStepApart, ReplyStands, RepliesKeepLoop, RepliesKeepReports, RepliesKeepAccount
     DEF ReplyInv
<1>3. QED BY <1>1, <1>2, PTL DEF Spec

(* "this turn is silent" is the last word (openai_api_processor.go, chat): *)
(* however rounds of tools and empty answers share the budget, a turn      *)
(* without a word was asked about without tools, or used its budget up in  *)
(* two rounds.                                                             *)
THEOREM SilenceIsLastHolds == Spec => []SilenceIsLast
<1>1. ReplyInv => SilenceIsLast
  BY DEF ReplyInv, LoopInv, ChatTypes, SilenceIsLast
<1>2. QED BY <1>1, ReplyInvHolds, PTL

(* FlushAgentTurn (session.go): the turn's end, an interruption and a late *)
(* chunk may all come to report; no word is reported twice, and a report   *)
(* does not mix two replies or leave a gap.                                *)
THEOREM ReportsKeepApartHolds == Spec => []ReportsKeepApart
<1>1. InARow(reports) /\ OnceEach(reports) => ReportsKeepApart
  BY DEF InARow, OnceEach, ReportsKeepApart
<1>2. ReplyInv => ReportsKeepApart
  BY <1>1 DEF ReplyInv, ReportInv
<1>3. QED BY <1>2, ReplyInvHolds, PTL

(* Transcript.Add (transcript.go): a call of any length keeps the greeting *)
(* it began with and the caller's answer to it, within its bound.          *)
THEOREM TranscriptKeepsOpeningHolds == Spec => []TranscriptKeepsOpening
<1>1. ReplyInv => TranscriptKeepsOpening
  BY DEF ReplyInv, AccountInv, Bounded, Opens, TranscriptKeepsOpening
<1>2. QED BY <1>1, ReplyInvHolds, PTL

-----------------------------------------------------------------------------
(* The carrier's stream: writers are counted by what they are about to do. *)
LEMMA MaxOfTwo ==
  ASSUME NEW a \in Int, NEW b \in Int
  PROVE  Max({a, b}) = IF a >= b THEN a ELSE b
BY DEF Max
LEMMA MinOfTwo ==
  ASSUME NEW a \in Int, NEW b \in Int
  PROVE  Min({a, b}) = IF a <= b THEN a ELSE b
BY DEF Min

Doing == {"none", "encoding", "writing"}
LEMMA CountsFit ==
  ASSUME NEW f \in [Writers -> Doing]
  PROVE  /\ Encoding(f) \in Nat /\ Writing(f) \in Nat /\ Cardinality(Writers) \in Nat
         /\ Encoding(f) + Writing(f) <= Cardinality(Writers)
<1> DEFINE E == {w \in Writers : f[w] = "encoding"}
           W == {w \in Writers : f[w] = "writing"}
<1>1. IsFiniteSet(Writers)
  BY MediaAssumption
<1>2. E \in SUBSET Writers /\ W \in SUBSET Writers /\ E \union W \in SUBSET Writers
      /\ E \intersect W = {}
  OBVIOUS
<1> HIDE DEF E, W
<1>3. IsFiniteSet(E) /\ IsFiniteSet(W) /\ IsFiniteSet(E \union W)
      /\ Cardinality(E \union W) <= Cardinality(Writers)
  BY <1>1, <1>2, FS_Subset
<1>4. Cardinality(E \union W) = Cardinality(E) + Cardinality(W) - Cardinality(E \intersect W)
  BY <1>3, FS_Union
<1>5. Cardinality(E \intersect W) = 0
  BY <1>2, FS_EmptySet
<1>6. Cardinality(E) \in Nat /\ Cardinality(W) \in Nat /\ Cardinality(Writers) \in Nat
  BY <1>1, <1>3, FS_CardinalityType
<1>7. Cardinality(E) + Cardinality(W) <= Cardinality(Writers)
  BY <1>3, <1>4, <1>5, <1>6
<1>8. QED BY <1>6, <1>7 DEF Encoding, Writing, Count, At, E, W

LEMMA CountsMove ==
  ASSUME NEW f \in [Writers -> Doing], NEW w \in Writers, NEW v \in Doing, NEW x
  PROVE  Count([f EXCEPT ![w] = v], x) =
           IF f[w] = x /\ v # x THEN Count(f, x) - 1
           ELSE IF f[w] # x /\ v = x THEN Count(f, x) + 1 ELSE Count(f, x)
<1> DEFINE g == [f EXCEPT ![w] = v]
<1>2. IsFiniteSet(At(f, x))
  BY MediaAssumption, FS_Subset DEF At
<1>3. /\ w \in At(f, x) <=> f[w] = x
      /\ v = x => At(g, x) = At(f, x) \union {w}
      /\ v # x => At(g, x) = At(f, x) \ {w}
  BY DEF At
<1> HIDE DEF g
<1>4. CASE v = x
  <2>1. Cardinality(At(f, x) \union {w}) =
          IF w \in At(f, x) THEN Cardinality(At(f, x)) ELSE Cardinality(At(f, x)) + 1
    BY Zenon, <1>2, FS_AddElement
  <2>2. QED BY <1>3, <1>4, <2>1 DEF g, Count
<1>5. CASE v # x
  <2>1. Cardinality(At(f, x) \ {w}) =
          IF w \in At(f, x) THEN Cardinality(At(f, x)) - 1 ELSE Cardinality(At(f, x))
    BY Zenon, <1>2, FS_RemoveElement
  <2>2. QED BY <1>3, <1>5, <2>1 DEF g, Count
<1>6. QED BY <1>4, <1>5
LEMMA WriterBegins ==
  ASSUME NEW f \in [Writers -> Doing], NEW w \in Writers, f[w] = "none"
  PROVE  /\ Encoding([f EXCEPT ![w] = "encoding"]) = Encoding(f) + 1 
         /\ Writing([f EXCEPT ![w] = "encoding"]) = Writing(f)
BY CountsMove DEF Encoding, Writing, Doing
LEMMA WriterNotes ==
  ASSUME NEW f \in [Writers -> Doing], NEW w \in Writers, f[w] = "encoding"
  PROVE  /\ Encoding([f EXCEPT ![w] = "writing"]) = Encoding(f) - 1 
         /\ Writing([f EXCEPT ![w] = "writing"]) = Writing(f) + 1
BY ZenonT(60), CountsMove DEF Encoding, Writing, Doing
LEMMA WriterWrites ==
  ASSUME NEW f \in [Writers -> Doing], NEW w \in Writers, f[w] = "writing"
  PROVE  /\ Encoding([f EXCEPT ![w] = "none"]) = Encoding(f) 
         /\ Writing([f EXCEPT ![w] = "none"]) = Writing(f) - 1
BY ZenonT(60), CountsMove DEF Encoding, Writing, Doing

LEMMA CountsIdle ==
  ASSUME NEW f, \A w \in Writers : f[w] = "none"
  PROVE  Encoding(f) = 0 /\ Writing(f) = 0
<1>1. {w \in Writers : f[w] = "encoding"} = {} /\ {w \in Writers : f[w] = "writing"} = {}
  OBVIOUS
<1>2. QED BY <1>1, FS_EmptySet DEF Encoding, Writing, Count, At

LEMMA MediaInitially ==
  ASSUME MediaInit PROVE MediaInv
<1>1. carrier \in 0 .. Greeting /\ Greeting \in Nat /\ EchoTail \in Nat /\ MaxLead \in Nat
      /\ {InterruptMute, GateHold, PreRoll, Forever} \subseteq Nat /\ PromptChunks \in Nat
      /\ playEnds = IF carrier = 0 THEN Past ELSE carrier
  BY MediaAssumption DEF MediaInit
<1>2. Encoding(wire) = 0 /\ Writing(wire) = 0
  BY CountsIdle DEF MediaInit
<1>3. ClockFollows
  BY <1>1, <1>2 DEF MediaInit, ClockFollows, UnderWay, Clock, Past
<1>4. StreamTypes
  <2>1. /\ mutedFor \in 0 .. Forever /\ openFor \in 0 .. GateHold /\ heldFor \in 0 .. Greeting
        /\ floor \in {0} \union Levels /\ preRolled \in 0 .. PreRoll
    BY <1>1 DEF MediaInit
  <2>2. {awaitingBot, onset, hushed} \subseteq BOOLEAN /\ clearing = "no"
    BY Zenon DEF MediaInit
  <2>3. asked \in [left : 0 .. PromptChunks, times : 0 .. 2] /\ (asked.left > 0 => asked.times < 2)
    BY <1>1 DEF MediaInit
  <2>4. wire \in [Writers -> Doing]
    BY DEF MediaInit, Doing
  <2>5. QED BY <2>1, <2>2, <2>3, <2>4 DEF StreamTypes, Doing
<1>5. QED BY <1>3, <1>4 DEF MediaInv

LEMMA MediaStands ==
  ASSUME MediaInv, UNCHANGED mediaVars PROVE MediaInv'
BY Zenon DEF MediaInv, mediaVars, StreamTypes, ClockFollows, UnderWay, Clock

\* What the assumption and the types say, in the form the steps use.
LEMMA StreamFacts ==
  ASSUME StreamTypes
  PROVE  /\ EchoTail \in Nat /\ MaxLead \in Nat /\ Greeting \in Nat /\ PromptChunks \in Nat
         /\ InterruptMute \in Nat \ {0} /\ Forever \in Nat \ {0} /\ InterruptMute < Forever
         /\ GateHold \in Nat /\ PreRoll \in Nat
         /\ Encoding(wire) \in Nat /\ Writing(wire) \in Nat /\ Cardinality(Writers) \in Nat
         /\ Encoding(wire) + Writing(wire) <= Cardinality(Writers)
         /\ Cardinality(Writers) <= EchoTail
         /\ mutedFor \in Nat /\ openFor \in Nat /\ heldFor \in Nat
BY MediaAssumption, CountsFit DEF StreamTypes, Doing

\* Steps that leave the clock, the carrier and the writers where they are.
LEMMA ClockStands ==
  ASSUME ClockFollows, UNCHANGED <<playEnds, carrier, wire, clearing, slipped>>,
         clearing = "write" => mutedFor' > 0
  PROVE  ClockFollows'
BY DEF ClockFollows, UnderWay, Clock

LEMMA LaterBounds ==
  ASSUME NEW t \in Nat
  PROVE  Later(t) \in Nat /\ Later(t) <= t
<1>1. Max({0, t - 1}) = IF 0 >= t - 1 THEN 0 ELSE t - 1
  BY MaxOfTwo
<1>2. QED BY <1>1 DEF Later

LEMMA MediaTickKeeps ==
  ASSUME MediaInv, MediaTick PROVE MediaInv'
<1>1. StreamTypes /\ ClockFollows /\ clearing = "no" /\ UNCHANGED <<wire, clearing>>
      /\ Encoding(wire) = 0 /\ Writing(wire) = 0
  BY CountsIdle DEF MediaInv, MediaTick
<1>2. playEnds' = IF Past >= playEnds - 1 THEN Past ELSE playEnds - 1
  BY <1>1, StreamFacts, MaxOfTwo DEF MediaTick, Past, ClockFollows
<1>3. carrier' = IF 0 >= carrier - 1 THEN 0 ELSE carrier - 1
  BY <1>1, MaxOfTwo DEF MediaTick, ClockFollows
<1>4. ClockFollows'
  <2>1. playEnds' \in Int /\ playEnds' >= Past /\ carrier' \in Nat /\ carrier' <= carrier
    BY <1>1, <1>2, <1>3, StreamFacts DEF Past, ClockFollows
  <2>2. UnderWay = carrier /\ UnderWay' = carrier'
    <3>1. carrier \in Nat /\ Writing(wire') = 0
      BY <1>1 DEF ClockFollows
    <3>2. UnderWay = carrier
      BY <1>1, <3>1 DEF UnderWay
    <3>3. UnderWay' = carrier' + 0
      BY <3>1 DEF UnderWay
    <3>4. \A m \in Nat : m + 0 = m
      OBVIOUS
    <3>5. QED BY Zenon, <2>1, <3>2, <3>3, <3>4
  <2>7. slipped' = (IF carrier > 0 THEN slipped ELSE IF 0 >= slipped - 1 THEN 0 ELSE slipped - 1)
        /\ slipped \in Nat /\ slipped' \in 0 .. (MaxLead + Greeting)
    BY <1>1, MaxOfTwo, StreamFacts DEF MediaTick, ClockFollows
  <2>3. carrier' - Clock' \in -(EchoTail + slipped') .. EchoTail
    <3>1. carrier - Clock \in -(EchoTail + slipped) .. EchoTail
      BY <1>1, <2>2 DEF ClockFollows
    <3>2. /\ EchoTail \in Nat /\ playEnds \in Int /\ playEnds >= -(EchoTail + 1)
          /\ carrier \in Nat
      BY <1>1, StreamFacts DEF ClockFollows, Past
    <3>3. Clock' = IF Clock > 0 THEN Clock - 1 ELSE 0
      BY <1>2, <3>2 DEF Clock, Past
    <3>4. Clock \in Nat
      BY <3>2 DEF Clock
    <3>5. QED BY <1>3, <2>7, <3>1, <3>2, <3>3, <3>4
  <2>4. carrier' > 0 => carrier' - playEnds' <= EchoTail
    BY <1>1, <1>2, <1>3, <2>2, StreamFacts DEF Past, ClockFollows
  <2>5. carrier' <= MaxLead + Greeting
    BY <1>1, <2>1, <2>2, StreamFacts DEF ClockFollows
  <2>6. QED BY <1>1, <2>1, <2>2, <2>3, <2>4, <2>5, <2>7 DEF ClockFollows
<1>5. /\ mutedFor' \in 0 .. Forever /\ openFor' \in 0 .. GateHold /\ heldFor' \in 0 .. Greeting
  <2>1. /\ mutedFor' = Later(mutedFor) /\ openFor' = Later(openFor) /\ heldFor' = Later(heldFor)
    BY Zenon DEF MediaTick
  <2>2. QED BY <1>1, <2>1, StreamFacts, LaterBounds DEF StreamTypes
<1>6. StreamTypes'
  BY <1>1, <1>5 DEF MediaTick, StreamTypes
<1>7. QED BY <1>4, <1>6 DEF MediaInv

LEMMA HearKeeps ==
  ASSUME MediaInv, NEW level \in Levels, Hear(level) PROVE MediaInv'
<1>1. StreamTypes /\ ClockFollows
      /\ UNCHANGED <<playEnds, mutedFor, heldFor, wire, clearing, carrier, hushed, slipped, asked>>
  BY DEF MediaInv, Hear
<1>2. ClockFollows'
  BY <1>1, ClockStands DEF ClockFollows
<1>3. onset' \in BOOLEAN /\ awaitingBot' \in BOOLEAN
  <2>1. onset \in BOOLEAN /\ awaitingBot \in BOOLEAN
    BY <1>1 DEF StreamTypes
  <2>2. onset' = (onset \/ level > 1) \/ onset' = onset
    BY Zenon DEF Hear
  <2>3. awaitingBot' = (awaitingBot \/ (level > 1 /\ BotIdle))
    BY Zenon DEF Hear
  <2>4. QED BY Zenon, <2>1, <2>2, <2>3
<1>4. openFor' \in 0 .. GateHold /\ floor' \in {0} \union Levels /\ preRolled' \in 0 .. PreRoll
  <2>1. openFor \in 0 .. GateHold /\ floor \in 0 .. 3 /\ preRolled \in 0 .. PreRoll
        /\ level \in 1 .. 3 /\ GateHold \in Nat /\ PreRoll \in Nat
    BY <1>1, StreamFacts DEF StreamTypes, Levels
  <2>2. CASE PassIdle
    BY <2>1, <2>2 DEF PassIdle
  <2>3. CASE PassGate(level)
    BY <2>1, <2>3 DEF PassGate, Levels
  <2>4. CASE HoldBack(level)
    <3>1. Min({preRolled + 1, PreRoll}) = IF preRolled + 1 <= PreRoll THEN preRolled + 1 ELSE PreRoll
      BY <2>1, MinOfTwo
    <3>2. preRolled' = Min({preRolled + 1, PreRoll}) /\ openFor' = openFor
          /\ floor' \in level .. (IF floor = 0 THEN level ELSE floor)
      BY Zenon, <2>4 DEF HoldBack
    <3>3. preRolled' \in 0 .. PreRoll
      BY <2>1, <3>1, <3>2
    <3>4. floor' \in 1 .. 3
      BY <2>1, <3>2
    <3>5. QED BY <2>1, <3>2, <3>3, <3>4 DEF Levels
  <2>5. QED BY Zenon, <2>2, <2>3, <2>4 DEF Hear
<1>5. StreamTypes'
  BY <1>1, <1>3, <1>4 DEF StreamTypes
<1>6. QED BY <1>2, <1>5 DEF MediaInv

LEMMA AskedTypes ==
  ASSUME StreamTypes, NEW w \in Writers, HasChunk(w)
  PROVE  asked' \in [left : 0 .. PromptChunks, times : 0 .. 2]
         /\ (asked'.left > 0 => asked'.times < 2)
BY StreamFacts DEF StreamTypes, HasChunk

LEMMA PassMuteKeeps ==
  ASSUME MediaInv, NEW w \in Writers, PassMute(w) PROVE MediaInv'
<1>1. StreamTypes /\ ClockFollows /\ wire' = [wire EXCEPT ![w] = "encoding"] /\ wire[w] = "none"
      /\ mutedFor = 0 /\ carrier + Cardinality(Writers) <= MaxLead
      /\ UNCHANGED <<playEnds, mutedFor, openFor, heldFor, floor, preRolled, awaitingBot,
                     clearing, carrier, onset, hushed, slipped>>
  BY Zenon DEF MediaInv, PassMute
<1>2. wire \in [Writers -> Doing] /\ wire' \in [Writers -> Doing]
  BY <1>1 DEF StreamTypes, Doing
<1>3. Encoding(wire') = Encoding(wire) + 1 /\ Writing(wire') = Writing(wire)
  BY <1>1, <1>2, WriterBegins
<1>4. clearing # "write"
  BY <1>1 DEF ClockFollows
<1>5. Encoding(wire') + Writing(wire') <= Cardinality(Writers) /\ Encoding(wire') \in Nat
      /\ Writing(wire') \in Nat
  BY <1>2, CountsFit
<1>6. ClockFollows'
  <2>1. UnderWay' = UnderWay /\ Clock' = Clock
    BY <1>1, <1>3 DEF UnderWay, Clock
  <2>2. UnderWay' + Encoding(wire') <= MaxLead + Greeting
    BY <1>1, <1>3, <1>5, StreamFacts DEF UnderWay, ClockFollows
  <2>3. QED BY <1>1, <1>4, <2>1, <2>2 DEF ClockFollows
<1>7. StreamTypes'
  BY <1>1, <1>2, AskedTypes DEF StreamTypes, PassMute, Doing
<1>8. QED BY <1>6, <1>7 DEF MediaInv

LEMMA DropMutedKeeps ==
  ASSUME MediaInv, NEW w \in Writers, DropMuted(w) PROVE MediaInv'
<1>1. ClockFollows'
  BY ClockStands DEF MediaInv, DropMuted, ClockFollows
<1>2. StreamTypes'
  BY AskedTypes DEF MediaInv, DropMuted, StreamTypes
<1>3. QED BY <1>1, <1>2 DEF MediaInv

LEMMA NoteOutboundKeeps ==
  ASSUME MediaInv, NEW w \in Writers, NoteOutbound(w) PROVE MediaInv'
<1>1. StreamTypes /\ ClockFollows /\ wire' = [wire EXCEPT ![w] = "writing"] /\ wire[w] = "encoding"
      /\ playEnds' = Max({playEnds, 0}) + 1 /\ awaitingBot' = FALSE
      /\ slipped' = (IF clearing = "mute" THEN slipped + 1 ELSE slipped)
      /\ UNCHANGED <<mutedFor, openFor, heldFor, floor, preRolled, clearing, carrier, onset,
                     hushed, asked>>
  BY Zenon DEF MediaInv, NoteOutbound
<1>2. wire \in [Writers -> Doing] /\ wire' \in [Writers -> Doing]
  BY <1>1 DEF StreamTypes, Doing
<1>3. Encoding(wire') = Encoding(wire) - 1 /\ Writing(wire') = Writing(wire) + 1
  BY <1>1, <1>2, WriterNotes
<1>4. playEnds' = Clock + 1 /\ playEnds \in Int /\ Clock \in Nat /\ carrier \in Nat
  BY <1>1, MaxOfTwo DEF ClockFollows, Clock
<1>5. Encoding(wire') \in Nat /\ Writing(wire') \in Nat
  BY <1>2, CountsFit
<1>6. ClockFollows'
  <2>1. UnderWay' = UnderWay + 1 /\ Clock' = Clock + 1 /\ UnderWay \in Nat
    BY <1>1, <1>3, <1>4, <1>5, StreamFacts DEF UnderWay, Clock
  <2>2. UnderWay' + Encoding(wire') <= MaxLead + Greeting
    BY <1>1, <1>3, <2>1, StreamFacts DEF ClockFollows
  <2>3. playEnds' \in Int /\ playEnds' >= Past
    BY <1>4, <1>1, StreamFacts DEF Past
  <2>4. CASE clearing = "write"
    BY <1>1, <1>3, <1>4, <1>5, <2>2, <2>3, <2>4, StreamFacts DEF ClockFollows, Clock
  <2>7. CASE clearing = "mute"
    <3>1. /\ playEnds' = slipped' /\ slipped' = slipped + 1 /\ slipped' <= UnderWay'
      BY <1>1, <1>4, <2>1, <2>7 DEF ClockFollows, Clock
    <3>2. slipped' \in 0 .. (MaxLead + Greeting)
      BY <1>1, <1>5, <2>1, <2>2, <3>1, StreamFacts DEF ClockFollows
    <3>3. QED BY <1>1, <1>4, <2>2, <2>3, <2>7, <3>1, <3>2 DEF ClockFollows
  <2>5. CASE clearing \in {"no", "reset"}
    <3>1. UnderWay' - Clock' \in -(EchoTail + slipped') .. EchoTail
      BY <1>1, <1>4, <2>1, <2>5, StreamFacts DEF ClockFollows
    <3>2. UnderWay' - playEnds' <= EchoTail
      BY <1>1, <1>4, <2>1, <2>5, StreamFacts DEF ClockFollows
    <3>3. QED BY <1>1, <1>4, <2>2, <2>3, <2>5, <3>1, <3>2 DEF ClockFollows
  <2>6. QED BY <1>1, <2>4, <2>5, <2>7 DEF StreamTypes
<1>7. StreamTypes'
  BY <1>1, <1>2 DEF StreamTypes, Doing
<1>8. QED BY <1>6, <1>7 DEF MediaInv

LEMMA WriteAudioKeeps ==
  ASSUME MediaInv, NEW w \in Writers, WriteAudio(w) PROVE MediaInv'
<1>1. StreamTypes /\ ClockFollows /\ wire' = [wire EXCEPT ![w] = "none"] /\ wire[w] = "writing"
      /\ carrier' = carrier + 1
      /\ UNCHANGED <<playEnds, mutedFor, openFor, heldFor, floor, preRolled, awaitingBot,
                     clearing, onset, hushed, slipped, asked>>
  BY Zenon DEF MediaInv, WriteAudio
<1>2. wire \in [Writers -> Doing] /\ wire' \in [Writers -> Doing]
  BY <1>1 DEF StreamTypes, Doing
<1>3. Encoding(wire') = Encoding(wire) /\ Writing(wire') = Writing(wire) - 1
  BY <1>1, <1>2, WriterWrites
<1>4. UnderWay' = UnderWay /\ Clock' = Clock /\ carrier' \in Nat
  BY <1>1, <1>3, StreamFacts DEF UnderWay, Clock, ClockFollows
<1>5. ClockFollows'
  BY <1>1, <1>3, <1>4 DEF ClockFollows
<1>6. StreamTypes'
  BY <1>1, <1>2 DEF StreamTypes, Doing
<1>7. QED BY <1>5, <1>6 DEF MediaInv

LEMMA AskIfThereKeeps ==
  ASSUME MediaInv, AskIfThere PROVE MediaInv'
<1>1. ClockFollows'
  BY ClockStands DEF MediaInv, AskIfThere, ClockFollows
<1>2. StreamTypes'
  BY StreamFacts DEF MediaInv, AskIfThere, StreamTypes
<1>3. QED BY <1>1, <1>2 DEF MediaInv

LEMMA CallerAnswersKeeps ==
  ASSUME MediaInv, CallerAnswers PROVE MediaInv'
<1>1. ClockFollows'
  BY ClockStands DEF MediaInv, CallerAnswers, ClockFollows
<1>2. StreamTypes'
  BY StreamFacts DEF MediaInv, CallerAnswers, StreamTypes
<1>3. QED BY <1>1, <1>2 DEF MediaInv

LEMMA HushKeeps ==
  ASSUME MediaInv, Hush PROVE MediaInv'
<1>1. ClockFollows'
  BY StreamFacts, ClockStands DEF MediaInv, Hush, ClockFollows
<1>2. StreamTypes'
  BY StreamFacts DEF MediaInv, Hush, StreamTypes
<1>3. QED BY <1>1, <1>2 DEF MediaInv

\* An interruption held back changes nothing; another is about to reset the clock.
LEMMA InterruptKeeps ==
  ASSUME MediaInv, Interrupt PROVE MediaInv'
<1>1. /\ StreamTypes /\ ClockFollows /\ clearing = "no" /\ clearing' \in {"no", "reset"}
      /\ onset' = FALSE
      /\ UNCHANGED <<playEnds, mutedFor, openFor, heldFor, floor, preRolled, awaitingBot, wire,
                     carrier, hushed, slipped, asked>>
  BY DEF MediaInv, Interrupt
<1>2. ClockFollows'
  BY <1>1 DEF ClockFollows, UnderWay, Clock
<1>3. StreamTypes'
  BY <1>1 DEF StreamTypes
<1>4. QED BY <1>2, <1>3 DEF MediaInv

LEMMA ResetPlaybackKeeps ==
  ASSUME MediaInv, ResetPlayback PROVE MediaInv'
<1>1. /\ StreamTypes /\ ClockFollows /\ clearing' = "mute" /\ playEnds' = 0 /\ slipped' = 0
      /\ UNCHANGED <<mutedFor, openFor, heldFor, floor, preRolled, awaitingBot, wire, carrier,
                     onset, hushed, asked>>
  BY Zenon DEF MediaInv, ResetPlayback
<1>2. UnderWay \in Nat /\ UnderWay' = UnderWay /\ 0 >= Past
  BY <1>1, StreamFacts DEF UnderWay, ClockFollows, Past
<1>3. ClockFollows'
  BY <1>1, <1>2, StreamFacts DEF ClockFollows
<1>4. StreamTypes'
  BY <1>1 DEF StreamTypes
<1>5. QED BY <1>3, <1>4 DEF MediaInv

\* Only the writers past the mute now can still be noted.
LEMMA MuteAfterResetKeeps ==
  ASSUME MediaInv, MuteAfterReset PROVE MediaInv'
<1>1. /\ StreamTypes /\ ClockFollows /\ clearing = "mute" /\ clearing' = "write"
      /\ mutedFor' = InterruptMute
      /\ UNCHANGED <<playEnds, openFor, heldFor, floor, preRolled, awaitingBot, wire, carrier,
                     onset, hushed, slipped, asked>>
  BY Zenon DEF MediaInv, MuteAfterReset
<1>2. playEnds \in 0 .. (slipped + Cardinality(Writers) - Encoding(wire))
  BY <1>1, StreamFacts DEF ClockFollows
<1>3. ClockFollows'
  BY <1>1, <1>2, StreamFacts DEF ClockFollows, UnderWay
<1>4. mutedFor' \in 0 .. Forever
  BY <1>1, StreamFacts
<1>5. StreamTypes'
  BY <1>1, <1>4 DEF StreamTypes
<1>6. QED BY <1>3, <1>5 DEF MediaInv

\* It ends with what passed the mute before it, noted or still to be written.
LEMMA WriteClearKeeps ==
  ASSUME MediaInv, WriteClear PROVE MediaInv'
<1>1. StreamTypes /\ ClockFollows /\ clearing = "write" /\ clearing' = "no" /\ carrier' = 0
      /\ UNCHANGED <<playEnds, mutedFor, openFor, heldFor, floor, preRolled, awaitingBot,
                     wire, onset, hushed, slipped, asked>>
  BY Zenon DEF MediaInv, WriteClear
<1>2. UnderWay' = Writing(wire) /\ Clock' = playEnds /\ carrier \in Nat
      /\ playEnds \in 0 .. (slipped + Cardinality(Writers) - Encoding(wire))
      /\ slipped \in Nat
      /\ UnderWay + Encoding(wire) <= MaxLead + Greeting
  BY <1>1, StreamFacts DEF UnderWay, Clock, ClockFollows
<1>3. UnderWay' + Encoding(wire) <= MaxLead + Greeting
  BY <1>1, <1>2, StreamFacts DEF UnderWay
<1>4. ClockFollows'
  BY <1>1, <1>2, <1>3, StreamFacts DEF ClockFollows
<1>5. StreamTypes'
  BY <1>1 DEF StreamTypes
<1>6. QED BY <1>4, <1>5 DEF MediaInv

LEMMA MediaInvHolds == Spec => []MediaInv
<1>1. Init => MediaInv
  BY MediaInitially DEF Init
<1>2. MediaInv /\ [Next]_vars => MediaInv'
  <2>1. SUFFICES ASSUME MediaInv, Media PROVE MediaInv'
    BY PartsStepApart, MediaStands
  <2>2. QED BY <2>1, MediaTickKeeps, HearKeeps, PassMuteKeeps, DropMutedKeeps,
      NoteOutboundKeeps, WriteAudioKeeps, AskIfThereKeeps, CallerAnswersKeeps, InterruptKeeps,
      ResetPlaybackKeeps, MuteAfterResetKeeps, WriteClearKeeps, HushKeeps DEF Media
<1>3. QED BY <1>1, <1>2, PTL DEF Spec

\* What the clock is off by, and the bounds of the stream's own types.
LEMMA MediaTypes ==
  ASSUME MediaInv PROVE MediaTypeOK
<1>1. StreamTypes /\ ClockFollows
  BY DEF MediaInv
<1>2. /\ playEnds \in Past .. (2 * (MaxLead + Greeting) + EchoTail)
      /\ carrier \in 0 .. (MaxLead + Greeting)
  <2>1. UnderWay \in Nat /\ carrier <= UnderWay /\ playEnds <= Clock /\ Clock \in Nat
        /\ UnderWay <= MaxLead + Greeting /\ slipped \in 0 .. (MaxLead + Greeting)
    BY <1>1, StreamFacts DEF ClockFollows, UnderWay, Clock
  <2>2. CASE clearing \in {"mute", "write"}
    BY <1>1, <2>1, <2>2, StreamFacts DEF ClockFollows, Past
  <2>3. CASE clearing \in {"no", "reset"}
    BY <1>1, <2>1, <2>3, StreamFacts DEF ClockFollows, Past
  <2>4. QED BY <1>1, <2>2, <2>3 DEF StreamTypes
<1>3. QED BY <1>1, <1>2 DEF MediaTypeOK, StreamTypes, ClockFollows

(* The estimate the echo gate goes by (telnyx/media.go): whatever chunks   *)
(* and clears overtake each other, among the lock sections of an           *)
(* interruption and on the socket, it is not behind what the carrier plays *)
(* by more than the tail the gate allows for, so the gate is shut while    *)
(* the caller can hear the agent; and it is ahead by no more than that     *)
(* tail and the chunks that slipped past the interruption's mute.          *)
THEOREM GateTracksPlaybackHolds == Spec => []GateTracksPlayback
<1>1. MediaInv => GateTracksPlayback
  <2>1. SUFFICES ASSUME MediaInv, clearing = "no", \A w \in Writers : wire[w] = "none"
                 PROVE  /\ carrier - Max({playEnds, 0}) \in -(EchoTail + slipped) .. EchoTail
                        /\ carrier > 0 => ~BotIdle
    BY DEF GateTracksPlayback
  <2>2. StreamTypes /\ ClockFollows /\ Writing(wire) = 0
    BY <2>1, CountsIdle DEF MediaInv
  <2>3. Max({playEnds, 0}) = Clock /\ UnderWay = carrier
    BY <2>2, MaxOfTwo DEF ClockFollows, Clock, UnderWay
  <2>4. QED BY <2>1, <2>2, <2>3, StreamFacts DEF ClockFollows, BotIdle
<1>2. QED BY <1>1, MediaInvHolds, PTL

-----------------------------------------------------------------------------
(* The caller's speech: the path's steps.                                  *)
LEMMA WholeAppend ==
  ASSUME NEW S, NEW s \in Seq(Seq(S)), NEW t \in Seq(S)
  PROVE  /\ IsFiniteSet(Whole(s)) /\ Cardinality(Whole(s)) \in Nat
         /\ Whole(s) \subseteq 1 .. Len(s)
         /\ Len(t) <= 1 => Whole(Append(s, t)) = Whole(s)
         /\ Len(t) > 1 => Whole(Append(s, t)) = Whole(s) \union {Len(s) + 1}
         /\ \A i \in 1 .. Len(s) : UpTo(Append(s, t), i) = UpTo(s, i)
<1> DEFINE r == Append(s, t)
<1>1. Len(s) \in Nat /\ DOMAIN s = 1 .. Len(s) /\ DOMAIN r = 1 .. (Len(s) + 1)
      /\ r[Len(s) + 1] = t /\ \A i \in 1 .. Len(s) : r[i] = s[i]
  OBVIOUS
<1>2. Whole(s) \subseteq 1 .. Len(s)
  BY <1>1 DEF Whole
<1>3. IsFiniteSet(Whole(s)) /\ Cardinality(Whole(s)) \in Nat
  <2>1. 1 \in Int /\ Len(s) \in Int
    BY <1>1
  <2>2. IsFiniteSet(1 .. Len(s))
    BY Zenon, <2>1, FS_Interval
  <2>3. QED BY <1>2, <2>2, FS_Subset, FS_CardinalityType
<1> HIDE DEF r
<1>4. \A i : i \in Whole(r) <=> i \in Whole(s) \/ (i = Len(s) + 1 /\ Len(t) > 1)
  BY <1>1 DEF Whole
<1>5. /\ ~(Len(t) > 1) => Whole(r) = Whole(s)
      /\ Len(t) > 1 => Whole(r) = Whole(s) \union {Len(s) + 1}
  BY <1>4
<1>6. \A i \in 1 .. Len(s) : UpTo(r, i) = UpTo(s, i)
  BY <1>1, <1>4 DEF UpTo
<1>7. Len(t) <= 1 => ~(Len(t) > 1)
  OBVIOUS
<1>8. QED BY <1>2, <1>3, <1>5, <1>6, <1>7 DEF r

\* A lone window more, or a finished utterance more, on both sides.
LEMMA MatchesLone ==
  ASSUME NEW S, NEW s \in Seq(Seq(S)), NEW t \in Seq(S), Len(t) <= 1, NEW f, Matches(s, f)
  PROVE  Matches(Append(s, t), f)
<1>1. Whole(Append(s, t)) = Whole(s)
      /\ \A i \in Whole(s) : i \in 1 .. Len(s) /\ Append(s, t)[i] = s[i]
                             /\ UpTo(Append(s, t), i) = UpTo(s, i)
  BY WholeAppend
<1>2. QED BY <1>1 DEF Matches

LEMMA MatchesWhole ==
  ASSUME NEW S, NEW s \in Seq(Seq(S)), NEW t \in Seq(S), Len(t) > 1,
         NEW f \in Seq(Seq(S)), Matches(s, f)
  PROVE  Matches(Append(s, t), Append(f, t))
<1> DEFINE r == Append(s, t)
           new == Len(s) + 1
<1>1. /\ Whole(r) = Whole(s) \union {new} /\ Whole(s) \subseteq 1 .. Len(s)
      /\ IsFiniteSet(Whole(s)) /\ new \notin Whole(s) /\ r[new] = t
      /\ \A i \in Whole(s) : r[i] = s[i] /\ UpTo(r, i) = UpTo(s, i)
  BY WholeAppend
<1>2. Cardinality(Whole(r)) = Len(f) + 1
  BY <1>1, FS_AddElement DEF Matches
<1>3. UpTo(r, new) = Whole(r)
  BY <1>1 DEF UpTo
<1>4. ASSUME NEW i \in Whole(s) PROVE r[i] = Append(f, t)[Cardinality(UpTo(r, i))]
  <2>1. i \in UpTo(s, i) /\ UpTo(s, i) \subseteq Whole(s)
    BY <1>1 DEF UpTo
  <2>2. IsFiniteSet(UpTo(s, i)) /\ Cardinality(UpTo(s, i)) <= Len(f)
        /\ Cardinality(UpTo(s, i)) \in Nat
    BY <1>1, <2>1, FS_Subset, FS_CardinalityType DEF Matches
  <2>3. Cardinality(UpTo(s, i)) # 0
    BY <2>1, <2>2, FS_EmptySet
  <2>4. Cardinality(UpTo(s, i)) \in 1 .. Len(f)
    BY <2>2, <2>3
  <2>5. Append(f, t)[Cardinality(UpTo(s, i))] = f[Cardinality(UpTo(s, i))]
    BY <2>4
  <2>6. QED BY <1>1, <2>5 DEF Matches
<1>5. r[new] = Append(f, t)[Cardinality(UpTo(r, new))]
  <2>1. Append(f, t)[Len(f) + 1] = t
    OBVIOUS
  <2>2. QED BY Zenon, <1>1, <1>2, <1>3, <2>1
<1>6. Len(Append(f, t)) = Len(f) + 1
  OBVIOUS
<1>7. QED BY <1>1, <1>2, <1>4, <1>5, <1>6 DEF Matches

LEMMA SpeechInitially ==
  ASSUME SpeechInit PROVE SpeechInv
<1>1. QueueLen \in Nat /\ RingLen \in Nat /\ MaxWindows \in Nat
  BY SpeechAssumption
<1>2. PathTypes
  <2>1. inQueue \in Seq(Packets) /\ Len(inQueue) <= QueueLen /\ blocks \in BOOLEAN
    BY <1>1 DEF SpeechInit
  <2>2. {asking, segments, spoken} \subseteq Seq(Seq(1 .. windows))
    BY DEF SpeechInit
  <2>3. vad \in [state : {"quiet", "starting", "speaking", "stopping"}, count : Nat]
        /\ lastVad = vad.state
    BY DEF SpeechInit
  <2>4. ring \in 0 .. RingLen /\ windows \in 0 .. MaxWindows
    BY <1>1 DEF SpeechInit
  <2>5. pathEnded \in BOOLEAN
    BY DEF SpeechInit
  <2>6. QED BY <2>1, <2>2, <2>3, <2>4, <2>5 DEF PathTypes
<1>3. Aggregates
  <2>1. agg = Nothing /\ vad.state = "quiet"
    BY Zenon DEF SpeechInit, Nothing
  <2>2. QED BY <2>1 DEF Aggregates, Speaking
<1>4. segments \o asking = <<>> /\ Finished = <<>>
  BY DEF SpeechInit, Finished, Speaking
<1>5. Whole(<<>>) = {}
  BY DEF Whole
<1>6. Matches(<<>>, <<>>)
  BY <1>5, FS_EmptySet DEF Matches
<1>7. QED BY <1>2, <1>3, <1>4, <1>6 DEF SpeechInv

LEMMA SpeechStands ==
  ASSUME SpeechInv, UNCHANGED speechVars PROVE SpeechInv'
BY Zenon DEF SpeechInv, speechVars, PathTypes, Aggregates, Finished, Speaking

LEMMA PacketsKeep ==
  ASSUME SpeechInv,
         (\E n \in Packets : ReceivePacket(n)) \/ DropPacket \/ TakePacket \/ PathEnds
  PROVE  SpeechInv'
<1>1. CASE DropPacket
  BY <1>1, SpeechStands DEF DropPacket
<1>2. CASE (\E n \in Packets : ReceivePacket(n)) \/ TakePacket \/ PathEnds
  <2>1. UNCHANGED <<blocks, vadStart, vad, lastVad, agg, asking, segments, spoken, windows>>
    BY Zenon, <1>2 DEF ReceivePacket, TakePacket, PathEnds
  <2>2. inQueue' \in Seq(Packets) /\ Len(inQueue') <= QueueLen
    <3>1. inQueue \in Seq(Packets) /\ Len(inQueue) <= QueueLen /\ QueueLen \in Nat
      BY SpeechAssumption DEF SpeechInv, PathTypes
    <3>2. ASSUME NEW n \in Packets, ReceivePacket(n)
          PROVE  inQueue' \in Seq(Packets) /\ Len(inQueue') <= QueueLen
      <4>1. Len(inQueue) < QueueLen /\ inQueue' = Append(inQueue, n)
        BY <3>2 DEF ReceivePacket
      <4>2. QED BY <3>1, <4>1
    <3>3. ASSUME TakePacket PROVE inQueue' \in Seq(Packets) /\ Len(inQueue') <= QueueLen
      <4>1. inQueue # <<>> /\ inQueue' = Tail(inQueue)
        BY <3>3 DEF TakePacket
      <4>2. QED BY <3>1, <4>1
    <3>4. ASSUME PathEnds PROVE inQueue' = inQueue
      BY <3>4 DEF PathEnds
    <3>5. QED BY <1>2, <3>1, <3>2, <3>3, <3>4
  <2>3. ring' \in 0 .. RingLen /\ pathEnded' \in BOOLEAN
    <3>1. ring \in 0 .. RingLen /\ RingLen \in Nat /\ pathEnded \in BOOLEAN
      BY SpeechAssumption DEF SpeechInv, PathTypes
    <3>2. CASE TakePacket
      <4>1. Head(inQueue) \in Nat
        <5>1. inQueue \in Seq(Packets) /\ inQueue # <<>> /\ Packets \subseteq Nat
          BY <3>2, SpeechAssumption DEF TakePacket, SpeechInv, PathTypes
        <5>2. Head(inQueue) \in Packets
          BY <5>1
        <5>3. QED BY <5>1, <5>2
      <4>2. QED BY <3>1, <3>2, <4>1 DEF TakePacket
    <3>3. CASE (\E n \in Packets : ReceivePacket(n)) \/ PathEnds
      BY <3>1, <3>3 DEF ReceivePacket, PathEnds
    <3>4. QED BY <1>2, <3>2, <3>3
  <2>4. PathTypes'
    BY <2>1, <2>2, <2>3 DEF SpeechInv, PathTypes
  <2>5. Aggregates' /\ UNCHANGED <<segments, asking, Finished>>
    BY <2>1 DEF SpeechInv, Aggregates, Finished, Speaking
  <2>6. QED BY <2>4, <2>5 DEF SpeechInv
<1>3. QED BY <1>1, <1>2

LEMMA RecogniseKeeps ==
  ASSUME SpeechInv, Recognise PROVE SpeechInv'
<1>1. UNCHANGED <<inQueue, blocks, ring, vadStart, vad, lastVad, agg, spoken, windows, pathEnded>>
      /\ asking # <<>> /\ asking' = Tail(asking) /\ segments' = Append(segments, Head(asking))
  BY DEF Recognise
<1>2. segments \in Seq(Seq(1 .. windows)) /\ asking \in Seq(Seq(1 .. windows))
  BY DEF SpeechInv, PathTypes
<1>3. PathTypes'
  BY <1>1, <1>2 DEF SpeechInv, PathTypes
<1>4. segments' \o asking' = segments \o asking
  BY <1>1, <1>2
<1>5. Aggregates' /\ UNCHANGED Finished
  BY <1>1 DEF SpeechInv, Aggregates, Finished, Speaking
<1>6. QED BY <1>3, <1>4, <1>5 DEF SpeechInv

\* What a window does to the detector, the aggregator and the utterances.
WindowStep(w, sent) ==
  /\ w = windows + 1 /\ windows < MaxWindows /\ windows' = w
  /\ asking' = (IF sent = <<>> THEN asking ELSE Append(asking, sent))
  /\ vad' \in [state : {"quiet", "starting", "speaking", "stopping"}, count : Nat]
  /\ lastVad' = vad'.state
  /\ \/ /\ ~Speaking /\ ~Speaking' /\ UNCHANGED spoken /\ sent \in {<<>>, <<w>>}
        /\ vad'.state = "starting" => agg' = Nothing
        /\ vad'.state = "quiet" => agg' \in {Nothing, LeftOpen}
     \/ /\ ~Speaking /\ Speaking' /\ spoken' = Append(spoken, <<w>>) /\ sent = <<>>
        /\ agg' = Gathering(TRUE, FALSE, <<w>>)
     \/ /\ Speaking /\ Speaking'
        /\ spoken' = [spoken EXCEPT ![Len(spoken)] = Append(@, w)] /\ sent = <<>>
        /\ agg' = Gathering(TRUE, FALSE, Append(spoken[Len(spoken)], w))
     \/ /\ Speaking /\ ~Speaking'
        /\ spoken' = [spoken EXCEPT ![Len(spoken)] = Append(@, w)]
        /\ sent = Append(spoken[Len(spoken)], w) /\ vad'.state = "quiet" /\ agg' = Nothing

LEMMA AnalyzedTypes ==
  ASSUME PathTypes, NEW speech \in BOOLEAN
  PROVE  /\ Analyzed(speech) \in [state : {"quiet", "starting", "speaking", "stopping"},
                                  count : Nat]
         /\ vad.state \in {"quiet", "starting"} =>
              Analyzed(speech).state \in {"quiet", "starting", "speaking"}
         /\ vad.state \in {"speaking", "stopping"} =>
              Analyzed(speech).state \in {"quiet", "speaking", "stopping"}
<1>1. vad.state \in {"quiet", "starting", "speaking", "stopping"} /\ vad.count \in Nat
  BY DEF PathTypes
<1>2. \A c \in Nat : /\ Began(c).state \in {"starting", "speaking"} /\ Began(c).count \in Nat
                     /\ Paused(c).state \in {"stopping", "quiet"} /\ Paused(c).count \in Nat
  BY DEF Began, Paused
<1>3. \A c \in Nat :
        /\ Began(c) \in [state : {"quiet", "starting", "speaking", "stopping"}, count : Nat]
        /\ Paused(c) \in [state : {"quiet", "starting", "speaking", "stopping"}, count : Nat]
  BY DEF Began, Paused
<1>4. vad.count + 1 \in Nat /\ 1 \in Nat
  BY <1>1
<1>5. QED BY <1>1, <1>2, <1>3, <1>4 DEF Analyzed

\* The aggregator's answers.
LEMMA IdleMoves ==
  /\ \A w : OnAudio(Nothing, w) = Nothing
  /\ ~Sends(Nothing) /\ ~Sends(LeftOpen)
  /\ OnStopped(Nothing) = LeftOpen
  /\ OnStarted(Nothing) = Gathering(TRUE, FALSE, <<>>)
  /\ OnStarted(LeftOpen) = Gathering(TRUE, FALSE, <<>>)
  /\ \A w : /\ OnAudio(LeftOpen, w) = Gathering(TRUE, TRUE, <<w>>)
            /\ Sends(Gathering(TRUE, TRUE, <<w>>)) /\ Gathering(TRUE, TRUE, <<w>>).held = <<w>>
<1>1. \A w : OnAudio(Nothing, w) = Nothing
  BY DEF OnAudio, Nothing
<1>2. ~Sends(Nothing) /\ ~Sends(LeftOpen)
  BY DEF Sends, Nothing, LeftOpen, Gathering
<1>3. OnStopped(Nothing) = LeftOpen
  <2>1. Nothing.held = <<>> /\ (Nothing.held = <<>>) = TRUE
    BY DEF Nothing
  <2>2. QED BY Zenon, <2>1 DEF OnStopped, LeftOpen, Gathering
<1>4. OnStarted(Nothing) = Gathering(TRUE, FALSE, <<>>)
      /\ OnStarted(LeftOpen) = Gathering(TRUE, FALSE, <<>>)
  <2>1. Nothing.held = <<>> /\ LeftOpen.held = <<>>
    BY DEF Nothing, LeftOpen, Gathering
  <2>2. QED BY Zenon, <2>1 DEF OnStarted, Gathering
<1>5. ASSUME NEW w
      PROVE  /\ OnAudio(LeftOpen, w) = Gathering(TRUE, TRUE, <<w>>)
             /\ Sends(Gathering(TRUE, TRUE, <<w>>)) /\ Gathering(TRUE, TRUE, <<w>>).held = <<w>>
  <2>1. Append(<<>>, w) = <<w>> /\ <<w>> # <<>>
    OBVIOUS
  <2>2. OnAudio(LeftOpen, w) = Gathering(TRUE, TRUE, Append(<<>>, w))
    BY DEF OnAudio, LeftOpen, Gathering
  <2>3. Gathering(TRUE, TRUE, <<w>>).held = <<w>>
    BY DEF Gathering
  <2>4. Sends(Gathering(TRUE, TRUE, <<w>>))
    BY <2>1 DEF Gathering, Sends
  <2>5. QED BY Zenon, <2>1, <2>2, <2>3, <2>4
<1>6. QED BY <1>1, <1>2, <1>3, <1>4, <1>5

LEMMA SpeechMoves ==
  ASSUME NEW got
  PROVE  /\ OnStarted(Gathering(TRUE, FALSE, got)) = Gathering(TRUE, FALSE, got)
         /\ \A w : OnAudio(Gathering(TRUE, FALSE, got), w) = Gathering(TRUE, FALSE, Append(got, w))
         /\ ~Sends(Gathering(TRUE, FALSE, got))
         /\ got # <<>> => Sends(OnStopped(Gathering(TRUE, FALSE, got)))
         /\ OnStopped(Gathering(TRUE, FALSE, got)).held = got
<1>1. Gathering(TRUE, FALSE, got).held = got
  BY DEF Gathering
<1>2. OnStarted(Gathering(TRUE, FALSE, got)) = Gathering(TRUE, FALSE, got)
  BY Zenon, <1>1 DEF OnStarted, Gathering
<1>3. \A w : OnAudio(Gathering(TRUE, FALSE, got), w) = Gathering(TRUE, FALSE, Append(got, w))
  BY DEF OnAudio, Gathering
<1>4. ~Sends(Gathering(TRUE, FALSE, got))
  BY DEF Sends, Gathering
<1>5. OnStopped(Gathering(TRUE, FALSE, got)).held = got
  BY <1>1 DEF OnStopped
<1>6. OnStopped(Gathering(TRUE, FALSE, got)).seenEnd
  BY DEF OnStopped
<1>7. QED BY Zenon, <1>2, <1>3, <1>4, <1>5, <1>6 DEF Sends
LEMMA WindowSteps ==
  ASSUME SpeechInv, NEW speech \in BOOLEAN, TakeWindow(speech)
  PROVE  \E w, sent : WindowStep(w, sent)
<1> DEFINE w == windows + 1
           v == Analyzed(speech)
           changed == v.state # lastVad
           begun == IF changed /\ v.state = "speaking" THEN OnStarted(agg) ELSE agg
           fed == OnAudio(begun, w)
           early == Sends(fed)
           after == IF early THEN Nothing ELSE fed
           settled == IF changed /\ v.state = "quiet" THEN OnStopped(after) ELSE after
           sent == IF early THEN fed.held ELSE IF Sends(settled) THEN settled.held ELSE <<>>
<1>1. /\ windows < MaxWindows /\ windows' = w /\ vad' = v /\ lastVad' = v.state
      /\ spoken' = Heard(vad.state, v.state, w)
      /\ agg' = (IF Sends(settled) THEN Nothing ELSE settled)
      /\ asking' = (IF sent = <<>> THEN asking ELSE Append(asking, sent))
  BY DEF TakeWindow
<1>2. /\ v \in [state : {"quiet", "starting", "speaking", "stopping"}, count : Nat]
      /\ vad.state \in {"quiet", "starting"} => v.state \in {"quiet", "starting", "speaking"}
      /\ vad.state \in {"speaking", "stopping"} => v.state \in {"quiet", "speaking", "stopping"}
      /\ vad.state \in {"quiet", "starting", "speaking", "stopping"} /\ lastVad = vad.state
  BY AnalyzedTypes DEF SpeechInv, PathTypes
<1> HIDE DEF w, v
<1>4. Speaking <=> vad.state \in {"speaking", "stopping"}
  BY DEF Speaking
<1>5. Speaking' <=> v.state \in {"speaking", "stopping"}
  BY <1>1 DEF Speaking
<1>6. /\ changed <=> v.state # lastVad
      /\ begun = IF changed /\ v.state = "speaking" THEN OnStarted(agg) ELSE agg
      /\ fed = OnAudio(begun, w) /\ (early <=> Sends(fed))
      /\ after = IF early THEN Nothing ELSE fed
      /\ settled = IF changed /\ v.state = "quiet" THEN OnStopped(after) ELSE after
      /\ sent = IF early THEN fed.held ELSE IF Sends(settled) THEN settled.held ELSE <<>>
  BY Zenon
<1> HIDE DEF changed, begun, fed, early, after, settled, sent
<1>7. CASE ~Speaking /\ ~Speaking'
  <2>1. spoken' = spoken
    BY <1>1, <1>2, <1>4, <1>5, <1>7 DEF Heard
  <2>2. agg \in {Nothing, LeftOpen} /\ v.state # "speaking"
    BY <1>2, <1>4, <1>5, <1>7 DEF SpeechInv, Aggregates
  <2>3. begun = agg
    BY Zenon, <1>6, <2>2
  <2>4. ASSUME ~Sends(settled), sent \in {<<>>, <<w>>}, settled \in {Nothing, LeftOpen},
               v.state = "starting" => settled = Nothing
        PROVE  WindowStep(w, sent)
    BY <1>1, <1>2, <1>7, <2>1, <2>4 DEF WindowStep, w
  <2>5. CASE agg = Nothing
    <3>1. fed = Nothing /\ ~early /\ after = Nothing
      BY Zenon, <1>6, <2>3, <2>5, IdleMoves
    <3>2. settled = Nothing \/ (settled = LeftOpen /\ v.state = "quiet")
      BY Zenon, <1>6, <3>1, IdleMoves
    <3>3. ~Sends(settled)
      BY Zenon, <3>2, IdleMoves
    <3>4. sent = <<>>
      BY Zenon, <1>6, <3>1, <3>3
    <3>5. v.state = "starting" => settled = Nothing
      BY <3>2
    <3>6. QED BY <2>4, <3>2, <3>3, <3>4, <3>5
  <2>6. CASE agg = LeftOpen
    <3>1. fed = Gathering(TRUE, TRUE, <<w>>) /\ early /\ fed.held = <<w>> /\ after = Nothing
      BY Zenon, <1>6, <2>3, <2>6, IdleMoves
    <3>2. vad.state = "quiet"
      <4>1. LeftOpen # Nothing
        BY DEF LeftOpen, Nothing, Gathering
      <4>2. QED BY <1>2, <1>4, <1>7, <2>6, <4>1 DEF SpeechInv, Aggregates
    <3>3. ~(changed /\ v.state = "quiet")
      BY <1>2, <1>6, <3>2
    <3>4. settled = Nothing /\ ~Sends(settled)
      BY Zenon, <1>6, <3>1, <3>3, IdleMoves
    <3>5. sent = <<w>>
      BY Zenon, <1>6, <3>1
    <3>6. QED BY <2>4, <3>4, <3>5
  <2>7. QED BY <2>2, <2>5, <2>6
<1>8. CASE ~Speaking /\ Speaking'
  <2>1. spoken' = Append(spoken, <<w>>) /\ v.state = "speaking" /\ changed
    BY <1>1, <1>2, <1>4, <1>5, <1>6, <1>8 DEF Heard
  <2>2. agg \in {Nothing, LeftOpen}
    BY <1>2, <1>4, <1>8 DEF SpeechInv, Aggregates
  <2>3. begun = Gathering(TRUE, FALSE, <<>>)
    <3>1. begun = OnStarted(agg)
      BY Zenon, <1>6, <2>1
    <3>2. QED BY Zenon, <2>2, <3>1, IdleMoves
  <2>4. fed = Gathering(TRUE, FALSE, <<w>>)
    <3>1. Append(<<>>, w) = <<w>>
      OBVIOUS
    <3>2. QED BY Zenon, <1>6, <2>3, <3>1, SpeechMoves
  <2>5. ~Sends(fed)
    BY Zenon, <2>4, SpeechMoves
  <2>6. v.state # "quiet"
    BY <2>1
  <2>7. settled = fed /\ ~Sends(settled) /\ sent = <<>>
    BY Zenon, <1>6, <2>5, <2>6
  <2>8. QED BY <1>1, <1>2, <1>8, <2>1, <2>4, <2>7 DEF WindowStep, w
<1>9. CASE Speaking
  <2> DEFINE last == spoken[Len(spoken)]
  <2>1. agg = Gathering(TRUE, FALSE, last)
    BY <1>9 DEF SpeechInv, Aggregates
  <2>2. spoken' = [spoken EXCEPT ![Len(spoken)] = Append(@, w)]
    BY <1>1, <1>2, <1>4, <1>9 DEF Heard
  <2> HIDE DEF last
  <2>3. begun = agg
    BY Zenon, <1>6, <2>1, SpeechMoves
  <2>4. fed = Gathering(TRUE, FALSE, Append(last, w))
    BY Zenon, <1>6, <2>1, <2>3, SpeechMoves
  <2>5. ~early /\ after = fed
    BY Zenon, <1>6, <2>4, SpeechMoves
  <2>6. CASE Speaking'
    <3>1. v.state # "quiet"
      BY <1>5, <2>6
    <3>2. settled = fed /\ ~Sends(settled) /\ sent = <<>>
      BY Zenon, <1>6, <2>5, <3>1
    <3>3. QED BY <1>1, <1>2, <1>9, <2>2, <2>4, <2>6, <3>2 DEF WindowStep, w, last
  <2>7. CASE ~Speaking'
    <3>1. v.state = "quiet" /\ changed
      BY <1>2, <1>4, <1>5, <1>6, <1>9, <2>7
    <3>2. Append(last, w) # <<>>
      <4>1. last \in Seq(1 .. windows)
        <5>1. spoken \in Seq(Seq(1 .. windows)) /\ spoken # <<>>
          BY <1>9 DEF SpeechInv, PathTypes, Aggregates
        <5>2. QED BY <5>1 DEF last
      <4>2. \A S : \A q \in Seq(S) : \A x : Append(q, x) # <<>>
        OBVIOUS
      <4>3. QED BY Zenon, <4>1, <4>2
    <3>3. settled = OnStopped(fed)
      BY Zenon, <1>6, <2>5, <3>1
    <3>4. Sends(settled) /\ settled.held = Append(last, w)
      BY Zenon, <2>4, <3>2, <3>3, SpeechMoves
    <3>5. sent = Append(last, w)
      BY Zenon, <1>6, <2>5, <3>4
    <3>6. QED BY <1>1, <1>2, <1>9, <2>2, <2>7, <3>1, <3>4, <3>5 DEF WindowStep, w, last
  <2>8. QED BY <2>6, <2>7
<1>10. QED BY <1>7, <1>8, <1>9

LEMMA AllButLast ==
  ASSUME NEW S, NEW s \in Seq(S), s # <<>>
  PROVE  /\ Len(s) \in Nat \ {0}
         /\ SubSeq(s, 1, Len(s) - 1) \in Seq(S)
         /\ Len(SubSeq(s, 1, Len(s) - 1)) = Len(s) - 1
         /\ \A i \in 1 .. (Len(s) - 1) : SubSeq(s, 1, Len(s) - 1)[i] = s[i]
<1>1. Len(s) \in Nat \ {0} /\ 1 \in 1 .. (Len(s) + 1) /\ Len(s) - 1 \in 0 .. Len(s)
  OBVIOUS
<1>2. \A i \in 1 .. Len(s) : s[i] \in S
  OBVIOUS
<1> DEFINE n == Len(s) - 1
<1>3. 1 \in Int /\ n \in Int /\ n \in Nat /\ \A i \in 1 .. n : s[i] \in S
  BY <1>1, <1>2
<1> HIDE DEF n
<1>4. /\ SubSeq(s, 1, n) \in Seq(S)
      /\ Len(SubSeq(s, 1, n)) = IF 1 <= n THEN n - 1 + 1 ELSE 0
      /\ \A i \in 1 .. (n - 1 + 1) : SubSeq(s, 1, n)[i] = s[1 + i - 1]
  BY <1>3, SubSeqProperties
<1>5. Len(SubSeq(s, 1, n)) = n
  BY <1>3, <1>4
<1>6. \A i \in 1 .. n : SubSeq(s, 1, n)[i] = s[i]
  <2>1. \A i \in 1 .. n : 1 + i - 1 = i /\ i \in 1 .. (n - 1 + 1)
    BY <1>3
  <2>2. QED BY Zenon, <1>4, <2>1
<1>7. QED BY <1>1, <1>4, <1>5, <1>6 DEF n
LEMMA LastAdded ==
  ASSUME NEW S, NEW s \in Seq(S), NEW e \in S
  PROVE  LET r == Append(s, e)
         IN  /\ r \in Seq(S) /\ r # <<>> /\ Len(r) = Len(s) + 1 /\ r[Len(r)] = e
             /\ SubSeq(r, 1, Len(r) - 1) = s
<1> DEFINE r == Append(s, e)
           but == SubSeq(r, 1, Len(r) - 1)
<1>1. r \in Seq(S) /\ r # <<>> /\ Len(r) = Len(s) + 1 /\ r[Len(s) + 1] = e
      /\ \A i \in 1 .. Len(s) : r[i] = s[i]
  OBVIOUS
<1> HIDE DEF r
<1>2. Len(s) \in Nat /\ Len(r) - 1 = Len(s)
  BY <1>1
<1>3. but \in Seq(S) /\ Len(but) = Len(r) - 1 /\ \A i \in 1 .. (Len(r) - 1) : but[i] = r[i]
  BY <1>1, AllButLast
<1> HIDE DEF but
<1>4. Len(but) = Len(s) /\ \A i \in 1 .. Len(but) : but[i] = s[i]
  BY <1>1, <1>2, <1>3
<1>5. but = s
  BY Zenon, <1>3, <1>4, SeqEqual
<1>6. QED BY Zenon, <1>1, <1>5 DEF r, but

LEMMA LastBack ==
  ASSUME NEW S, NEW s \in Seq(S), s # <<>>
  PROVE  Append(SubSeq(s, 1, Len(s) - 1), s[Len(s)]) = s
<1> DEFINE but == SubSeq(s, 1, Len(s) - 1)
           last == s[Len(s)]
           t == Append(but, last)
<1>1. Len(s) \in Nat \ {0} /\ last \in S
  OBVIOUS
<1>2. but \in Seq(S) /\ Len(but) = Len(s) - 1 /\ \A i \in 1 .. (Len(s) - 1) : but[i] = s[i]
  BY AllButLast
<1> HIDE DEF but, last
<1>3. t \in Seq(S) /\ Len(t) = Len(s) /\ t[Len(s)] = last
      /\ \A i \in 1 .. (Len(s) - 1) : t[i] = s[i]
  BY <1>1, <1>2
<1> HIDE DEF t
<1>4. \A i \in 1 .. Len(s) : i \in 1 .. (Len(s) - 1) \/ i = Len(s)
  BY <1>1
<1>5. \A i \in 1 .. Len(t) : t[i] = s[i]
  BY <1>3, <1>4 DEF last
<1>6. t = s
  BY Zenon, <1>3, <1>5, SeqEqual
<1>7. QED BY Zenon, <1>6 DEF t, but, last

LEMMA LastGrows ==
  ASSUME NEW S, NEW s \in Seq(Seq(S)), s # <<>>, NEW w \in S,
         NEW r, r = [s EXCEPT ![Len(s)] = Append(@, w)]
  PROVE  /\ s[Len(s)] \in Seq(S) /\ Append(s[Len(s)], w) \in Seq(S)
         /\ r \in Seq(Seq(S)) /\ Len(r) = Len(s) /\ r # <<>>
         /\ r[Len(r)] = Append(s[Len(s)], w)
         /\ SubSeq(r, 1, Len(r) - 1) = SubSeq(s, 1, Len(s) - 1)
<1>1. Len(s) \in Nat \ {0} /\ s[Len(s)] \in Seq(S)
  OBVIOUS
<1> DEFINE more == Append(s[Len(s)], w)
           but == SubSeq(s, 1, Len(s) - 1)
           rut == SubSeq(r, 1, Len(r) - 1)
<1>2. more \in Seq(S)
  BY <1>1
<1> HIDE DEF more
<1>3. r = [s EXCEPT ![Len(s)] = more]
  BY DEF more
<1>4. r \in Seq(Seq(S)) /\ Len(r) = Len(s) /\ r[Len(r)] = more /\ r # <<>>
      /\ \A i \in 1 .. (Len(s) - 1) : r[i] = s[i]
  BY <1>1, <1>2, <1>3
<1>5. but \in Seq(Seq(S)) /\ Len(but) = Len(s) - 1 /\ \A i \in 1 .. (Len(s) - 1) : but[i] = s[i]
  BY AllButLast
<1>6. rut \in Seq(Seq(S)) /\ Len(rut) = Len(s) - 1 /\ \A i \in 1 .. (Len(s) - 1) : rut[i] = r[i]
  BY <1>4, AllButLast
<1> HIDE DEF but, rut
<1>7. rut = but
  <2>1. Len(rut) = Len(but) /\ \A i \in 1 .. Len(rut) : rut[i] = but[i]
    BY <1>1, <1>4, <1>5, <1>6
  <2>2. QED BY Zenon, <1>5, <1>6, <2>1, SeqEqual
<1>8. QED BY <1>1, <1>2, <1>4, <1>5, <1>7 DEF more, but, rut

LEMMA TakeWindowKeeps ==
  ASSUME SpeechInv, NEW speech \in BOOLEAN, TakeWindow(speech) PROVE SpeechInv'
<1>1. PICK w, sent : WindowStep(w, sent)
  BY WindowSteps
<1>2. ring' = ring - Window /\ ring >= Window
      /\ UNCHANGED <<inQueue, blocks, vadStart, segments, pathEnded>>
  BY DEF TakeWindow
<1>3. /\ windows \in Nat /\ w = windows + 1 /\ windows' = w /\ windows' \in 0 .. MaxWindows
      /\ asking' = (IF sent = <<>> THEN asking ELSE Append(asking, sent))
  BY <1>1, SpeechAssumption DEF WindowStep, SpeechInv, PathTypes
<1> DEFINE W == 1 .. w
<1>4. asking \in Seq(Seq(W)) /\ segments \in Seq(Seq(W)) /\ spoken \in Seq(Seq(W)) /\ w \in W
  <2>1. asking \in Seq(Seq(1 .. windows)) /\ segments \in Seq(Seq(1 .. windows))
        /\ spoken \in Seq(Seq(1 .. windows))
    BY DEF SpeechInv, PathTypes
  <2>2. windows <= w /\ w \in Nat
    BY <1>3
  <2>3. QED BY <1>3, <2>1, <2>2, WiderSeqs
<1> HIDE DEF W
<1> DEFINE last == spoken[Len(spoken)]
<1>5. Speaking => /\ spoken # <<>> /\ last \in Seq(W) /\ last # <<>> /\ Append(last, w) \in Seq(W)
                  /\ Len(Append(last, w)) > 1
  <2>1. SUFFICES ASSUME Speaking PROVE
          /\ spoken # <<>> /\ last \in Seq(W) /\ last # <<>> /\ Append(last, w) \in Seq(W)
          /\ Len(Append(last, w)) > 1
    OBVIOUS
  <2>2. spoken # <<>> /\ last # <<>>
    BY <2>1 DEF SpeechInv, Aggregates
  <2>3. last \in Seq(W)
    BY <1>4, <2>2
  <2> HIDE DEF last
  <2>4. QED BY <1>4, <2>2, <2>3
<1>6. /\ sent \in Seq(W) /\ spoken' \in Seq(Seq(W))
      /\ \/ Len(sent) <= 1 /\ Finished' = Finished
         \/ Len(sent) > 1 /\ Finished' = Append(Finished, sent)
      /\ Aggregates'
  <2>1. <<>> \in Seq(W) /\ <<w>> \in Seq(W) /\ Len(<<>>) <= 1 /\ Len(<<w>>) <= 1
        /\ <<>> # <<w>>
    BY <1>4
  <2>2. vad'.state \in {"quiet", "starting", "speaking", "stopping"}
        /\ (Speaking' <=> vad'.state \in {"speaking", "stopping"})
    BY <1>1 DEF WindowStep, Speaking
  <2>3. CASE ~Speaking /\ ~Speaking'
    <3>1. spoken' = spoken /\ sent \in {<<>>, <<w>>}
          /\ (vad'.state = "starting" => agg' = Nothing)
          /\ (vad'.state = "quiet" => agg' \in {Nothing, LeftOpen})
      BY <1>1, <2>3 DEF WindowStep
    <3>2. Finished' = Finished
      BY <2>3, <3>1 DEF Finished
    <3>3. Aggregates'
      BY <2>3, <3>1 DEF Aggregates
    <3>4. QED BY <1>4, <2>1, <3>1, <3>2, <3>3
  <2>4. CASE ~Speaking /\ Speaking'
    <3>1. spoken' = Append(spoken, <<w>>) /\ sent = <<>> /\ agg' = Gathering(TRUE, FALSE, <<w>>)
      BY <1>1, <2>4 DEF WindowStep
    <3>2. spoken' \in Seq(Seq(W)) /\ Len(spoken') = Len(spoken) + 1 /\ spoken' # <<>>
          /\ spoken'[Len(spoken')] = <<w>> /\ SubSeq(spoken', 1, Len(spoken') - 1) = spoken
      BY Zenon, <1>4, <2>1, <3>1, LastAdded
    <3>3. Finished' = Finished
      BY <2>4, <3>2 DEF Finished
    <3>4. Aggregates'
      BY <2>1, <2>2, <2>4, <3>1, <3>2 DEF Aggregates
    <3>5. QED BY <2>1, <3>1, <3>2, <3>3, <3>4
  <2>5. CASE Speaking /\ Speaking'
    <3>1. spoken' = [spoken EXCEPT ![Len(spoken)] = Append(@, w)] /\ sent = <<>>
          /\ agg' = Gathering(TRUE, FALSE, Append(last, w))
      BY <1>1, <2>5 DEF WindowStep
    <3>2. /\ spoken' \in Seq(Seq(W)) /\ spoken' # <<>>
          /\ spoken'[Len(spoken')] = Append(last, w)
          /\ SubSeq(spoken', 1, Len(spoken') - 1) = SubSeq(spoken, 1, Len(spoken) - 1)
      BY <1>4, <1>5, <2>5, <3>1, LastGrows
    <3>3. Finished' = Finished
      BY <2>5, <3>2 DEF Finished
    <3>4. Append(last, w) # <<>>
      BY <1>5, <2>5
    <3>5. Aggregates'
      BY <2>2, <2>5, <3>1, <3>2, <3>4 DEF Aggregates
    <3>6. QED BY <2>1, <3>1, <3>2, <3>3, <3>5
  <2>6. CASE Speaking /\ ~Speaking'
    <3>1. spoken' = [spoken EXCEPT ![Len(spoken)] = Append(@, w)] /\ sent = Append(last, w)
          /\ vad'.state = "quiet" /\ agg' = Nothing
      BY <1>1, <2>6 DEF WindowStep
    <3>2. /\ spoken' \in Seq(Seq(W))
          /\ Append(SubSeq(spoken, 1, Len(spoken) - 1), Append(last, w)) = spoken'
      <4> DEFINE r == spoken'
      <4>1. spoken # <<>> /\ r = [spoken EXCEPT ![Len(spoken)] = Append(@, w)]
        BY <1>5, <2>6, <3>1
      <4> HIDE DEF r
      <4>2. /\ r \in Seq(Seq(W)) /\ Len(r) = Len(spoken)
            /\ r[Len(r)] = Append(spoken[Len(spoken)], w)
            /\ SubSeq(r, 1, Len(r) - 1) = SubSeq(spoken, 1, Len(spoken) - 1)
        BY <1>4, <4>1, LastGrows
      <4>3. Append(SubSeq(r, 1, Len(r) - 1), r[Len(r)]) = r
        <5>1. r # <<>>
          BY <1>4, <4>1, LastGrows
        <5>2. QED BY Zenon, <4>2, <5>1, LastBack
      <4>4. QED BY Zenon, <4>2, <4>3 DEF r
    <3>3. Finished' = Append(Finished, sent)
      BY <2>6, <3>1, <3>2 DEF Finished
    <3>4. Aggregates'
      BY <2>6, <3>1 DEF Aggregates
    <3>5. QED BY <1>5, <2>6, <3>1, <3>2, <3>3, <3>4
  <2>7. QED BY <2>3, <2>4, <2>5, <2>6
<1>7. PathTypes'
  <2>1. ring' \in 0 .. RingLen
    BY <1>2, SpeechAssumption DEF SpeechInv, PathTypes, Window
  <2>2. asking' \in Seq(Seq(W))
    BY <1>3, <1>4, <1>6
  <2>3. {asking, segments, spoken}' \subseteq Seq(Seq(1 .. windows'))
    BY <1>2, <1>3, <1>4, <1>6, <2>2 DEF W
  <2>4. vad' \in [state : {"quiet", "starting", "speaking", "stopping"}, count : Nat]
        /\ lastVad' = vad'.state
    BY <1>1 DEF WindowStep
  <2>5. inQueue' \in Seq(Packets) /\ Len(inQueue') <= QueueLen /\ blocks' \in BOOLEAN
        /\ pathEnded' \in BOOLEAN
    BY <1>2 DEF SpeechInv, PathTypes
  <2>6. QED BY <1>3, <2>1, <2>3, <2>4, <2>5 DEF PathTypes
<1>8. (segments \o asking)' = IF sent = <<>> THEN segments \o asking
                              ELSE Append(segments \o asking, sent)
  <2>1. CASE sent = <<>>
    BY <1>2, <1>3, <2>1
  <2>2. CASE sent # <<>>
    <3>1. asking' = Append(asking, sent) /\ segments' = segments
      BY <1>2, <1>3, <2>2
    <3>2. segments \o asking \in Seq(Seq(W)) /\ <<sent>> \in Seq(Seq(W))
      BY <1>4, <1>6
    <3>3. Append(asking, sent) = asking \o <<sent>>
          /\ Append(segments \o asking, sent) = (segments \o asking) \o <<sent>>
      BY <1>4, <1>6, <3>2, AppendIsConcat
    <3>4. (segments \o asking) \o <<sent>> = segments \o (asking \o <<sent>>)
      <4>1. \A s, t, u \in Seq(Seq(W)) : (s \o t) \o u = s \o (t \o u)
        BY SMTT(30), ConcatAssociative
      <4>2. QED BY Zenon, <1>4, <3>2, <4>1
    <3>5. QED BY Zenon, <2>2, <3>1, <3>3, <3>4
  <2>3. QED BY <2>1, <2>2
<1>9. segments \o asking \in Seq(Seq(W)) /\ Matches(segments \o asking, Finished)
  BY <1>4 DEF SpeechInv
<1>10. Finished \in Seq(Seq(W))
  BY <1>4, <1>5 DEF Finished
<1>11. Matches((segments \o asking)', Finished')
  <2> DEFINE before == segments \o asking
             until == Finished
  <2> HIDE DEF before, until
  <2>1. CASE sent = <<>>
    <3>1. ~(Len(sent) > 1)
      BY <2>1
    <3>2. QED BY <1>6, <1>8, <1>9, <2>1, <3>1
  <2>2. CASE sent # <<>> /\ Len(sent) <= 1 /\ Finished' = Finished
    BY <1>6, <1>8, <1>9, <2>2, MatchesLone
  <2>3. CASE sent # <<>> /\ Len(sent) > 1 /\ Finished' = Append(Finished, sent)
    BY <1>6, <1>8, <1>9, <1>10, <2>3, MatchesWhole
  <2>4. QED BY <1>6, <2>1, <2>2, <2>3
<1>12. QED BY <1>6, <1>7, <1>11 DEF SpeechInv

LEMMA SpeechInvHolds == Spec => []SpeechInv
<1>1. Init => SpeechInv
  BY SpeechInitially DEF Init
<1>2. SpeechInv /\ [Next]_vars => SpeechInv'
  <2>1. SUFFICES ASSUME SpeechInv, Speech PROVE SpeechInv'
    BY PartsStepApart, SpeechStands
  <2>2. QED BY <2>1, PacketsKeep, TakeWindowKeeps, RecogniseKeeps DEF Speech
<1>3. QED BY <1>1, <1>2, PTL DEF Spec

LEMMA SpeechTypes ==
  ASSUME SpeechInv PROVE SpeechTypeOK
<1>1. agg.held \in Seq(1 .. windows)
  <2>1. Nothing.held = <<>> /\ LeftOpen.held = <<>> /\ <<>> \in Seq(1 .. windows)
    BY DEF Nothing, LeftOpen, Gathering
  <2>2. CASE Speaking
    <3>1. agg = Gathering(TRUE, FALSE, spoken[Len(spoken)]) /\ spoken # <<>>
          /\ spoken \in Seq(Seq(1 .. windows))
      BY <2>2 DEF SpeechInv, PathTypes, Aggregates
    <3>2. agg.held = spoken[Len(spoken)]
      BY <3>1 DEF Gathering
    <3>3. spoken[Len(spoken)] \in Seq(1 .. windows)
      <4>1. \A S : \A t \in Seq(S) : t # <<>> => t[Len(t)] \in S
        OBVIOUS
      <4>2. QED BY Zenon, <3>1, <4>1
    <3>4. QED BY Zenon, <3>2, <3>3
  <2>3. CASE ~Speaking
    <3>1. agg \in {Nothing, LeftOpen}
      BY <2>3 DEF SpeechInv, PathTypes, Aggregates, Speaking
    <3>2. QED BY Zenon, <2>1, <3>1
  <2>4. QED BY <2>2, <2>3
<1>2. vad.state \in {"quiet", "starting", "speaking", "stopping"}
  BY DEF SpeechInv, PathTypes
<1>3. QED BY <1>1, <1>2 DEF SpeechInv, PathTypes, SpeechTypeOK

(* From the socket to recognition (the input and audio input processors,   *)
(* the detector, the aggregator, the recogniser): whatever pauses and      *)
(* false starts came with it, recognition is asked about each finished     *)
(* utterance once, whole and in order.                                     *)
THEOREM SegmentsAreWholeHolds == Spec => []SegmentsAreWhole
<1>1. SpeechInv => SegmentsAreWhole
  BY Zenon DEF SpeechInv, Matches, Whole, UpTo, Finished, Speaking, SegmentsAreWhole
<1>2. QED BY <1>1, SpeechInvHolds, PTL
=============================================================================
