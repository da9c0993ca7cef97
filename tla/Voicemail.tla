----------------------------- MODULE Voicemail ------------------------------
(***************************************************************************)
(* A call that a machine answered (telnyx_call.go, runVoicemailCall): wait *)
(* for the beep, or for the mailbox to stop talking, play the message,     *)
(* hang up; and the cache the messages and greetings of all calls are      *)
(* rendered into (announceCache).                                          *)
(*                                                                         *)
(* The frames of the mailbox's voice wait on the media socket until        *)
(* somebody reads them, and nobody does while the beep is waited for.  A   *)
(* frame is loud or quiet.                                                 *)
(***************************************************************************)
EXTENDS Integers, Sequences, SequencesExt, FiniteSetsExt

CONSTANTS
  Announcements, SizeOf,   \* what may be rendered (text, voice, speed, gain), and its size
  CacheMax,                \* announceCacheMaxBytes
  Getters,                 \* goroutines that want one: a dispatch, a media handler
  SilenceNeeded,           \* mailboxSilenceNeeded, in frames
  MaxPause,                \* the longest pause inside a mailbox's greeting
  MaxInbound               \* bound: frames waiting on the socket
ASSUME VoicemailAssumption ==
  /\ SizeOf \in [Announcements -> Nat] /\ CacheMax \in Nat /\ MaxInbound \in Nat
  /\ MaxPause \in Nat /\ SilenceNeeded \in Nat /\ MaxPause < SilenceNeeded

VARIABLES
  held, order, bytes,   \* announceCache: the keys of m, order, bytes
  wants,                \* what each getter has not found and is rendering, "none" if nothing
  mailbox,              \* the machine: what it does, how long it has paused, has it beeped
  inbound,              \* frames on the socket
  told,                 \* beepCh
  leaving,              \* the call that leaves a message: see VoicemailInit
  registered            \* the call is in the registry

cacheVars == <<held, order, bytes, wants>>
machineVars == <<mailbox, inbound, told, leaving, registered>>
voicemailVars == <<cacheVars, machineVars>>

VoicemailInit ==
  /\ held = {} /\ order = <<>> /\ bytes = 0 /\ wants = [g \in Getters |-> "none"]
  /\ mailbox = [at |-> "silent", paused |-> 0, beeped |-> FALSE]
  /\ inbound = <<>> /\ told = "none" /\ registered = TRUE
  /\ leaving = [at |-> "greeting", heard |-> FALSE, quiet |-> 0, cue |-> "none"]

-----------------------------------------------------------------------------
(* get, as far as the look under the lock; what is there is simply used.   *)
LookUp(g, k) ==
  /\ wants[g] = "none" /\ k \notin held
  /\ wants' = [wants EXCEPT ![g] = k]
  /\ UNCHANGED <<held, order, bytes, machineVars>>
NoEngine(g) ==
  /\ wants[g] # "none" /\ wants' = [wants EXCEPT ![g] = "none"]
  /\ UNCHANGED <<held, order, bytes, machineVars>>

(* What some entries take together; each of their bytes is a pair.         *)
SizeOfAll(ks) == Cardinality(UNION {{k} \X (1..SizeOf[k]) : k \in ks})

(* put's loop: the oldest go, but for the last one, until the rest fits.   *)
Stores(k) ==
  LET all == Append(order, k)
      Oldest(n) == ToSet(SubSeq(all, 1, n)) \intersect (held \union {k})
      Left(n) == bytes + SizeOf[k] - SizeOfAll(Oldest(n))
      n == Min({i \in 0..Len(all) - 1 : i = Len(all) - 1 \/ Left(i) <= CacheMax})
  IN /\ order' = SubSeq(all, n + 1, Len(all))
     /\ held' = (held \union {k}) \ Oldest(n)
     /\ bytes' = Left(n)

(* Mutant of Render: what somebody else has rendered meanwhile is added again. *)
RenderTwice(g) ==
  /\ wants[g] # "none" /\ wants' = [wants EXCEPT ![g] = "none"]
  /\ Stores(wants[g])
  /\ UNCHANGED machineVars

(* Synthesize, on an engine from the pool and outside the lock; then put.  *)
Render(g) ==
  /\ wants[g] # "none" /\ wants' = [wants EXCEPT ![g] = "none"]
  /\ IF wants[g] \in held THEN UNCHANGED <<held, order, bytes>> ELSE Stores(wants[g])
  /\ UNCHANGED machineVars

-----------------------------------------------------------------------------
Arrives(f) == Len(inbound) < MaxInbound /\ inbound' = Append(inbound, f)
MailboxSpeaks ==
  /\ mailbox.at # "over" /\ Arrives("loud")
  /\ mailbox' = [mailbox EXCEPT !.at = "talking", !.paused = 0]
  /\ UNCHANGED <<cacheVars, told, leaving, registered>>
MailboxPauses ==
  /\ mailbox.at = "talking" /\ mailbox.paused < MaxPause /\ Arrives("quiet")
  /\ mailbox' = [mailbox EXCEPT !.paused = @ + 1]
  /\ UNCHANGED <<cacheVars, told, leaving, registered>>
MailboxQuiet ==
  /\ mailbox.at # "talking" /\ Arrives("quiet")
  /\ UNCHANGED <<cacheVars, mailbox, told, leaving, registered>>
MailboxEnds ==
  /\ mailbox.at = "talking" /\ mailbox' = [mailbox EXCEPT !.at = "over"]
  /\ UNCHANGED <<cacheVars, inbound, told, leaving, registered>>
MailboxBeeps ==
  /\ mailbox.at = "over" /\ ~mailbox.beeped /\ Arrives("loud")
  /\ mailbox' = [mailbox EXCEPT !.beeped = TRUE]
  /\ UNCHANGED <<cacheVars, told, leaving, registered>>
(* signalBeep: the carrier has found the beep, or given up looking for it. *)
SignalBeep(result) ==
  /\ told = "none" /\ registered /\ (result = "beep_detected" => mailbox.beeped)
  /\ told' = result
  /\ UNCHANGED <<cacheVars, mailbox, inbound, leaving, registered>>
CallRemoved ==
  /\ registered /\ registered' = FALSE
  /\ UNCHANGED <<cacheVars, mailbox, inbound, told, leaving>>

-----------------------------------------------------------------------------
Becomes(at) == leaving' = [leaving EXCEPT !.at = at]
(* Every wait ends with a look at the registry.                            *)
GoesOn(at, cue) ==
  leaving' = [leaving EXCEPT !.at = IF registered THEN at ELSE "done",
                             !.cue = IF registered THEN cue ELSE "none"]
(* Our own greeting has played; the message is taken from the cache, and   *)
(* without one there is nothing to stay for.                               *)
GreetingOver(message) ==
  /\ leaving.at = "greeting" /\ Becomes(IF message THEN "beep" ELSE "done")
  /\ UNCHANGED <<cacheVars, mailbox, inbound, told, registered>>
WaitBeep ==
  /\ leaving.at = "beep" /\ told # "none"
  /\ IF told = "beep_detected" THEN GoesOn("play", "beep") ELSE GoesOn("mailbox", "none")
  /\ UNCHANGED <<cacheVars, mailbox, inbound, told, registered>>
BeepDeadline ==
  /\ leaving.at = "beep" /\ GoesOn("mailbox", "none")
  /\ UNCHANGED <<cacheVars, mailbox, inbound, told, registered>>
NoticesTheEnd ==
  /\ leaving.at = "beep" /\ ~registered /\ Becomes("done")
  /\ UNCHANGED <<cacheVars, mailbox, inbound, told, registered>>

(* Mutant of Listen: speech does not begin the silence again. *)
ListenToTheSum(capped) ==
  /\ leaving.at = "mailbox" /\ inbound # <<>> /\ inbound' = Tail(inbound)
  /\ LET heard == leaving.heard \/ Head(inbound) = "loud"
         quiet == IF ~heard \/ Head(inbound) = "loud" THEN leaving.quiet ELSE leaving.quiet + 1
     IN IF quiet = SilenceNeeded THEN GoesOn("play", "silence")
        ELSE IF capped THEN GoesOn("play", "cap")
        ELSE leaving' = [leaving EXCEPT !.heard = heard, !.quiet = quiet]
  /\ UNCHANGED <<cacheVars, mailbox, told, registered>>

(* waitForMailboxToFinish: what arrived while the beep was waited for is   *)
(* read first.  The cap is looked at between two frames.                   *)
Listen(capped) ==
  /\ leaving.at = "mailbox" /\ inbound # <<>> /\ inbound' = Tail(inbound)
  /\ LET heard == leaving.heard \/ Head(inbound) = "loud"
         quiet == IF ~heard \/ Head(inbound) = "loud" THEN 0 ELSE leaving.quiet + 1
     IN IF quiet = SilenceNeeded THEN GoesOn("play", "silence")
        ELSE IF capped THEN GoesOn("play", "cap")
        ELSE leaving' = [leaving EXCEPT !.heard = heard, !.quiet = quiet]
  /\ UNCHANGED <<cacheVars, mailbox, told, registered>>
ReadFails ==
  /\ leaving.at = "mailbox" /\ GoesOn("play", "error")
  /\ UNCHANGED <<cacheVars, mailbox, inbound, told, registered>>

(* playAnnouncement; whether it got through is not looked at.              *)
PlayMessage ==
  /\ leaving.at = "play" /\ Becomes("mark")
  /\ UNCHANGED <<cacheVars, mailbox, inbound, told, registered>>
(* markVoicemailAudio reads on until the mark, an error or its deadline.   *)
AwaitMark ==
  /\ leaving.at = "mark" /\ Becomes("hangup") /\ inbound' = <<>>
  /\ UNCHANGED <<cacheVars, mailbox, told, registered>>
(* The rest of the message's length, and a tail, have passed.              *)
HangUpMailbox ==
  /\ leaving.at = "hangup" /\ Becomes("done")
  /\ UNCHANGED <<cacheVars, mailbox, inbound, told, registered>>

VoicemailTypeOK ==
  /\ held \subseteq Announcements /\ bytes \in Int /\ ToSet(order) \subseteq Announcements
  /\ wants \in [Getters -> Announcements \union {"none"}]
  /\ mailbox.at \in {"silent", "talking", "over"} /\ mailbox.paused \in 0..MaxPause
  /\ inbound \in Seq({"loud", "quiet"}) /\ Len(inbound) <= MaxInbound
  /\ told \in {"none", "beep_detected", "no_beep_detected"}
  /\ leaving.at \in {"greeting", "beep", "mailbox", "play", "mark", "hangup", "done"}
  /\ leaving.quiet \in 0..SilenceNeeded - 1

(* A ceiling on a process that runs for days (announceCacheMaxBytes): the  *)
(* cache's own account of itself is right, whoever rendered the same words *)
(* at the same time, so it stays under the ceiling but for a single entry. *)
CacheCountsItself ==
  /\ bytes = SizeOfAll(held)
  /\ ToSet(order) = held /\ Len(order) = Cardinality(held)
  /\ bytes > CacheMax => Cardinality(held) = 1

(* "the message started 14s after answer, straight over a greeting still   *)
(* in progress" (runVoicemailCall): a message that goes by a cue, of the   *)
(* carrier's or of silence, starts after the greeting, though the frames   *)
(* listened to have been waiting since before the listening began.         *)
MessageAfterGreeting == leaving.cue \in {"beep", "silence"} => mailbox.at = "over"
=============================================================================
