--------------------------- MODULE Handover_proofs ---------------------------
(***************************************************************************)
(* The parts of a call that hand it to somebody else, for every number of  *)
(* operators, rooms, detectors, attempts, frames and announcements: an     *)
(* operator who came to talk has the agent leave, an ended call leaves     *)
(* nothing of its room, a failed transfer can be tried again, a message is *)
(* left after the greeting, and the announcements' cache counts itself.    *)
(* Last, with what Conversation_proofs shows of the other parts, the types *)
(* of the whole call.                                                      *)
(***************************************************************************)
EXTENDS Conversation_proofs

-----------------------------------------------------------------------------
(* The room.  A detector has moved only because a person came in; it takes *)
(* the call over only if somebody did not ask merely to listen.            *)
Mode == {"relay", "spawning", "sip", "dial", "dialled", "waiting"}
Noticing == [at : Mode \union {"idle", "taken"}, listen : BOOLEAN]
RoomTypes ==
  /\ RoomTypeOK
  /\ lcall \in {"dialled", "unwatch", "unwarm", "unrelay", "forget", "ending", "gone"}
  /\ made \in 0 .. MaxRooms /\ closing \in 0 .. made
  /\ rc \in [room : 0 .. made, bridged : BOOLEAN, listenOnly : BOOLEAN]
  /\ join \in [Operators -> {"none", "creating", "reply", "watch", "done"}]
  /\ links \subseteq 1 .. made /\ people \subseteq 1 .. made /\ watched \subseteq 1 .. made
  /\ detector \in [Detectors -> Noticing]
  /\ agent \in [hushed : BOOLEAN, left : BOOLEAN]
  /\ relay \in Detectors \union {"none"}
  /\ sidecars \in [run : SUBSET Detectors, map : Detectors \union {"none"}]
  /\ prewarm \in [minting : 0 .. made, running : SUBSET (1 .. made), map : 0 .. made]
  /\ setup \in Setups /\ {bargeWanted, raced} \subseteq BOOLEAN

BargeInv ==
  /\ \A ev \in joined : ~ev[2] => ev[1] \in people
  /\ \A d \in Detectors : detector[d].at # "idle" => people # {}
  /\ \A d \in Detectors : detector[d].at \in Mode /\ ~detector[d].listen => bargeWanted
  /\ \A d \in Detectors : detector[d].at \in {"relay", "spawning"} => detector[d].listen
  /\ \A d \in Detectors : detector[d].at = "waiting" => ~detector[d].listen
  /\ ~rc.listenOnly /\ ~bargeWanted => people = {} /\ \A o \in Operators : join[o] = "none"
  /\ BargeTakesAPerson

(* While endLiveRoom is at it, the room it took the name of is the call's  *)
(* still.  Nothing overtaken, what is kept of the room is kept of the one  *)
(* room the call knows by name, and each step of the end leaves nothing    *)
(* for what it has passed.                                                 *)
Of(r) == {r} \ {0}
Under == lcall \in {"unwatch", "unwarm", "unrelay", "forget"}
HasRoom ==
  /\ lcall = "dialled" /\ rooms \union people # {} => rc.room # 0
  /\ lcall = "dialled" => closing = 0
  /\ Under => closing # 0 /\ rc.room # 0 /\ (~raced => rc.room = closing)
  /\ ~raced /\ lcall \in {"ending", "gone"} => rc.room = 0
WatchTidy ==
  /\ rooms \subseteq Of(rc.room) \union Of(closing)
  /\ watched \subseteq Of(rc.room) /\ (Unwatched => watched = {})
WarmTidy ==
  IF Unwarmed THEN prewarm.running = {}
  ELSE /\ prewarm.running \subseteq Of(rc.room) /\ prewarm.running \subseteq {prewarm.map}
       /\ {prewarm.minting, prewarm.map} \subseteq {0, rc.room}
RelayTidy ==
  /\ sidecars.run \subseteq {sidecars.map}
  /\ sidecars.run # {} => relay # "none"
  /\ relay # "none" => rc.room # 0 /\ ~Unrelayed
TidyInv == HasRoom /\ (~raced => WatchTidy /\ WarmTidy /\ RelayTidy)

RoomInv == RoomTypes /\ BargeInv /\ TidyInv

-----------------------------------------------------------------------------
(* The transfer.  Nobody but a caller waiting for the carrier keeps `done` *)
(* set, and each of them has announced itself.                             *)
AskingNow(c) == IF exec[c] = "asking" THEN 1 ELSE 0
TransferInv ==
  /\ {offered, done, away} \subseteq BOOLEAN
  /\ turn \in [no : 0 .. MaxTurns, promise : BOOLEAN, on : BOOLEAN]
  /\ once \in 0 .. MaxTurns
  /\ exec \in [Callers -> {"none", "called", "going", "asking"}]
  /\ announced \in 0 .. MaxAttempts /\ accepted \in Nat /\ transferred = accepted
  /\ turn.on => turn.no > 0
  /\ once = 0 => exec["repair"] = "none"
  /\ accepted + AskingNow("tool") + AskingNow("repair") <= announced
  /\ done /\ accepted = 0 => \E c \in Callers : exec[c] = "asking"

-----------------------------------------------------------------------------
(* The machine.  While it talks, no run of quiet frames that has been or   *)
(* will be counted is longer than a pause, and the run at the end of what  *)
(* waits on the socket no longer than the pause it is in.                  *)
Quiet(q, from, to) == \A i \in from .. to : q[i] = "quiet"
PauseOK(q, n, to, paused) == n <= MaxPause /\ (to = Len(q) => n <= paused)
CountedOK(q, quiet, paused) ==
  \A j \in 0 .. Len(q) : Quiet(q, 1, j) => PauseOK(q, quiet + j, j, paused)
WaitingOK(q, paused) ==
  \A i \in 1 .. Len(q) : \A j \in i .. Len(q) :
    q[i] = "loud" /\ Quiet(q, i + 1, j) => PauseOK(q, j - i, j, paused)
Frames == Seq({"loud", "quiet"})
NotYet == {"greeting", "beep", "mailbox"}
MachineTypes ==
  /\ mailbox \in [at : {"silent", "talking", "over"}, paused : 0 .. MaxPause, beeped : BOOLEAN]
  /\ inbound \in Frames /\ Len(inbound) <= MaxInbound
  /\ told \in {"none", "beep_detected", "no_beep_detected"} /\ registered \in BOOLEAN
  /\ leaving \in [at : NotYet \union {"play", "mark", "hangup", "done"}, heard : BOOLEAN,
                  quiet : 0 .. SilenceNeeded - 1,
                  cue : {"none", "beep", "silence", "cap", "error"}]
MachineInv ==
  /\ MachineTypes
  /\ mailbox.beeped => mailbox.at = "over"
  /\ told = "beep_detected" => mailbox.at = "over"
  /\ ~leaving.heard => leaving.quiet = 0
  /\ mailbox.at = "silent" => ~leaving.heard /\ Quiet(inbound, 1, Len(inbound))
  /\ mailbox.at = "talking" /\ leaving.at \in NotYet =>
       WaitingOK(inbound, mailbox.paused)
       /\ (leaving.heard => CountedOK(inbound, leaving.quiet, mailbox.paused))
  /\ MessageAfterGreeting

-----------------------------------------------------------------------------
(* The cache.  The order lists what is held, each entry once, and what is  *)
(* counted is what the entries take; two entries stay under the ceiling.   *)
Bytes(ks) == UNION {{k} \X (1 .. SizeOf[k]) : k \in ks}
CacheInv ==
  /\ held \subseteq Announcements /\ wants \in [Getters -> Announcements \union {"none"}]
  /\ order \in Seq(Announcements) /\ ToSet(order) = held
  /\ \A i, j \in 1 .. Len(order) : order[i] = order[j] => i = j
  /\ IsFiniteSet(Bytes(held)) /\ bytes = SizeOfAll(held)
  /\ bytes > CacheMax => Len(order) = 1

-----------------------------------------------------------------------------
(* The transfer's steps.                                                   *)
LEMMA TransferInitially ==
  ASSUME TransferInit PROVE TransferInv
<1>1. MaxTurns \in Nat /\ MaxAttempts \in Nat
  BY TransferAssumption
<1>2. {offered, done, away} \subseteq BOOLEAN
  BY Zenon DEF TransferInit, RegisterTransferTool
<1>3. QED BY <1>1, <1>2 DEF TransferInit, TransferInv, AskingNow, Callers

LEMMA TransferStands ==
  ASSUME TransferInv, UNCHANGED transferVars PROVE TransferInv'
BY Zenon DEF TransferInv, transferVars, AskingNow

LEMMA TransferKeeps ==
  ASSUME TransferInv, Transfer PROVE TransferInv'
<1>0. MaxTurns \in Nat /\ MaxAttempts \in Nat
  BY TransferAssumption
<1>1. ASSUME NEW promise \in BOOLEAN, AgentSpeaks(promise) PROVE TransferInv'
  BY <1>0, <1>1 DEF AgentSpeaks, TransferInv, AskingNow
<1>2. ASSUME CallTool PROVE TransferInv'
  BY <1>0, <1>2 DEF CallTool, TransferInv, AskingNow, Callers
<1>3. ASSUME NEW interrupted \in BOOLEAN, TurnReported(interrupted) PROVE TransferInv'
  <2>1. turn' = [turn EXCEPT !.on = FALSE] /\ turn.on /\ turn.no \in 0 .. MaxTurns
        /\ UNCHANGED <<offered, done, announced, accepted, transferred, away>>
        /\ (UNCHANGED <<once, exec>>
            \/ (once' = turn.no /\ exec' = [exec EXCEPT !["repair"] = "called"] /\ once = 0))
    BY <1>3 DEF TurnReported, TransferInv
  <2>2. exec["repair"] \in {"none", "called", "going", "asking"}
    BY DEF TransferInv, Callers
  <2>3. exec' \in [Callers -> {"none", "called", "going", "asking"}]
        /\ (once' = 0 => exec'["repair"] = "none")
        /\ \A c \in Callers : exec[c] = "asking" <=> exec'[c] = "asking"
    BY <1>0, <2>1 DEF TransferInv, Callers
  <2>4. AskingNow("tool")' = AskingNow("tool") /\ AskingNow("repair")' = AskingNow("repair")
    BY <2>3 DEF AskingNow, Callers
  <2>5. turn' \in [no : 0 .. MaxTurns, promise : BOOLEAN, on : BOOLEAN] /\ once' \in 0 .. MaxTurns
        /\ ~turn'.on
    BY <1>0, <2>1 DEF TransferInv
  <2>6. QED BY <2>1, <2>3, <2>4, <2>5 DEF TransferInv
<1>4. ASSUME NEW c \in Callers, AlreadyDone(c) PROVE TransferInv'
  BY <1>0, <1>4 DEF AlreadyDone, TransferInv, AskingNow, Callers
<1>5. ASSUME NEW c \in Callers, GoAhead(c) PROVE TransferInv'
  BY <1>0, <1>5 DEF GoAhead, TransferInv, AskingNow, Callers
<1>6. ASSUME NEW c \in Callers, Announce(c) PROVE TransferInv'
  BY <1>0, <1>6 DEF Announce, PostTransferInitiated, TransferInv, AskingNow, Callers
<1>7. ASSUME NEW c \in Callers, TransferFails(c) PROVE TransferInv'
  <2>1. exec[c] = "asking" /\ exec' = [exec EXCEPT ![c] = "none"] /\ done' = FALSE
        /\ UNCHANGED <<offered, once, turn, announced, accepted, transferred, away>>
    BY <1>7 DEF TransferFails
  <2>2. {offered, done, away}' \subseteq BOOLEAN
    BY Zenon, <2>1 DEF TransferInv
  <2>3. accepted' + AskingNow("tool")' + AskingNow("repair")' <= announced'
    BY <1>0, <2>1 DEF TransferInv, AskingNow, Callers
  <2>4. exec' \in [Callers -> {"none", "called", "going", "asking"}]
        /\ (once' = 0 => exec'["repair"] = "none")
    BY <2>1 DEF TransferInv, Callers
  <2>5. QED BY <2>1, <2>2, <2>3, <2>4 DEF TransferInv
<1>8. ASSUME NEW c \in Callers, TransferMade(c) PROVE TransferInv'
  BY <1>0, <1>8 DEF TransferMade, TransferInv, AskingNow, Callers
<1>9. QED BY <1>1, <1>2, <1>3, <1>4, <1>5, <1>6, <1>7, <1>8 DEF Transfer

LEMMA TransferInvHolds == Spec => []TransferInv
<1>1. Init => TransferInv
  BY TransferInitially DEF Init
<1>2. TransferInv /\ [Next]_vars => TransferInv'
  BY PartsStepApart, TransferStands, TransferKeeps
<1>3. QED BY <1>1, <1>2, PTL DEF Spec

(* "let the model try again if the caller asks" (transfer.go, Execute):    *)
(* however many attempts the tool and the observer of promises make, and   *)
(* however these overlap, one that failed leaves the tool unspent.         *)
THEOREM FailedTransferCanBeRetriedHolds == Spec => []FailedTransferCanBeRetried
<1>1. TransferInv => FailedTransferCanBeRetried
  BY DEF TransferInv, FailedTransferCanBeRetried
<1>2. QED BY <1>1, TransferInvHolds, PTL

-----------------------------------------------------------------------------
(* The machine's frames, arriving and read.                                *)
LEMMA WordsArrive ==
  ASSUME NEW q \in Frames, NEW paused \in Nat, NEW quiet \in Nat
  PROVE  /\ WaitingOK(q, paused) => WaitingOK(Append(q, "loud"), 0)
         /\ CountedOK(q, quiet, paused) => CountedOK(Append(q, "loud"), quiet, 0)
         /\ Quiet(q, 1, Len(q)) => WaitingOK(Append(q, "loud"), 0)
<1> DEFINE r == Append(q, "loud")
<1>1. r \in Frames /\ Len(r) = Len(q) + 1 /\ r[Len(q) + 1] = "loud" /\ Len(q) \in Nat
      /\ \A i \in 1 .. Len(q) : r[i] = q[i]
  BY DEF Frames
<1>2. MaxPause \in Nat
  BY VoicemailAssumption
<1> HIDE DEF r
<1>3. \A i \in 1 .. Len(q) + 1 : \A j \in i .. Len(q) + 1 :
        r[i] = "loud" /\ Quiet(r, i + 1, j) => j <= Len(q) \/ i = j
  BY <1>1 DEF Quiet
<1>4. \A j \in 0 .. Len(q) + 1 : Quiet(r, 1, j) => j <= Len(q)
  BY <1>1 DEF Quiet
<1>5. \A i, j \in 0 .. Len(q) : Quiet(r, i + 1, j) <=> Quiet(q, i + 1, j)
  BY <1>1 DEF Quiet
<1>6. ASSUME WaitingOK(q, paused) PROVE WaitingOK(r, 0)
  BY <1>1, <1>2, <1>3, <1>5, <1>6 DEF WaitingOK, PauseOK
<1>7. ASSUME CountedOK(q, quiet, paused) PROVE CountedOK(r, quiet, 0)
  BY <1>1, <1>2, <1>4, <1>5, <1>7 DEF CountedOK, PauseOK
<1>8. ASSUME Quiet(q, 1, Len(q)) PROVE WaitingOK(r, 0)
  BY <1>1, <1>2, <1>3, <1>8 DEF WaitingOK, PauseOK, Quiet
<1>9. QED BY <1>6, <1>7, <1>8 DEF r

LEMMA PauseArrives ==
  ASSUME NEW q \in Frames, NEW paused \in Nat, paused < MaxPause, NEW quiet \in Nat
  PROVE  /\ WaitingOK(q, paused) => WaitingOK(Append(q, "quiet"), paused + 1)
         /\ CountedOK(q, quiet, paused) => CountedOK(Append(q, "quiet"), quiet, paused + 1)
         /\ Quiet(q, 1, Len(q)) => Quiet(Append(q, "quiet"), 1, Len(q) + 1)
<1> DEFINE r == Append(q, "quiet")
<1>1. r \in Frames /\ Len(r) = Len(q) + 1 /\ r[Len(q) + 1] = "quiet" /\ Len(q) \in Nat
      /\ \A i \in 1 .. Len(q) : r[i] = q[i]
  BY DEF Frames
<1>2. MaxPause \in Nat
  BY VoicemailAssumption
<1> HIDE DEF r
<1>3. \A i \in 0 .. Len(q), j \in 0 .. Len(q) + 1 :
        Quiet(r, i + 1, j) => Quiet(q, i + 1, IF j = Len(q) + 1 THEN Len(q) ELSE j)
  BY <1>1 DEF Quiet
<1>4. ASSUME WaitingOK(q, paused) PROVE WaitingOK(r, paused + 1)
  <2>1. SUFFICES ASSUME NEW i \in 1 .. Len(q) + 1, NEW j \in i .. Len(q) + 1,
                        r[i] = "loud", Quiet(r, i + 1, j)
                 PROVE  j - i <= MaxPause /\ (j = Len(q) + 1 => j - i <= paused + 1)
    BY <1>1 DEF WaitingOK, PauseOK
  <2>2. i \in 1 .. Len(q) /\ q[i] = "loud"
    BY <1>1, <2>1
  <2>3. CASE j = Len(q) + 1
    <3>1. Quiet(q, i + 1, Len(q))
      BY <1>1, <1>3, <2>1, <2>2, <2>3
    <3>2. Len(q) - i <= paused
      BY <1>1, <1>4, <2>2, <3>1 DEF WaitingOK, PauseOK
    <3>3. QED BY <1>1, <1>2, <2>2, <2>3, <3>2
  <2>4. CASE j # Len(q) + 1
    <3>1. j \in i .. Len(q) /\ Quiet(q, i + 1, j)
      BY SMTT(30), <1>1, <1>3, <2>1, <2>2, <2>4
    <3>2. QED BY <1>4, <2>2, <2>4, <3>1 DEF WaitingOK, PauseOK
  <2>5. QED BY <2>3, <2>4
<1>5. ASSUME CountedOK(q, quiet, paused) PROVE CountedOK(r, quiet, paused + 1)
  <2>1. SUFFICES ASSUME NEW j \in 0 .. Len(q) + 1, Quiet(r, 1, j)
                 PROVE  quiet + j <= MaxPause /\ (j = Len(q) + 1 => quiet + j <= paused + 1)
    BY <1>1 DEF CountedOK, PauseOK
  <2>2. Quiet(q, 1, IF j = Len(q) + 1 THEN Len(q) ELSE j)
    BY <1>1, <2>1 DEF Quiet
  <2>3. QED BY <1>1, <1>2, <1>5, <2>1, <2>2 DEF CountedOK, PauseOK
<1>6. ASSUME Quiet(q, 1, Len(q)) PROVE Quiet(r, 1, Len(q) + 1)
  BY <1>1, <1>6 DEF Quiet
<1>7. QED BY <1>4, <1>5, <1>6 DEF r

LEMMA FrameRead ==
  ASSUME NEW q \in Frames, q # <<>>, NEW paused \in Nat, NEW quiet \in Nat
  PROVE  /\ WaitingOK(q, paused) => WaitingOK(Tail(q), paused)
         /\ WaitingOK(q, paused) /\ Head(q) = "loud" => CountedOK(Tail(q), 0, paused)
         /\ CountedOK(q, quiet, paused) /\ Head(q) = "quiet" =>
              quiet + 1 <= MaxPause /\ CountedOK(Tail(q), quiet + 1, paused)
         /\ Quiet(q, 1, Len(q)) => Quiet(Tail(q), 1, Len(Tail(q))) /\ Head(q) = "quiet"
<1> DEFINE r == Tail(q)
<1>1. r \in Frames /\ Len(r) = Len(q) - 1 /\ Len(q) \in Nat \ {0} /\ Head(q) = q[1]
      /\ \A i \in 1 .. Len(q) - 1 : r[i] = q[i + 1]
  BY DEF Frames
<1>2. MaxPause \in Nat
  BY VoicemailAssumption
<1> HIDE DEF r
<1>3. \A k \in 2 .. Len(q) : k - 1 \in 1 .. Len(q) - 1 /\ q[k] = r[k - 1]
  <2>1. SUFFICES ASSUME NEW k \in 2 .. Len(q)
                 PROVE  k - 1 \in 1 .. Len(q) - 1 /\ q[k] = r[k - 1]
    OBVIOUS
  <2>2. k - 1 \in 1 .. Len(q) - 1 /\ (k - 1) + 1 = k
    BY <1>1
  <2>3. QED BY <1>1, <2>2
<1>4. ASSUME WaitingOK(q, paused) PROVE WaitingOK(r, paused)
  <2>1. SUFFICES ASSUME NEW i \in 1 .. Len(q) - 1, NEW j \in i .. Len(q) - 1,
                        r[i] = "loud", Quiet(r, i + 1, j)
                 PROVE  j - i <= MaxPause /\ (j = Len(q) - 1 => j - i <= paused)
    BY <1>1 DEF WaitingOK, PauseOK
  <2>2. q[i + 1] = "loud" /\ Quiet(q, (i + 1) + 1, j + 1)
    <3>1. q[i + 1] = "loud"
      BY <1>1, <2>1
    <3>2. ASSUME NEW k \in (i + 1) + 1 .. j + 1 PROVE q[k] = "quiet"
      <4>1. k \in 2 .. Len(q) /\ k - 1 \in i + 1 .. j
        BY <1>1
      <4>2. QED BY <1>3, <2>1, <4>1 DEF Quiet
    <3>3. QED BY <3>1, <3>2 DEF Quiet
  <2>3. (j + 1) - (i + 1) <= MaxPause /\ (j + 1 = Len(q) => (j + 1) - (i + 1) <= paused)
    BY <1>1, <1>4, <2>2 DEF WaitingOK, PauseOK
  <2>4. QED BY <1>1, <1>2, <2>3
<1>5. ASSUME WaitingOK(q, paused), Head(q) = "loud" PROVE CountedOK(r, 0, paused)
  <2>1. SUFFICES ASSUME NEW j \in 0 .. Len(q) - 1, Quiet(r, 1, j)
                 PROVE  j <= MaxPause /\ (j = Len(q) - 1 => j <= paused)
    BY <1>1 DEF CountedOK, PauseOK
  <2>2. Quiet(q, 1 + 1, j + 1)
    <3>1. ASSUME NEW k \in 1 + 1 .. j + 1 PROVE q[k] = "quiet"
      <4>1. k \in 2 .. Len(q) /\ k - 1 \in 1 .. j
        BY <1>1
      <4>2. QED BY <1>3, <2>1, <4>1 DEF Quiet
    <3>2. QED BY <3>1 DEF Quiet
  <2>3. (j + 1) - 1 <= MaxPause /\ (j + 1 = Len(q) => (j + 1) - 1 <= paused)
    BY <1>1, <1>5, <2>2 DEF WaitingOK, PauseOK
  <2>4. QED BY <1>1, <1>2, <2>3
<1>6. ASSUME CountedOK(q, quiet, paused), Head(q) = "quiet"
      PROVE  quiet + 1 <= MaxPause /\ CountedOK(r, quiet + 1, paused)
  <2>1. ASSUME NEW j \in 0 .. Len(q) - 1, Quiet(r, 1, j)
        PROVE  quiet + (j + 1) <= MaxPause /\ (j + 1 = Len(q) => quiet + (j + 1) <= paused)
    <3>1. Quiet(q, 1, j + 1)
      <4>1. ASSUME NEW k \in 1 .. j + 1 PROVE q[k] = "quiet"
        <5>1. CASE k = 1
          BY <1>1, <1>6, <5>1
        <5>2. CASE k # 1
          <6>1. k \in 2 .. Len(q) /\ k - 1 \in 1 .. j
            BY <1>1, <5>2
          <6>2. QED BY <1>3, <2>1, <6>1 DEF Quiet
        <5>3. QED BY <5>1, <5>2
      <4>2. QED BY <4>1 DEF Quiet
    <3>2. QED BY <1>1, <1>6, <3>1 DEF CountedOK, PauseOK
  <2>2. quiet + 1 <= MaxPause
    <3>1. Quiet(r, 1, 0)
      BY DEF Quiet
    <3>2. QED BY <1>1, <2>1, <3>1
  <2>3. CountedOK(r, quiet + 1, paused)
    BY <1>1, <2>1 DEF CountedOK, PauseOK
  <2>4. QED BY <2>2, <2>3
<1>7. ASSUME Quiet(q, 1, Len(q)) PROVE Quiet(r, 1, Len(r)) /\ Head(q) = "quiet"
  BY <1>1, <1>7 DEF Quiet
<1>8. QED BY <1>4, <1>5, <1>6, <1>7 DEF r

-----------------------------------------------------------------------------
(* The machine's steps.                                                    *)
LEMMA MachineFacts ==
  ASSUME MachineInv
  PROVE  /\ MaxPause \in Nat /\ SilenceNeeded \in Nat /\ MaxPause < SilenceNeeded
         /\ inbound \in Frames /\ Len(inbound) \in Nat
         /\ mailbox.paused \in Nat /\ leaving.quiet \in Nat /\ leaving.quiet < SilenceNeeded
BY VoicemailAssumption DEF MachineInv, MachineTypes, Frames

LEMMA MachineInitially ==
  ASSUME VoicemailInit PROVE MachineInv
<1>1. MaxPause \in Nat /\ SilenceNeeded \in Nat \ {0} /\ MaxInbound \in Nat
  BY VoicemailAssumption
<1>2. /\ inbound = <<>> /\ told = "none" /\ registered \in BOOLEAN
      /\ mailbox = [at |-> "silent", paused |-> 0, beeped |-> FALSE]
      /\ leaving = [at |-> "greeting", heard |-> FALSE, quiet |-> 0, cue |-> "none"]
  BY DEF VoicemailInit
<1>3. MachineTypes
  BY <1>1, <1>2 DEF MachineTypes, NotYet, Frames
<1>4. QED BY <1>2, <1>3 DEF MachineInv, MessageAfterGreeting, Quiet

LEMMA MachineStands ==
  ASSUME MachineInv, UNCHANGED machineVars PROVE MachineInv'
BY ZenonT(40) DEF MachineInv, machineVars, MachineTypes, MessageAfterGreeting

LEMMA ArrivesFits ==
  ASSUME NEW f \in {"loud", "quiet"}, MachineInv, Arrives(f)
  PROVE  inbound' \in Frames /\ Len(inbound') <= MaxInbound
<1>1. inbound \in Frames /\ Len(inbound) < MaxInbound /\ inbound' = Append(inbound, f)
      /\ MaxInbound \in Nat
  BY VoicemailAssumption DEF Arrives, MachineInv, MachineTypes
<1>2. Append(inbound, f) \in Frames /\ Len(Append(inbound, f)) = Len(inbound) + 1
      /\ Len(inbound) \in Nat
  BY <1>1 DEF Frames
<1>3. QED BY <1>1, <1>2

LEMMA MailboxSpeaksKeeps ==
  ASSUME MachineInv, MailboxSpeaks PROVE MachineInv'
<1>1. /\ mailbox.at # "over" /\ Len(inbound) < MaxInbound /\ inbound' = Append(inbound, "loud")
      /\ mailbox' = [mailbox EXCEPT !.at = "talking", !.paused = 0]
      /\ UNCHANGED <<told, leaving, registered>>
  BY DEF MailboxSpeaks, Arrives
<1>2. MachineTypes'
  <2>1. inbound' \in Frames /\ Len(inbound') <= MaxInbound
    BY ArrivesFits DEF MailboxSpeaks
  <2>2. mailbox' \in [at : {"silent", "talking", "over"}, paused : 0 .. MaxPause, beeped : BOOLEAN]
    <3>1. 0 \in 0 .. MaxPause
      BY MachineFacts
    <3>2. QED BY <1>1, <3>1 DEF MachineInv, MachineTypes
  <2>3. QED BY <1>1, <2>1, <2>2 DEF MachineInv, MachineTypes
<1>3. mailbox'.at = "talking" /\ mailbox'.paused = 0 /\ ~mailbox'.beeped
  BY <1>1 DEF MachineInv, MachineTypes
<1>4. leaving.at \in NotYet => WaitingOK(Append(inbound, "loud"), 0)
  BY <1>1, MachineFacts, WordsArrive DEF MachineInv, MachineTypes
<1>5. leaving.at \in NotYet /\ leaving.heard => CountedOK(Append(inbound, "loud"), leaving.quiet, 0)
  BY <1>1, MachineFacts, WordsArrive DEF MachineInv, MachineTypes
<1>6. QED BY <1>1, <1>2, <1>3, <1>4, <1>5 DEF MachineInv, MessageAfterGreeting

LEMMA MailboxPausesKeeps ==
  ASSUME MachineInv, MailboxPauses PROVE MachineInv'
<1>1. /\ mailbox.at = "talking" /\ mailbox.paused < MaxPause
      /\ Len(inbound) < MaxInbound /\ inbound' = Append(inbound, "quiet")
      /\ mailbox' = [mailbox EXCEPT !.paused = mailbox.paused + 1]
      /\ UNCHANGED <<told, leaving, registered>>
  BY DEF MailboxPauses, Arrives
<1>2. MachineTypes'
  <2>1. inbound' \in Frames /\ Len(inbound') <= MaxInbound
    BY ArrivesFits DEF MailboxPauses
  <2>2. mailbox.paused + 1 \in 0 .. MaxPause
    BY <1>1, MachineFacts
  <2>3. mailbox' \in [at : {"silent", "talking", "over"}, paused : 0 .. MaxPause, beeped : BOOLEAN]
    BY <1>1, <2>2 DEF MachineInv, MachineTypes
  <2>4. QED BY <1>1, <2>1, <2>3 DEF MachineInv, MachineTypes
<1>3. mailbox'.at = "talking" /\ mailbox'.paused = mailbox.paused + 1
      /\ mailbox'.beeped = mailbox.beeped
  BY <1>1 DEF MachineInv, MachineTypes
<1>4. leaving.at \in NotYet =>
        /\ WaitingOK(Append(inbound, "quiet"), mailbox.paused + 1)
        /\ leaving.heard => CountedOK(Append(inbound, "quiet"), leaving.quiet, mailbox.paused + 1)
  BY <1>1, MachineFacts, PauseArrives DEF MachineInv
<1>5. QED BY <1>1, <1>2, <1>3, <1>4 DEF MachineInv, MessageAfterGreeting

LEMMA MailboxQuietKeeps ==
  ASSUME MachineInv, MailboxQuiet PROVE MachineInv'
<1>1. /\ mailbox.at # "talking" /\ Len(inbound) < MaxInbound /\ inbound' = Append(inbound, "quiet")
      /\ UNCHANGED <<mailbox, told, leaving, registered>>
  BY DEF MailboxQuiet, Arrives
<1>2. MachineTypes'
  <2>1. inbound' \in Frames /\ Len(inbound') <= MaxInbound
    BY ArrivesFits DEF MailboxQuiet
  <2>2. QED BY <1>1, <2>1 DEF MachineInv, MachineTypes
<1>3. Quiet(inbound, 1, Len(inbound)) => Quiet(inbound', 1, Len(inbound'))
  BY <1>1, MachineFacts DEF Frames, Quiet
<1>4. QED BY <1>1, <1>2, <1>3 DEF MachineInv, MessageAfterGreeting

LEMMA MailboxEndsKeeps ==
  ASSUME MachineInv, MailboxEnds \/ MailboxBeeps PROVE MachineInv'
<1>1. /\ mailbox' = [mailbox EXCEPT !.at = "over"] \/ mailbox' = [mailbox EXCEPT !.beeped = TRUE]
      /\ inbound' = inbound \/ (Len(inbound) < MaxInbound /\ inbound' = Append(inbound, "loud"))
      /\ mailbox'.at = "over"
      /\ UNCHANGED <<told, leaving, registered>>
  BY DEF MailboxEnds, MailboxBeeps, Arrives, MachineInv, MachineTypes
<1>2. MachineTypes'
  <2>1. inbound' \in Frames /\ Len(inbound') <= MaxInbound
    BY ArrivesFits DEF MailboxEnds, MailboxBeeps, MachineInv, MachineTypes
  <2>2. mailbox' \in [at : {"silent", "talking", "over"}, paused : 0 .. MaxPause, beeped : BOOLEAN]
    BY <1>1 DEF MachineInv, MachineTypes
  <2>3. QED BY <1>1, <2>1, <2>2 DEF MachineInv, MachineTypes
<1>3. QED BY <1>1, <1>2 DEF MachineInv, MessageAfterGreeting

LEMMA SignalsKeep ==
  ASSUME MachineInv,
         CallRemoved \/ (\E result \in {"beep_detected", "no_beep_detected"} : SignalBeep(result))
  PROVE  MachineInv'
<1>1. UNCHANGED <<mailbox, inbound, leaving>> /\ registered' \in BOOLEAN
      /\ told' \in {"none", "beep_detected", "no_beep_detected"}
      /\ (told' = "beep_detected" => told = "beep_detected" \/ mailbox.beeped)
  BY DEF CallRemoved, SignalBeep, MachineInv, MachineTypes
<1>2. QED BY <1>1 DEF MachineInv, MachineTypes, MessageAfterGreeting

\* The leaver's steps; each wait ends with a look at the registry.
LEMMA LeavingSteps ==
  ASSUME MachineInv, UNCHANGED <<mailbox, told, registered>>,
         inbound' = inbound \/ inbound' = <<>>, inbound' # inbound => leaving'.at = "hangup",
         NEW at \in NotYet \union {"play", "mark", "hangup", "done"},
         NEW cue \in {"none", "beep", "cap", "error"}, cue = "beep" => mailbox.at = "over",
         \/ leaving' = [leaving EXCEPT !.at = at]
         \/ leaving' = [leaving EXCEPT !.at = at, !.cue = cue],
         at \in NotYet => leaving.at \in NotYet
  PROVE  MachineInv'
<1>1. leaving \in [at : NotYet \union {"play", "mark", "hangup", "done"}, heard : BOOLEAN,
                   quiet : 0 .. SilenceNeeded - 1,
                   cue : {"none", "beep", "silence", "cap", "error"}]
  BY DEF MachineInv, MachineTypes
<1>2. /\ leaving' \in [at : NotYet \union {"play", "mark", "hangup", "done"}, heard : BOOLEAN,
                       quiet : 0 .. SilenceNeeded - 1,
                       cue : {"none", "beep", "silence", "cap", "error"}]
      /\ leaving'.at = at /\ leaving'.heard = leaving.heard /\ leaving'.quiet = leaving.quiet
      /\ leaving'.cue \in {leaving.cue, cue}
  BY <1>1
<1>3. inbound' \in Frames /\ Len(inbound') <= MaxInbound
      /\ (inbound' # inbound => Quiet(inbound', 1, Len(inbound')))
  <2>1. <<>> \in Frames /\ Len(<<>>) <= MaxInbound /\ Quiet(<<>>, 1, Len(<<>>))
    BY VoicemailAssumption DEF Frames, Quiet
  <2>2. inbound \in Frames /\ Len(inbound) <= MaxInbound
    BY DEF MachineInv, MachineTypes
  <2>3. QED BY <2>1, <2>2
<1>4. MachineTypes'
  BY <1>2, <1>3 DEF MachineInv, MachineTypes
<1>5. inbound' = inbound \/ at = "hangup"
  BY <1>2
<1>6. QED BY <1>2, <1>3, <1>4, <1>5 DEF MachineInv, MessageAfterGreeting, NotYet

LEMMA GoesOnSteps ==
  ASSUME MachineInv, UNCHANGED <<mailbox, told, registered>>, inbound' = inbound,
         NEW at \in NotYet \union {"play", "mark", "hangup", "done"},
         NEW cue \in {"none", "beep", "cap", "error"}, cue = "beep" => mailbox.at = "over",
         GoesOn(at, cue), leaving.at \in NotYet
  PROVE  MachineInv'
<1>1. CASE registered
  BY <1>1, LeavingSteps DEF GoesOn
<1>2. CASE ~registered
  BY <1>2, LeavingSteps DEF GoesOn
<1>3. QED BY <1>1, <1>2

LEMMA LeavingKeeps ==
  ASSUME MachineInv,
         \/ \E message \in BOOLEAN : GreetingOver(message)
         \/ WaitBeep \/ BeepDeadline \/ NoticesTheEnd \/ ReadFails
         \/ PlayMessage \/ AwaitMark \/ HangUpMailbox
  PROVE  MachineInv'
<1>1. ASSUME NEW message \in BOOLEAN, GreetingOver(message) PROVE MachineInv'
  BY <1>1, LeavingSteps DEF GreetingOver, Becomes, NotYet
<1>2. CASE WaitBeep
  BY <1>2, GoesOnSteps DEF WaitBeep, NotYet, MachineInv, MachineTypes
<1>3. CASE BeepDeadline
  BY <1>3, GoesOnSteps DEF BeepDeadline, NotYet
<1>4. CASE NoticesTheEnd
  BY <1>4, LeavingSteps DEF NoticesTheEnd, Becomes, NotYet
<1>5. CASE ReadFails
  BY <1>5, GoesOnSteps DEF ReadFails, NotYet
<1>6. CASE PlayMessage
  BY <1>6, LeavingSteps DEF PlayMessage, Becomes, NotYet
<1>7. CASE AwaitMark
  BY <1>7, LeavingSteps DEF AwaitMark, Becomes, NotYet, MachineInv, MachineTypes
<1>8. CASE HangUpMailbox
  BY <1>8, LeavingSteps DEF HangUpMailbox, Becomes, NotYet
<1>9. QED BY <1>1, <1>2, <1>3, <1>4, <1>5, <1>6, <1>7, <1>8

\* Listening: silence long enough to go by is not a pause.
LEMMA ListenKeeps ==
  ASSUME MachineInv, NEW capped \in BOOLEAN, Listen(capped) PROVE MachineInv'
<1> DEFINE hears == leaving.heard \/ Head(inbound) = "loud"
           quiet == IF ~hears \/ Head(inbound) = "loud" THEN 0 ELSE leaving.quiet + 1
<1>1. /\ leaving.at = "mailbox" /\ inbound # <<>> /\ inbound' = Tail(inbound)
      /\ UNCHANGED <<mailbox, told, registered>>
      /\ IF quiet = SilenceNeeded THEN GoesOn("play", "silence")
         ELSE IF capped THEN GoesOn("play", "cap")
         ELSE leaving' = [leaving EXCEPT !.heard = hears, !.quiet = quiet]
  BY DEF Listen
<1>2. inbound' \in Frames /\ Len(inbound') <= MaxInbound /\ Head(inbound) \in {"loud", "quiet"}
  <2>1. inbound \in Seq({"loud", "quiet"}) /\ inbound # <<>> /\ Len(inbound) <= MaxInbound
        /\ MaxInbound \in Nat
    BY <1>1, VoicemailAssumption DEF MachineInv, MachineTypes, Frames
  <2>2. Tail(inbound) \in Seq({"loud", "quiet"}) /\ Len(Tail(inbound)) = Len(inbound) - 1
        /\ Head(inbound) \in {"loud", "quiet"} /\ Len(inbound) \in Nat
    BY <2>1
  <2>3. QED BY <1>1, <2>1, <2>2 DEF Frames
<1>3. quiet \in 0 .. SilenceNeeded /\ hears \in BOOLEAN
  BY MachineFacts
<1>4. mailbox.at = "silent" => ~hears /\ quiet = 0 /\ Quiet(inbound', 1, Len(inbound'))
  BY <1>1, FrameRead, MachineFacts DEF MachineInv
<1>5. mailbox.at = "talking" => WaitingOK(inbound', mailbox.paused) /\ quiet <= MaxPause
                                /\ (hears => CountedOK(inbound', quiet, mailbox.paused))
  <2>1. SUFFICES ASSUME mailbox.at = "talking"
                 PROVE  WaitingOK(inbound', mailbox.paused) /\ quiet <= MaxPause
                        /\ (hears => CountedOK(inbound', quiet, mailbox.paused))
    OBVIOUS
  <2>2. WaitingOK(inbound, mailbox.paused)
        /\ (leaving.heard => CountedOK(inbound, leaving.quiet, mailbox.paused))
    BY <1>1, <2>1 DEF MachineInv, NotYet
  <2>3. WaitingOK(inbound', mailbox.paused)
    BY <1>1, <2>2, FrameRead, MachineFacts
  <2>4. CASE Head(inbound) = "loud"
    BY <1>1, <2>2, <2>3, <2>4, FrameRead, MachineFacts
  <2>5. CASE Head(inbound) # "loud" /\ leaving.heard
    BY <1>1, <1>2, <2>2, <2>3, <2>5, FrameRead, MachineFacts
  <2>6. CASE Head(inbound) # "loud" /\ ~leaving.heard
    BY <2>3, <2>6, MachineFacts
  <2>7. QED BY <2>4, <2>5, <2>6
<1>6. ~hears => quiet = 0
  OBVIOUS
<1> HIDE DEF hears, quiet
<1>7. CASE quiet = SilenceNeeded
  <2>1. mailbox.at = "over"
    BY <1>3, <1>4, <1>5, <1>7, MachineFacts DEF MachineInv, MachineTypes
  <2>2. leaving' = [leaving EXCEPT !.at = "play", !.cue = "silence"]
        \/ leaving' = [leaving EXCEPT !.at = "done", !.cue = "none"]
    BY <1>1, <1>7 DEF GoesOn
  <2>3. ~leaving'.heard => leaving'.quiet = 0
    BY <1>1, <1>2, <2>2 DEF MachineInv, MachineTypes
  <2>4. MachineTypes'
    BY <1>1, <1>2, <2>2 DEF MachineInv, MachineTypes
  <2>5. QED BY <1>1, <2>1, <2>3, <2>4 DEF MachineInv, MessageAfterGreeting
<1>8. CASE quiet # SilenceNeeded /\ capped
  <2>1. leaving' = [leaving EXCEPT !.at = "play", !.cue = "cap"]
        \/ leaving' = [leaving EXCEPT !.at = "done", !.cue = "none"]
    BY <1>1, <1>8 DEF GoesOn
  <2>2. /\ leaving'.at \notin NotYet /\ leaving'.heard = leaving.heard
        /\ leaving'.quiet = leaving.quiet /\ leaving'.cue \in {"cap", "none"}
    BY <2>1 DEF MachineInv, MachineTypes, NotYet
  <2>3. MachineTypes'
    BY <1>1, <1>2, <2>1 DEF MachineInv, MachineTypes
  <2>4. QED BY <1>1, <1>4, <2>2, <2>3 DEF MachineInv, MessageAfterGreeting
<1>9. CASE quiet # SilenceNeeded /\ ~capped
  <2>1. leaving' = [leaving EXCEPT !.heard = hears, !.quiet = quiet]
    BY <1>1, <1>9
  <2>2. quiet \in 0 .. SilenceNeeded - 1
    BY <1>3, <1>9, MachineFacts
  <2>3. /\ leaving' \in [at : NotYet \union {"play", "mark", "hangup", "done"}, heard : BOOLEAN,
                         quiet : 0 .. SilenceNeeded - 1,
                         cue : {"none", "beep", "silence", "cap", "error"}]
        /\ leaving'.at = leaving.at /\ leaving'.heard = hears
        /\ leaving'.quiet = quiet /\ leaving'.cue = leaving.cue
    BY <1>3, <2>1, <2>2 DEF MachineInv, MachineTypes
  <2>4. MachineTypes'
    BY <1>1, <1>2, <2>3 DEF MachineInv, MachineTypes
  <2>5. QED BY <1>1, <1>4, <1>5, <1>6, <2>3, <2>4 DEF MachineInv, MessageAfterGreeting
<1>10. QED BY <1>7, <1>8, <1>9

LEMMA MachineKeeps ==
  ASSUME MachineInv, Message PROVE MachineInv'
<1>1. ASSUME NEW g \in Getters, NoEngine(g) \/ Render(g) \/ \E k \in Announcements : LookUp(g, k)
      PROVE  MachineInv'
  BY <1>1, MachineStands DEF NoEngine, Render, LookUp
<1>2. QED BY <1>1, MailboxSpeaksKeeps, MailboxPausesKeeps, MailboxQuietKeeps, MailboxEndsKeeps,
      SignalsKeep, LeavingKeeps, ListenKeeps DEF Message

LEMMA MachineInvHolds == Spec => []MachineInv
<1>1. Init => MachineInv
  BY MachineInitially DEF Init
<1>2. MachineInv /\ [Next]_vars => MachineInv'
  BY PartsStepApart, MachineStands, MachineKeeps DEF voicemailVars
<1>3. QED BY <1>1, <1>2, PTL DEF Spec

(* The message left to a machine (telnyx_call.go, runVoicemailCall): for   *)
(* every pause a greeting may hold that is shorter than the silence waited *)
(* for, and every backlog on the socket, a message cued by the beep or by  *)
(* silence starts when the greeting is over.                               *)
THEOREM MessageAfterGreetingHolds == Spec => []MessageAfterGreeting
<1>1. MachineInv => MessageAfterGreeting
  BY DEF MachineInv
<1>2. QED BY <1>1, MachineInvHolds, PTL

-----------------------------------------------------------------------------
(* The cache's steps.                                                      *)
\* What entries take adds up.
LEMMA BytesAdd ==
  ASSUME NEW A, NEW B, A \intersect B = {}, IsFiniteSet(Bytes(A)), IsFiniteSet(Bytes(B))
  PROVE  /\ IsFiniteSet(Bytes(A \union B))
         /\ SizeOfAll(A) \in Nat /\ SizeOfAll(B) \in Nat
         /\ SizeOfAll(A \union B) = SizeOfAll(A) + SizeOfAll(B)
<1>1. Bytes(A \union B) = Bytes(A) \union Bytes(B)
  BY DEF Bytes
<1>2. Bytes(A) \intersect Bytes(B) = {}
  <2>1. ASSUME NEW b, b \in Bytes(A), b \in Bytes(B) PROVE FALSE
    <3>1. b[1] \in A
      BY <2>1 DEF Bytes
    <3>2. b[1] \in B
      BY <2>1 DEF Bytes
    <3>3. QED BY <3>1, <3>2
  <2>2. QED BY <2>1
<1>3. IsFiniteSet(Bytes(A \union B))
      /\ Cardinality(Bytes(A) \union Bytes(B)) = Cardinality(Bytes(A)) + Cardinality(Bytes(B)) - 0
  <2>1. IsFiniteSet(Bytes(A) \union Bytes(B))
        /\ Cardinality(Bytes(A) \union Bytes(B))
             = Cardinality(Bytes(A)) + Cardinality(Bytes(B))
                 - Cardinality(Bytes(A) \intersect Bytes(B))
    BY FS_Union
  <2>2. Cardinality(Bytes(A) \intersect Bytes(B)) = 0
    BY Zenon, <1>2, FS_EmptySet
  <2>3. QED BY Zenon, <1>1, <2>1, <2>2
<1>4. Cardinality(Bytes(A)) \in Nat /\ Cardinality(Bytes(B)) \in Nat
  BY FS_CardinalityType
<1>5. \A m, n \in Nat : m + n - 0 = m + n
  OBVIOUS
<1>6. QED BY Zenon, <1>1, <1>3, <1>4, <1>5 DEF SizeOfAll, Bytes

LEMMA BytesOfPart ==
  ASSUME NEW A, NEW B, B \subseteq A, IsFiniteSet(Bytes(A))
  PROVE  /\ IsFiniteSet(Bytes(B)) /\ IsFiniteSet(Bytes(A \ B))
         /\ SizeOfAll(A \ B) = SizeOfAll(A) - SizeOfAll(B)
         /\ SizeOfAll(B) \in Nat
<1>1. Bytes(B) \subseteq Bytes(A) /\ Bytes(A \ B) \subseteq Bytes(A)
  BY DEF Bytes
<1>2. IsFiniteSet(Bytes(B)) /\ IsFiniteSet(Bytes(A \ B))
  BY <1>1, FS_Subset
<1>3. (A \ B) \union B = A /\ (A \ B) \intersect B = {}
  OBVIOUS
<1>4. SizeOfAll(A \ B) \in Nat /\ SizeOfAll(B) \in Nat
      /\ SizeOfAll((A \ B) \union B) = SizeOfAll(A \ B) + SizeOfAll(B)
  BY Zenon, <1>2, <1>3, BytesAdd
<1>5. SizeOfAll(A) = SizeOfAll(A \ B) + SizeOfAll(B)
  BY Zenon, <1>3, <1>4
<1>6. QED BY <1>2, <1>4, <1>5

LEMMA BytesOfOne ==
  ASSUME NEW k \in Announcements
  PROVE  IsFiniteSet(Bytes({k})) /\ SizeOfAll({k}) = SizeOf[k] /\ SizeOf[k] \in Nat
<1>1. SizeOf[k] \in Nat /\ SizeOf[k] \in Int /\ 1 \in Int
  BY VoicemailAssumption
<1>2. Bytes({k}) = {k} \X (1 .. SizeOf[k])
  BY DEF Bytes
<1>3. IsFiniteSet(1 .. SizeOf[k])
      /\ Cardinality(1 .. SizeOf[k]) = IF 1 > SizeOf[k] THEN 0 ELSE SizeOf[k] - 1 + 1
  BY <1>1, FS_Interval
<1>4. Cardinality(1 .. SizeOf[k]) = SizeOf[k]
  BY <1>1, <1>3
<1>5. IsFiniteSet({k}) /\ Cardinality({k}) = 1
  BY FS_Singleton
<1>6. IsFiniteSet(Bytes({k})) /\ Cardinality(Bytes({k})) = 1 * SizeOf[k]
  <2>1. IsFiniteSet({k} \X (1 .. SizeOf[k]))
        /\ Cardinality({k} \X (1 .. SizeOf[k])) = Cardinality({k}) * Cardinality(1 .. SizeOf[k])
    BY <1>3, <1>5, FS_Product
  <2>2. QED BY Zenon, <1>2, <1>4, <1>5, <2>1
<1>7. 1 * SizeOf[k] = SizeOf[k]
  BY <1>1
<1>8. QED BY Zenon, <1>1, <1>6, <1>7 DEF SizeOfAll, Bytes

LEMMA LeastOfSome ==
  ASSUME NEW T \in SUBSET Nat, T # {} PROVE Min(T) \in T
<1>1. \E x \in T : \A y \in T : ~ (<<y, x>> \in OpToRel(<, Nat))
  BY NatLessThanWellFounded, WFMin
<1>2. PICK x \in T : \A y \in T : ~ (<<y, x>> \in OpToRel(<, Nat))
  BY <1>1
<1>3. \A y \in T : ~ (y < x)
  <2>1. \A y \in T : <<y, x>> \in Nat \X Nat /\ <<y, x>>[1] = y /\ <<y, x>>[2] = x
    OBVIOUS
  <2>2. QED BY Zenon, <1>2, <2>1 DEF OpToRel
<1>4. \A y \in T : x <= y
  BY <1>3
<1>5. QED BY <1>4 DEF Min

\* put, by the number of entries that go.
AllOf(k) == Append(order, k)
OldestOf(k, n) == ToSet(SubSeq(AllOf(k), 1, n)) \intersect (held \union {k})
LeftOf(k, n) == bytes + SizeOf[k] - SizeOfAll(OldestOf(k, n))
LEMMA StoresSome ==
  ASSUME NEW k, Stores(k), order \in Seq(Announcements), k \in Announcements
  PROVE  \E n \in 0 .. Len(order) :
           /\ n = Len(order) \/ LeftOf(k, n) <= CacheMax
           /\ order' = SubSeq(AllOf(k), n + 1, Len(AllOf(k)))
           /\ held' = (held \union {k}) \ OldestOf(k, n)
           /\ bytes' = LeftOf(k, n)
<1> DEFINE T == {i \in 0 .. Len(AllOf(k)) - 1 :
                   i = Len(AllOf(k)) - 1 \/ LeftOf(k, i) <= CacheMax}
           n == Min(T)
<1>1. /\ order' = SubSeq(AllOf(k), n + 1, Len(AllOf(k)))
      /\ held' = (held \union {k}) \ OldestOf(k, n)
      /\ bytes' = LeftOf(k, n)
  BY Zenon DEF Stores, AllOf, OldestOf, LeftOf
<1>2. Len(AllOf(k)) - 1 = Len(order) /\ Len(order) \in Nat
  BY DEF AllOf
<1>3. T \subseteq 0 .. Len(order) /\ Len(order) \in T
  BY <1>2
<1>4. n \in T
  <2> HIDE DEF T
  <2>1. T \in SUBSET Nat /\ T # {}
    BY <1>2, <1>3
  <2>2. QED BY <2>1, LeastOfSome DEF n
<1>5. n \in 0 .. Len(order) /\ (n = Len(order) \/ LeftOf(k, n) <= CacheMax)
  <2>1. \A i \in T : i \in 0 .. Len(order) /\ (i = Len(order) \/ LeftOf(k, i) <= CacheMax)
    BY <1>2
  <2> HIDE DEF n, T
  <2>2. QED BY <1>4, <2>1
<1> HIDE DEF n
<1>6. QED BY <1>1, <1>5

LEMMA StoresKeeps ==
  ASSUME CacheInv, NEW k \in Announcements, k \notin held, Stores(k),
         wants' \in [Getters -> Announcements \union {"none"}]
  PROVE  CacheInv'
<1> DEFINE L == Len(order)
           all == AllOf(k)
<1>1. order \in Seq(Announcements) /\ L \in Nat /\ ToSet(order) = held /\ DOMAIN order = 1 .. L
      /\ \A i, j \in 1 .. L : order[i] = order[j] => i = j
  BY DEF CacheInv
<1>2. PICK n \in 0 .. L :
           /\ n = L \/ LeftOf(k, n) <= CacheMax
           /\ order' = SubSeq(all, n + 1, Len(all))
           /\ held' = (held \union {k}) \ OldestOf(k, n)
           /\ bytes' = LeftOf(k, n)
  BY <1>1, StoresSome
<1>3. /\ all \in Seq(Announcements) /\ Len(all) = L + 1 /\ all[L + 1] = k
      /\ \A i \in 1 .. L : all[i] = order[i]
  BY <1>1 DEF AllOf
<1> HIDE DEF all
<1>4. \A x : x \in held <=> \E i \in 1 .. L : x = all[i]
  BY <1>1, <1>3 DEF ToSet
<1> HIDE DEF L
<1>5. \A i, j \in 1 .. (L + 1) : all[i] = all[j] => i = j
  <2>1. \A i \in 1 .. (L + 1) : i \in 1 .. L \/ i = L + 1
    BY <1>1
  <2>2. \A i \in 1 .. L : all[i] # k
    BY <1>4
  <2>3. QED BY <1>1, <1>3, <2>1, <2>2
<1>6. \A x : x \in held \union {k} <=> \E i \in 1 .. (L + 1) : x = all[i]
  <2>1. 1 .. (L + 1) = 1 .. L \union {L + 1}
    BY <1>1
  <2>2. QED BY <1>3, <1>4, <2>1
<1>7. n \in Nat /\ n <= L /\ 1 .. n \subseteq 1 .. (L + 1)
  BY <1>1, <1>2
<1>8. \A x : x \in OldestOf(k, n) <=> \E i \in 1 .. n : x = all[i]
  <2> DEFINE s == SubSeq(all, 1, n)
  <2>1. Len(s) = n /\ (\A i \in 1 .. n : s[i] = all[i]) /\ s \in Seq(Announcements)
    <3>1. \A i \in 1 .. n : all[i] \in Announcements
      BY <1>3, <1>7
    <3>2. 1 \in Int /\ n \in Int
      BY <1>7
    <3>3. /\ s \in Seq(Announcements) /\ Len(s) = IF 1 <= n THEN n - 1 + 1 ELSE 0
          /\ \A i \in 1 .. (n - 1 + 1) : s[i] = all[1 + i - 1]
      BY <3>1, <3>2, SubSeqProperties
    <3>4. n - 1 + 1 = n /\ (\A i \in 1 .. n : 1 + i - 1 = i) /\ (1 <= n \/ n = 0)
      BY <1>7
    <3> HIDE DEF s
    <3>5. QED BY Zenon, <1>7, <3>3, <3>4
  <2> HIDE DEF s
  <2>2. \A x : x \in ToSet(s) <=> \E i \in 1 .. n : x = all[i]
    BY <2>1 DEF ToSet
  <2>3. OldestOf(k, n) = ToSet(s) \intersect (held \union {k})
    BY Zenon DEF OldestOf, s, all
  <2>4. QED BY <1>6, <1>7, <2>2, <2>3
<1>9. /\ order' \in Seq(Announcements) /\ Len(order') = L + 1 - n
      /\ \A i \in 1 .. (L + 1 - n) : order'[i] = all[n + i]
  <2> DEFINE a == n + 1
             b == L + 1
             s == SubSeq(all, a, b)
  <2>1. a \in Int /\ b \in Int /\ a <= b /\ b - a + 1 = L + 1 - n
        /\ \A i \in 1 .. (L + 1 - n) : a + i - 1 = n + i
    BY <1>1, <1>7
  <2>2. \A i \in a .. b : all[i] \in Announcements
    BY <1>1, <1>3, <1>7
  <2> HIDE DEF a, b
  <2>3. /\ s \in Seq(Announcements)
        /\ Len(s) = IF a <= b THEN b - a + 1 ELSE 0
        /\ \A i \in 1 .. (b - a + 1) : s[i] = all[a + i - 1]
    BY <2>1, <2>2, SubSeqProperties
  <2>4. order' = s
    BY Zenon, <1>2, <1>3 DEF a, b
  <2> HIDE DEF s
  <2>5. QED BY Zenon, <2>1, <2>3, <2>4
<1>10. \A i, j \in 1 .. Len(order') : order'[i] = order'[j] => i = j
  <2>1. \A i \in 1 .. (L + 1 - n) : n + i \in 1 .. (L + 1)
    BY <1>1, <1>7
  <2>2. \A i, j \in 1 .. (L + 1 - n) : n + i = n + j => i = j
    BY <1>1, <1>7
  <2>3. ASSUME NEW i \in 1 .. (L + 1 - n), NEW j \in 1 .. (L + 1 - n), order'[i] = order'[j]
        PROVE  i = j
    <3>1. all[n + i] = all[n + j]
      BY Zenon, <1>9, <2>3
    <3>2. n + i = n + j
      BY Zenon, <1>5, <2>1, <3>1
    <3>3. QED BY Zenon, <2>2, <3>2
  <2>4. QED BY Zenon, <1>9, <2>3
<1>11. ToSet(order') = held'
  <2>1. ASSUME NEW x PROVE x \in ToSet(order') <=> \E i \in 1 .. (L + 1 - n) : x = all[n + i]
    <3>1. DOMAIN order' = 1 .. (L + 1 - n)
      BY <1>9
    <3>2. x \in ToSet(order') <=> \E i \in DOMAIN order' : x = order'[i]
      BY Zenon DEF ToSet
    <3>3. QED BY Zenon, <1>9, <3>1, <3>2
  <2>2. ASSUME NEW x PROVE x \in held' <=> \E i \in (n + 1) .. (L + 1) : x = all[i]
    <3>1. x \in held' <=> (\E i \in 1 .. (L + 1) : x = all[i]) /\ ~ \E i \in 1 .. n : x = all[i]
      BY Zenon, <1>2, <1>6, <1>8
    <3>2. \A i \in 1 .. (L + 1) : i \in 1 .. n \/ i \in (n + 1) .. (L + 1)
      BY <1>1, <1>7
    <3>3. \A i \in (n + 1) .. (L + 1) : i \in 1 .. (L + 1) /\ i \notin 1 .. n
      BY <1>1, <1>7
    <3>4. QED BY Zenon, <1>5, <1>7, <3>1, <3>2, <3>3
  <2>3. \A i \in 1 .. (L + 1 - n) : n + i \in (n + 1) .. (L + 1)
    BY <1>1, <1>7
  <2>4. \A i \in (n + 1) .. (L + 1) : i - n \in 1 .. (L + 1 - n) /\ n + (i - n) = i
    BY <1>1, <1>7
  <2>5. ASSUME NEW x PROVE x \in ToSet(order') <=> x \in held'
    BY Zenon, <2>1, <2>2, <2>3, <2>4
  <2>6. QED BY <2>5
<1>12. /\ IsFiniteSet(Bytes(held \union {k}))
       /\ SizeOfAll(held \union {k}) = bytes + SizeOf[k] /\ bytes \in Nat /\ SizeOf[k] \in Nat
  <2>1. held \intersect {k} = {}
    OBVIOUS
  <2>2. IsFiniteSet(Bytes(held)) /\ bytes = SizeOfAll(held)
    BY DEF CacheInv
  <2>3. QED BY Zenon, <2>1, <2>2, BytesAdd, BytesOfOne
<1>13. /\ IsFiniteSet(Bytes(held')) /\ SizeOfAll(held') = LeftOf(k, n)
  <2>1. OldestOf(k, n) \subseteq held \union {k}
    BY DEF OldestOf
  <2>2. /\ IsFiniteSet(Bytes((held \union {k}) \ OldestOf(k, n)))
        /\ SizeOfAll((held \union {k}) \ OldestOf(k, n))
             = SizeOfAll(held \union {k}) - SizeOfAll(OldestOf(k, n))
        /\ SizeOfAll(OldestOf(k, n)) \in Nat
    BY Zenon, <1>12, <2>1, BytesOfPart
  <2>3. held' = (held \union {k}) \ OldestOf(k, n)
    BY Zenon, <1>2
  <2>4. SizeOfAll((held \union {k}) \ OldestOf(k, n)) = LeftOf(k, n)
    <3> DEFINE some == OldestOf(k, n)
    <3>1. SizeOfAll((held \union {k}) \ some) = (bytes + SizeOf[k]) - SizeOfAll(some)
          /\ SizeOfAll(some) \in Nat
      BY Zenon, <1>12, <2>2
    <3>2. LeftOf(k, n) = bytes + SizeOf[k] - SizeOfAll(some)
      BY Zenon DEF LeftOf
    <3>3. \A a, b, c \in Nat : (a + b) - c = a + b - c
      OBVIOUS
    <3>4. QED BY Zenon, <1>12, <3>1, <3>2, <3>3
  <2>5. QED BY <2>2, <2>3, <2>4
<1>14. held' \subseteq Announcements
  BY <1>2 DEF CacheInv
<1>15. bytes' > CacheMax => Len(order') = 1
  <2>1. CASE n = L
    BY <1>1, <1>9, <2>1
  <2>2. CASE LeftOf(k, n) <= CacheMax
    <3>1. bytes' \in Int
      <4>1. SizeOfAll(OldestOf(k, n)) \in Nat
        <5>1. OldestOf(k, n) \subseteq held \union {k}
          BY DEF OldestOf
        <5>2. QED BY Zenon, <1>12, <5>1, BytesOfPart
      <4>2. QED BY <1>2, <1>12, <4>1 DEF LeftOf
    <3>2. CacheMax \in Nat /\ bytes' <= CacheMax
      BY <1>2, <2>2, VoicemailAssumption
    <3>3. QED BY <3>1, <3>2
  <2>3. QED BY <1>2, <2>1, <2>2
<1>16. QED BY <1>2, <1>9, <1>10, <1>11, <1>13, <1>14, <1>15 DEF CacheInv

LEMMA CacheInitially ==
  ASSUME VoicemailInit PROVE CacheInv
<1>1. held = {} /\ order = <<>> /\ bytes = 0 /\ wants = [g \in Getters |-> "none"]
  BY DEF VoicemailInit
<1>2. Bytes({}) = {}
  BY DEF Bytes
<1>3. IsFiniteSet(Bytes(held)) /\ Cardinality(Bytes(held)) = 0
  BY Zenon, <1>1, <1>2, FS_EmptySet
<1>4. bytes = SizeOfAll(held)
  BY Zenon, <1>1, <1>3 DEF SizeOfAll, Bytes
<1>5. ToSet(order) = held /\ order \in Seq(Announcements) /\ Len(order) = 0
  BY <1>1 DEF ToSet
<1>6. ~(bytes > CacheMax)
  BY <1>1, VoicemailAssumption
<1>7. QED BY <1>1, <1>3, <1>4, <1>5, <1>6 DEF CacheInv

LEMMA CacheStands ==
  ASSUME CacheInv, UNCHANGED <<held, order, bytes>>,
         wants' \in [Getters -> Announcements \union {"none"}]
  PROVE  CacheInv'
BY Zenon DEF CacheInv

LEMMA CacheKeeps ==
  ASSUME CacheInv, Message PROVE CacheInv'
<1>1. wants \in [Getters -> Announcements \union {"none"}]
  BY DEF CacheInv
<1>2. ASSUME NEW g \in Getters, NEW k \in Announcements, LookUp(g, k) PROVE CacheInv'
  BY <1>1, <1>2, CacheStands DEF LookUp
<1>3. ASSUME NEW g \in Getters, NoEngine(g) PROVE CacheInv'
  BY <1>1, <1>3, CacheStands DEF NoEngine
<1>4. ASSUME NEW g \in Getters, Render(g) PROVE CacheInv'
  <2>1. /\ wants[g] # "none" /\ wants' = [wants EXCEPT ![g] = "none"]
        /\ IF wants[g] \in held THEN UNCHANGED <<held, order, bytes>> ELSE Stores(wants[g])
    BY <1>4 DEF Render
  <2>2. wants' \in [Getters -> Announcements \union {"none"}] /\ wants[g] \in Announcements
    BY <1>1, <2>1
  <2>3. CASE wants[g] \in held
    BY <2>1, <2>2, <2>3, CacheStands
  <2>4. CASE wants[g] \notin held
    BY <2>1, <2>2, <2>4, StoresKeeps
  <2>5. QED BY <2>3, <2>4
<1>5. CASE UNCHANGED cacheVars
  <2>1. UNCHANGED <<held, order, bytes, wants>>
    BY <1>5 DEF cacheVars
  <2>2. QED BY <1>1, <2>1, CacheStands
<1>6. UNCHANGED cacheVars \/ \E g \in Getters : \/ NoEngine(g) \/ Render(g)
                                                \/ \E k \in Announcements : LookUp(g, k)
  BY Zenon DEF Message, MailboxSpeaks, MailboxPauses, MailboxQuiet, MailboxEnds, MailboxBeeps,
     SignalBeep, CallRemoved, GreetingOver, WaitBeep, BeepDeadline, NoticesTheEnd, Listen,
     ReadFails, PlayMessage, AwaitMark, HangUpMailbox, cacheVars
<1>7. QED BY <1>2, <1>3, <1>4, <1>5, <1>6

LEMMA CacheInvHolds == Spec => []CacheInv
<1>1. Init => CacheInv
  BY CacheInitially DEF Init
<1>2. CacheInv /\ [Next]_vars => CacheInv'
  <2>1. CacheInv /\ UNCHANGED voicemailVars => CacheInv'
    BY CacheStands DEF CacheInv, voicemailVars, cacheVars
  <2>2. QED BY <2>1, PartsStepApart, CacheKeeps
<1>3. QED BY <1>1, <1>2, PTL DEF Spec

(* The announcements' cache (telnyx_call.go, announceCache): for all sizes *)
(* and goroutines, its count of itself is right, and over the ceiling it   *)
(* holds a single entry.                                                   *)
THEOREM CacheCountsItselfHolds == Spec => []CacheCountsItself
<1>1. ASSUME CacheInv PROVE CacheCountsItself
  <2>1. order \in Seq(Announcements) /\ ToSet(order) = held /\ DOMAIN order = 1 .. Len(order)
        /\ Len(order) \in Nat /\ \A i, j \in 1 .. Len(order) : order[i] = order[j] => i = j
    BY <1>1 DEF CacheInv
  <2>2. order \in [1 .. Len(order) -> held] /\ \A x \in held : \E i \in 1 .. Len(order) : order[i] = x
    BY <2>1 DEF ToSet
  <2>3. order \in Bijection(1 .. Len(order), held)
    BY <2>1, <2>2 DEF Bijection, Injection, Surjection, IsInjective
  <2>4. IsFiniteSet(1 .. Len(order)) /\ Cardinality(1 .. Len(order)) = Len(order)
    BY <2>1, FS_Interval
  <2>5. Cardinality(held) = Len(order)
    BY <2>3, <2>4, FS_Bijection DEF ExistsBijection
  <2>6. QED BY Zenon, <1>1, <2>5 DEF CacheInv, CacheCountsItself
<1>2. QED BY <1>1, CacheInvHolds, PTL

-----------------------------------------------------------------------------
(* The room's steps.                                                       *)
LEMMA RoomInitially ==
  ASSUME RoomInit PROVE RoomInv
<1>1. made \in 0 .. MaxRooms /\ rooms = 1 .. made /\ (rooms # {} => made # 0)
      /\ rooms \subseteq {made} /\ (made = 0 => rooms = {}) /\ 0 \in 0 .. made
      /\ made \in 0 .. made
  BY LiveRoomAssumption DEF RoomInit
<1>2. RoomTypes
  <2>1. {bargeWanted, raced} \subseteq BOOLEAN
    BY Zenon DEF RoomInit
  <2>2. RoomTypeOK
    BY <1>1 DEF RoomInit, RoomTypeOK, Idle
  <2>3. /\ detector \in [Detectors -> Noticing]
        /\ join \in [Operators -> {"none", "creating", "reply", "watch", "done"}]
    BY DEF RoomInit, Idle, Noticing
  <2>4. QED BY <1>1, <2>1, <2>2, <2>3 DEF RoomInit, RoomTypes
<1>3. BargeInv
  BY DEF RoomInit, BargeInv, BargeTakesAPerson, Idle, Mode
<1>4. TidyInv
  BY <1>1 DEF RoomInit, TidyInv, HasRoom, WatchTidy, WarmTidy, RelayTidy, Under, Unwatched,
      Unwarmed, Unrelayed, Of
<1>5. QED BY <1>2, <1>3, <1>4 DEF RoomInv

LEMMA RoomStands ==
  ASSUME RoomInv, UNCHANGED roomVars PROVE RoomInv'
<1>1. /\ UNCHANGED <<lcall, closing, setup, rc, rooms, made, join, links, people, joined>>
      /\ UNCHANGED <<watched, detector, agent, relay, sidecars, prewarm, deliveries,
                     bargeWanted, raced>>
  BY DEF roomVars, joining, presence, relaying, warming, marks, calling
<1>2. RoomTypes'
  BY <1>1, Zenon DEF RoomInv, RoomTypes, RoomTypeOK
<1>3. BargeInv'
  BY <1>1, Zenon DEF RoomInv, BargeInv, BargeTakesAPerson
<1>4. HasRoom' /\ (~raced' => WatchTidy')
  BY <1>1, Zenon DEF RoomInv, TidyInv, HasRoom, WatchTidy, Under, Unwatched, Of
<1>5. ~raced' => WarmTidy' /\ RelayTidy'
  BY <1>1, Zenon DEF RoomInv, TidyInv, WarmTidy, RelayTidy, Unwatched, Unwarmed, Unrelayed, Of
<1>6. QED BY <1>2, <1>3, <1>4, <1>5 DEF RoomInv, TidyInv

LEMMA RoomKeepsTypes ==
  ASSUME RoomInv, Room PROVE RoomTypes'
<1>1. ASSUME NEW o \in Operators, NEW listen \in BOOLEAN, Join(o, listen) PROVE RoomTypes'
  BY <1>1 DEF Join, joining, presence, relaying, warming, marks, calling, RoomInv,
      RoomTypes, RoomTypeOK, Noticing, Mode
<1>2. ASSUME NEW o \in Operators, MakeRoom(o) PROVE RoomTypes'
  <2>1. /\ rooms' = rooms \union {made + 1} /\ made' = made + 1 /\ made < setup.rooms
        /\ rc' = [rc EXCEPT !.room = made + 1] /\ join' = [join EXCEPT ![o] = "reply"]
        /\ UNCHANGED <<calling, setup, links, presence, watched, detector, agent, relaying,
                       warming, bargeWanted>>
    BY Zenon, <1>2 DEF MakeRoom, CreateRoom
  <2>2. made \in 0 .. MaxRooms /\ MaxRooms \in Nat /\ setup.rooms \in 1 .. MaxRooms
    BY LiveRoomAssumption DEF RoomInv, RoomTypes
  <2>3. made' \in 0 .. MaxRooms /\ made + 1 \in 1 .. made' /\ made + 1 \in 0 .. made'
        /\ 1 .. made \subseteq 1 .. made' /\ 0 .. made \subseteq 0 .. made'
    BY <2>1, <2>2
  <2>4. rc' \in [room : 0 .. made', bridged : BOOLEAN, listenOnly : BOOLEAN]
        /\ prewarm \in [minting : 0 .. made', running : SUBSET (1 .. made'), map : 0 .. made']
    BY <2>1, <2>3 DEF RoomInv, RoomTypes
  <2>5. {bargeWanted, raced}' \subseteq BOOLEAN
    BY Zenon, <1>2, <2>1 DEF MakeRoom, RoomInv, RoomTypes, marks
  <2>6. joined \subseteq (1 .. made') \X BOOLEAN
    BY <2>3 DEF RoomInv, RoomTypes, RoomTypeOK
  <2>7. RoomTypeOK'
    BY <2>1, <2>3, <2>4, <2>6 DEF RoomInv, RoomTypes, RoomTypeOK, joining, presence,
        relaying, warming, marks, calling
  <2>8. QED BY <2>1, <2>3, <2>4, <2>5, <2>7 DEF RoomInv, RoomTypes, RoomTypeOK, joining,
      presence, relaying, warming, marks, calling
<1>3. ASSUME NEW o \in Operators, MakeRoomFails(o) PROVE RoomTypes'
  BY <1>3 DEF MakeRoomFails, joining, presence, relaying, warming, marks, calling, RoomInv,
      RoomTypes, RoomTypeOK, Noticing, Mode
<1>4. ASSUME NEW o \in Operators, ReplyToJoin(o) PROVE RoomTypes'
  <2>1. links' \subseteq 1 .. made
    <3>1. rc.room \in 0 .. made /\ links \subseteq 1 .. made /\ made \in Nat
      BY LiveRoomAssumption DEF RoomInv, RoomTypes
    <3>2. rc.room # 0 => rc.room \in 1 .. made
      BY <3>1
    <3>3. links' = IF rc.room = 0 THEN links ELSE links \union {rc.room}
      BY Zenon, <1>4 DEF ReplyToJoin
    <3>4. QED BY <3>1, <3>2, <3>3
  <2>2. QED BY <1>4, <2>1 DEF ReplyToJoin, joining, presence, relaying, warming, marks,
      calling, RoomInv, RoomTypes, RoomTypeOK
<1>5. ASSUME NEW o \in Operators, WatchAfterJoin(o) PROVE RoomTypes'
  BY <1>5 DEF WatchAfterJoin, WatchForListener, joining, presence, relaying, warming,
      marks, calling, RoomInv, RoomTypes, RoomTypeOK, Noticing, Mode
<1>6. ASSUME NEW r \in links, EnterRoom(r) PROVE RoomTypes'
  <2>1. {bargeWanted, raced}' \subseteq BOOLEAN
    BY Zenon, <1>6 DEF EnterRoom, joining, presence, relaying, warming, marks, calling,
        RoomInv, RoomTypes
  <2>2. people' \subseteq 1 .. made /\ joined' \subseteq (1 .. made) \X BOOLEAN
    <3>1. r \in 1 .. made /\ people \subseteq 1 .. made /\ joined \subseteq (1 .. made) \X BOOLEAN
      BY <1>6 DEF EnterRoom, RoomInv, RoomTypes, RoomTypeOK
    <3>2. <<r, FALSE>> \in (1 .. made) \X BOOLEAN
      BY <3>1
    <3>3. people' = people \union {r} /\ joined' = joined \union {<<r, FALSE>>}
      BY Zenon, <1>6 DEF EnterRoom
    <3>4. QED BY <3>1, <3>2, <3>3
  <2>3. UNCHANGED <<calling, setup, rc, joining, watched, detector, agent, relaying, warming>>
    BY Zenon, <1>6 DEF EnterRoom
  <2>4. 0 .. made = {0} \union (1 .. made)
    BY LiveRoomAssumption DEF RoomInv, RoomTypes
  <2>5. RoomTypeOK'
    BY <2>2, <2>3, <2>4 DEF joining, presence, relaying, warming, marks, calling, RoomInv,
        RoomTypes, RoomTypeOK
  <2>6. QED BY <2>1, <2>2, <2>3, <2>5 DEF joining, presence, relaying, warming, marks,
      calling, RoomInv, RoomTypes
<1>7. ASSUME CallAnswered PROVE RoomTypes'
  BY <1>7 DEF CallAnswered, StartsPrewarm, WatchForListener, joining, presence, relaying,
      warming, marks, calling, RoomInv, RoomTypes, RoomTypeOK, Noticing, Mode
<1>8. ASSUME NEW ok \in BOOLEAN, Prewarmed(ok) PROVE RoomTypes'
  <2>1. /\ prewarm.minting \in 1 .. made /\ prewarm.running \subseteq 1 .. made
        /\ 0 \in 0 .. made /\ prewarm.minting \in 0 .. made
    BY <1>8 DEF Prewarmed, RoomInv, RoomTypes
  <2>2. joined' \subseteq (1 .. made) \X BOOLEAN
        /\ prewarm' \in [minting : 0 .. made, running : SUBSET (1 .. made), map : 0 .. made]
    <3>1. prewarm \in [minting : 0 .. made, running : SUBSET (1 .. made), map : 0 .. made]
          /\ joined \subseteq (1 .. made) \X BOOLEAN
      BY DEF RoomInv, RoomTypes, RoomTypeOK
    <3>2. CASE ok /\ prewarm.minting \in rooms
      <4>1. prewarm' = [minting |-> 0, running |-> prewarm.running \union {prewarm.minting},
                        map |-> prewarm.minting]
            /\ joined' = joined \union {<<prewarm.minting, TRUE>>}
        BY <1>8, <3>2 DEF Prewarmed, PreJoins
      <4>2. <<prewarm.minting, TRUE>> \in (1 .. made) \X BOOLEAN
        BY <2>1
      <4>3. joined' \subseteq (1 .. made) \X BOOLEAN
        BY <3>1, <4>1, <4>2
      <4>4. QED BY <2>1, <3>1, <4>1, <4>3
    <3>3. CASE ~(ok /\ prewarm.minting \in rooms)
      BY <1>8, <2>1, <3>1, <3>3 DEF Prewarmed
    <3>4. QED BY <3>2, <3>3
  <2>3. UNCHANGED <<calling, setup, rc, joining, people, watched, detector, agent, relaying,
                   deliveries, bargeWanted>>
    BY Zenon, <1>8 DEF Prewarmed
  <2>4. {bargeWanted, raced}' \subseteq BOOLEAN
    BY Zenon, <1>8, <2>3 DEF Prewarmed, RoomInv, RoomTypes
  <2>5. QED BY <2>2, <2>3, <2>4 DEF joining, presence, relaying, warming, marks, calling,
      RoomInv, RoomTypes, RoomTypeOK
<1>9. ASSUME NEW d \in Detectors, NEW r \in watched, PollFinds(d, r) PROVE RoomTypes'
  BY <1>9 DEF PollFinds, PresenceAll, Occupants, joining, presence, relaying, warming,
      marks, calling, RoomInv, RoomTypes, RoomTypeOK, Noticing, Mode
<1>10. ASSUME NEW d \in Detectors, NEW ev \in joined, WebhookTells(d, ev) PROVE RoomTypes'
  BY <1>10 DEF WebhookTells, Counts, joining, presence, relaying, warming, marks, calling,
      RoomInv, RoomTypes, RoomTypeOK, Noticing, Mode
<1>11. ASSUME NEW d \in Detectors, Decide(d) PROVE RoomTypes'
  BY <1>11 DEF Decide, Idle, joining, presence, relaying, warming, marks, calling, RoomInv,
      RoomTypes, RoomTypeOK, Noticing, Mode
<1>12. ASSUME NEW d \in Detectors, RegisterRelay(d) PROVE RoomTypes'
  <2>1. /\ detector' = [detector EXCEPT ![d] = [@ EXCEPT !.at = "spawning"]]
        /\ rc' = [rc EXCEPT !.bridged = TRUE] /\ relay' = d
        /\ UNCHANGED <<calling, setup, joining, presence, watched, agent, sidecars, warming,
                       bargeWanted>>
    BY <1>12 DEF RegisterRelay, Go
  <2>2. {bargeWanted, raced}' \subseteq BOOLEAN
    BY Zenon, <1>12, <2>1 DEF RegisterRelay, RoomInv, RoomTypes
  <2>3. detector' \in [Detectors -> Noticing]
    BY <2>1 DEF RoomInv, RoomTypes, Noticing, Mode
  <2>4. QED BY <2>1, <2>2, <2>3 DEF joining, presence, relaying, warming, marks, calling,
      RoomInv, RoomTypes, RoomTypeOK
<1>13. ASSUME NEW d \in Detectors, SidecarStarts(d) PROVE RoomTypes'
  BY <1>13 DEF SidecarStarts, Go, Idle, joining, presence, relaying, warming, marks,
      calling, RoomInv, RoomTypes, RoomTypeOK, Noticing, Mode
<1>14. ASSUME NEW d \in Detectors, RelayFails(d) PROVE RoomTypes'
  <2>1. /\ detector' = [detector EXCEPT ![d] = [@ EXCEPT !.at = "sip"]]
        /\ rc' = [rc EXCEPT !.bridged = FALSE] /\ relay' = "none"
        /\ sidecars' \in {sidecars, StopSidecar}
        /\ UNCHANGED <<calling, setup, joining, presence, watched, agent, warming, marks>>
    BY <1>14 DEF RelayFails, EndRelay, Go
  <2>2. detector' \in [Detectors -> Noticing]
    BY <2>1 DEF RoomInv, RoomTypes, Noticing, Mode
  <2>3. sidecars' \in [run : SUBSET Detectors, map : Detectors \union {"none"}]
    BY <2>1 DEF StopSidecar, RoomInv, RoomTypes
  <2>4. QED BY <2>1, <2>2, <2>3 DEF joining, presence, relaying, warming, marks, calling,
      RoomInv, RoomTypes, RoomTypeOK
<1>15. ASSUME NEW d \in Detectors, NEW ok \in BOOLEAN, StartConference(d, ok) PROVE RoomTypes'
  BY <1>15 DEF StartConference, Go, Idle, joining, presence, relaying, warming, marks,
      calling, RoomInv, RoomTypes, RoomTypeOK, Noticing, Mode
<1>16. ASSUME NEW d \in Detectors, CallGone(d) PROVE RoomTypes'
  BY <1>16 DEF CallGone, Go, Idle, joining, presence, relaying, warming, marks, calling,
      RoomInv, RoomTypes, RoomTypeOK, Noticing, Mode
<1>17. ASSUME NEW d \in Detectors, NEW last \in BOOLEAN, DialFails(d, last) PROVE RoomTypes'
  <2>1. CASE last
    BY <1>17, <2>1 DEF DialFails, Go, Idle, joining, presence, relaying, warming, marks,
        calling, RoomInv, RoomTypes, RoomTypeOK, Noticing, Mode
  <2>2. CASE ~last
    BY <1>17, <2>2 DEF DialFails, Go, Idle, joining, presence, relaying, warming, marks,
        calling, RoomInv, RoomTypes, RoomTypeOK, Noticing, Mode
  <2>3. QED BY <2>1, <2>2
<1>18. ASSUME NEW d \in Detectors, Dial(d) PROVE RoomTypes'
  <2>1. UNCHANGED <<calling, setup, rc, joining, presence, watched, agent, relaying, warming, marks>>
    BY Zenon, <1>18 DEF Dial
  <2>2. detector' \in [Detectors -> Noticing]
    <3>1. detector \in [Detectors -> Noticing]
      BY Zenon DEF RoomInv, RoomTypes
    <3> DEFINE next == [detector[d] EXCEPT !.at = "dialled"]
    <3>2. next \in Noticing
      BY <3>1 DEF Noticing, Mode
    <3>3. detector' = [detector EXCEPT ![d] = next]
      BY <1>18 DEF Dial, Go
    <3>4. QED BY <3>1, <3>2, <3>3
  <2>3. RoomTypeOK'
    BY <2>1, <2>2 DEF joining, presence, relaying, warming, marks, calling, Noticing,
        RoomInv, RoomTypes, RoomTypeOK
  <2>4. QED BY <2>1, <2>2, <2>3 DEF joining, presence, relaying, warming, marks, calling,
      RoomInv, RoomTypes
<1>19. ASSUME NEW d \in Detectors, Dialled(d) PROVE RoomTypes'
  <2>1. UNCHANGED <<calling, setup, rc, joining, presence, watched, relaying, warming, marks>>
    BY Zenon, <1>19 DEF Dialled
  <2>2. agent' \in [hushed : BOOLEAN, left : BOOLEAN]
    BY <1>19 DEF Dialled, Hushes, RoomInv, RoomTypes
  <2>3. detector' \in [Detectors -> Noticing]
    <3>1. PICK next \in {Idle, [detector[d] EXCEPT !.at = "waiting"]} :
                  detector' = [detector EXCEPT ![d] = next]
      BY <1>19 DEF Dialled, Go
    <3>2. detector \in [Detectors -> Noticing] /\ Idle \in Noticing
      BY DEF RoomInv, RoomTypes, Idle, Noticing
    <3>3. next \in Noticing
      BY <3>1, <3>2 DEF Noticing, Mode
    <3>4. QED BY <3>1, <3>2, <3>3
  <2>4. RoomTypeOK'
    BY <2>1, <2>3 DEF joining, presence, relaying, warming, marks, calling, Noticing,
        RoomInv, RoomTypes, RoomTypeOK
  <2>5. QED BY <2>1, <2>2, <2>3, <2>4 DEF joining, presence, relaying, warming, marks,
      calling, RoomInv, RoomTypes
<1>20. ASSUME NEW d \in Detectors, StepOut(d) PROVE RoomTypes'
  BY <1>20 DEF StepOut, Go, Idle, joining, presence, relaying, warming, marks, calling,
      RoomInv, RoomTypes, RoomTypeOK, Noticing, Mode
<1>21. ASSUME NEW d \in Detectors, SidecarExits(d) PROVE RoomTypes'
  BY <1>21 DEF SidecarExits, joining, presence, relaying, warming, marks, calling, RoomInv,
      RoomTypes, RoomTypeOK, Noticing, Mode
<1>22. ASSUME EndLiveRoom PROVE RoomTypes'
  BY <1>22 DEF EndLiveRoom, joining, presence, relaying, warming, marks, calling, RoomInv,
      RoomTypes, RoomTypeOK, Noticing, Mode
<1>23. ASSUME UnwatchRoom PROVE RoomTypes'
  BY <1>23 DEF UnwatchRoom, joining, presence, relaying, warming, marks, calling, RoomInv,
      RoomTypes, RoomTypeOK, Noticing, Mode
<1>24. ASSUME StopPrewarm PROVE RoomTypes'
  <2>1. /\ prewarm' = [prewarm EXCEPT !.running = @ \ {prewarm.map}, !.map = 0]
        /\ lcall' = "unrelay"
        /\ UNCHANGED <<closing, setup, rc, joining, presence, watched, detector, agent,
                       relaying, deliveries, marks>>
    BY <1>24 DEF StopPrewarm
  <2>2. /\ prewarm.running \ {prewarm.map} \in SUBSET (1 .. made) /\ 0 \in 0 .. made
        /\ prewarm \in [minting : 0 .. made, running : SUBSET (1 .. made), map : 0 .. made]
    BY DEF RoomInv, RoomTypes
  <2>3. prewarm' \in [minting : 0 .. made, running : SUBSET (1 .. made), map : 0 .. made]
    BY <2>1, <2>2
  <2>4. QED BY <2>1, <2>2, <2>3 DEF joining, presence, relaying, warming, marks, calling,
      RoomInv, RoomTypes, RoomTypeOK
<1>25. ASSUME EndCallRelay PROVE RoomTypes'
  BY <1>25 DEF EndCallRelay, EndRelay, StopSidecar, joining, presence, relaying, warming,
      marks, calling, RoomInv, RoomTypes, RoomTypeOK, Noticing, Mode
<1>26. ASSUME ForgetRoom PROVE RoomTypes'
  BY <1>26 DEF ForgetRoom, joining, presence, relaying, warming, marks, calling, RoomInv,
      RoomTypes, RoomTypeOK, Noticing, Mode
<1>27. ASSUME NEW r \in Expiring, DeleteRoom(r) PROVE RoomTypes'
  BY <1>27 DEF DeleteRoom, joining, presence, relaying, warming, marks, calling, RoomInv,
      RoomTypes, RoomTypeOK, Noticing, Mode
<1>28. ASSUME RemoveCall PROVE RoomTypes'
  BY <1>28 DEF RemoveCall, joining, presence, relaying, warming, marks, calling, RoomInv,
      RoomTypes, RoomTypeOK, Noticing, Mode
<1>29. QED BY <1>1, <1>2, <1>3, <1>4, <1>5, <1>6, <1>7, <1>8, <1>9, <1>10, <1>11, <1>12,
    <1>13, <1>14, <1>15,
       <1>16, <1>17, <1>18, <1>19, <1>20, <1>21, <1>22, <1>23, <1>24, <1>25, <1>26, <1>27, <1>28
       DEF Room

\* Nobody is silenced for the pre-joiner, or for somebody who only listens.
LEMMA RoomKeepsBarge ==
  ASSUME RoomInv, Room PROVE BargeInv'
<1>1. ASSUME NEW o \in Operators, NEW listen \in BOOLEAN, Join(o, listen) PROVE BargeInv'
  BY <1>1 DEF Join, joining, presence, relaying, warming, marks, calling, RoomInv,
      RoomTypes, Noticing, BargeInv, BargeTakesAPerson, Mode
<1>2. ASSUME NEW o \in Operators, MakeRoom(o) PROVE BargeInv'
  BY <1>2 DEF MakeRoom, CreateRoom, joining, presence, relaying, warming, marks, calling,
      RoomInv, RoomTypes, Noticing, BargeInv, BargeTakesAPerson, Mode
<1>3. ASSUME NEW o \in Operators, MakeRoomFails(o) PROVE BargeInv'
  BY <1>3 DEF MakeRoomFails, joining, presence, relaying, warming, marks, calling, RoomInv,
      RoomTypes, Noticing, BargeInv, BargeTakesAPerson, Mode
<1>4. ASSUME NEW o \in Operators, ReplyToJoin(o) PROVE BargeInv'
  BY <1>4 DEF ReplyToJoin, joining, presence, relaying, warming, marks, calling, RoomInv,
      RoomTypes, Noticing, BargeInv, BargeTakesAPerson, Mode
<1>5. ASSUME NEW o \in Operators, WatchAfterJoin(o) PROVE BargeInv'
  BY <1>5 DEF WatchAfterJoin, WatchForListener, joining, presence, relaying, warming,
      marks, calling, RoomInv, RoomTypes, Noticing, BargeInv, BargeTakesAPerson, Mode
<1>6. ASSUME NEW r \in links, EnterRoom(r) PROVE BargeInv'
  <2>1. people' = people \union {r} /\ joined' = joined \union {<<r, FALSE>>}
        /\ (bargeWanted => bargeWanted')
        /\ ((\A o \in Operators : join[o] = "none") => bargeWanted')
        /\ UNCHANGED <<rc, join, detector, agent>>
    BY Zenon, <1>6 DEF EnterRoom, joining
  <2>2. \A ev \in joined' : ~ev[2] => ev[1] \in people'
    <3>1. \A ev \in joined : ~ev[2] => ev[1] \in people
      BY DEF RoomInv, BargeInv
    <3>2. <<r, FALSE>>[1] \in people'
      BY <2>1
    <3>3. QED BY Zenon, <2>1, <3>1, <3>2
  <2>3. people' # {} /\ (~rc.listenOnly => bargeWanted')
    BY <2>1 DEF RoomInv, BargeInv
  <2>4. agent.hushed \/ agent.left => bargeWanted
    BY Zenon DEF RoomInv, BargeInv, BargeTakesAPerson
  <2>5. QED BY <2>1, <2>2, <2>3, <2>4 DEF RoomInv, BargeInv, BargeTakesAPerson
<1>7. ASSUME CallAnswered PROVE BargeInv'
  BY <1>7 DEF CallAnswered, StartsPrewarm, WatchForListener, joining, presence, relaying,
      warming, marks, calling, RoomInv, RoomTypes, Noticing, BargeInv, BargeTakesAPerson,
      Mode
<1>8. ASSUME NEW ok \in BOOLEAN, Prewarmed(ok) PROVE BargeInv'
  <2>1. joined' = joined \/ joined' = joined \union {<<prewarm.minting, TRUE>>}
    BY <1>8 DEF Prewarmed, PreJoins
  <2>2. UNCHANGED <<people, rc, join, detector, agent, bargeWanted>>
    BY Zenon, <1>8 DEF Prewarmed, joining, marks
  <2>3. \A ev \in joined' : ~ev[2] => ev[1] \in people
    <3>1. \A ev \in joined : ~ev[2] => ev[1] \in people
      BY DEF RoomInv, BargeInv
    <3>2. <<prewarm.minting, TRUE>>[2] = TRUE
      OBVIOUS
    <3>3. QED BY Zenon, <2>1, <3>1, <3>2
  <2>4. QED BY <2>2, <2>3 DEF RoomInv, BargeInv, BargeTakesAPerson
<1>9. ASSUME NEW d \in Detectors, NEW r \in watched, PollFinds(d, r) PROVE BargeInv'
  BY ZenonT(60), <1>9
  DEF PollFinds, PresenceAll, Occupants, joining, presence, relaying, warming, marks,
      calling, RoomInv, RoomTypes, Noticing, BargeInv, BargeTakesAPerson, Mode
<1>10. ASSUME NEW d \in Detectors, NEW ev \in joined, WebhookTells(d, ev) PROVE BargeInv'
  BY <1>10 DEF WebhookTells, Counts, joining, presence, relaying, warming, marks, calling,
      RoomInv, RoomTypes, Noticing, BargeInv, BargeTakesAPerson, Mode
<1>11. ASSUME NEW d \in Detectors, Decide(d) PROVE BargeInv'
  BY ZenonT(60), <1>11
  DEF Decide, Idle, joining, presence, relaying, warming, marks, calling, RoomInv,
      RoomTypes, Noticing, BargeInv, BargeTakesAPerson, Mode
<1>12. ASSUME NEW d \in Detectors, RegisterRelay(d) PROVE BargeInv'
  BY <1>12 DEF RegisterRelay, Go, Idle, joining, presence, relaying, warming, marks,
      calling, RoomInv, RoomTypes, Noticing, BargeInv, BargeTakesAPerson, Mode
<1>13. ASSUME NEW d \in Detectors, SidecarStarts(d) PROVE BargeInv'
  BY <1>13 DEF SidecarStarts, Go, Idle, joining, presence, relaying, warming, marks,
      calling, RoomInv, RoomTypes, Noticing, BargeInv, BargeTakesAPerson, Mode
<1>14. ASSUME NEW d \in Detectors, RelayFails(d) PROVE BargeInv'
  BY <1>14 DEF RelayFails, EndRelay, StopSidecar, Go, joining, presence, relaying, warming,
      marks, calling, RoomInv, RoomTypes, Noticing, BargeInv, BargeTakesAPerson, Mode
<1>15. ASSUME NEW d \in Detectors, NEW ok \in BOOLEAN, StartConference(d, ok) PROVE BargeInv'
  BY <1>15 DEF StartConference, Go, Idle, joining, presence, relaying, warming, marks,
      calling, RoomInv, RoomTypes, Noticing, BargeInv, BargeTakesAPerson, Mode
<1>16. ASSUME NEW d \in Detectors, CallGone(d) PROVE BargeInv'
  BY <1>16 DEF CallGone, Go, Idle, joining, presence, relaying, warming, marks, calling,
      RoomInv, RoomTypes, Noticing, BargeInv, BargeTakesAPerson, Mode
<1>17. ASSUME NEW d \in Detectors, NEW last \in BOOLEAN, DialFails(d, last) PROVE BargeInv'
  BY <1>17 DEF DialFails, Go, Idle, joining, presence, relaying, warming, marks, calling,
      RoomInv, RoomTypes, Noticing, BargeInv, BargeTakesAPerson, Mode
<1>18. ASSUME NEW d \in Detectors, Dial(d) PROVE BargeInv'
  <2>1. /\ detector[d].at = "dial" /\ detector' = [detector EXCEPT ![d] = [@ EXCEPT !.at = "dialled"]]
        /\ UNCHANGED <<people, joined, rc, join, agent, bargeWanted>>
    BY <1>18 DEF Dial, Go, presence, joining, marks
  <2>2. QED BY <2>1 DEF RoomInv, RoomTypes, Noticing, BargeInv, BargeTakesAPerson, Mode
<1>19. ASSUME NEW d \in Detectors, Dialled(d) PROVE BargeInv'
  BY <1>19, SMTT(30)
  DEF Dialled, Hushes, Go, Idle, joining, presence, relaying, warming, marks, calling,
      RoomInv, RoomTypes, Noticing, BargeInv, BargeTakesAPerson, Mode
<1>20. ASSUME NEW d \in Detectors, StepOut(d) PROVE BargeInv'
  <2>1. detector[d].at = "waiting" /\ detector' = [detector EXCEPT ![d] = Idle]
        /\ UNCHANGED <<people, joined, rc, join, bargeWanted>>
    BY <1>20 DEF StepOut, Go, presence, joining, marks
  <2>2. people # {} /\ (detector[d].listen \/ bargeWanted)
    BY <2>1 DEF RoomInv, BargeInv, Mode
  <2>3. QED BY <1>20, <2>1, <2>2 DEF StepOut, Idle, Mode, Noticing, RoomInv, RoomTypes,
      BargeInv, BargeTakesAPerson
<1>21. ASSUME NEW d \in Detectors, SidecarExits(d) PROVE BargeInv'
  BY <1>21 DEF SidecarExits, joining, presence, relaying, warming, marks, calling, RoomInv,
      RoomTypes, Noticing, BargeInv, BargeTakesAPerson, Mode
<1>22. ASSUME EndLiveRoom PROVE BargeInv'
  BY <1>22 DEF EndLiveRoom, joining, presence, relaying, warming, marks, calling, RoomInv,
      RoomTypes, Noticing, BargeInv, BargeTakesAPerson, Mode
<1>23. ASSUME UnwatchRoom PROVE BargeInv'
  BY <1>23 DEF UnwatchRoom, joining, presence, relaying, warming, marks, calling, RoomInv,
      RoomTypes, Noticing, BargeInv, BargeTakesAPerson, Mode
<1>24. ASSUME StopPrewarm PROVE BargeInv'
  BY <1>24 DEF StopPrewarm, joining, presence, relaying, warming, marks, calling, RoomInv,
      RoomTypes, Noticing, BargeInv, BargeTakesAPerson, Mode
<1>25. ASSUME EndCallRelay PROVE BargeInv'
  BY <1>25 DEF EndCallRelay, EndRelay, StopSidecar, joining, presence, relaying, warming,
      marks, calling, RoomInv, RoomTypes, Noticing, BargeInv, BargeTakesAPerson, Mode
<1>26. ASSUME ForgetRoom PROVE BargeInv'
  BY <1>26 DEF ForgetRoom, joining, presence, relaying, warming, marks, calling, RoomInv,
      RoomTypes, Noticing, BargeInv, BargeTakesAPerson, Mode
<1>27. ASSUME NEW r \in Expiring, DeleteRoom(r) PROVE BargeInv'
  BY <1>27 DEF DeleteRoom, joining, presence, relaying, warming, marks, calling, RoomInv,
      RoomTypes, Noticing, BargeInv, BargeTakesAPerson, Mode
<1>28. ASSUME RemoveCall PROVE BargeInv'
  BY <1>28 DEF RemoveCall, joining, presence, relaying, warming, marks, calling, RoomInv,
      RoomTypes, Noticing, BargeInv, BargeTakesAPerson, Mode
<1>29. QED BY <1>1, <1>2, <1>3, <1>4, <1>5, <1>6, <1>7, <1>8, <1>9, <1>10, <1>11, <1>12,
    <1>13, <1>14, <1>15,
       <1>16, <1>17, <1>18, <1>19, <1>20, <1>21, <1>22, <1>23, <1>24, <1>25, <1>26, <1>27, <1>28
       DEF Room

\* What is kept of a room is kept under the name the call knows it by.
LEMMA RoomKeepsTidy ==
  ASSUME RoomInv, Room PROVE TidyInv'
<1>1. ASSUME NEW o \in Operators, NEW listen \in BOOLEAN, Join(o, listen) PROVE TidyInv'
  BY <1>1 DEF Join, joining, presence, relaying, warming, marks, calling, RoomInv,
      RoomTypes, TidyInv, HasRoom, WatchTidy, WarmTidy, RelayTidy, Under, Unwatched,
      Unwarmed, Unrelayed, Of
<1>2. ASSUME NEW o \in Operators, MakeRoom(o) PROVE TidyInv'
  <2>1. /\ rooms' = rooms \union {made + 1} /\ rc' = [rc EXCEPT !.room = made + 1]
        /\ UNCHANGED <<lcall, closing, people, watched, relaying, warming>>
    BY Zenon, <1>2 DEF MakeRoom, CreateRoom, presence, calling
  <2>2. ~raced' => ~raced /\ rc.room = 0 /\ lcall = "dialled"
    BY Zenon, <1>2 DEF MakeRoom
  <2>3. made + 1 # 0 /\ rc'.room = made + 1
    BY <2>1 DEF RoomInv, RoomTypes
  <2>4. QED BY <2>1, <2>2, <2>3 DEF RoomInv, RoomTypes, TidyInv, HasRoom, WatchTidy, WarmTidy,
      RelayTidy, Under, Unwatched, Unwarmed, Unrelayed, Of, relaying, warming
<1>3. ASSUME NEW o \in Operators, MakeRoomFails(o) PROVE TidyInv'
  BY <1>3 DEF MakeRoomFails, joining, presence, relaying, warming, marks, calling, RoomInv,
      RoomTypes, TidyInv, HasRoom, WatchTidy, WarmTidy, RelayTidy, Under, Unwatched,
      Unwarmed, Unrelayed, Of
<1>4. ASSUME NEW o \in Operators, ReplyToJoin(o) PROVE TidyInv'
  BY <1>4 DEF ReplyToJoin, joining, presence, relaying, warming, marks, calling, RoomInv,
      RoomTypes, TidyInv, HasRoom, WatchTidy, WarmTidy, RelayTidy, Under, Unwatched,
      Unwarmed, Unrelayed, Of
<1>5. ASSUME NEW o \in Operators, WatchAfterJoin(o) PROVE TidyInv'
  BY <1>5 DEF WatchAfterJoin, WatchForListener, joining, presence, relaying, warming,
      marks, calling, RoomInv, RoomTypes, TidyInv, HasRoom, WatchTidy, WarmTidy, RelayTidy,
      Under, Unwatched, Unwarmed, Unrelayed, Of
<1>6. ASSUME NEW r \in links, EnterRoom(r) PROVE TidyInv'
  BY <1>6 DEF EnterRoom, joining, presence, relaying, warming, marks, calling, RoomInv,
      RoomTypes, TidyInv, HasRoom, WatchTidy, WarmTidy, RelayTidy, Under, Unwatched,
      Unwarmed, Unrelayed, Of
<1>7. ASSUME CallAnswered PROVE TidyInv'
  BY <1>7 DEF CallAnswered, WatchForListener, StartsPrewarm, joining, presence, relaying,
      warming, marks, calling, RoomInv, RoomTypes, TidyInv, HasRoom, WatchTidy, WarmTidy,
      RelayTidy, Under, Unwatched, Unwarmed, Unrelayed, Of
<1>8. ASSUME NEW ok \in BOOLEAN, Prewarmed(ok) PROVE TidyInv'
  BY <1>8 DEF Prewarmed, joining, presence, relaying, warming, marks, calling, RoomInv,
      RoomTypes, TidyInv, HasRoom, WatchTidy, WarmTidy, RelayTidy, Under, Unwatched,
      Unwarmed, Unrelayed, Of
<1>9. ASSUME NEW d \in Detectors, NEW r \in watched, PollFinds(d, r) PROVE TidyInv'
  BY <1>9 DEF PollFinds, joining, presence, relaying, warming, marks, calling, RoomInv,
      RoomTypes, TidyInv, HasRoom, WatchTidy, WarmTidy, RelayTidy, Under, Unwatched,
      Unwarmed, Unrelayed, Of
<1>10. ASSUME NEW d \in Detectors, NEW ev \in joined, WebhookTells(d, ev) PROVE TidyInv'
  BY <1>10 DEF WebhookTells, Counts, joining, presence, relaying, warming, marks, calling,
      RoomInv, RoomTypes, TidyInv, HasRoom, WatchTidy, WarmTidy, RelayTidy, Under,
      Unwatched, Unwarmed, Unrelayed, Of
<1>11. ASSUME NEW d \in Detectors, Decide(d) PROVE TidyInv'
  BY <1>11 DEF Decide, Idle, joining, presence, relaying, warming, marks, calling, RoomInv,
      RoomTypes, TidyInv, HasRoom, WatchTidy, WarmTidy, RelayTidy, Under, Unwatched,
      Unwarmed, Unrelayed, Of
<1>12. ASSUME NEW d \in Detectors, RegisterRelay(d) PROVE TidyInv'
  <2>1. ~raced' => ~raced /\ ~Unrelayed
    BY Zenon, <1>12 DEF RegisterRelay
  <2>2. people # {}
    BY <1>12 DEF RegisterRelay, RoomInv, BargeInv
  <2>3. /\ rc' = [rc EXCEPT !.bridged = TRUE] /\ relay' = d
        /\ UNCHANGED <<lcall, closing, rooms, people, watched, sidecars, prewarm>>
    BY <1>12 DEF RegisterRelay, calling, joining, presence, warming
  <2>4. rc'.room = rc.room
    BY <2>3 DEF RoomInv, RoomTypes
  <2>5. ~Unrelayed => rc.room # 0
    BY <2>2 DEF RoomInv, RoomTypes, TidyInv, HasRoom, Under, Unrelayed, Unwarmed, Unwatched
  <2>6. HasRoom'
    BY <2>1, <2>3, <2>4 DEF RoomInv, TidyInv, HasRoom, Under
  <2>7. ~raced' => WatchTidy' /\ WarmTidy'
    BY <2>1, <2>3, <2>4 DEF RoomInv, TidyInv, WatchTidy, WarmTidy, Unwatched, Unwarmed
  <2>8. ~raced' => RelayTidy'
    BY <2>1, <2>3, <2>4, <2>5, LiveRoomAssumption
    DEF RoomInv, TidyInv, RelayTidy, Unrelayed, Unwarmed, Unwatched
  <2>9. QED BY <2>6, <2>7, <2>8 DEF TidyInv
<1>13. ASSUME NEW d \in Detectors, SidecarStarts(d) PROVE TidyInv'
  <2>1. ~raced' => ~raced /\ sidecars.run = {} /\ relay = d
    BY Zenon, <1>13 DEF SidecarStarts
  <2>2. /\ sidecars' = [run |-> sidecars.run \union {d}, map |-> d]
        /\ UNCHANGED <<lcall, closing, rc, rooms, people, watched, relay, prewarm>>
    BY <1>13 DEF SidecarStarts, calling, joining, presence, warming
  <2>3. HasRoom'
    BY <2>1, <2>2 DEF RoomInv, TidyInv, HasRoom, Under
  <2>4. ~raced' => WatchTidy' /\ WarmTidy'
    BY <2>1, <2>2 DEF RoomInv, TidyInv, WatchTidy, WarmTidy, Unwatched, Unwarmed
  <2>5. ~raced' => RelayTidy'
    BY <2>1, <2>2, LiveRoomAssumption DEF RoomInv, TidyInv, RelayTidy, Unrelayed, Unwarmed, Unwatched
  <2>6. QED BY <2>3, <2>4, <2>5 DEF TidyInv
<1>14. ASSUME NEW d \in Detectors, RelayFails(d) PROVE TidyInv'
  BY <1>14 DEF RelayFails, EndRelay, StopSidecar, joining, presence, relaying, warming,
      marks, calling, RoomInv, RoomTypes, TidyInv, HasRoom, WatchTidy, WarmTidy, RelayTidy,
      Under, Unwatched, Unwarmed, Unrelayed, Of
<1>15. ASSUME NEW d \in Detectors, NEW ok \in BOOLEAN, StartConference(d, ok) PROVE TidyInv'
  BY <1>15 DEF StartConference, Go, Idle, joining, presence, relaying, warming, marks,
      calling, RoomInv, RoomTypes, TidyInv, HasRoom, WatchTidy, WarmTidy, RelayTidy, Under,
      Unwatched, Unwarmed, Unrelayed, Of
<1>16. ASSUME NEW d \in Detectors, CallGone(d) PROVE TidyInv'
  BY <1>16 DEF CallGone, Go, Idle, joining, presence, relaying, warming, marks, calling,
      RoomInv, RoomTypes, TidyInv, HasRoom, WatchTidy, WarmTidy, RelayTidy, Under,
      Unwatched, Unwarmed, Unrelayed, Of
<1>17. ASSUME NEW d \in Detectors, NEW last \in BOOLEAN, DialFails(d, last) PROVE TidyInv'
  BY <1>17 DEF DialFails, Go, Idle, joining, presence, relaying, warming, marks, calling,
      RoomInv, RoomTypes, TidyInv, HasRoom, WatchTidy, WarmTidy, RelayTidy, Under,
      Unwatched, Unwarmed, Unrelayed, Of
<1>18. ASSUME NEW d \in Detectors, Dial(d) PROVE TidyInv'
  BY <1>18 DEF Dial, joining, presence, relaying, warming, marks, calling, RoomInv,
      RoomTypes, TidyInv, HasRoom, WatchTidy, WarmTidy, RelayTidy, Under, Unwatched,
      Unwarmed, Unrelayed, Of
<1>19. ASSUME NEW d \in Detectors, Dialled(d) PROVE TidyInv'
  BY <1>19 DEF Dialled, Hushes, Go, Idle, joining, presence, relaying, warming, marks,
      calling, RoomInv, RoomTypes, TidyInv, HasRoom, WatchTidy, WarmTidy, RelayTidy, Under,
      Unwatched, Unwarmed, Unrelayed, Of
<1>20. ASSUME NEW d \in Detectors, StepOut(d) PROVE TidyInv'
  BY <1>20 DEF StepOut, Go, Idle, joining, presence, relaying, warming, marks, calling,
      RoomInv, RoomTypes, TidyInv, HasRoom, WatchTidy, WarmTidy, RelayTidy, Under,
      Unwatched, Unwarmed, Unrelayed, Of
<1>21. ASSUME NEW d \in Detectors, SidecarExits(d) PROVE TidyInv'
  BY <1>21 DEF SidecarExits, joining, presence, relaying, warming, marks, calling, RoomInv,
      RoomTypes, TidyInv, HasRoom, WatchTidy, WarmTidy, RelayTidy, Under, Unwatched,
      Unwarmed, Unrelayed, Of
<1>22. ASSUME EndLiveRoom PROVE TidyInv'
  BY <1>22 DEF EndLiveRoom, joining, presence, relaying, warming, marks, calling, RoomInv,
      RoomTypes, TidyInv, HasRoom, WatchTidy, WarmTidy, RelayTidy, Under, Unwatched,
      Unwarmed, Unrelayed, Of
<1>23. ASSUME UnwatchRoom PROVE TidyInv'
  BY <1>23 DEF UnwatchRoom, joining, presence, relaying, warming, marks, calling, RoomInv,
      RoomTypes, TidyInv, HasRoom, WatchTidy, WarmTidy, RelayTidy, Under, Unwatched,
      Unwarmed, Unrelayed, Of
<1>24. ASSUME StopPrewarm PROVE TidyInv'
  BY <1>24 DEF StopPrewarm, joining, presence, relaying, warming, marks, calling, RoomInv,
      RoomTypes, TidyInv, HasRoom, WatchTidy, WarmTidy, RelayTidy, Under, Unwatched,
      Unwarmed, Unrelayed, Of
<1>25. ASSUME EndCallRelay PROVE TidyInv'
  BY <1>25 DEF EndCallRelay, EndRelay, StopSidecar, joining, presence, relaying, warming,
      marks, calling, RoomInv, RoomTypes, TidyInv, HasRoom, WatchTidy, WarmTidy, RelayTidy,
      Under, Unwatched, Unwarmed, Unrelayed, Of
<1>26. ASSUME ForgetRoom PROVE TidyInv'
  BY <1>26 DEF ForgetRoom, joining, presence, relaying, warming, marks, calling, RoomInv,
      RoomTypes, TidyInv, HasRoom, WatchTidy, WarmTidy, RelayTidy, Under, Unwatched,
      Unwarmed, Unrelayed, Of
<1>27. ASSUME NEW r \in Expiring, DeleteRoom(r) PROVE TidyInv'
  BY <1>27 DEF DeleteRoom, Expiring, joining, presence, relaying, warming, marks, calling,
      RoomInv, RoomTypes, TidyInv, HasRoom, WatchTidy, WarmTidy, RelayTidy, Under,
      Unwatched, Unwarmed, Unrelayed, Of
<1>28. ASSUME RemoveCall PROVE TidyInv'
  BY <1>28 DEF RemoveCall, joining, presence, relaying, warming, marks, calling, RoomInv,
      RoomTypes, TidyInv, HasRoom, WatchTidy, WarmTidy, RelayTidy, Under, Unwatched,
      Unwarmed, Unrelayed, Of
<1>29. QED BY <1>1, <1>2, <1>3, <1>4, <1>5, <1>6, <1>7, <1>8, <1>9, <1>10, <1>11, <1>12,
    <1>13, <1>14, <1>15,
       <1>16, <1>17, <1>18, <1>19, <1>20, <1>21, <1>22, <1>23, <1>24, <1>25, <1>26, <1>27, <1>28
       DEF Room

LEMMA RoomInvHolds == Spec => []RoomInv
<1>1. Init => RoomInv
  BY RoomInitially DEF Init
<1>2. RoomInv /\ [Next]_vars => RoomInv'
  BY PartsStepApart, RoomStands, RoomKeepsTypes, RoomKeepsBarge, RoomKeepsTidy DEF RoomInv
<1>3. QED BY <1>1, <1>2, PTL DEF Spec

(* "treating that as a barge hushed the agent in the middle of its         *)
(* greeting" (live_room.go, handleDailyWebhook): for every number of       *)
(* operators, detectors and rooms, and wherever each has got to, the agent *)
(* is silenced or taken off the call only after a person has come in, and  *)
(* never for people who all asked merely to listen.                        *)
THEOREM BargeTakesAPersonHolds == Spec => []BargeTakesAPerson
<1>1. RoomInv => BargeTakesAPerson
  BY DEF RoomInv, BargeInv
<1>2. QED BY <1>1, RoomInvHolds, PTL

(* The end of the call (live_room.go, endLiveRoom), one step after another *)
(* with anything in between: what they take down is all there is, unless   *)
(* something came too late for the step that undoes it; and the only room  *)
(* is the one whose deletion is under way, or failed and left it to expire.*)
THEOREM EndedCallLeavesNothingHolds == Spec => []EndedCallLeavesNothing
<1>1. RoomInv => EndedCallLeavesNothing
  BY DEF RoomInv, TidyInv, HasRoom, WatchTidy, WarmTidy, RelayTidy, Unwatched, Unwarmed,
      Unrelayed, Expiring, EndedCallLeavesNothing, Of
<1>2. QED BY <1>1, RoomInvHolds, PTL

-----------------------------------------------------------------------------
(* The whole call.                                                         *)
LEMMA ReplyTypes ==
  ASSUME ReplyInv PROVE ReplyTypeOK
<1>1. chat.phase \in Phases /\ chat.rounds \in 0 .. MaxRounds + 2
      /\ chat.empties \in 0 .. MaxEmptyTurnRetries /\ chat.made \in 0 .. MaxChunks
  BY DEF ReplyInv, LoopInv, ChatTypes
<1>2. history \in Seq({"user", "assistant", "tool"}) /\ Len(history) < 2 * (ChatSize + 1)
      /\ transcript \in Seq({"greeting", "user", "agent"}) /\ spokenAudio \in Nat
  BY DEF ReplyInv, AccountInv, FitsWindow, Bounded
<1>3. ToSet(history) \subseteq {"user", "assistant", "tool"}
      /\ ToSet(transcript) \subseteq {"greeting", "user", "agent"}
  BY <1>2 DEF ToSet
<1>4. QED BY <1>1, <1>2, <1>3 DEF ReplyTypeOK, Phases

LEMMA TransferTypes ==
  ASSUME TransferInv PROVE TransferTypeOK
<1>1. announced \in Nat /\ accepted \in Nat /\ transferred = accepted
      /\ accepted + AskingNow("tool") + AskingNow("repair") <= announced
  BY TransferAssumption DEF TransferInv
<1>2. AskingNow("tool") \in Nat /\ AskingNow("repair") \in Nat
  BY DEF AskingNow
<1>3. accepted + transferred <= 2 * announced
  <2> DEFINE a == AskingNow("tool")
             b == AskingNow("repair")
  <2> HIDE DEF a, b
  <2>1. a \in Nat /\ b \in Nat /\ accepted + a + b <= announced
    BY Zenon, <1>1, <1>2 DEF a, b
  <2>2. accepted <= announced
    BY <1>1, <2>1
  <2>3. QED BY <1>1, <2>2
<1>4. QED BY <1>3 DEF TransferInv, TransferTypeOK

LEMMA VoicemailTypes ==
  ASSUME MachineInv, CacheInv PROVE VoicemailTypeOK
<1>1. bytes \in Int
  <2>1. bytes = Cardinality(Bytes(held)) /\ IsFiniteSet(Bytes(held))
    BY Zenon DEF CacheInv, SizeOfAll, Bytes
  <2>2. QED BY <2>1, FS_CardinalityType
<1>2. held \subseteq Announcements /\ ToSet(order) \subseteq Announcements
      /\ wants \in [Getters -> Announcements \union {"none"}]
  BY DEF CacheInv
<1>3. QED BY <1>1, <1>2 DEF MachineInv, MachineTypes, Frames, NotYet, VoicemailTypeOK

(* Every variable of the call's seven parts stays within its type, for     *)
(* every value of the constants.                                           *)
THEOREM TypeCorrect == Spec => []TypeOK
<1>1. Spec => [](part \in Parts)
  <2>1. Init => part \in Parts
    BY DEF Init
  <2>2. part \in Parts /\ [Next]_vars => (part \in Parts)'
    BY PartsStepApart
  <2>3. QED BY <2>1, <2>2, PTL DEF Spec
<1>2. ASSUME part \in Parts, GateInv, SpeechInv, MediaInv, ReplyInv, RoomInv, TransferInv,
             MachineInv, CacheInv
      PROVE  TypeOK
  <2>1. GateTypeOK
    BY <1>2 DEF GateInv
  <2>2. RoomTypeOK
    BY <1>2 DEF RoomInv, RoomTypes
  <2>3. SpeechTypeOK /\ MediaTypeOK /\ ReplyTypeOK /\ TransferTypeOK /\ VoicemailTypeOK
    BY <1>2, SpeechTypes, MediaTypes, ReplyTypes, TransferTypes, VoicemailTypes
  <2>4. QED BY <1>2, <2>1, <2>2, <2>3 DEF TypeOK
<1>3. QED BY <1>1, <1>2, GateInvHolds, SpeechInvHolds, MediaInvHolds, ReplyInvHolds,
      RoomInvHolds, TransferInvHolds, MachineInvHolds, CacheInvHolds, PTL
=============================================================================
