---------------------------- MODULE TransferTool ----------------------------
(***************************************************************************)
(* Handing the caller to a person (transfer.go): the tool the model calls, *)
(* and the observer of the agent's turns that calls it when the agent has  *)
(* said it is transferring and has not.                                    *)
(*                                                                         *)
(* The tool runs on the goroutine that runs the turn, the observer on      *)
(* whichever reports it, the turn's own or an interruption's; `done` is    *)
(* read and written with no lock.                                          *)
(***************************************************************************)
EXTENDS Integers

CONSTANTS MaxTurns,      \* bound: agent turns
          MaxAttempts    \* bound: attempts at the carrier
ASSUME TransferAssumption == {MaxTurns, MaxAttempts} \subseteq Nat
Callers == {"tool", "repair"}

VARIABLES
  offered,    \* the call has a transfer destination, so the tool is registered
  done,       \* t.done
  once,       \* the turn whose promise the observer has acted on, 0 for none
  exec,       \* where each caller's Execute has got to
  turn,       \* the agent's turn: its number, a promise in it, and who has yet to report it
  announced,  \* transfer_initiated events
  accepted,   \* transfers the carrier made
  transferred,\* call_transferred events
  away        \* leaveCall has run

transferVars == <<offered, done, once, exec, turn, announced, accepted, transferred, away>>

(* registerTransferTool: no destination, no tool.                          *)
RegisterTransferTool == offered \in BOOLEAN
TransferInit ==
  /\ RegisterTransferTool
  /\ done = FALSE /\ once = 0 /\ exec = [c \in Callers |-> "none"]
  /\ turn = [no |-> 0, promise |-> FALSE, on |-> FALSE]
  /\ announced = 0 /\ accepted = 0 /\ transferred = 0 /\ away = FALSE

AgentSpeaks(promise) ==
  /\ ~turn.on /\ turn.no < MaxTurns /\ ~away /\ exec["tool"] = "none"
  /\ turn' = [no |-> turn.no + 1, promise |-> promise, on |-> TRUE]
  /\ UNCHANGED <<offered, done, once, exec, announced, accepted, transferred, away>>

(* The model calls the tool in the course of a turn.                       *)
CallTool ==
  /\ turn.on /\ offered /\ exec["tool"] = "none"
  /\ exec' = [exec EXCEPT !["tool"] = "called"]
  /\ UNCHANGED <<offered, done, once, turn, announced, accepted, transferred, away>>

(* transferOnPromise: the turn is reported, at its end or because the      *)
(* caller spoke over it; the tool may still be running in the second case. *)
TurnReported(interrupted) ==
  /\ turn.on /\ (interrupted \/ exec["tool"] = "none")
  /\ turn' = [turn EXCEPT !.on = FALSE]
  /\ IF turn.promise /\ offered /\ once = 0
       THEN once' = turn.no /\ exec' = [exec EXCEPT !["repair"] = "called"]
       ELSE UNCHANGED <<offered, once, exec>>
  /\ UNCHANGED <<offered, done, announced, accepted, transferred, away>>

(* Execute: look at done, set it, announce, ask the carrier.               *)
AlreadyDone(c) ==
  /\ exec[c] = "called" /\ done
  /\ exec' = [exec EXCEPT ![c] = "none"]
  /\ UNCHANGED <<offered, done, once, turn, announced, accepted, transferred, away>>
GoAhead(c) ==
  /\ exec[c] = "called" /\ ~done
  /\ exec' = [exec EXCEPT ![c] = "going"]
  /\ UNCHANGED <<offered, done, once, turn, announced, accepted, transferred, away>>
PostTransferInitiated == announced < MaxAttempts /\ announced' = announced + 1
Announce(c) ==
  /\ exec[c] = "going" /\ PostTransferInitiated
  /\ exec' = [exec EXCEPT ![c] = "asking"] /\ done' = TRUE
  /\ UNCHANGED <<offered, once, turn, accepted, transferred, away>>

(* Mutant of TransferFails: the tool stays spent. *)
TransferFailsForGood(c) ==
  /\ exec[c] = "asking" /\ exec' = [exec EXCEPT ![c] = "none"]
  /\ UNCHANGED <<offered, done, once, turn, announced, accepted, transferred, away>>

(* Refused, or no answer in 20 s: the model may try again.                 *)
TransferFails(c) ==
  /\ exec[c] = "asking" /\ exec' = [exec EXCEPT ![c] = "none"]
  /\ done' = FALSE
  /\ UNCHANGED <<offered, once, turn, announced, accepted, transferred, away>>
(* Made: the event, the capacity slot, and the agent leaves.               *)
TransferMade(c) ==
  /\ exec[c] = "asking" /\ exec' = [exec EXCEPT ![c] = "none"]
  /\ accepted' = accepted + 1 /\ transferred' = transferred + 1 /\ away' = TRUE
  /\ UNCHANGED <<offered, done, once, turn, announced>>

TransferTypeOK ==
  /\ {offered, done, away} \subseteq BOOLEAN /\ turn.no \in 0..MaxTurns /\ once \in 0..MaxTurns
  /\ \A c \in Callers : exec[c] \in {"none", "called", "going", "asking"}
  /\ announced \in 0..MaxAttempts /\ accepted + transferred <= 2 * announced

(* "let the model try again if the caller asks" (Execute): once nothing is *)
(* under way, a tool that has not transferred the call is not spent,       *)
(* however the tool's own attempts and the observer's came to overlap.     *)
FailedTransferCanBeRetried ==
  (\A c \in Callers : exec[c] \notin {"going", "asking"}) /\ accepted = 0 => ~done
=============================================================================
