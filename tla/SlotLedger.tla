----------------------------- MODULE SlotLedger -----------------------------
(***************************************************************************)
(* What the capacity registry promises the rest of the agent: every call   *)
(* is granted a slot at most once, an outbound one only below the ceiling, *)
(* and a slot that came back is never held again.                          *)
(***************************************************************************)
EXTENDS Integers, FiniteSets

CONSTANTS Call,     \* the calls of one run
          Exempt,   \* the calls that are counted but never refused
          Ceiling   \* the most calls ever admitted at once, 0 = unlimited

VARIABLE status     \* [Call -> "new", "held" or "done"]

Held == {c \in Call : status[c] = "held"}

Init == status = [c \in Call |-> "new"]

Grant(c) ==
  /\ status[c] = "new"
  /\ c \in Exempt \/ Ceiling = 0 \/ Cardinality(Held \ Exempt) < Ceiling
  /\ status' = [status EXCEPT ![c] = "held"]

(* One call ends, or the reaper takes back several at once. *)
Return(S) ==
  /\ S # {} /\ S \subseteq Held
  /\ status' = [c \in Call |-> IF c \in S THEN "done" ELSE status[c]]

Next == (\E c \in Call : Grant(c)) \/ (\E S \in SUBSET Call : Return(S))

Spec == Init /\ [][Next]_status
=============================================================================
