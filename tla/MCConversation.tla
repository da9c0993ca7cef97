--------------------------- MODULE MCConversation ---------------------------
(* One call's parts, each small enough to be explored to the end and large *)
(* enough for its interleavings; the tool budget, the retries and the      *)
(* window of half-windows are the code's own.                              *)
EXTENDS Conversation, TLC

CONSTANTS voice, prompt, hello, message, other

(* Two fit together, one alone is too much. *)
MCSizeOf == [k \in Announcements |-> IF k = hello THEN 1 ELSE IF k = message THEN 2 ELSE 4]

AllParts == {"gate", "speech", "media", "reply", "room", "transfer", "cache", "machine"}

(* Two rooms made by two Joins, and one made by a Join before or after the *)
(* carrier's answer, both listened to over the relay; one made before the  *)
(* call, with a pre-joiner in it and no relay.                             *)
MCSetups == {
  [prepublish |-> FALSE, relay |-> TRUE, prewarm |-> FALSE, rooms |-> 2, answered |-> 0],
  [prepublish |-> FALSE, relay |-> TRUE, prewarm |-> FALSE, rooms |-> 1, answered |-> 1],
  [prepublish |-> TRUE, relay |-> FALSE, prewarm |-> TRUE, rooms |-> 1, answered |-> 1]}

(* Nothing tells operators or detectors apart. *)
Symmetry == Permutations(Operators) \union Permutations(Detectors)
=============================================================================
