----------------------------- MODULE MCOverload -----------------------------
(* A few concurrent calls; two or three requests for the model, and three  *)
(* connections, two of them from one address.                              *)
EXTENDS Overload

CONSTANTS home, office, r1, r2, r3

AllParts == {"calls", "model", "socket"}
MCAddressOf == [r \in Connections |-> IF r = r3 THEN office ELSE home]
=============================================================================
