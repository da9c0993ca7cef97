--------------------------- MODULE MCCallCapacity ---------------------------
(* Model checking of CallCapacity: at most one call of each kind.            *)
EXTENDS CallCapacity

BothIds == (Outbound \cup Inbound \cup Browser) \X {"sid", "cc"}
=============================================================================
