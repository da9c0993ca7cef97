--------------------------- MODULE InstanceOwners ---------------------------
(***************************************************************************)
(* What a session may rely on when it borrows a speech engine: an engine   *)
(* has one owner at a time, the pool or one session, and one that was      *)
(* scrapped never works again.  `ProviderPool` implements this.            *)
(***************************************************************************)
CONSTANTS
  Instances,
  Users,
  PoolItself

VARIABLES
  made,    \* the instances created so far
  owner    \* who may touch an instance: a singleton, or nobody once it is scrapped

ownersVars == <<made, owner>>

Owners == Users \union {PoolItself}

OwnersInit ==
  /\ made \in SUBSET Instances
  /\ owner = [i \in Instances |-> IF i \in made THEN {PoolItself} ELSE {}]

\* Ownership passes from one owner to another, or ends.
Pass(i) ==
  /\ \E from \in Owners : owner[i] = {from}
  /\ \E to \in {{o} : o \in Owners} \union {{}} : owner' = [owner EXCEPT ![i] = to]
  /\ UNCHANGED made

Make(i) ==
  /\ i \notin made
  /\ made' = made \union {i}
  /\ \E u \in Users : owner' = [owner EXCEPT ![i] = {u}]

OwnersNext == \E i \in Instances : Pass(i) \/ Make(i)

OwnersSpec == OwnersInit /\ [][OwnersNext]_ownersVars
=============================================================================
