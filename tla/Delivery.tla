------------------------------ MODULE Delivery ------------------------------
(***************************************************************************)
(* The three wires between the agent and the platform, which share no      *)
(* state: what the platform asks (DispatchDoor), what the agent reports    *)
(* (Callbacks) and what it shows while the call is on (LivePublisher).     *)
(* A behaviour is one wire's: interleaving steps of wires that cannot see  *)
(* each other would only multiply the states.                              *)
(***************************************************************************)
EXTENDS DispatchDoor, LivePublisher, Callbacks

VARIABLE wire

vars == <<wire, doorVars, liveVars, callbackVars>>
Wires == {"dispatch", "live", "callbacks"}

Init ==
  /\ wire \in Wires
  /\ DoorInit /\ (wire # "dispatch" => skew = 0)
  /\ LiveInit /\ (wire # "live" => ~secured /\ ~fallback /\ ~client.pwd)
  /\ CallbacksInit

OnDispatch == wire = "dispatch" /\ UNCHANGED <<wire, liveVars, callbackVars>>
OnLive == wire = "live" /\ UNCHANGED <<wire, doorVars, callbackVars>>
OnCallbacks == wire = "callbacks" /\ UNCHANGED <<wire, doorVars, liveVars>>

Next ==
  \/ Tick /\ OnDispatch
  \/ \E d \in Dispatches :
       \/ Attempt(d) /\ OnDispatch
       \/ Stray(d) /\ OnDispatch
       \/ GiveUpWaiting(d) /\ OnDispatch
       \/ DispatchOK(d) /\ OnDispatch
       \/ DispatchFails(d) /\ OnDispatch
       \/ CallOver(d) /\ OnDispatch
  \/ \E r \in DOMAIN passes :
       \/ Oversized(r) /\ OnDispatch
       \/ Unauthenticated(r) /\ OnDispatch
       \/ Undecodable(r) /\ OnDispatch
       \/ AtCapacity(r) /\ OnDispatch
       \/ Enter(r) /\ OnDispatch
  \/ \E k \in Keys : AddKey(k) /\ OnLive
  \/ \E e \in Events :
       \/ Begin(e) /\ OnLive
       \/ Dropped(e) /\ OnLive
       \/ Push(e) /\ OnLive
       \/ Denied(e) /\ OnLive
       \/ Judge(e) /\ OnLive
       \/ Redial(e) /\ OnLive
       \/ Replay(e) /\ OnLive
       \/ PushFailed(e) /\ OnLive
       \/ Close(e) /\ OnLive
  \/ \E r \in Reports : Report(r) /\ OnCallbacks
  \/ \E c \in Callbacks : Try(c) /\ OnCallbacks
  \/ \E r \in Reports : BackOff(r) /\ OnCallbacks
  \/ \E t \in Turns :
       \/ HearTurn(t) /\ OnCallbacks
       \/ Observe(t) /\ OnCallbacks
       \/ BackOffUntil(t) /\ OnCallbacks
  \/ CallEnds /\ OnCallbacks

Spec == Init /\ [][Next]_vars

TypeOK == wire \in Wires /\ DoorTypeOK /\ LiveTypeOK /\ CallbacksTypeOK
=============================================================================
