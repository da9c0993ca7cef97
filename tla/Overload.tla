------------------------------ MODULE Overload ------------------------------
(***************************************************************************)
(* What keeps the agent from taking on more than it can do: the latency    *)
(* gates and the calls they admit, the gate in front of the platform's own *)
(* use of the model, and the limiter in front of the browser's socket.     *)
(* They share no state; a behaviour is one part's.                         *)
(***************************************************************************)
EXTENDS Backpressure, IdleGate, RateLimiter

CONSTANT Parts
VARIABLE part

vars == <<part, loopVars, gateWorkVars, limiterVars>>

Init == part \in Parts /\ LoopInit /\ IdleGateInit /\ LimiterInit

OnCalls == part = "calls" /\ UNCHANGED <<part, gateWorkVars, limiterVars>>
OnModel == part = "model" /\ UNCHANGED <<part, loopVars, limiterVars>>
OnSocket == part = "socket" /\ UNCHANGED <<part, loopVars, gateWorkVars>>

Next ==
  \/ \E c \in Call : Admit(c) /\ OnCalls
  \/ \E c \in Call : Arrive(c) /\ OnCalls
  \/ \E c \in Call : End(c) /\ OnCalls
  \/ \E c \in Call, level \in Level : FirstTurn(c, level) /\ OnCalls
  \/ \E c \in Call, level \in Level : LaterTurn(c, level) /\ OnCalls
  \/ \E t \in Tier, level \in Level : Request(t, level) /\ OnCalls
  \/ CooldownTick /\ OnCalls
  \/ Drain /\ OnCalls
  \/ \E q \in Prompts : Prompt(q) /\ OnModel
  \/ \E q \in Prompts : ClientGoes(q) /\ OnModel
  \/ \E q \in Prompts : TakeSlot(q) /\ OnModel
  \/ \E q \in Prompts : LeaveLine(q) /\ OnModel
  \/ \E q \in Prompts : SeeQuiet(q) /\ OnModel
  \/ \E q \in Prompts : SeeBusy(q) /\ OnModel
  \/ \E q \in Prompts : Wake(q) /\ OnModel
  \/ \E q \in Prompts : Proceed(q) /\ OnModel
  \/ \E q \in Prompts : ForwardEnds(q) /\ OnModel
  \/ \E r \in Connections : Connect(r) /\ OnSocket
  \/ \E r \in Connections : FindBucket(r) /\ OnSocket
  \/ \E r \in Connections : MakeBucket(r) /\ OnSocket
  \/ \E r \in Connections : Allowed(r) /\ OnSocket
  \/ \E r \in Connections : TooFast(r) /\ OnSocket
  \/ \E r \in Connections : Disconnect(r) /\ OnSocket
  \/ Refill /\ OnSocket
  \/ Sweep /\ OnSocket

(* Calls end, and the clock moves: fairness of one tick of a cooldown says *)
(* nothing of its end, for a trip while the gate is shut starts it again.  *)
(* Of a request for the model, what IdleGateStep says.                     *)
Spec ==
  /\ Init /\ [][Next]_vars
  /\ WF_vars(CooldownTick /\ OnCalls)
  /\ \A c \in Call : WF_vars(End(c) /\ OnCalls)
  /\ \A q \in Prompts : WF_vars(IdleGateStep(q) /\ OnModel)

TypeOK == part \in Parts /\ LoopTypeOK /\ IdleGateTypeOK /\ LimiterTypeOK
=============================================================================
