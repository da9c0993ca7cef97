------------------------------ MODULE LiveRoom ------------------------------
(***************************************************************************)
(* An operator listening in on one call, or taking it over (live_room.go,  *)
(* leg_answered.go, relay_media.go): the Join request, the room made for   *)
(* it, the watch that notices a person enter, the bridge, and its end.     *)
(*                                                                         *)
(* Every Join, the poller, Daily's webhook and the carrier's run on        *)
(* goroutines of their own; the call's fields are read and written with no *)
(* lock, the map of watched rooms under one.  A detector and the bridging  *)
(* goroutine it starts are one actor.  A room is its number.               *)
(***************************************************************************)
EXTENDS Integers, FiniteSets

CONSTANTS
  Operators,      \* who may press Join
  Setups,         \* the configurations to try: LiveRoomPrepublish, relayReady, LiveRoomPrewarm,
                  \* and two bounds: the rooms made and the answers delivered in each
  Detectors,      \* goroutines that notice a person: the poller's, the webhook's
  MaxRooms,       \* bound: rooms made, whatever the setup
  MaxAnswered     \* bound: deliveries of call.answered, whatever the setup
ASSUME LiveRoomAssumption ==
  /\ MaxRooms \in Nat \ {0} /\ MaxAnswered \in Nat /\ "none" \notin Detectors
  /\ Setups \subseteq [prepublish : BOOLEAN, relay : BOOLEAN, prewarm : BOOLEAN,
                       rooms : 1..MaxRooms, answered : 0..MaxAnswered]

VARIABLES
  lcall,        \* the call: "dialled", the steps of endLiveRoom, "ending", "gone"
  closing,      \* the room endLiveRoom took the name of, until it is deleted
  setup,        \* the configuration
  rc,           \* roomName, bridged, listenOnly
  rooms,        \* rooms that exist at Daily
  made,         \* rooms made
  join,         \* where each operator's Join has got to
  links,        \* rooms whose link somebody has
  people,       \* rooms with a person in them
  joined,       \* participant.joined events to come: <<room, is the pre-joiner>>
  watched,      \* watchedRooms
  detector,     \* where each detector has got to
  agent,        \* hushed, left
  relay,        \* the call's entry in relays, or "none"
  sidecars,     \* sidecar processes: running, and the one the map holds
  prewarm,      \* pre-joiners, by their rooms: being started, running, and in the map
  deliveries,   \* of call.answered
  bargeWanted,  \* history: somebody came who did not ask only to listen
  raced         \* history: a hand-over of this feature's own state was overtaken

joining  == <<rooms, made, join, links>>
presence == <<people, joined>>
relaying == <<relay, sidecars>>
warming  == <<prewarm, deliveries>>
marks    == <<bargeWanted, raced>>
calling   == <<lcall, closing>>
roomVars == <<calling, setup, rc, joining, presence, watched, detector, agent, relaying,
              warming, marks>>

Idle == [at |-> "idle", listen |-> FALSE]

(* startLiveRoom: with LiveRoomPrepublish the room is there before the dial. *)
RoomInit ==
  /\ lcall = "dialled" /\ closing = 0 /\ setup \in Setups
  /\ made = (IF setup.prepublish THEN 1 ELSE 0) /\ rooms = 1..made
  /\ rc = [room |-> made, bridged |-> FALSE, listenOnly |-> FALSE]
  /\ join = [o \in Operators |-> "none"] /\ links = rooms
  /\ people = {} /\ joined = {} /\ watched = {}
  /\ detector = [d \in Detectors |-> Idle]
  /\ agent = [hushed |-> FALSE, left |-> FALSE]
  /\ relay = "none" /\ sidecars = [run |-> {}, map |-> "none"]
  /\ prewarm = [minting |-> 0, running |-> {}, map |-> 0]
  /\ deliveries = 0 /\ bargeWanted = FALSE /\ raced = FALSE

(* How far endLiveRoom has got.                                            *)
Unwatched == lcall \notin {"dialled", "unwatch"}
Unwarmed  == Unwatched /\ lcall # "unwarm"
Unrelayed == Unwarmed /\ lcall # "unrelay"

-----------------------------------------------------------------------------
(* handleJoinCall, as far as the mode; a call's entry outlives endLiveRoom. *)
Join(o, listen) ==
  /\ join[o] = "none" /\ lcall # "gone"
  /\ rc' = [rc EXCEPT !.listenOnly = listen]
  /\ bargeWanted' = (bargeWanted \/ ~listen)
  /\ join' = [join EXCEPT ![o] = IF rc.room = 0 THEN "creating" ELSE "reply"]
  /\ UNCHANGED <<calling, setup, rooms, made, links, presence, watched, detector, agent,
                 relaying, warming, raced>>
(* CreateRoom: a room whose token could not be had is a room all the same. *)
CreateRoom ==
  made < setup.rooms /\ made' = made + 1 /\ rooms' = rooms \union {made + 1}
(* ensureLiveRoom: nobody looks again whether a room was made meanwhile.   *)
MakeRoom(o) ==
  /\ join[o] = "creating" /\ CreateRoom
  /\ rc' = [rc EXCEPT !.room = made + 1]
  /\ raced' = (raced \/ rc.room # 0 \/ lcall # "dialled")
  /\ join' = [join EXCEPT ![o] = "reply"]
  /\ UNCHANGED <<calling, setup, links, presence, watched, detector, agent, relaying,
                 warming, bargeWanted>>
MakeRoomFails(o) ==
  /\ join[o] = "creating" /\ join' = [join EXCEPT ![o] = "none"]
  /\ UNCHANGED <<calling, setup, rc, rooms, made, links, presence, watched, detector,
                 agent, relaying, warming, marks>>
(* The operator has the link; then the room is watched.                    *)
ReplyToJoin(o) ==
  /\ join[o] = "reply" /\ join' = [join EXCEPT ![o] = "watch"]
  /\ links' = IF rc.room = 0 THEN links ELSE links \union {rc.room}
  /\ UNCHANGED <<calling, setup, rc, rooms, made, presence, watched, detector, agent,
                 relaying, warming, marks>>
(* watchForListener.                                                       *)
WatchForListener ==
  /\ watched' = IF rc.room = 0 THEN watched ELSE watched \union {rc.room}
  /\ raced' = (raced \/ (rc.room # 0 /\ Unwatched))
WatchAfterJoin(o) ==
  /\ join[o] = "watch" /\ join' = [join EXCEPT ![o] = "done"]
  /\ WatchForListener
  /\ UNCHANGED <<calling, setup, rc, rooms, made, links, presence, detector, agent,
                 relaying, warming, bargeWanted>>
(* A person opens a room they were told of, or found published.            *)
EnterRoom(r) ==
  /\ r \in links /\ r \in rooms \ people
  /\ people' = people \union {r} /\ joined' = joined \union {<<r, FALSE>>}
  /\ bargeWanted' = (bargeWanted \/ \A o \in Operators : join[o] = "none")
  /\ UNCHANGED <<calling, setup, rc, joining, watched, detector, agent, relaying, warming,
                 raced>>

(* startPrewarm: not while a pre-joiner is in the map; one on its way is   *)
(* not there yet.                                                          *)
StartsPrewarm == setup.prewarm /\ rc.room # 0 /\ prewarm.map = 0
(* call.answered: watchForListener, startPrewarm.  A bound: delivered      *)
(* again, it waits until a pre-joiner being started is there.              *)
CallAnswered ==
  /\ lcall # "gone" /\ (StartsPrewarm => prewarm.minting = 0)
  /\ deliveries < setup.answered /\ deliveries' = deliveries + 1
  /\ WatchForListener
  /\ prewarm' = IF StartsPrewarm THEN [prewarm EXCEPT !.minting = rc.room] ELSE prewarm
  /\ UNCHANGED <<calling, setup, rc, joining, presence, detector, agent, relaying,
                 bargeWanted>>
(* PrewarmToken: it comes in under a name that says what it is.            *)
PreJoins == joined' = joined \union {<<prewarm.minting, TRUE>>}
(* startPrewarmProc, on its own goroutine.                                 *)
Prewarmed(ok) ==
  /\ prewarm.minting # 0
  /\ IF ok /\ prewarm.minting \in rooms
       THEN /\ prewarm' = [minting |-> 0, running |-> prewarm.running \union {prewarm.minting},
                           map |-> prewarm.minting]
            /\ PreJoins
            /\ raced' = (raced \/ Unwarmed)
       ELSE prewarm' = [prewarm EXCEPT !.minting = 0] /\ UNCHANGED <<joined, raced>>
  /\ UNCHANGED <<calling, setup, rc, joining, people, watched, detector, agent, relaying,
                 deliveries, bargeWanted>>

-----------------------------------------------------------------------------
Go(d, where) ==
  detector' = [detector EXCEPT ![d] = IF where = "idle" THEN Idle ELSE [@ EXCEPT !.at = where]]

(* Who is in which room; PresenceAll lists the rooms with somebody in them *)
(* and does not count the pre-joiner.                                      *)
Occupants == people \X {FALSE} \union prewarm.running \X {TRUE}
PresenceAll == {who[1] : who \in {w \in Occupants : ~w[2]}}
(* pollForListeners. *)
PollFinds(d, r) ==
  /\ detector[d].at = "idle" /\ r \in watched /\ r \in PresenceAll
  /\ watched' = watched \ {r}
  /\ detector' = [detector EXCEPT ![d].at = "taken"]
  /\ UNCHANGED <<calling, setup, rc, joining, presence, agent, relaying, warming, marks>>

(* Mutant of Counts: our own pre-joiner is taken for a person. *)
CountsAnybody(ev) == ev[1] \in watched

(* handleDailyWebhook: not the pre-joiner, and a room being watched.       *)
Counts(ev) == ~ev[2] /\ ev[1] \in watched
WebhookTells(d, ev) ==
  /\ detector[d].at = "idle" /\ ev \in joined
  /\ joined' = joined \ {ev}
  /\ IF Counts(ev)
       THEN /\ watched' = watched \ {ev[1]}
            /\ detector' = [detector EXCEPT ![d].at = "taken"]
       ELSE UNCHANGED <<watched, detector>>
  /\ UNCHANGED <<calling, setup, rc, joining, people, agent, relaying, warming, marks>>

(* The call is looked up, then bridgeLiveRoom reads `bridged` and the mode. *)
Decide(d) ==
  /\ detector[d].at = "taken"
  /\ detector' = [detector EXCEPT ![d] =
       IF lcall = "gone" \/ rc.bridged THEN Idle
       ELSE [at |-> IF rc.listenOnly /\ setup.relay THEN "relay" ELSE "sip",
             listen |-> rc.listenOnly]]
  /\ UNCHANGED <<calling, setup, rc, joining, presence, watched, agent, relaying,
                 warming, marks>>

(* listenViaRelay: the relay, then the sidecar.  A relay goes by the       *)
(* detector that registered it.                                            *)
RegisterRelay(d) ==
  /\ detector[d].at = "relay" /\ Go(d, "spawning")
  /\ rc' = [rc EXCEPT !.bridged = TRUE]
  /\ relay' = d
  /\ raced' = (raced \/ Unrelayed)
  /\ UNCHANGED <<calling, setup, joining, presence, watched, agent, sidecars, warming,
                 bargeWanted>>
SidecarStarts(d) ==
  /\ detector[d].at = "spawning" /\ Go(d, "idle")
  /\ sidecars' = [run |-> sidecars.run \union {d}, map |-> d]
  /\ raced' = (raced \/ sidecars.run # {} \/ relay # d)
  /\ UNCHANGED <<calling, setup, rc, joining, presence, watched, agent, relay, warming,
                 bargeWanted>>
(* endRelay: with no relay it does nothing.                                *)
StopSidecar == [run |-> sidecars.run \ {sidecars.map}, map |-> "none"]
EndRelay == relay' = "none" /\ sidecars' = IF relay = "none" THEN sidecars ELSE StopSidecar
(* The sidecar did not start: endRelay, and the carrier's route instead.   *)
RelayFails(d) ==
  /\ detector[d].at = "spawning" /\ Go(d, "sip")
  /\ rc' = [rc EXCEPT !.bridged = FALSE]
  /\ EndRelay
  /\ UNCHANGED <<calling, setup, joining, presence, watched, agent, warming, marks>>
(* The script leaves when its room empties, or handleRelayMedia finds no   *)
(* relay for it or closes its socket.                                      *)
SidecarExits(s) ==
  /\ s \in sidecars.run
  /\ sidecars' = [run |-> sidecars.run \ {s}, map |-> "none"]
  /\ UNCHANGED <<calling, setup, rc, joining, presence, watched, detector, agent, relay,
                 warming, marks>>

(* bridgeLiveRoomSIP: the conference, then up to six dials.  Which failure *)
(* is the last is left open, for the count of them matters to nothing.     *)
StartConference(d, ok) ==
  /\ detector[d].at = "sip" /\ Go(d, IF ok THEN "dial" ELSE "idle")
  /\ rc' = [rc EXCEPT !.bridged = ok]
  /\ UNCHANGED <<calling, setup, joining, presence, watched, agent, relaying, warming,
                 marks>>
CallGone(d) ==
  /\ detector[d].at = "dial" /\ lcall = "gone" /\ Go(d, "idle")
  /\ UNCHANGED <<calling, setup, rc, joining, presence, watched, agent, relaying,
                 warming, marks>>
DialFails(d, last) ==
  /\ detector[d].at = "dial" /\ lcall # "gone" /\ Go(d, IF last THEN "idle" ELSE "dial")
  /\ rc' = IF last THEN [rc EXCEPT !.bridged = FALSE] ELSE rc
  /\ UNCHANGED <<calling, setup, joining, presence, watched, agent, relaying, warming,
                 marks>>
Dial(d) ==
  /\ detector[d].at = "dial" /\ lcall # "gone"
  /\ Go(d, "dialled")
  /\ UNCHANGED <<calling, setup, rc, joining, presence, watched, agent, relaying, warming,
                 marks>>

(* hushAgentFor: does nothing before the call's media is up.               *)
Hushes ==
  \/ lcall # "gone" /\ agent' = [agent EXCEPT !.hushed = TRUE]
  \/ UNCHANGED agent
(* DialSIP has returned.  A listener's bridge is done; for a barge the     *)
(* agent is silenced, and the operator's leg waited for.                   *)
Dialled(d) ==
  /\ detector[d].at = "dialled"
  /\ IF detector[d].listen THEN Go(d, "idle") /\ UNCHANGED agent
       ELSE Go(d, "waiting") /\ Hushes
  /\ UNCHANGED <<calling, setup, rc, joining, presence, watched, relaying, warming, marks>>

(* The leg has answered, or 8 s have passed, as they will when it died, or *)
(* answered before anybody had registered for that (signalLegAnswered);    *)
(* then leaveCall, if the call is on.                                      *)
StepOut(d) ==
  /\ detector[d].at = "waiting" /\ Go(d, "idle")
  /\ agent' = [agent EXCEPT !.left = @ \/ lcall # "gone"]
  /\ UNCHANGED <<calling, setup, rc, joining, presence, watched, relaying, warming, marks>>

-----------------------------------------------------------------------------
(* call.hangup, in reportCallEnded: nothing without a room.                *)
EndLiveRoom ==
  /\ lcall = "dialled"
  /\ IF rc.room = 0 THEN lcall' = "ending" /\ UNCHANGED closing
       ELSE lcall' = "unwatch" /\ closing' = rc.room
  /\ UNCHANGED <<setup, rc, joining, presence, watched, detector, agent, relaying,
                 warming, marks>>
UnwatchRoom ==
  /\ lcall = "unwatch" /\ lcall' = "unwarm"
  /\ watched' = watched \ {closing}
  /\ UNCHANGED <<closing, setup, rc, joining, presence, detector, agent, relaying,
                 warming, marks>>

(* Mutant of StopPrewarm: the pre-joiner is left in the room. *)
StopPrewarmForgets ==
  /\ lcall = "unwarm" /\ lcall' = "unrelay"
  /\ prewarm' = [prewarm EXCEPT !.map = 0]
  /\ UNCHANGED <<closing, setup, rc, joining, presence, watched, detector, agent,
                 relaying, deliveries, marks>>

StopPrewarm ==
  /\ lcall = "unwarm" /\ lcall' = "unrelay"
  /\ prewarm' = [prewarm EXCEPT !.running = @ \ {prewarm.map}, !.map = 0]
  /\ UNCHANGED <<closing, setup, rc, joining, presence, watched, detector, agent,
                 relaying, deliveries, marks>>
EndCallRelay ==
  /\ lcall = "unrelay" /\ lcall' = "forget" /\ EndRelay
  /\ UNCHANGED <<closing, setup, rc, joining, presence, watched, detector, agent, warming,
                 marks>>
(* The name is dropped, and the deletion goes to a goroutine of its own.   *)
ForgetRoom ==
  /\ lcall = "forget" /\ lcall' = "ending"
  /\ rc' = [rc EXCEPT !.room = 0]
  /\ UNCHANGED <<closing, setup, joining, presence, watched, detector, agent, relaying,
                 warming, marks>>
(* DeleteRoom.  It may never come: one that fails is only logged, and the  *)
(* room left to its expiry.                                                *)
Expiring == IF lcall \in {"ending", "gone"} THEN {closing} \ {0} ELSE {}
DeleteRoom(r) ==
  /\ r \in Expiring /\ rooms' = rooms \ {r} /\ closing' = 0
  /\ UNCHANGED <<lcall, setup, rc, made, join, links, presence, watched, detector, agent,
                 relaying, warming, marks>>
(* The entry stays until the hangup's handler removes it.                  *)
RemoveCall ==
  /\ lcall = "ending" /\ lcall' = "gone"
  /\ UNCHANGED <<closing, setup, rc, joining, presence, watched, detector, agent,
                 relaying, warming, marks>>

RoomTypeOK ==
  /\ lcall \in {"dialled", "unwatch", "unwarm", "unrelay", "forget", "ending", "gone"}
  /\ made \in 0..MaxRooms
  /\ {rc.room, closing} \union people \union rooms \union watched \subseteq 0..made
  /\ rooms \subseteq 1..made /\ joined \subseteq (1..made) \X BOOLEAN
  /\ \A o \in Operators : join[o] \in {"none", "creating", "reply", "watch", "done"}
  /\ relay \in Detectors \union {"none"}
  /\ {prewarm.minting, prewarm.map} \union prewarm.running \subseteq 0..made

(* "Our own pre-joiner, not a supervisor ... treating that as a barge      *)
(* hushed the agent in the middle of its greeting" (handleDailyWebhook):   *)
(* the agent is silenced, or taken off the call, only after a person has   *)
(* come in, and only if not everybody who came asked merely to listen.     *)
BargeTakesAPerson == agent.hushed \/ agent.left => people # {} /\ bargeWanted

(* A call that is over leaves nothing behind (endLiveRoom): no watch, no   *)
(* relay, no process holding the room open, and no room but the one being  *)
(* deleted, or left to its expiry because that failed.  `raced` marks the  *)
(* acts that came too late for the step that undoes them: a watch after    *)
(* the unwatch, a pre-joiner up after stopPrewarm, a relay or its sidecar  *)
(* after endRelay, a room made beside another or after the end began.      *)
EndedCallLeavesNothing ==
  lcall = "gone" /\ ~raced =>
    /\ rooms \subseteq Expiring /\ watched = {} /\ prewarm.running = {}
    /\ relay = "none" /\ sidecars.run = {}
=============================================================================
