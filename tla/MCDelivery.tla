----------------------------- MODULE MCDelivery -----------------------------
(* Two dispatches, one by phone and one to a room, against one slot; a     *)
(* call with two plain events and two endings; one report and two          *)
(* caller turns, under a report ladder of its first three delays.          *)
EXTENDS Delivery

CONSTANTS phone, web

MCKindOf == [d \in Dispatches |-> IF d = phone THEN "phone" ELSE "webrtc"]
MCSkews == {-1, 0, 1, 2}
MCReportLadder == <<1, 5, 30>>
MCAlertLadder == <<1, 3, 10, 30>>
=============================================================================
