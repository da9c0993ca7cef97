---------------------------- MODULE MCPhoneCall ----------------------------
(* Model checking of PhoneCall: one call, of which the carrier forks the    *)
(* audio at most MaxStreams times.                                          *)
EXTENDS PhoneCall
=============================================================================
