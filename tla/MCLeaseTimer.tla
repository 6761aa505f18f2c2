---------------------------- MODULE MCLeaseTimer ----------------------------
(* Small instances of LeaseTimer: three ticks make a second. *)
EXTENDS LeaseTimer

MCLeases == {2, 5}
=============================================================================
