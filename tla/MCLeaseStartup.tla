--------------------------- MODULE MCLeaseStartup ---------------------------
(* Instances of LeaseStartup for TLC.                                      *)
EXTENDS LeaseStartup

CONSTANTS p1, p2
=============================================================================
