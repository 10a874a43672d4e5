--------------------------- MODULE MCTransitions ---------------------------
(* Instances of Transitions for TLC: what the tenant goes through.         *)
EXTENDS Transitions

StatusThenDelete == <<"status", "delete">>
StatusTwice      == <<"status", "status">>
DeleteOnce       == <<"delete">>
StatusOnce       == <<"status">>
DecommissionThenDelete == <<"decommission", "delete">>
=============================================================================
