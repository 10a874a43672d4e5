---------------------------- MODULE MCRecovery ----------------------------
(* Instances of Recovery for TLC: the batch, and how often what goes wrong. *)
EXTENDS Recovery, TLC

CONSTANTS t1, t2

BothTenants == <<t1, t2>>
OneTenant   == <<t1>>
=============================================================================
