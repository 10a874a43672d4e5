---------------------------- MODULE MCClusterGate ---------------------------
(* Instances of ClusterGate for TLC.                                       *)
EXTENDS ClusterGate

CONSTANTS c1, c2, c3

\* Three bundles; or two restores from one bundle beside the capture of another.
ThreeBundles == [c \in Callers |-> c]
SharedBundle == [c \in Callers |-> IF c = c1 THEN c2 ELSE c]
=============================================================================
