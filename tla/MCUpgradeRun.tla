---------------------------- MODULE MCUpgradeRun ----------------------------
(* Instances of UpgradeRun for TLC.                                        *)
EXTENDS UpgradeRun, TLC

CONSTANTS n1, n2, p1, p2

Symmetry == Permutations(Procs) \cup Permutations(Nodes)
=============================================================================
