---------------------------- MODULE MCStorageOp ----------------------------
(* Instances of StorageOp for TLC: which troubles happen, how often.       *)
EXTENDS StorageOp, TLC, FiniteSets

None == [t \in Troubles |-> 0]
Daily == [None EXCEPT !["crash"] = 1, !["fault"] = 1, !["lapse"] = 1,
                      !["cancel"] = 1, !["reset"] = 1]
Hard == [None EXCEPT !["crash"] = 2, !["fault"] = 1, !["refuse"] = 1, !["lapse"] = 1]
CrashOnly == [None EXCEPT !["crash"] = 1, !["fault"] = 1]
CancelOnly == [None EXCEPT !["cancel"] = 1]
CancelFails == [None EXCEPT !["cancel"] = 1, !["fault"] = 1]

\* Nothing is asked of a state after a late write (NeverStranded, OneOperation, DeletesStopped),
\* and a run of the model has at most three of the daily troubles.
Explored ==
  /\ ~Late
  /\ Cardinality({t \in Troubles : left[t] < Budget[t]}) <= 3

Symmetry == Permutations(Procs)
=============================================================================
