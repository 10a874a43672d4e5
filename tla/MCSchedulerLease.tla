-------------------------- MODULE MCSchedulerLease --------------------------
(* Instances of SchedulerLease for TLC.                                    *)
EXTENDS SchedulerLease, TLC

CONSTANTS p1, p2

\* Replicas are interchangeable where none is singled out.
Replicas == Permutations(Procs)
=============================================================================
