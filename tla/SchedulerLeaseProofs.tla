------------------------ MODULE SchedulerLeaseProofs ------------------------
(***************************************************************************)
(* Proofs about SchedulerLease for every set of processes and every ttl.   *)
(* RunKeepsItsLease is not inductive: that no DELETE or shortening claim   *)
(* of the same process is on its way during a run has to be carried along  *)
(* (WorkStage, CleanRun).  NoWriteBack rests on another invariant: who     *)
(* lets an entry of held go waits for the claim it has on its way          *)
(* (Awaited).  The refinement of RunLock follows from the first.           *)
(***************************************************************************)
EXTENDS SchedulerLease, TLAPS

USE DEF NotHeld

\* Work goes on only in a running process or, orphaned, after its death.
WorkStage ==
  \A p \in Procs :
    work[p] => \/ stage[p] = "run" /\ up[p] = "up"
               \/ stage[p] = "idle" /\ up[p] = "gone"

\* A clean run has no after-run write and no shutdown DELETE on its way.
CleanRun ==
  \A p \in Procs :
    clean[p] => /\ stage[p] = "claim" \/ work[p]
                /\ behind[p] = "idle"
                /\ stop[p] \in {"no", "done"}

LeaseInv == TypeOK /\ WorkStage /\ CleanRun /\ RunKeepsItsLease

-----------------------------------------------------------------------------
\* The task that follows a run goes on to one of its stages.
LEMMA AfterRenewalType == \A p \in Procs : AfterRenewal(p) \in Settles
  BY DEF AfterRenewal, Settles

\* What it does to the entry of held keeps the entry's types.
LEMMA EntryType ==
  ASSUME TypeOK, NEW p \in Procs, EntryAfterRenewal(p)
  PROVE  /\ horizon' \in [Procs -> Nat \cup {NotHeld}]
         /\ keep' \in [Procs -> 0..Liveness]
         /\ replaced' \in [Procs -> BOOLEAN]
<1>1. horizon' \in [Procs -> Nat \cup {NotHeld}]
  BY LeaseAssumption DEF TypeOK, EntryAfterRenewal
<1>2. keep' \in [Procs -> 0..Liveness]
  BY DEF TypeOK, EntryAfterRenewal
<1>3. (replaced[p] \/ (keep[p] # 0 /\ ~HandsOver(p) /\ Ttl > Liveness)) \in BOOLEAN
  OBVIOUS
<1>4. replaced' \in [Procs -> BOOLEAN]
  BY <1>3, Zenon DEF TypeOK, EntryAfterRenewal
<1>5. QED
  BY <1>1, <1>2, <1>4

\* Every step keeps every variable in its type.
LEMMA StepTypeOK == TypeOK /\ [Next]_vars => TypeOK'
<1> SUFFICES ASSUME TypeOK, [Next]_vars PROVE TypeOK'
  OBVIOUS
<1> USE LeaseAssumption
<1>1. CASE UNCHANGED vars
  BY <1>1 DEF vars, TypeOK, Stages, Settles
<1>2. CASE Time
  BY <1>2 DEF Time, Less, stopVars, TypeOK, Stages, Settles
<1>3. ASSUME NEW p \in Procs, Start(p) PROVE TypeOK'
  BY <1>3 DEF Start, runVars, heldVars, stopVars, TypeOK, Stages, Settles
<1>4. ASSUME NEW p \in Procs, Tick(p) PROVE TypeOK'
  BY <1>4 DEF Tick, Stopping, runVars, heldVars, stopVars, TypeOK, Stages,
     Settles
<1>5. ASSUME NEW p \in Procs, ClaimGranted(p) PROVE TypeOK'
  BY <1>5 DEF ClaimGranted, Claim, runVars, heldVars, stopVars, TypeOK,
     Stages, Settles
<1>6. ASSUME NEW p \in Procs, ClaimRefused(p) PROVE TypeOK'
  BY <1>6 DEF ClaimRefused, runVars, heldVars, stopVars, TypeOK, Stages,
     Settles
<1>7. ASSUME NEW p \in Procs, ClaimLost(p) PROVE TypeOK'
  BY <1>7 DEF ClaimLost, Claim, runVars, heldVars, stopVars, TypeOK,
     Stages, Settles
<1>8. ASSUME NEW p \in Procs, RenewTimer(p) PROVE TypeOK'
  BY <1>8 DEF RenewTimer, runVars, heldVars, stopVars, TypeOK, Stages, Settles
<1>9. ASSUME NEW p \in Procs, RenewAnswered(p) PROVE TypeOK'
  BY <1>9 DEF RenewAnswered, Claim, runVars, heldVars, stopVars, TypeOK,
     Stages, Settles
<1>10. ASSUME NEW p \in Procs, StrayAnswered(p) PROVE TypeOK'
  BY <1>10 DEF StrayAnswered, Claim, runVars, heldVars, stopVars, TypeOK,
     Stages, Settles
<1>11. ASSUME NEW p \in Procs, EndRun(p) PROVE TypeOK'
  BY <1>11, AfterRenewalType, EntryType DEF EndRun, runVars, heldVars,
     stopVars, TypeOK, Stages, Settles
<1>12. ASSUME NEW p \in Procs, RenewalSettled(p) PROVE TypeOK'
  BY <1>12, AfterRenewalType, EntryType DEF RenewalSettled, Claim,
     runVars, heldVars, stopVars, TypeOK, Stages, Settles
<1>13. ASSUME NEW p \in Procs, LetGoDone(p) PROVE TypeOK'
  BY <1>13 DEF LetGoDone, runVars, heldVars, stopVars, TypeOK, Stages, Settles
<1>14. ASSUME NEW p \in Procs, ReleaseAnswered(p) PROVE TypeOK'
  BY <1>14 DEF ReleaseAnswered, DeleteOwn, NoRow, runVars, heldVars,
     stopVars, TypeOK, Stages, Settles
<1>15. ASSUME NEW p \in Procs, CutAnswered(p) PROVE TypeOK'
  BY <1>15 DEF CutAnswered, Claim, runVars, heldVars, stopVars, TypeOK,
     Stages, Settles
<1>16. ASSUME NEW p \in Procs, SettleTimeout(p) PROVE TypeOK'
  BY <1>16 DEF SettleTimeout, runVars, heldVars, stopVars, TypeOK, Stages,
     Settles
<1>17. ASSUME NEW p \in Procs, BehindStep(p) PROVE TypeOK'
  BY <1>17, AfterRenewalType, EntryType DEF BehindStep, Claim, DeleteOwn,
     NoRow, runVars, heldVars, stopVars, TypeOK, Stages, Settles
<1>18. ASSUME NEW p \in Procs, KeepLeasesAlive(p) PROVE TypeOK'
  BY <1>18 DEF KeepLeasesAlive, runVars, heldVars, stopVars, TypeOK,
     Stages, Settles
<1>19. ASSUME NEW p \in Procs, KeepAliveAnswered(p) PROVE TypeOK'
  BY <1>19 DEF KeepAliveAnswered, ClaimExtendOnly, Claim, runVars,
     heldVars, stopVars, TypeOK, Stages, Settles
<1>20. ASSUME NEW p \in Procs, KeepAliveLost(p) PROVE TypeOK'
  BY <1>20 DEF KeepAliveLost, runVars, heldVars, stopVars, TypeOK, Stages,
     Settles
<1>21. ASSUME NEW p \in Procs, ReleaseAll(p) PROVE TypeOK'
  BY <1>21 DEF ReleaseAll, runVars, heldVars, stopVars, TypeOK, Stages,
     Settles
<1>22. ASSUME NEW p \in Procs, ReleaseAllLetGo(p) PROVE TypeOK'
  BY <1>22 DEF ReleaseAllLetGo, runVars, heldVars, stopVars, TypeOK,
     Stages, Settles
<1>23. ASSUME NEW p \in Procs, ReleaseAllAnswered(p) PROVE TypeOK'
  BY <1>23 DEF ReleaseAllAnswered, DeleteOwn, NoRow, runVars, heldVars,
     stopVars, TypeOK, Stages, Settles
<1>24. ASSUME NEW p \in Procs, Die(p) PROVE TypeOK'
  BY <1>24 DEF Die, runVars, heldVars, stopVars, TypeOK, Stages, Settles
<1>25. ASSUME NEW p \in Procs, OrphanWorkEnds(p) PROVE TypeOK'
  BY <1>25 DEF OrphanWorkEnds, runVars, heldVars, stopVars, TypeOK,
     Stages, Settles
<1>26. QED
  BY <1>1, <1>2, <1>3, <1>4, <1>5, <1>6, <1>7, <1>8, <1>9, <1>10, <1>11,
     <1>12, <1>13, <1>14, <1>15, <1>16, <1>17, <1>18, <1>19, <1>20, <1>21,
     <1>22, <1>23, <1>24, <1>25 DEF Next, Answer, Timer, Environment

\* Work starts with the run, ends with it or is orphaned by the death.
LEMMA StepWorkStage == TypeOK /\ WorkStage /\ [Next]_vars => WorkStage'
<1> SUFFICES ASSUME TypeOK, WorkStage, [Next]_vars PROVE WorkStage'
  OBVIOUS
<1> USE LeaseAssumption
<1>1. CASE UNCHANGED vars
  BY <1>1 DEF vars, TypeOK, WorkStage, Settles
<1>2. CASE Time
  BY <1>2 DEF Time, Less, stopVars, TypeOK, WorkStage, Settles
<1>3. ASSUME NEW p \in Procs, Start(p) PROVE WorkStage'
  BY <1>3 DEF Start, runVars, heldVars, stopVars, TypeOK, WorkStage, Settles
<1>4. ASSUME NEW p \in Procs, Tick(p) PROVE WorkStage'
  BY <1>4 DEF Tick, Stopping, runVars, heldVars, stopVars, TypeOK,
     WorkStage, Settles
<1>5. ASSUME NEW p \in Procs, ClaimGranted(p) PROVE WorkStage'
  BY <1>5 DEF ClaimGranted, Claim, runVars, heldVars, stopVars, TypeOK,
     WorkStage, Settles
<1>6. ASSUME NEW p \in Procs, ClaimRefused(p) PROVE WorkStage'
  BY <1>6 DEF ClaimRefused, runVars, heldVars, stopVars, TypeOK,
     WorkStage, Settles
<1>7. ASSUME NEW p \in Procs, ClaimLost(p) PROVE WorkStage'
  BY <1>7 DEF ClaimLost, Claim, runVars, heldVars, stopVars, TypeOK,
     WorkStage, Settles
<1>8. ASSUME NEW p \in Procs, RenewTimer(p) PROVE WorkStage'
  BY <1>8 DEF RenewTimer, runVars, heldVars, stopVars, TypeOK, WorkStage,
     Settles
<1>9. ASSUME NEW p \in Procs, RenewAnswered(p) PROVE WorkStage'
  BY <1>9 DEF RenewAnswered, Claim, runVars, heldVars, stopVars, TypeOK,
     WorkStage, Settles
<1>10. ASSUME NEW p \in Procs, StrayAnswered(p) PROVE WorkStage'
  BY <1>10 DEF StrayAnswered, Claim, runVars, heldVars, stopVars, TypeOK,
     WorkStage, Settles
<1>11. ASSUME NEW p \in Procs, EndRun(p) PROVE WorkStage'
  BY <1>11 DEF EndRun, AfterRenewal, EntryAfterRenewal, runVars, heldVars,
     stopVars, TypeOK, WorkStage, Settles
<1>12. ASSUME NEW p \in Procs, RenewalSettled(p) PROVE WorkStage'
  BY <1>12 DEF RenewalSettled, Claim, AfterRenewal, EntryAfterRenewal,
     runVars, heldVars, stopVars, TypeOK, WorkStage, Settles
<1>13. ASSUME NEW p \in Procs, LetGoDone(p) PROVE WorkStage'
  BY <1>13 DEF LetGoDone, runVars, heldVars, stopVars, TypeOK, WorkStage,
     Settles
<1>14. ASSUME NEW p \in Procs, ReleaseAnswered(p) PROVE WorkStage'
  BY <1>14 DEF ReleaseAnswered, DeleteOwn, NoRow, runVars, heldVars,
     stopVars, TypeOK, WorkStage, Settles
<1>15. ASSUME NEW p \in Procs, CutAnswered(p) PROVE WorkStage'
  BY <1>15 DEF CutAnswered, Claim, runVars, heldVars, stopVars, TypeOK,
     WorkStage, Settles
<1>16. ASSUME NEW p \in Procs, SettleTimeout(p) PROVE WorkStage'
  BY <1>16 DEF SettleTimeout, runVars, heldVars, stopVars, TypeOK,
     WorkStage, Settles
<1>17. ASSUME NEW p \in Procs, BehindStep(p) PROVE WorkStage'
  BY <1>17 DEF BehindStep, Claim, DeleteOwn, NoRow, AfterRenewal,
     EntryAfterRenewal, runVars, heldVars, stopVars, TypeOK, WorkStage,
     Settles
<1>18. ASSUME NEW p \in Procs, KeepLeasesAlive(p) PROVE WorkStage'
  BY <1>18 DEF KeepLeasesAlive, runVars, heldVars, stopVars, TypeOK,
     WorkStage, Settles
<1>19. ASSUME NEW p \in Procs, KeepAliveAnswered(p) PROVE WorkStage'
  BY <1>19 DEF KeepAliveAnswered, ClaimExtendOnly, Claim, runVars,
     heldVars, stopVars, TypeOK, WorkStage, Settles
<1>20. ASSUME NEW p \in Procs, KeepAliveLost(p) PROVE WorkStage'
  BY <1>20 DEF KeepAliveLost, runVars, heldVars, stopVars, TypeOK,
     WorkStage, Settles
<1>21. ASSUME NEW p \in Procs, ReleaseAll(p) PROVE WorkStage'
  BY <1>21 DEF ReleaseAll, runVars, heldVars, stopVars, TypeOK, WorkStage,
     Settles
<1>22. ASSUME NEW p \in Procs, ReleaseAllLetGo(p) PROVE WorkStage'
  BY <1>22 DEF ReleaseAllLetGo, runVars, heldVars, stopVars, TypeOK,
     WorkStage, Settles
<1>23. ASSUME NEW p \in Procs, ReleaseAllAnswered(p) PROVE WorkStage'
  BY <1>23 DEF ReleaseAllAnswered, DeleteOwn, NoRow, runVars, heldVars,
     stopVars, TypeOK, WorkStage, Settles
<1>24. ASSUME NEW p \in Procs, Die(p) PROVE WorkStage'
  BY <1>24 DEF Die, runVars, heldVars, stopVars, TypeOK, WorkStage, Settles
<1>25. ASSUME NEW p \in Procs, OrphanWorkEnds(p) PROVE WorkStage'
  BY <1>25 DEF OrphanWorkEnds, runVars, heldVars, stopVars, TypeOK,
     WorkStage, Settles
<1>26. QED
  BY <1>1, <1>2, <1>3, <1>4, <1>5, <1>6, <1>7, <1>8, <1>9, <1>10, <1>11,
     <1>12, <1>13, <1>14, <1>15, <1>16, <1>17, <1>18, <1>19, <1>20, <1>21,
     <1>22, <1>23, <1>24, <1>25 DEF Next, Answer, Timer, Environment

\* During a clean run the settle timeout and the shutdown leave the job alone.
LEMMA StepCleanRun == TypeOK /\ WorkStage /\ CleanRun /\ [Next]_vars => CleanRun'
<1> SUFFICES ASSUME TypeOK, WorkStage, CleanRun, [Next]_vars PROVE CleanRun'
  OBVIOUS
<1> USE LeaseAssumption
<1>1. CASE UNCHANGED vars
  BY <1>1 DEF vars, TypeOK, WorkStage, CleanRun, Stages, Settles
<1>2. CASE Time
  BY <1>2 DEF Time, Less, stopVars, TypeOK, WorkStage, CleanRun, Stages,
     Settles
<1>3. ASSUME NEW p \in Procs, Start(p) PROVE CleanRun'
  BY <1>3 DEF Start, runVars, heldVars, stopVars, Stopping, TypeOK,
     WorkStage, CleanRun, Stages, Settles
<1>4. ASSUME NEW p \in Procs, Tick(p) PROVE CleanRun'
  BY <1>4 DEF Tick, Stopping, runVars, heldVars, stopVars, Stopping,
     TypeOK, WorkStage, CleanRun, Stages, Settles
<1>5. ASSUME NEW p \in Procs, ClaimGranted(p) PROVE CleanRun'
  BY <1>5 DEF ClaimGranted, Claim, runVars, heldVars, stopVars, Stopping,
     TypeOK, WorkStage, CleanRun, Stages, Settles
<1>6. ASSUME NEW p \in Procs, ClaimRefused(p) PROVE CleanRun'
  BY <1>6 DEF ClaimRefused, runVars, heldVars, stopVars, Stopping, TypeOK,
     WorkStage, CleanRun, Stages, Settles
<1>7. ASSUME NEW p \in Procs, ClaimLost(p) PROVE CleanRun'
  BY <1>7 DEF ClaimLost, Claim, runVars, heldVars, stopVars, Stopping,
     TypeOK, WorkStage, CleanRun, Stages, Settles
<1>8. ASSUME NEW p \in Procs, RenewTimer(p) PROVE CleanRun'
  BY <1>8 DEF RenewTimer, runVars, heldVars, stopVars, Stopping, TypeOK,
     WorkStage, CleanRun, Stages, Settles
<1>9. ASSUME NEW p \in Procs, RenewAnswered(p) PROVE CleanRun'
  BY <1>9 DEF RenewAnswered, Claim, runVars, heldVars, stopVars, Stopping,
     TypeOK, WorkStage, CleanRun, Stages, Settles
<1>10. ASSUME NEW p \in Procs, StrayAnswered(p) PROVE CleanRun'
  BY <1>10 DEF StrayAnswered, Claim, runVars, heldVars, stopVars,
     Stopping, TypeOK, WorkStage, CleanRun, Stages, Settles
<1>11. ASSUME NEW p \in Procs, EndRun(p) PROVE CleanRun'
  BY <1>11 DEF EndRun, AfterRenewal, EntryAfterRenewal, runVars, heldVars,
     stopVars, Stopping, TypeOK, WorkStage, CleanRun, Stages, Settles
<1>12. ASSUME NEW p \in Procs, RenewalSettled(p) PROVE CleanRun'
  BY <1>12 DEF RenewalSettled, Claim, AfterRenewal, EntryAfterRenewal,
     runVars, heldVars, stopVars, Stopping, TypeOK, WorkStage, CleanRun,
     Stages, Settles
<1>13. ASSUME NEW p \in Procs, LetGoDone(p) PROVE CleanRun'
  BY <1>13 DEF LetGoDone, runVars, heldVars, stopVars, Stopping, TypeOK,
     WorkStage, CleanRun, Stages, Settles
<1>14. ASSUME NEW p \in Procs, ReleaseAnswered(p) PROVE CleanRun'
  BY <1>14 DEF ReleaseAnswered, DeleteOwn, NoRow, runVars, heldVars,
     stopVars, Stopping, TypeOK, WorkStage, CleanRun, Stages, Settles
<1>15. ASSUME NEW p \in Procs, CutAnswered(p) PROVE CleanRun'
  BY <1>15 DEF CutAnswered, Claim, runVars, heldVars, stopVars, Stopping,
     TypeOK, WorkStage, CleanRun, Stages, Settles
<1>16. ASSUME NEW p \in Procs, SettleTimeout(p) PROVE CleanRun'
  BY <1>16 DEF SettleTimeout, runVars, heldVars, stopVars, Stopping,
     TypeOK, WorkStage, CleanRun, Stages, Settles
<1>17. ASSUME NEW p \in Procs, BehindStep(p) PROVE CleanRun'
  BY <1>17 DEF BehindStep, Claim, DeleteOwn, NoRow, AfterRenewal,
     EntryAfterRenewal, runVars, heldVars, stopVars, Stopping, TypeOK,
     WorkStage, CleanRun, Stages, Settles
<1>18. ASSUME NEW p \in Procs, KeepLeasesAlive(p) PROVE CleanRun'
  BY <1>18 DEF KeepLeasesAlive, runVars, heldVars, stopVars, Stopping,
     TypeOK, WorkStage, CleanRun, Stages, Settles
<1>19. ASSUME NEW p \in Procs, KeepAliveAnswered(p) PROVE CleanRun'
  BY <1>19 DEF KeepAliveAnswered, ClaimExtendOnly, Claim, runVars,
     heldVars, stopVars, Stopping, TypeOK, WorkStage, CleanRun, Stages,
     Settles
<1>20. ASSUME NEW p \in Procs, KeepAliveLost(p) PROVE CleanRun'
  BY <1>20 DEF KeepAliveLost, runVars, heldVars, stopVars, Stopping,
     TypeOK, WorkStage, CleanRun, Stages, Settles
<1>21. ASSUME NEW p \in Procs, ReleaseAll(p) PROVE CleanRun'
  BY <1>21 DEF ReleaseAll, runVars, heldVars, stopVars, Stopping, TypeOK,
     WorkStage, CleanRun, Stages, Settles
<1>22. ASSUME NEW p \in Procs, ReleaseAllLetGo(p) PROVE CleanRun'
  BY <1>22 DEF ReleaseAllLetGo, runVars, heldVars, stopVars, Stopping,
     TypeOK, WorkStage, CleanRun, Stages, Settles
<1>23. ASSUME NEW p \in Procs, ReleaseAllAnswered(p) PROVE CleanRun'
  BY <1>23 DEF ReleaseAllAnswered, DeleteOwn, NoRow, runVars, heldVars,
     stopVars, Stopping, TypeOK, WorkStage, CleanRun, Stages, Settles
<1>24. ASSUME NEW p \in Procs, Die(p) PROVE CleanRun'
  BY <1>24 DEF Die, runVars, heldVars, stopVars, Stopping, TypeOK,
     WorkStage, CleanRun, Stages, Settles
<1>25. ASSUME NEW p \in Procs, OrphanWorkEnds(p) PROVE CleanRun'
  BY <1>25 DEF OrphanWorkEnds, runVars, heldVars, stopVars, Stopping,
     TypeOK, WorkStage, CleanRun, Stages, Settles
<1>26. QED
  BY <1>1, <1>2, <1>3, <1>4, <1>5, <1>6, <1>7, <1>8, <1>9, <1>10, <1>11,
     <1>12, <1>13, <1>14, <1>15, <1>16, <1>17, <1>18, <1>19, <1>20, <1>21,
     <1>22, <1>23, <1>24, <1>25 DEF Next, Answer, Timer, Environment

\* No statement that is applied takes or shortens the lease of a clean run.
LEMMA StepRunKeepsItsLease == LeaseInv /\ [Next]_vars => RunKeepsItsLease'
<1> SUFFICES ASSUME LeaseInv, [Next]_vars PROVE RunKeepsItsLease'
  OBVIOUS
<1> USE LeaseAssumption
<1>1. CASE UNCHANGED vars
  BY <1>1 DEF vars, LeaseInv, TypeOK, WorkStage, CleanRun, RunKeepsItsLease
<1>2. CASE Time
  BY <1>2 DEF Time, Less, stopVars, LeaseInv, TypeOK, WorkStage, CleanRun,
     RunKeepsItsLease
<1>3. ASSUME NEW p \in Procs, Start(p) PROVE RunKeepsItsLease'
  BY <1>3 DEF Start, Claimable, runVars, heldVars, stopVars, LeaseInv,
     TypeOK, WorkStage, CleanRun, RunKeepsItsLease
<1>4. ASSUME NEW p \in Procs, Tick(p) PROVE RunKeepsItsLease'
  BY <1>4 DEF Tick, Stopping, Claimable, runVars, heldVars, stopVars,
     LeaseInv, TypeOK, WorkStage, CleanRun, RunKeepsItsLease
<1>5. ASSUME NEW p \in Procs, ClaimGranted(p) PROVE RunKeepsItsLease'
  BY <1>5 DEF ClaimGranted, Claim, Claimable, runVars, heldVars, stopVars,
     LeaseInv, TypeOK, WorkStage, CleanRun, RunKeepsItsLease
<1>6. ASSUME NEW p \in Procs, ClaimRefused(p) PROVE RunKeepsItsLease'
  BY <1>6 DEF ClaimRefused, Claimable, runVars, heldVars, stopVars,
     LeaseInv, TypeOK, WorkStage, CleanRun, RunKeepsItsLease
<1>7. ASSUME NEW p \in Procs, ClaimLost(p) PROVE RunKeepsItsLease'
  BY <1>7 DEF ClaimLost, Claim, Claimable, runVars, heldVars, stopVars,
     LeaseInv, TypeOK, WorkStage, CleanRun, RunKeepsItsLease
<1>8. ASSUME NEW p \in Procs, RenewTimer(p) PROVE RunKeepsItsLease'
  BY <1>8 DEF RenewTimer, Claimable, runVars, heldVars, stopVars,
     LeaseInv, TypeOK, WorkStage, CleanRun, RunKeepsItsLease
<1>9. ASSUME NEW p \in Procs, RenewAnswered(p) PROVE RunKeepsItsLease'
  BY <1>9 DEF RenewAnswered, Claim, Claimable, runVars, heldVars,
     stopVars, LeaseInv, TypeOK, WorkStage, CleanRun, RunKeepsItsLease
<1>10. ASSUME NEW p \in Procs, StrayAnswered(p) PROVE RunKeepsItsLease'
  BY <1>10 DEF StrayAnswered, Claim, Claimable, runVars, heldVars,
     stopVars, LeaseInv, TypeOK, WorkStage, CleanRun, RunKeepsItsLease
<1>11. ASSUME NEW p \in Procs, EndRun(p) PROVE RunKeepsItsLease'
  BY <1>11 DEF EndRun, AfterRenewal, EntryAfterRenewal, Claimable,
     runVars, heldVars, stopVars, LeaseInv, TypeOK, WorkStage, CleanRun,
     RunKeepsItsLease
<1>12. ASSUME NEW p \in Procs, RenewalSettled(p) PROVE RunKeepsItsLease'
  BY <1>12 DEF RenewalSettled, Claim, AfterRenewal, EntryAfterRenewal,
     Claimable, runVars, heldVars, stopVars, LeaseInv, TypeOK, WorkStage,
     CleanRun, RunKeepsItsLease
<1>13. ASSUME NEW p \in Procs, LetGoDone(p) PROVE RunKeepsItsLease'
  BY <1>13 DEF LetGoDone, Claimable, runVars, heldVars, stopVars,
     LeaseInv, TypeOK, WorkStage, CleanRun, RunKeepsItsLease
<1>14. ASSUME NEW p \in Procs, ReleaseAnswered(p) PROVE RunKeepsItsLease'
  BY <1>14 DEF ReleaseAnswered, DeleteOwn, NoRow, Claimable, runVars,
     heldVars, stopVars, LeaseInv, TypeOK, WorkStage, CleanRun,
     RunKeepsItsLease
<1>15. ASSUME NEW p \in Procs, CutAnswered(p) PROVE RunKeepsItsLease'
  BY <1>15 DEF CutAnswered, Claim, Claimable, runVars, heldVars, stopVars,
     LeaseInv, TypeOK, WorkStage, CleanRun, RunKeepsItsLease
<1>16. ASSUME NEW p \in Procs, SettleTimeout(p) PROVE RunKeepsItsLease'
  BY <1>16 DEF SettleTimeout, Claimable, runVars, heldVars, stopVars,
     LeaseInv, TypeOK, WorkStage, CleanRun, RunKeepsItsLease
<1>17. ASSUME NEW p \in Procs, BehindStep(p) PROVE RunKeepsItsLease'
  BY <1>17 DEF BehindStep, Claim, DeleteOwn, NoRow, AfterRenewal,
     EntryAfterRenewal, Claimable, runVars, heldVars, stopVars, LeaseInv,
     TypeOK, WorkStage, CleanRun, RunKeepsItsLease
<1>18. ASSUME NEW p \in Procs, KeepLeasesAlive(p) PROVE RunKeepsItsLease'
  BY <1>18 DEF KeepLeasesAlive, Claimable, runVars, heldVars, stopVars,
     LeaseInv, TypeOK, WorkStage, CleanRun, RunKeepsItsLease
<1>19. ASSUME NEW p \in Procs, KeepAliveAnswered(p) PROVE RunKeepsItsLease'
  BY <1>19 DEF KeepAliveAnswered, ClaimExtendOnly, Claim, Claimable,
     runVars, heldVars, stopVars, LeaseInv, TypeOK, WorkStage, CleanRun,
     RunKeepsItsLease
<1>20. ASSUME NEW p \in Procs, KeepAliveLost(p) PROVE RunKeepsItsLease'
  BY <1>20 DEF KeepAliveLost, Claimable, runVars, heldVars, stopVars,
     LeaseInv, TypeOK, WorkStage, CleanRun, RunKeepsItsLease
<1>21. ASSUME NEW p \in Procs, ReleaseAll(p) PROVE RunKeepsItsLease'
  BY <1>21 DEF ReleaseAll, Claimable, runVars, heldVars, stopVars,
     LeaseInv, TypeOK, WorkStage, CleanRun, RunKeepsItsLease
<1>22. ASSUME NEW p \in Procs, ReleaseAllLetGo(p) PROVE RunKeepsItsLease'
  BY <1>22 DEF ReleaseAllLetGo, Claimable, runVars, heldVars, stopVars,
     LeaseInv, TypeOK, WorkStage, CleanRun, RunKeepsItsLease
<1>23. ASSUME NEW p \in Procs, ReleaseAllAnswered(p) PROVE RunKeepsItsLease'
  BY <1>23 DEF ReleaseAllAnswered, DeleteOwn, NoRow, Claimable, runVars,
     heldVars, stopVars, LeaseInv, TypeOK, WorkStage, CleanRun,
     RunKeepsItsLease
<1>24. ASSUME NEW p \in Procs, Die(p) PROVE RunKeepsItsLease'
  BY <1>24 DEF Die, Claimable, runVars, heldVars, stopVars, LeaseInv,
     TypeOK, WorkStage, CleanRun, RunKeepsItsLease
<1>25. ASSUME NEW p \in Procs, OrphanWorkEnds(p) PROVE RunKeepsItsLease'
  BY <1>25 DEF OrphanWorkEnds, Claimable, runVars, heldVars, stopVars,
     LeaseInv, TypeOK, WorkStage, CleanRun, RunKeepsItsLease
<1>26. QED
  BY <1>1, <1>2, <1>3, <1>4, <1>5, <1>6, <1>7, <1>8, <1>9, <1>10, <1>11,
     <1>12, <1>13, <1>14, <1>15, <1>16, <1>17, <1>18, <1>19, <1>20, <1>21,
     <1>22, <1>23, <1>24, <1>25 DEF Next, Answer, Timer, Environment

\* The initial states: no row, nothing runs.
LEMMA InitLeaseInv == Init => LeaseInv
  BY LeaseAssumption DEF Init, LeaseInv, TypeOK, WorkStage, CleanRun,
     RunKeepsItsLease, NoRow, Stages, Settles

\* The inductive invariant holds of every behaviour.
THEOREM LeaseInvariant == Spec => []LeaseInv
<1>1. LeaseInv /\ [Next]_vars => LeaseInv'
  BY StepTypeOK, StepWorkStage, StepCleanRun, StepRunKeepsItsLease DEF
     LeaseInv
<1>2. QED
  BY <1>1, InitLeaseInv, PTL DEF Spec

\* The variables keep their types: lease times, entries of held, statements on
\* their way.
THEOREM TypeCorrect == Spec => []TypeOK
<1>1. LeaseInv => TypeOK
  BY DEF LeaseInv
<1>2. QED
  BY <1>1, LeaseInvariant, PTL

\* For any number of replicas, ttl and liveness window, nothing takes, deletes
\* or shortens the lease of a run in flight before its time.
THEOREM RunsKeepTheirLease == Spec => []RunKeepsItsLease
<1>1. LeaseInv => RunKeepsItsLease
  BY DEF LeaseInv
<1>2. QED
  BY <1>1, LeaseInvariant, PTL

\* Hence two replicas work at once only when one of them has not renewed for a
\* whole ttl.
THEOREM RunsExclude == Spec => []Exclusion
<1>1. RunKeepsItsLease => Exclusion
  BY DEF RunKeepsItsLease, Exclusion
<1>2. QED
  BY <1>1, RunsKeepTheirLease, PTL

-----------------------------------------------------------------------------
(* No write-back.  A statement that could give a living replica its lease  *)
(* back belongs to a run, to a task after a run, or to an entry of held    *)
(* that somebody lets go and waits for.                                    *)

Awaited ==
  \A p \in Procs :
    /\ up[p] = "off" => keep[p] = 0 /\ ~renew[p]
    /\ up[p] = "up" /\ renew[p] => stage[p] = "run"
    /\ up[p] = "up" /\ keep[p] # 0 /\ horizon[p] = NotHeld =>
         stage[p] = "letgo" \/ behind[p] = "letgo" \/ stop[p] = "letgo"

\* A task that drops the entry with its claim on the way waits for that claim.
LEMMA EntryAwaited ==
  ASSUME TypeOK, NEW p \in Procs, EntryAfterRenewal(p)
  PROVE  /\ keep' = keep
         /\ \A q \in Procs : q # p => horizon'[q] = horizon[q]
         /\ keep[p] # 0 /\ horizon'[p] = NotHeld /\ horizon[p] # NotHeld => AfterRenewal(p) = "letgo"
  BY LeaseAssumption DEF TypeOK, EntryAfterRenewal, AfterRenewal, Pending

\* Every step keeps it: an entry is dropped only by who waits for its claim.
LEMMA StepAwaited == TypeOK /\ Awaited /\ [Next]_vars => Awaited'
<1> SUFFICES ASSUME TypeOK, Awaited, [Next]_vars PROVE Awaited'
  OBVIOUS
<1>1. CASE UNCHANGED vars
  BY <1>1 DEF vars, Awaited
<1>2. CASE Time
  BY <1>2 DEF Time, Less, stopVars, TypeOK, Awaited
<1>3. ASSUME NEW p \in Procs, Start(p) PROVE Awaited'
  BY <1>3 DEF Start, runVars, heldVars, stopVars, TypeOK, Awaited
<1>4. ASSUME NEW p \in Procs, Tick(p) PROVE Awaited'
  BY <1>4 DEF Tick, Stopping, runVars, heldVars, stopVars, TypeOK, Awaited
<1>5. ASSUME NEW p \in Procs, ClaimGranted(p) PROVE Awaited'
  BY <1>5 DEF ClaimGranted, Claim, runVars, heldVars, stopVars, TypeOK,
     Awaited
<1>6. ASSUME NEW p \in Procs, ClaimRefused(p) PROVE Awaited'
  BY <1>6 DEF ClaimRefused, runVars, heldVars, stopVars, TypeOK, Awaited
<1>7. ASSUME NEW p \in Procs, ClaimLost(p) PROVE Awaited'
  BY <1>7 DEF ClaimLost, Claim, runVars, heldVars, stopVars, TypeOK, Awaited
<1>8. ASSUME NEW p \in Procs, RenewTimer(p) PROVE Awaited'
  BY <1>8 DEF RenewTimer, runVars, heldVars, stopVars, TypeOK, Awaited
<1>9. ASSUME NEW p \in Procs, RenewAnswered(p) PROVE Awaited'
  BY <1>9 DEF RenewAnswered, Claim, runVars, heldVars, stopVars, TypeOK,
     Awaited
<1>10. ASSUME NEW p \in Procs, StrayAnswered(p) PROVE Awaited'
  BY <1>10 DEF StrayAnswered, Claim, runVars, heldVars, stopVars, TypeOK,
     Awaited
<1>11. ASSUME NEW p \in Procs, EndRun(p) PROVE Awaited'
  BY <1>11, EntryAwaited, AfterRenewalType DEF EndRun, Settles, runVars, heldVars, stopVars,
     TypeOK, Awaited
<1>12. ASSUME NEW p \in Procs, RenewalSettled(p) PROVE Awaited'
  BY <1>12, EntryAwaited, AfterRenewalType DEF RenewalSettled, Settles, runVars, heldVars, stopVars,
     TypeOK, Awaited
<1>13. ASSUME NEW p \in Procs, LetGoDone(p) PROVE Awaited'
  BY <1>13 DEF LetGoDone, Pending, runVars, heldVars, stopVars, TypeOK,
     Awaited
<1>14. ASSUME NEW p \in Procs, ReleaseAnswered(p) PROVE Awaited'
  BY <1>14 DEF ReleaseAnswered, runVars, heldVars, stopVars, TypeOK, Awaited
<1>15. ASSUME NEW p \in Procs, CutAnswered(p) PROVE Awaited'
  BY <1>15 DEF CutAnswered, runVars, heldVars, stopVars, TypeOK, Awaited
<1>16. ASSUME NEW p \in Procs, SettleTimeout(p) PROVE Awaited'
  BY <1>16 DEF SettleTimeout, Settles, runVars, heldVars, stopVars, TypeOK,
     Awaited
<1>17. ASSUME NEW p \in Procs, BehindStep(p) PROVE Awaited'
  BY <1>17, EntryAwaited, AfterRenewalType DEF BehindStep, Settles, runVars, heldVars, stopVars,
     TypeOK, Awaited
<1>18. ASSUME NEW p \in Procs, KeepLeasesAlive(p) PROVE Awaited'
  BY <1>18 DEF KeepLeasesAlive, Pending, runVars, heldVars, stopVars,
     TypeOK, Awaited
<1>19. ASSUME NEW p \in Procs, KeepAliveAnswered(p) PROVE Awaited'
  BY <1>19 DEF KeepAliveAnswered, ClaimExtendOnly, Claim, runVars, heldVars,
     stopVars, TypeOK, Awaited
<1>20. ASSUME NEW p \in Procs, KeepAliveLost(p) PROVE Awaited'
  BY <1>20 DEF KeepAliveLost, runVars, heldVars, stopVars, TypeOK, Awaited
<1>21. ASSUME NEW p \in Procs, ReleaseAll(p) PROVE Awaited'
  BY <1>21 DEF ReleaseAll, Pending, runVars, heldVars, stopVars, TypeOK,
     Awaited
<1>22. ASSUME NEW p \in Procs, ReleaseAllLetGo(p) PROVE Awaited'
  BY <1>22 DEF ReleaseAllLetGo, Pending, runVars, heldVars, stopVars,
     TypeOK, Awaited
<1>23. ASSUME NEW p \in Procs, ReleaseAllAnswered(p) PROVE Awaited'
  BY <1>23 DEF ReleaseAllAnswered, runVars, heldVars, stopVars, TypeOK,
     Awaited
<1>24. ASSUME NEW p \in Procs, Die(p) PROVE Awaited'
  BY <1>24 DEF Die, runVars, heldVars, stopVars, TypeOK, Awaited
<1>25. ASSUME NEW p \in Procs, OrphanWorkEnds(p) PROVE Awaited'
  BY <1>25 DEF OrphanWorkEnds, runVars, heldVars, stopVars, TypeOK, Awaited
<1> QED
  BY <1>1, <1>2, <1>3, <1>4, <1>5, <1>6, <1>7, <1>8, <1>9, <1>10, <1>11,
     <1>12, <1>13, <1>14, <1>15, <1>16, <1>17, <1>18, <1>19, <1>20, <1>21,
     <1>22, <1>23, <1>24, <1>25 DEF Next, Answer, Timer, Environment

\* What gives a replica the lease: the claim of a tick, a renewal, a cut, or a
\* keep-alive that is on its way.
LEMMA Writers ==
  ASSUME TypeOK, [Next]_vars, NEW p \in Procs, lease.holder # p, lease'.holder = p
  PROVE  \/ stage[p] \in {"claim", "renewal", "cut"} \/ behind[p] # "idle"
         \/ renew[p] \/ stray[p] \/ keep[p] # 0
<1>1. NoRow.holder \notin Procs
  BY LeaseAssumption DEF NoRow
<1>2. \A q \in Procs : \A ttl : Claim(q, ttl) => lease' = lease \/ lease'.holder = q
  BY DEF Claim
<1>3. \A q \in Procs : DeleteOwn(q) => lease' = lease \/ lease' = NoRow
  BY DEF DeleteOwn
<1>4. ~Time
  BY DEF Time, TypeOK
<1>5. PICK q \in Procs : Answer(q) \/ Timer(q) \/ Environment(q)
  BY <1>4 DEF Next, vars
<1>6. q = p
  BY <1>1, <1>2, <1>3, <1>5 DEF Answer, Timer, Environment, Start, Tick, ClaimGranted, ClaimRefused,
     ClaimLost, RenewTimer, RenewAnswered, StrayAnswered, EndRun, RenewalSettled, LetGoDone,
     ReleaseAnswered, CutAnswered, SettleTimeout, BehindStep, KeepLeasesAlive, KeepAliveAnswered,
     ClaimExtendOnly, KeepAliveLost, ReleaseAll, ReleaseAllLetGo, ReleaseAllAnswered, Die,
     OrphanWorkEnds
<1> QED
  BY <1>1, <1>3, <1>5, <1>6 DEF Answer, Timer, Environment, Start, Tick, ClaimGranted, ClaimRefused,
     ClaimLost, RenewTimer, RenewAnswered, StrayAnswered, EndRun, RenewalSettled, LetGoDone,
     ReleaseAnswered, CutAnswered, SettleTimeout, BehindStep, KeepLeasesAlive, KeepAliveAnswered,
     KeepAliveLost, ReleaseAll, ReleaseAllLetGo, ReleaseAllAnswered, Die, OrphanWorkEnds

\* For any number of replicas, ttl and liveness window: a living replica that
\* has let the lease go is not its holder again without asking, but for an
\* overtaken renewal.
THEOREM LetGoIsFinal == Spec => NoWriteBack
<1>1. Init => Awaited
  BY DEF Init, Awaited
<1>2. TypeOK /\ Awaited /\ [Next]_vars => Awaited'
  BY StepAwaited
<1>3. TypeOK /\ Awaited /\ [Next]_vars =>
        [\A p \in Procs :
           /\ up[p] = "up" /\ stage[p] = "idle" /\ behind[p] = "idle"
           /\ horizon[p] = NotHeld /\ stop[p] # "letgo" /\ ~stray[p]
           /\ lease.holder # p
           => lease'.holder # p]_vars
  BY Writers DEF Awaited
<1> QED
  BY <1>1, <1>2, <1>3, TypeCorrect, PTL DEF Spec, NoWriteBack

-----------------------------------------------------------------------------
(* The refinement of RunLock.                                              *)

\* Whom the runs count on: only the holder has one, and its lease is fresh.
LEMMA InsideHolds ==
  ASSUME LeaseInv, NEW p \in Inside
  PROVE  p \in Procs /\ lease.holder = p /\ lease.left >= 0 /\ Inside = {p}
  BY DEF LeaseInv, TypeOK, RunKeepsItsLease, Inside

\* Who may claim the lease finds no run of another counting on it.
LEMMA OnlyTheClaimer ==
  ASSUME LeaseInv, NEW p \in Procs, Claimable(p)
  PROVE  Inside \subseteq {p}
<1> SUFFICES ASSUME NEW q \in Inside PROVE q = p
  OBVIOUS
<1>1. q \in Procs /\ lease.holder = q /\ lease.left >= 0
  BY InsideHolds
<1>2. lease.left \in Int
  BY DEF LeaseInv, TypeOK
<1> QED
  BY <1>1, <1>2, LeaseAssumption DEF Claimable

\* A claim that is granted takes the lock.
LEMMA LockTaken ==
  ASSUME LeaseInv, NEW p \in Procs, NEW ttl \in Nat, Claimable(p), lease' = [holder |-> p, left |-> ttl],
         Inside' \in {Inside, {p}}
  PROVE  Lock!Take(p)
<1>1. Inside \subseteq {p}
  BY OnlyTheClaimer
<1>2. lease.holder \in {p, NoHolder} \/ ~(lease.left >= 0)
  BY DEF Claimable, LeaseInv, TypeOK
<1>3. lease'.holder = p /\ lease'.left >= 0
  OBVIOUS
<1> QED
  BY <1>1, <1>2, <1>3 DEF Lock!Take

\* A claim, granted or refused, that begins no run.
LEMMA LockClaimed ==
  ASSUME LeaseInv, NEW p \in Procs, NEW ttl \in Nat, Claim(p, ttl), Inside' = Inside
  PROVE  [Lock!Next]_(Lock!vars)
<1>1. CASE Claimable(p)
  BY <1>1, LockTaken DEF Claim, Lock!Next
<1>2. CASE ~Claimable(p)
  BY <1>2 DEF Claim, Lock!vars
<1> QED
  BY <1>1, <1>2

\* A DELETE of a process without a run that counts on the lease.
LEMMA LockReleased ==
  ASSUME LeaseInv, NEW p \in Procs, p \notin Inside, DeleteOwn(p), Inside' = Inside
  PROVE  [Lock!Next]_(Lock!vars)
<1>1. CASE lease.holder = p
  <2>1. Inside = {}
    BY <1>1, InsideHolds
  <2>2. lease'.holder = NoHolder /\ ~(lease'.left >= 0)
    BY <1>1 DEF DeleteOwn, NoRow
  <2>3. Lock!Drop(p)
    BY <1>1, <2>1, <2>2 DEF Lock!Drop
  <2> QED
    BY <2>3 DEF Lock!Next
<1>2. CASE lease.holder # p
  BY <1>2 DEF DeleteOwn, Lock!vars
<1> QED
  BY <1>1, <1>2

\* A run stops counting on the lease.
LEMMA LockLeft ==
  ASSUME LeaseInv, NEW p \in Procs, UNCHANGED lease, Inside' = Inside \ {p}
  PROVE  [Lock!Next]_(Lock!vars)
<1>1. CASE p \in Inside
  <2>1. Lock!Leave(p)
    BY <1>1 DEF Lock!Leave
  <2> QED
    BY <2>1 DEF Lock!Next
<1>2. CASE p \notin Inside
  BY <1>2 DEF Lock!vars
<1> QED
  BY <1>1, <1>2

\* The steps that neither begin nor end a run.
LEMMA InsideSame ==
  ASSUME UNCHANGED <<work, promised, clean>>
  PROVE  Inside' = Inside
  BY DEF Inside

\* A step that writes only what p's run knows of itself.
LEMMA InsideOf ==
  ASSUME TypeOK, NEW p \in Procs,
         \A q \in Procs : q # p => work'[q] = work[q] /\ clean'[q] = clean[q] /\ promised'[q] = promised[q]
  PROVE  /\ work'[p] /\ clean'[p] /\ promised'[p] >= 0 => Inside' = Inside \cup {p}
         /\ ~(work'[p] /\ clean'[p] /\ promised'[p] >= 0) => Inside' = Inside \ {p}
  BY DEF Inside, TypeOK

\* The clock: a lease lapses no earlier than the time its run counts on.
LEMMA LockTime ==
  ASSUME LeaseInv, Time
  PROVE  [Lock!Next]_(Lock!vars)
<1> USE DEF LeaseInv
<1>1. lease'.holder = lease.holder /\ lease'.left = Less(lease.left, -1)
  BY DEF Time, TypeOK
<1>2. lease.left \in Int /\ lease.left >= -1
  BY DEF TypeOK
<1>3. \A p \in Procs : /\ work'[p] = work[p] /\ clean'[p] = clean[p]
                       /\ promised[p] \in Int /\ promised'[p] = Less(promised[p], -1)
  BY DEF Time, TypeOK
<1>4. Inside' \subseteq Inside
  BY <1>3 DEF Inside, Less
<1>5. CASE lease.left = 0
  <2>1. ASSUME NEW p \in Inside PROVE p \notin Inside'
    <3>1. p \in Procs /\ work[p] /\ clean[p] /\ promised[p] >= 0
      BY <2>1 DEF Inside
    <3>2. lease.left >= promised[p]
      BY <3>1 DEF RunKeepsItsLease
    <3>3. promised'[p] = -1
      BY <1>3, <1>5, <3>1, <3>2 DEF Less
    <3> QED
      BY <3>3 DEF Inside
  <2>2. Inside' = {}
    BY <1>4, <2>1
  <2>3. lease.left >= 0 /\ ~(lease'.left >= 0)
    BY <1>1, <1>5 DEF Less
  <2>4. Lock!Lapse
    BY <1>1, <2>2, <2>3 DEF Lock!Lapse
  <2> QED
    BY <2>4 DEF Lock!Next
<1>6. CASE lease.left # 0
  <2>1. (lease'.left >= 0) = (lease.left >= 0)
    BY <1>1, <1>2, <1>6 DEF Less
  <2>2. CASE Inside' = Inside
    BY <1>1, <2>1, <2>2 DEF Lock!vars
  <2>3. CASE Inside' # Inside
    <3>1. PICK p \in Inside : p \notin Inside'
      BY <1>4, <2>3
    <3>2. p \in Procs /\ Inside = {p}
      BY InsideHolds
    <3>3. Inside' = Inside \ {p}
      BY <1>4, <3>1, <3>2
    <3>4. Lock!Leave(p)
      BY <1>1, <2>1, <3>3 DEF Lock!Leave
    <3> QED
      BY <3>2, <3>4 DEF Lock!Next
  <2> QED
    BY <2>2, <2>3
<1> QED
  BY <1>5, <1>6

LEMMA LockStep ==
  ASSUME LeaseInv, [Next]_vars
  PROVE  [Lock!Next]_(Lock!vars)
<1> USE DEF LeaseInv
<1>0. Ttl \in Nat /\ Liveness \in Nat
  BY LeaseAssumption
<1>1. ASSUME UNCHANGED lease, Inside' = Inside PROVE [Lock!Next]_(Lock!vars)
  BY <1>1 DEF Lock!vars
<1>2. CASE UNCHANGED vars
  BY <1>1, <1>2, InsideSame DEF vars
<1>3. ASSUME NEW p \in Procs,
             \/ Start(p) \/ RenewTimer(p) \/ LetGoDone(p) \/ SettleTimeout(p) \/ KeepLeasesAlive(p)
             \/ KeepAliveLost(p) \/ ReleaseAll(p) \/ ReleaseAllLetGo(p) \/ Die(p)
      PROVE  UNCHANGED lease /\ UNCHANGED <<work, promised, clean>>
  BY <1>3 DEF Start, RenewTimer, LetGoDone, SettleTimeout, KeepLeasesAlive, KeepAliveLost, ReleaseAll,
     ReleaseAllLetGo, Die, runVars
<1>4. ASSUME NEW p \in Procs, EndRun(p) \/ OrphanWorkEnds(p) PROVE [Lock!Next]_(Lock!vars)
  <2>1. /\ UNCHANGED lease /\ ~work'[p]
        /\ \A q \in Procs : q # p => work'[q] = work[q] /\ clean'[q] = clean[q] /\ promised'[q] = promised[q]
    BY <1>4 DEF EndRun, OrphanWorkEnds, TypeOK
  <2> QED
    BY <2>1, InsideOf, LockLeft
<1>5. ASSUME NEW p \in Procs, Tick(p) PROVE UNCHANGED lease /\ Inside' = Inside
  <2>1. /\ UNCHANGED <<lease, work, promised>> /\ ~work[p]
        /\ \A q \in Procs : q # p => clean'[q] = clean[q]
    BY <1>5 DEF Tick, WorkStage, TypeOK
  <2>2. Inside' = Inside \ {p}
    BY <2>1, InsideOf
  <2> QED
    BY <2>1, <2>2 DEF Inside
<1>6. ASSUME NEW p \in Procs, ClaimRefused(p) \/ ClaimLost(p)
      PROVE  Inside' = Inside /\ (UNCHANGED lease \/ Claim(p, Ttl))
  <2>1. /\ UNCHANGED lease \/ Claim(p, Ttl)
        /\ UNCHANGED <<work, promised>> /\ ~work[p]
        /\ \A q \in Procs : q # p => clean'[q] = clean[q]
    BY <1>6 DEF ClaimRefused, ClaimLost, WorkStage, TypeOK
  <2>2. Inside' = Inside \ {p}
    BY <2>1, InsideOf
  <2> QED
    BY <2>1, <2>2 DEF Inside
<1>7. ASSUME NEW p \in Procs, ClaimGranted(p) PROVE [Lock!Next]_(Lock!vars)
  <2>1. /\ Claimable(p) /\ lease' = [holder |-> p, left |-> Ttl] /\ ~work[p]
        /\ \A q \in Procs : q # p => work'[q] = work[q] /\ clean'[q] = clean[q] /\ promised'[q] = promised[q]
    BY <1>7 DEF ClaimGranted, Claim, WorkStage, TypeOK
  <2>2. p \notin Inside /\ Inside \subseteq {p}
    BY <2>1, OnlyTheClaimer DEF Inside
  <2>3. Inside' \in {Inside, {p}}
    BY <2>1, <2>2, InsideOf
  <2>4. Lock!Take(p)
    BY <1>0, <2>1, <2>3, LockTaken
  <2> QED
    BY <2>4 DEF Lock!Next
<1>8. ASSUME NEW p \in Procs, RenewAnswered(p) PROVE [Lock!Next]_(Lock!vars)
  <2>1. CASE UNCHANGED <<lease, promised>>
    BY <1>1, <1>8, <2>1, InsideSame DEF RenewAnswered
  <2>2. CASE Claim(p, Ttl) /\ ~(work[p] /\ Claimable(p))
    BY <1>0, <1>8, <2>2, InsideSame, LockClaimed DEF RenewAnswered, TypeOK
  <2>3. CASE Claim(p, Ttl) /\ work[p] /\ Claimable(p) /\ promised' = [promised EXCEPT ![p] = Ttl]
    <3>1. /\ lease' = [holder |-> p, left |-> Ttl] /\ UNCHANGED <<work, clean>>
          /\ \A q \in Procs : q # p => promised'[q] = promised[q]
      BY <1>8, <2>3 DEF RenewAnswered, Claim, TypeOK
    <3>2. Inside \subseteq {p}
      BY <2>3, OnlyTheClaimer
    <3>3. CASE clean[p]
      <4>1. work'[p] /\ clean'[p] /\ promised'[p] >= 0
        BY <1>0, <2>3, <3>1, <3>3 DEF TypeOK
      <4>2. Inside' = {p}
        BY <3>1, <3>2, <4>1, InsideOf
      <4> QED
        BY <1>0, <2>3, <3>1, <4>2, LockTaken DEF Lock!Next
    <3>4. CASE ~clean[p]
      <4>1. Inside' = Inside \ {p} /\ p \notin Inside
        BY <3>1, <3>4, InsideOf DEF Inside
      <4>2. Inside' = Inside
        BY <4>1
      <4> QED
        BY <1>0, <2>3, <3>1, <4>2, LockTaken DEF Lock!Next
    <3> QED
      BY <3>3, <3>4
  <2> QED
    BY <1>8, <2>1, <2>2, <2>3 DEF RenewAnswered
<1>9. ASSUME NEW p \in Procs,
             \/ StrayAnswered(p) \/ RenewalSettled(p) \/ CutAnswered(p) \/ ReleaseAnswered(p)
             \/ BehindStep(p) \/ KeepAliveAnswered(p) \/ ReleaseAllAnswered(p)
      PROVE  [Lock!Next]_(Lock!vars)
  <2>1. Inside' = Inside
    BY <1>9, InsideSame DEF StrayAnswered, RenewalSettled, CutAnswered, ReleaseAnswered, BehindStep,
       KeepAliveAnswered, ReleaseAllAnswered, runVars
  <2>2. \/ UNCHANGED lease \/ Claim(p, Ttl) \/ Claim(p, Liveness) \/ Claim(p, keep[p])
        \/ DeleteOwn(p) /\ (stage[p] = "release" \/ behind[p] = "release" \/ stop[p] = "delete")
    BY <1>9 DEF StrayAnswered, RenewalSettled, CutAnswered, ReleaseAnswered, BehindStep,
       KeepAliveAnswered, ClaimExtendOnly, ReleaseAllAnswered
  <2>3. keep[p] \in Nat
    BY <1>0 DEF TypeOK
  <2>4. CASE DeleteOwn(p) /\ (stage[p] = "release" \/ behind[p] = "release" \/ stop[p] = "delete")
    <3>1. p \notin Inside
      BY <2>4 DEF Inside, WorkStage, CleanRun
    <3> QED
      BY <2>1, <2>4, <3>1, LockReleased
  <2> QED
    BY <1>0, <1>1, <2>1, <2>2, <2>3, <2>4, LockClaimed
<1>10. ASSUME NEW p \in Procs, Answer(p) \/ Timer(p) \/ Environment(p) PROVE [Lock!Next]_(Lock!vars)
  <2>1. CASE ClaimRefused(p) \/ ClaimLost(p)
    BY <1>0, <1>1, <1>6, <2>1, LockClaimed
  <2>2. CASE \/ Start(p) \/ RenewTimer(p) \/ LetGoDone(p) \/ SettleTimeout(p) \/ KeepLeasesAlive(p)
             \/ KeepAliveLost(p) \/ ReleaseAll(p) \/ ReleaseAllLetGo(p) \/ Die(p)
    BY <1>1, <1>3, <2>2, InsideSame
  <2> QED
    BY <1>1, <1>4, <1>5, <1>7, <1>8, <1>9, <1>10, <2>1, <2>2 DEF Answer, Timer, Environment
<1> QED
  BY <1>2, <1>10, LockTime DEF Next

\* For any number of replicas, ttl and liveness window the lease is the lock that
\* RunLock describes: a claim takes it only when no other run counts on it, no
\* DELETE removes it under such a run, and it lapses only with the run's own time.
THEOREM ImplementsRunLock == Spec => KeepsRunLock
<1>1. Init => Lock!Init
  BY DEF Init, NoRow, Inside, Lock!Init
<1>2. LeaseInv /\ [Next]_vars => [Lock!Next]_(Lock!vars)
  BY LockStep
<1> QED
  BY <1>1, <1>2, LeaseInvariant, PTL DEF Spec, KeepsRunLock, Lock!Spec
=============================================================================
