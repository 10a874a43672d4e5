------------------------- MODULE LeaseStartupProofs -------------------------
(***************************************************************************)
(* Proofs about LeaseStartup: the start-up tries keep what SchedulerLease  *)
(* promises, and the last of them outlives a holder that died between      *)
(* runs.  The second rests on a comparison of two clocks that run at the   *)
(* same pace, the dead holder's lease and the timer of the try (Clock).    *)
(***************************************************************************)
EXTENDS LeaseStartup, SchedulerLeaseProofs

\* Nothing of w is on its way that could write the row for it.
Quiet(w) ==
  /\ up[w] = "gone" /\ stage[w] = "idle" /\ behind[w] = "idle"
  /\ ~renew[w] /\ ~stray[w] /\ keep[w] = 0

StartupTypeOK ==
  /\ startup \in [Procs -> {"fresh", "first", "last", "none"}]
  /\ tryIn \in [Procs -> Nat]
  /\ trying \in [Procs -> BOOLEAN]
  /\ witness \in [Procs -> Procs \cup {NoHolder}]
  /\ found \in [Procs -> Int]

\* The claim of a try is sent when its timer has run out, and the timer is
\* not set again before the answer.
TryShape == \A p \in Procs : trying[p] => tryIn[p] = 0 /\ startup[p] # "fresh"

\* A witness is named by the refusal of the first tick, and stays quiet.
WitnessShape ==
  \A p \in Procs :
    /\ startup[p] = "fresh" => witness[p] = NoHolder
    /\ witness[p] # NoHolder => Quiet(witness[p])

\* What is left of the witness's lease when the timer of the try runs out, if
\* it had at most Liveness left when the timer was first set.
Clock ==
  \A p \in Procs :
    /\ witness[p] # NoHolder /\ found[p] <= Liveness
    /\ lease.holder = witness[p] /\ lease.left >= 0
    => /\ startup[p] = "first" => lease.left <= tryIn[p] + Liveness - StartupDelay
       /\ startup[p] = "last"  => lease.left <= tryIn[p] + Liveness - StartupLastTry

StartupInv == TypeOK /\ StartupTypeOK /\ TryShape /\ WitnessShape /\ Clock

-----------------------------------------------------------------------------
(* The lease under the tries.                                              *)

\* All that the tries add to the steps of the lease is the claim that is
\* granted while the process stops.
LEMMA StartupSteps ==
  ASSUME [StartupNext]_allVars
  PROVE  [Next]_vars \/ \E p \in Procs : GrantedTooLate(p)
<1>1. CASE UNCHANGED allVars
  BY <1>1 DEF allVars
<1>2. CASE StartupTime
  BY <1>2 DEF StartupTime, Next
<1>3. ASSUME NEW p \in Procs, TryTimer(p) PROVE [Next]_vars
  BY <1>3 DEF TryTimer, Next, Timer
<1>4. ASSUME NEW p \in Procs, Granted(p) PROVE [Next]_vars
  BY <1>4 DEF Granted, Next, Answer
<1>5. ASSUME NEW p \in Procs, Refused(p) PROVE [Next]_vars
  BY <1>5 DEF Refused, Next, Answer
<1>6. ASSUME NEW p \in Procs, Failed(p) PROVE [Next]_vars
  BY <1>6 DEF Failed, Next, Environment
<1>7. ASSUME NEW p \in Procs, Other(p) PROVE [Next]_vars
  BY <1>7 DEF Other, Next, Answer, Timer, Environment
<1>8. ASSUME NEW p \in Procs, Dies(p) PROVE [Next]_vars
  BY <1>8 DEF Dies, Next, Environment
<1> QED
  BY <1>1, <1>2, <1>3, <1>4, <1>5, <1>6, <1>7, <1>8 DEF StartupNext

\* That claim keeps the types.
LEMMA TooLateTypes ==
  ASSUME TypeOK, NEW p \in Procs, GrantedTooLate(p)
  PROVE  TypeOK'
  BY LeaseAssumption DEF GrantedTooLate, Claim, heldVars, stopVars, TypeOK, Stages, Settles

\* It takes only a row it may take, and no run begins with it.
LEMMA TooLateKeepsLeaseInv ==
  ASSUME LeaseInv, NEW p \in Procs, GrantedTooLate(p)
  PROVE  LeaseInv'
<1> USE LeaseAssumption
<1>1. TypeOK'
  BY TooLateTypes DEF LeaseInv
<1>2. WorkStage' /\ CleanRun'
  BY DEF GrantedTooLate, heldVars, stopVars, LeaseInv, TypeOK, WorkStage, CleanRun
<1>3. RunKeepsItsLease'
  BY DEF GrantedTooLate, Claim, Claimable, heldVars, stopVars, LeaseInv, TypeOK, WorkStage,
     RunKeepsItsLease
<1> QED
  BY <1>1, <1>2, <1>3 DEF LeaseInv

\* The inductive invariant of the lease holds with the tries too.
THEOREM TriesKeepLeaseInv == StartupSpec => []LeaseInv
<1>1. StartupInit => LeaseInv
  BY InitLeaseInv DEF StartupInit
<1>2. LeaseInv /\ [StartupNext]_allVars => LeaseInv'
  BY StartupSteps, TooLateKeepsLeaseInv, StepTypeOK, StepWorkStage, StepCleanRun,
     StepRunKeepsItsLease DEF LeaseInv
<1> QED
  BY <1>1, <1>2, PTL DEF StartupSpec

\* With start-up tries too, two replicas work on the job at once only when one
\* of them has not renewed for a whole ttl.
THEOREM TriesKeepExclusion == StartupSpec => []Exclusion
<1>1. LeaseInv => Exclusion
  BY DEF LeaseInv, RunKeepsItsLease, Exclusion
<1> QED
  BY <1>1, TriesKeepLeaseInv, PTL

-----------------------------------------------------------------------------
(* The dead holder.                                                        *)

\* A quiet process stays quiet, and no step makes it the holder or leaves it
\* more time.
QuietStep(w) ==
  /\ Quiet(w)'
  /\ lease'.holder = w => lease.holder = w /\ lease'.left <= lease.left

\* So it is for every step of the lease.
LEMMA LeaseKeepsQuiet ==
  ASSUME TypeOK, [Next]_vars, NEW w \in Procs, Quiet(w)
  PROVE  QuietStep(w)
<1> USE LeaseAssumption DEF Quiet, QuietStep, TypeOK, runVars, heldVars, stopVars
<1>1. CASE UNCHANGED vars
  BY <1>1 DEF vars
<1>2. CASE Time
  BY <1>2 DEF Time, Less
<1>3. ASSUME NEW p \in Procs, Start(p) \/ Tick(p) \/ ClaimGranted(p) \/ ClaimRefused(p) \/ ClaimLost(p)
      PROVE  QuietStep(w)
  BY <1>3 DEF Start, Tick, ClaimGranted, ClaimRefused, ClaimLost, Claim
<1>4. ASSUME NEW p \in Procs, RenewTimer(p) \/ RenewAnswered(p) \/ StrayAnswered(p)
      PROVE  QuietStep(w)
  BY <1>4 DEF RenewTimer, RenewAnswered, StrayAnswered, Claim
<1>5. ASSUME NEW p \in Procs, EndRun(p) \/ RenewalSettled(p)
      PROVE  QuietStep(w)
  BY <1>5 DEF EndRun, RenewalSettled, Claim, EntryAfterRenewal
<1>6. ASSUME NEW p \in Procs, LetGoDone(p) \/ ReleaseAnswered(p) \/ CutAnswered(p) \/ SettleTimeout(p)
      PROVE  QuietStep(w)
  BY <1>6 DEF LetGoDone, ReleaseAnswered, CutAnswered, SettleTimeout, Claim, DeleteOwn, NoRow
<1>7. ASSUME NEW p \in Procs, BehindStep(p)
      PROVE  QuietStep(w)
  BY <1>7 DEF BehindStep, Claim, DeleteOwn, NoRow, EntryAfterRenewal
<1>8. ASSUME NEW p \in Procs, KeepLeasesAlive(p) \/ KeepAliveAnswered(p) \/ KeepAliveLost(p)
      PROVE  QuietStep(w)
  BY <1>8 DEF KeepLeasesAlive, KeepAliveAnswered, KeepAliveLost, ClaimExtendOnly, Claim
<1>9. ASSUME NEW p \in Procs, ReleaseAll(p) \/ ReleaseAllLetGo(p) \/ ReleaseAllAnswered(p)
      PROVE  QuietStep(w)
  BY <1>9 DEF ReleaseAll, ReleaseAllLetGo, ReleaseAllAnswered, DeleteOwn, NoRow
<1>10. ASSUME NEW p \in Procs, Die(p) \/ OrphanWorkEnds(p)
       PROVE  QuietStep(w)
  BY <1>10 DEF Die, OrphanWorkEnds
<1> QED
  BY <1>1, <1>2, <1>3, <1>4, <1>5, <1>6, <1>7, <1>8, <1>9, <1>10 DEF Next, Answer, Timer, Environment

\* And for the steps the tries add.
LEMMA KeepsQuiet ==
  ASSUME TypeOK, [StartupNext]_allVars, NEW w \in Procs, Quiet(w)
  PROVE  QuietStep(w)
<1>1. ASSUME NEW p \in Procs, GrantedTooLate(p) PROVE QuietStep(w)
  BY <1>1, LeaseAssumption DEF GrantedTooLate, Claim, heldVars, stopVars, Quiet, QuietStep, TypeOK
<1> QED
  BY <1>1, StartupSteps, LeaseKeepsQuiet

\* What a step may do to the bookkeeping of the tries of p: nothing, time, a
\* claim sent, an answer that ends the tries, the refusal of the first tick,
\* the next try.
Kept(p) ==
  /\ startup'[p] \in {startup[p], "none"} /\ tryIn'[p] = tryIn[p]
  /\ trying'[p] => trying[p] \/ (tryIn[p] = 0 /\ startup[p] # "fresh")
  /\ trying'[p] => startup'[p] = startup[p]
  /\ witness'[p] = witness[p] /\ found'[p] = found[p]
Aged(p) ==
  /\ startup'[p] = startup[p] /\ trying'[p] = trying[p]
  /\ witness'[p] = witness[p] /\ found'[p] = found[p]
  /\ tryIn'[p] = Less(tryIn[p], 0)
  /\ lease' = [lease EXCEPT !.left = Less(@, -1)]
Owed(p) ==
  /\ startup[p] = "fresh" /\ startup'[p] = "first"
  /\ tryIn'[p] = StartupDelay /\ ~trying'[p]
  /\ lease' = lease /\ UNCHANGED <<up, behind, renew, stray, keep>>
  /\ \A q \in Procs \ {p} : stage'[q] = stage[q]
  /\ \/ witness'[p] = witness[p] /\ found'[p] = found[p]
     \/ /\ witness'[p] = lease.holder /\ found'[p] = lease.left
        /\ lease.holder # p /\ lease.holder # NoHolder
        /\ DeadBetweenRuns(lease.holder)
Advanced(p) ==
  /\ startup[p] = "first" /\ startup'[p] = "last"
  /\ tryIn[p] = 0 /\ tryIn'[p] = StartupLastTry - StartupDelay
  /\ ~trying'[p] /\ witness'[p] = witness[p] /\ found'[p] = found[p]

\* Every step does one of these to every process.
LEMMA TryKinds ==
  ASSUME StartupInv, [StartupNext]_allVars, NEW p \in Procs
  PROVE  Kept(p) \/ Aged(p) \/ Owed(p) \/ Advanced(p)
<1> USE DEF StartupInv, StartupTypeOK, TryShape
<1>1. CASE UNCHANGED allVars
  BY <1>1 DEF allVars, startupVars, Kept
<1>2. CASE StartupTime
  BY <1>2 DEF StartupTime, Time, historyVars, Aged
<1>3. ASSUME NEW q \in Procs, TryTimer(q) PROVE Kept(p) \/ Advanced(p)
  BY <1>3 DEF TryTimer, NextTry, historyVars, Kept, Advanced
<1>4. ASSUME NEW q \in Procs, Granted(q) PROVE Kept(p)
  BY <1>4 DEF Granted, historyVars, Kept
<1>5. ASSUME NEW q \in Procs, GrantedTooLate(q) PROVE Kept(p)
  BY <1>5 DEF GrantedTooLate, historyVars, Kept
<1>6. ASSUME NEW q \in Procs, Refused(q)
      PROVE  Kept(p) \/ Owed(p) \/ Advanced(p)
  BY <1>6 DEF Refused, NextTry, ClaimRefused, Claimable, heldVars, stopVars, TypeOK, Kept, Owed, Advanced
<1>7. ASSUME NEW q \in Procs, Failed(q) PROVE Kept(p) \/ Advanced(p)
  BY <1>7 DEF Failed, NextTry, historyVars, Kept, Advanced
<1>8. ASSUME NEW q \in Procs, Other(q) PROVE Kept(p)
  BY <1>8 DEF Other, startupVars, Kept
<1>9. ASSUME NEW q \in Procs, Dies(q) PROVE Kept(p)
  BY <1>9 DEF Dies, Kept
<1> QED
  BY <1>1, <1>2, <1>3, <1>4, <1>5, <1>6, <1>7, <1>8, <1>9 DEF StartupNext

\* The bookkeeping keeps its types.
LEMMA StepStartupTypeOK ==
  ASSUME StartupInv, [StartupNext]_allVars
  PROVE  StartupTypeOK'
<1> USE StartupAssumption DEF StartupInv, StartupTypeOK
<1>1. CASE UNCHANGED allVars
  BY <1>1 DEF allVars, startupVars
<1>2. CASE StartupTime
  BY <1>2 DEF StartupTime, historyVars, Less
<1>3. ASSUME NEW p \in Procs, TryTimer(p) PROVE StartupTypeOK'
  <2>1. \/ startup' = [startup EXCEPT ![p] = "none"] /\ tryIn' = tryIn /\ trying' = trying
        \/ NextTry(p) /\ trying' = trying
        \/ trying' = [trying EXCEPT ![p] = TRUE] /\ startup' = startup /\ tryIn' = tryIn
    BY <1>3 DEF TryTimer
  <2>2. witness' = witness /\ found' = found
    BY <1>3 DEF TryTimer, historyVars
  <2>3. startup' \in [Procs -> {"fresh", "first", "last", "none"}]
    BY <2>1 DEF NextTry
  <2>4. tryIn' \in [Procs -> Nat]
    BY <2>1 DEF NextTry
  <2>5. trying' \in [Procs -> BOOLEAN]
    BY <2>1, Zenon
  <2> QED
    BY <2>2, <2>3, <2>4, <2>5
<1>4. ASSUME NEW p \in Procs, Granted(p) \/ GrantedTooLate(p) PROVE StartupTypeOK'
  <2> DEFINE owes == IF trying[p] \/ startup[p] = "fresh" THEN "none" ELSE startup[p]
  <2>1. owes \in {"fresh", "first", "last", "none"}
    OBVIOUS
  <2>2. startup' = [startup EXCEPT ![p] = owes] \/ startup' = [startup EXCEPT ![p] = "none"]
    BY <1>4 DEF Granted, GrantedTooLate
  <2>3. trying' = [trying EXCEPT ![p] = FALSE] /\ UNCHANGED <<tryIn, witness, found>>
    BY <1>4 DEF Granted, GrantedTooLate, historyVars
  <2> HIDE DEF owes
  <2> QED
    BY <2>1, <2>2, <2>3
<1>5. ASSUME NEW p \in Procs, Refused(p) PROVE StartupTypeOK'
  BY <1>5 DEF Refused, NextTry, TypeOK
<1>6. ASSUME NEW p \in Procs, Failed(p) PROVE StartupTypeOK'
  BY <1>6 DEF Failed, NextTry, historyVars
<1>7. ASSUME NEW p \in Procs, Other(p) PROVE StartupTypeOK'
  BY <1>7 DEF Other, startupVars
<1>8. ASSUME NEW p \in Procs, Dies(p) PROVE StartupTypeOK'
  BY <1>8 DEF Dies
<1> QED
  BY <1>1, <1>2, <1>3, <1>4, <1>5, <1>6, <1>7, <1>8 DEF StartupNext

\* A try is sent with its timer run out.
LEMMA StepTryShape ==
  ASSUME StartupInv, [StartupNext]_allVars
  PROVE  TryShape'
<1> SUFFICES ASSUME NEW p \in Procs, trying'[p]
             PROVE  tryIn'[p] = 0 /\ startup'[p] # "fresh"
  BY DEF TryShape
<1>1. Kept(p) \/ Aged(p)
  BY TryKinds DEF Owed, Advanced
<1>2. trying[p] => tryIn[p] = 0 /\ startup[p] # "fresh"
  BY DEF StartupInv, TryShape
<1>3. CASE Kept(p)
  BY <1>2, <1>3 DEF Kept
<1>4. CASE Aged(p)
  <2>1. trying[p] /\ startup'[p] = startup[p] /\ tryIn'[p] = Less(tryIn[p], 0)
    BY <1>4 DEF Aged
  <2> QED
    BY <1>2, <2>1 DEF Less
<1> QED
  BY <1>1, <1>3, <1>4

\* A witness is quiet from the refusal that named it on.
LEMMA StepWitnessShape ==
  ASSUME StartupInv, [StartupNext]_allVars
  PROVE  WitnessShape'
<1> SUFFICES ASSUME NEW p \in Procs
             PROVE  /\ startup'[p] = "fresh" => witness'[p] = NoHolder
                    /\ witness'[p] # NoHolder => Quiet(witness[p])'
  BY DEF WitnessShape, Quiet
<1>1. startup'[p] = "fresh" => witness'[p] = NoHolder
  BY TryKinds DEF Kept, Aged, Owed, Advanced, StartupInv, StartupTypeOK, WitnessShape
<1>2. ASSUME witness'[p] = witness[p], witness'[p] # NoHolder PROVE Quiet(witness[p])'
  <2>1. witness[p] \in Procs /\ Quiet(witness[p])
    BY <1>2 DEF StartupInv, StartupTypeOK, WitnessShape
  <2> QED
    BY <1>2, <2>1, KeepsQuiet DEF QuietStep, Quiet, StartupInv
<1>3. ASSUME Owed(p), witness'[p] = lease.holder, lease.holder # p, lease.holder # NoHolder,
             DeadBetweenRuns(lease.holder)
      PROVE  Quiet(witness[p])'
  <2>1. lease.holder \in Procs \ {p}
    BY <1>3 DEF StartupInv, TypeOK
  <2> QED
    BY <1>3, <2>1 DEF Owed, DeadBetweenRuns, Quiet
<1> QED
  BY <1>1, <1>2, <1>3, TryKinds DEF Kept, Aged, Owed, Advanced

\* The lease of a dead holder and the timer of a try run down together.
LEMMA StepClock ==
  ASSUME StartupInv, [StartupNext]_allVars
  PROVE  Clock'
<1> SUFFICES ASSUME NEW p \in Procs, witness'[p] # NoHolder, found'[p] <= Liveness,
                    lease'.holder = witness'[p], lease'.left >= 0
             PROVE  /\ startup'[p] = "first" =>
                         lease'.left <= tryIn'[p] + Liveness - StartupDelay
                    /\ startup'[p] = "last" =>
                         lease'.left <= tryIn'[p] + Liveness - StartupLastTry
  BY DEF Clock
<1> USE LeaseAssumption, StartupAssumption
<1>1. TypeOK /\ TypeOK' /\ StartupTypeOK
  BY StartupSteps, StepTypeOK, TooLateTypes DEF StartupInv
<1>2. CASE witness'[p] = witness[p] /\ found'[p] = found[p] /\ startup[p] # "fresh"
  <2>1. witness[p] \in Procs /\ Quiet(witness[p])
    BY <1>2 DEF StartupInv, StartupTypeOK, WitnessShape
  <2>2. lease.holder = witness[p] /\ lease'.left <= lease.left
    BY <1>2, <2>1, KeepsQuiet DEF QuietStep, StartupInv
  <2>3. lease.left \in Int /\ lease'.left \in Int /\ tryIn[p] \in Nat
    BY <1>1 DEF TypeOK, StartupTypeOK
  <2>4. /\ startup[p] = "first" => lease.left <= tryIn[p] + Liveness - StartupDelay
        /\ startup[p] = "last" => lease.left <= tryIn[p] + Liveness - StartupLastTry
    BY <1>2, <2>2, <2>3 DEF StartupInv, Clock
  <2>5. CASE Kept(p)
    BY <2>2, <2>3, <2>4, <2>5 DEF Kept
  <2>6. CASE Aged(p)
    <3>1. lease'.left = lease.left - 1
      BY <1>1, <2>3, <2>6 DEF Aged, Less, TypeOK
    <3> QED
      BY <2>3, <2>4, <2>6, <3>1 DEF Aged, Less
  <2>7. CASE Advanced(p)
    BY <2>2, <2>3, <2>4, <2>7 DEF Advanced
  <2> QED
    BY <1>2, <2>5, <2>6, <2>7, TryKinds DEF Owed
<1>3. CASE Owed(p) /\ witness'[p] = lease.holder /\ found'[p] = lease.left /\ DeadBetweenRuns(lease.holder)
  BY <1>1, <1>3 DEF Owed, DeadBetweenRuns, TypeOK
<1>4. startup[p] = "fresh" => witness[p] = NoHolder
  BY DEF StartupInv, WitnessShape
<1> QED
  BY <1>2, <1>3, <1>4, TryKinds DEF Kept, Aged, Owed, Advanced

\* All of it together, from the first state on.
THEOREM StartupInvariant == StartupSpec => []StartupInv
<1>1. StartupInit => StartupInv
  BY InitLeaseInv, LeaseAssumption DEF StartupInit, LeaseInv, StartupInv, StartupTypeOK, TryShape,
     WitnessShape, Clock
<1>2. StartupInv /\ [StartupNext]_allVars => StartupInv'
  BY StartupSteps, StepTypeOK, TooLateTypes, StepStartupTypeOK, StepTryShape, StepWitnessShape,
     StepClock DEF StartupInv
<1> QED
  BY <1>1, <1>2, PTL DEF StartupSpec

\* For any ttl, liveness window and delays with the last try past the window:
\* the last try of a start-up run is not refused by a holder that was already
\* dead between runs, its lease within the liveness window, when the first
\* tick was refused.
THEOREM LastTrySucceedsTheDead == StartupSpec => LastTryOutlivesDeadHolder
<1>1. StartupInv /\ [StartupNext]_allVars =>
        [\A p \in Procs :
           trying[p] /\ startup[p] = "last" /\ ClaimRefused(p) /\ found[p] <= Liveness
             => lease.holder # witness[p]]_allVars
  <2> SUFFICES ASSUME StartupInv, NEW p \in Procs, trying[p], startup[p] = "last",
                      ClaimRefused(p), found[p] <= Liveness, lease.holder = witness[p]
               PROVE  FALSE
    OBVIOUS
  <2>1. lease.left \in Int /\ lease.left >= 0 /\ witness[p] # NoHolder
    BY DEF ClaimRefused, Claimable, StartupInv, TypeOK
  <2>2. tryIn[p] = 0
    BY DEF StartupInv, TryShape
  <2>3. lease.left <= 0 + Liveness - StartupLastTry
    BY <2>1, <2>2 DEF StartupInv, Clock
  <2> QED
    BY <2>1, <2>3, LeaseAssumption, StartupAssumption
<1> QED
  BY <1>1, StartupInvariant, PTL DEF StartupSpec, LastTryOutlivesDeadHolder
=============================================================================
