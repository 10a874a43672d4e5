-------------------------- MODULE UpgradeRunProofs --------------------------
(***************************************************************************)
(* Proofs about UpgradeRun for any number of replicas, nodes, runs and     *)
(* faults: its types, what a verdict and a cancel stand for, and that it   *)
(* implements RunLife.                                                     *)
(***************************************************************************)
EXTENDS UpgradeRun, FiniteSetTheorems, TLAPS

\* The types, by what is written together.
RunOK  == run \in [Runs -> RunType]
TickOK == tick \in [Procs -> TickType]
OpOK   == op \in OpType
LockOK == lock \in Procs \cup {NoProc}
ClusterOK ==
  /\ plan \in [Kinds -> 0..MaxRuns]
  /\ pin \in Versions /\ installed \in Versions /\ pending \in Versions \cup {None}
  /\ manifest \in [prev : Versions, from : Versions, undone : BOOLEAN]
  /\ done \in [Nodes -> SUBSET Kinds] /\ broken \in [Nodes -> SUBSET Kinds]
  /\ ver \in [Procs -> Versions]
  /\ starter \in 0..MaxRuns
  /\ left \in [fault : Nat, fail : Nat]

\* What is about to be written as a release is one.
Releases ==
  /\ \A p \in Procs : tick[p].pc = "record" => tick[p].seen \in Versions
  /\ op.pc = "repin" => op.prev \in Versions

\* The run a pass works on was started, and had left prepare-nodes if the pass read so.
PassRow(p) ==
  tick[p].r # 0 =>
    /\ run[tick[p].r].status # "none"
    /\ tick[p].step \notin {"none", "prepare"} => run[tick[p].r].step # "prepare"

\* Where a pass is: which step of the run it is in, and what it has seen of the nodes.
PassAt(p) ==
  /\ tick[p].pc \in {"prepare", "services", "finish", "kubernetes", "claim", "claimed", "claimFinish",
                     "decide", "readRef", "record", "repin", "mark", "claimKubernetes", "applyK3s",
                     "succeed", "fail"} => tick[p].r # 0
  /\ tick[p].pc = "read" /\ tick[p].r # 0 => tick[p].step # "none"
  /\ tick[p].pc \in {"services", "finish", "kubernetes"} => tick[p].step = tick[p].pc
  /\ tick[p].pc \in {"claimed", "decide", "readRef", "record", "repin", "mark"}
       => run[tick[p].r].step # "prepare"
  /\ tick[p].pc = "claim" => Ready(tick[p].r, "update")
  /\ tick[p].pc = "claimKubernetes" => Ready(tick[p].r, "finish")
  /\ tick[p].pc = "succeed" =>
       \/ tick[p].step = "finish" /\ Ready(tick[p].r, "finish") /\ ~run[tick[p].r].k8s
       \/ tick[p].step = "kubernetes" /\ Ready(tick[p].r, "k3s")

PassOK(p) == PassRow(p) /\ PassAt(p)

PassShape == \A p \in Procs : PassOK(p)

Types == RunOK /\ TickOK /\ OpOK /\ LockOK /\ ClusterOK /\ Releases

-----------------------------------------------------------------------------
(* Who writes what.                                                        *)

\* The steps that write a row of platform_upgrade_runs.
RowWrites ==
  \/ \E r \in Runs, nodes \in Included, k8s \in Kubernetes : Start(r, nodes, k8s)
  \/ ApplyUpdatePlan \/ Cancel \/ Abort
  \/ \E p \in Procs : \/ Fail(p) \/ ClaimServices(p) \/ ClaimFinish(p) \/ Repin(p)
                      \/ ClaimKubernetes(p) \/ Succeed(p, "finish") \/ Succeed(p, "kubernetes")

LEMMA RowWriters ==
  ASSUME [Next]_vars
  PROVE  UNCHANGED run \/ RowWrites
<1>1. CASE UNCHANGED vars
  BY <1>1 DEF vars
<1>2. CASE Starting \/ NodeStep
  BY <1>2 DEF Starting, StarterDies, NodeStep, NodeDone, NodeFails3, RowWrites
<1>3. CASE Operator
  BY <1>3 DEF Operator, Request, RowWrites, AskCancel, AskRollback, StopPlans, ReadManifest,
              RepinBack, MarkRolledBack, ReadForAbort, Track, RequestDies
<1>4. ASSUME NEW p \in Procs, Pass(p) PROVE UNCHANGED run \/ RowWrites
  BY <1>4 DEF Pass, PrepareStep, ServicesStep, FinishStep, KubernetesStep, Tick, TakeLock, NodeStops,
              NodesPrepared, ServicesClaimed, Waits, TimesOut, ReadServices, Decide, ReadRef,
              RecordManifest, MarkPending, NodesFinished, PlansMissing, ApplyK3s, NodesOnKubernetes,
              Reconcile, ClearPending, RowWrites
<1>5. ASSUME NEW p \in Procs, Roll(p) \/ Crash(p) PROVE UNCHANGED run \/ RowWrites
  BY <1>5 DEF Roll, Crash
<1> QED
  BY <1>1, <1>2, <1>3, <1>4, <1>5 DEF Next

\* Only a replica's own pass, its roll and its death write its tick.
LEMMA TickWriters ==
  ASSUME [Next]_vars
  PROVE  UNCHANGED tick \/ \E p \in Procs : Pass(p) \/ Roll(p) \/ Crash(p)
<1>1. CASE UNCHANGED vars
  BY <1>1 DEF vars
<1>2. CASE Starting \/ NodeStep
  BY <1>2 DEF Starting, Start, ApplyUpdatePlan, StarterDies, NodeStep, NodeDone, NodeFails3
<1>3. CASE Operator
  BY <1>3 DEF Operator, Request, AskCancel, AskRollback, Cancel, StopPlans, ReadManifest, RepinBack,
              MarkRolledBack, ReadForAbort, Abort, Track, RequestDies
<1> QED
  BY <1>1, <1>2, <1>3 DEF Next

-----------------------------------------------------------------------------
(* Types.                                                                  *)

\* Ending a row, moving it on and noting its re-pin keep the rows in their type.
LEMMA EndRowType ==
  ASSUME RunOK, NEW r \in Runs, NEW s \in Ends, NEW t \in Said,
         \/ run' = [run EXCEPT ![r].status = s]
         \/ run' = [run EXCEPT ![r].status = s, ![r].said = t]
  PROVE  RunOK'
  BY DEF RunOK, RunType

LEMMA MoveRowType ==
  ASSUME RunOK, NEW r \in Runs, NEW s \in Ends, NEW t \in Steps,
         \/ run' = [run EXCEPT ![r].step = t]
         \/ run' = [run EXCEPT ![r].status = s, ![r].step = t]
         \/ run' = [run EXCEPT ![r].repinned = TRUE]
  PROVE  RunOK'
<1>1. run[r] \in RunType
  BY DEF RunOK
<1>2. /\ [run[r] EXCEPT !.step = t] \in RunType
      /\ [run[r] EXCEPT !.status = s, !.step = t] \in RunType
      /\ [run[r] EXCEPT !.repinned = TRUE] \in RunType
  BY <1>1 DEF RunType
<1> QED
  BY <1>2 DEF RunOK

\* A run that is running has a row.
LEMMA RunningRow ==
  ASSUME NEW r \in 0..MaxRuns, Running(r)
  PROVE  r \in Runs
  BY BoundsAssumption DEF Running, Runs

LEMMA StepRunOK ==
  ASSUME Types, PassShape, [Next]_vars
  PROVE  RunOK'
<1> USE DEF Types
<1>1. CASE UNCHANGED run
  BY <1>1 DEF RunOK
<1>2. ASSUME NEW r \in Runs, NEW nodes \in Included, NEW k8s \in Kubernetes, Start(r, nodes, k8s)
      PROVE  RunOK'
  <2>1. [NotStarted EXCEPT !.status = "running", !.nodes = nodes, !.k8s = k8s] \in RunType
    BY BoundsAssumption DEF NotStarted, RunType, Steps, Said
  <2> QED
    BY <1>2, <2>1 DEF Start, RunOK
<1> "failed" \in Ends /\ "cancelled" \in Ends /\ "rolledBack" \in Ends /\ "succeeded" \in Ends
    /\ "services" \in Steps /\ "finish" \in Steps /\ "kubernetes" \in Steps /\ "done" \in Steps
    /\ "notStarted" \in Said
  BY DEF Ends, Steps, Said
<1>3. CASE ApplyUpdatePlan
  <2>1. starter \in 0..MaxRuns
    BY DEF ClusterOK
  <2>2. CASE Transitionable(starter, "any")
    BY <1>1, <1>3, <2>1, <2>2, EndRowType, RunningRow DEF ApplyUpdatePlan, Transitionable
  <2> QED
    BY <1>1, <1>3, <2>2 DEF ApplyUpdatePlan
<1>4. ASSUME Cancel \/ Abort PROVE RunOK'
  <2>1. op.r \in 0..MaxRuns
    BY DEF OpOK, OpType
  <2>2. ASSUME NEW s \in {"cancelled", "rolledBack"}, Running(op.r), End(op.r, s) PROVE RunOK'
    BY <2>1, <2>2, EndRowType, RunningRow DEF End
  <2> QED
    BY <1>1, <1>4, <2>2 DEF Cancel, Abort, Transitionable
<1>5. ASSUME NEW p \in Procs PROVE Row(p) \in 0..MaxRuns /\ tick[p].said \in Said
  BY DEF TickOK, TickType, Row
<1>6. ASSUME NEW p \in Procs, Fail(p) PROVE RunOK'
  <2>1. CASE Transitionable(Row(p), "any")
    <3>1. run' = [run EXCEPT ![Row(p)].status = "failed", ![Row(p)].said = tick[p].said]
      BY <1>6, <2>1 DEF Fail
    <3>2. Row(p) \in Runs
      BY <1>5, <2>1, RunningRow DEF Transitionable
    <3> QED
      BY <1>5, <3>1, <3>2, EndRowType
  <2> QED
    BY <1>1, <1>6, <2>1 DEF Fail
<1>7. ASSUME NEW p \in Procs, NEW s \in Steps, Running(Row(p)),
             run' = [run EXCEPT ![Row(p)].step = s]
      PROVE  RunOK'
  BY <1>5, <1>7, MoveRowType, RunningRow
<1>8. ASSUME NEW p \in Procs, ClaimServices(p) \/ ClaimKubernetes(p) PROVE RunOK'
  BY <1>1, <1>7, <1>8 DEF ClaimServices, ClaimKubernetes, SetStep, Transitionable
<1>9. ASSUME NEW p \in Procs, ClaimFinish(p) PROVE RunOK'
  BY <1>1, <1>7, <1>9 DEF ClaimFinish, Transitionable
<1>10. ASSUME NEW p \in Procs, NEW from \in {"finish", "kubernetes"}, Succeed(p, from) PROVE RunOK'
  <2>1. CASE Transitionable(Row(p), from)
    <3>1. run' = [run EXCEPT ![Row(p)].status = "succeeded", ![Row(p)].step = "done"]
      BY <1>10, <2>1 DEF Succeed
    <3>2. Row(p) \in Runs
      BY <1>5, <2>1, RunningRow DEF Transitionable
    <3> QED
      BY <3>1, <3>2, MoveRowType
  <2> QED
    BY <1>1, <1>10, <2>1 DEF Succeed
<1>11. ASSUME NEW p \in Procs, Repin(p) PROVE RunOK'
  <2>1. Row(p) \in Runs
    BY <1>5, <1>11, BoundsAssumption DEF Repin, At, Row, Runs, PassShape, PassOK, PassAt
  <2> QED
    BY <1>1, <1>11, <2>1, MoveRowType DEF Repin
<1> QED
  BY <1>1, <1>2, <1>3, <1>4, <1>6, <1>8, <1>9, <1>10, <1>11, RowWriters DEF RowWrites

\* A replica's tick keeps its type wherever its pass goes.
LEMMA GotoType ==
  ASSUME TickOK, NEW p \in Procs, NEW pc \in Pcs, Goto(p, pc)
  PROVE  TickOK'
<1>1. tick[p] \in TickType
  BY DEF TickOK
<1>2. [tick[p] EXCEPT !.pc = pc] \in TickType
  BY <1>1 DEF TickType
<1>3. [Idle EXCEPT !.pc = pc] \in TickType
  BY BoundsAssumption DEF TickType, Idle, Steps, Said, None
<1> QED
  BY <1>2, <1>3 DEF Goto, TickOK

LEMMA GiveUpType ==
  ASSUME TickOK, NEW p \in Procs, NEW said \in Said, GiveUp(p, said)
  PROVE  TickOK'
<1>1. tick[p].r \in 0..MaxRuns
  BY DEF TickOK, TickType
<1>2. [Idle EXCEPT !.pc = "fail", !.r = tick[p].r, !.said = said] \in TickType
  BY <1>1 DEF TickType, Idle, Steps, None, Pcs
<1> QED
  BY <1>2 DEF GiveUp, TickOK

LEMMA IdleType ==
  ASSUME TickOK, NEW p \in Procs, tick' = [tick EXCEPT ![p] = Idle]
  PROVE  TickOK'
<1>1. Idle \in TickType
  BY BoundsAssumption DEF TickType, Idle, Steps, None, Pcs, Said
<1> QED
  BY <1>1 DEF TickOK

\* getActiveRun returns a run in flight, or none.
LEMMA ActiveRunIs ==
  /\ ActiveRun \in 0..MaxRuns
  /\ ActiveRun # 0 => ActiveRun \in Runs /\ run[ActiveRun].status = "running"
<1>1. CASE Active = {}
  BY <1>1, BoundsAssumption DEF ActiveRun
<1>2. CASE Active # {}
  <2>1. ActiveRun \in Active
    BY <1>2 DEF ActiveRun
  <2> QED
    BY <2>1, BoundsAssumption DEF Active, Runs
<1> QED
  BY <1>1, <1>2

LEMMA StepTickOK ==
  ASSUME Types, PassShape, [Next]_vars
  PROVE  TickOK'
<1> USE DEF Types
<1>1. CASE UNCHANGED tick
  BY <1>1 DEF TickOK
<1>2. ASSUME NEW p \in Procs, Tick(p) PROVE TickOK'
  <2>1. ActiveRun # 0 => run[ActiveRun].step \in Steps
    BY ActiveRunIs DEF RunOK, RunType
  <2>2. [Idle EXCEPT !.pc = "read", !.r = ActiveRun,
                     !.step = IF ActiveRun = 0 THEN "none" ELSE run[ActiveRun].step] \in TickType
    BY <2>1, ActiveRunIs DEF TickType, Idle, None, Pcs, Said
  <2> QED
    BY <1>2, <2>2 DEF Tick, TickOK
<1>3. ASSUME NEW p \in Procs, TakeLock(p) PROVE TickOK'
  <2>1. (IF Row(p) = 0 THEN "reconcile" ELSE tick[p].step) \in Pcs \/ lock # NoProc
    BY <1>3 DEF TakeLock, At, TickOK, TickType, Pcs, Steps, PassShape, PassOK, PassAt, Row
  <2> QED
    BY <1>3, <2>1, GotoType, IdleType DEF TakeLock
<1>4. ASSUME NEW p \in Procs, NEW pc \in Pcs, Goto(p, pc) PROVE TickOK'
  BY <1>4, GotoType
<1>5. ASSUME NEW p \in Procs, NEW said \in Said, GiveUp(p, said) PROVE TickOK'
  BY <1>5, GiveUpType
<1>6. ASSUME NEW p \in Procs, tick' = [tick EXCEPT ![p] = Idle] PROVE TickOK'
  BY <1>6, IdleType
<1> "reconcile" \in Pcs /\ "claimed" \in Pcs /\ "decide" \in Pcs /\ "claimFinish" \in Pcs
    /\ "readRef" \in Pcs /\ "mark" \in Pcs /\ "claimKubernetes" \in Pcs /\ "succeed" \in Pcs
    /\ "applyK3s" \in Pcs /\ "converged" \in Pcs
    /\ "unchanged" \in Said /\ "changed" \in Said /\ "notChanged" \in Said
  BY DEF Pcs, Said
<1>7. ASSUME NEW p \in Procs, NodesPrepared(p) PROVE TickOK'
  <2>1. tick[p] \in TickType
    BY DEF TickOK
  <2>2. [tick[p] EXCEPT !.pc = "claim", !.seen = IF Target \in {installed, pending} THEN Target ELSE None]
          \in TickType
    <3>1. (IF Target \in {installed, pending} THEN Target ELSE None) \in Versions \cup {None}
      BY DEF Versions, Target
    <3> QED
      BY <2>1, <3>1 DEF TickType, Pcs
  <2> QED
    BY <1>7, <2>2 DEF NodesPrepared, TickOK
<1>8. ASSUME NEW p \in Procs, ReadRef(p) PROVE TickOK'
  <2>1. tick[p] \in TickType /\ pin \in Versions
    BY DEF TickOK, ClusterOK
  <2>2. [tick[p] EXCEPT !.pc = "record", !.seen = pin] \in TickType
    BY <2>1 DEF TickType, Pcs
  <2> QED
    BY <1>8, <2>2 DEF ReadRef, TickOK
<1>9. ASSUME NEW p \in Procs, RecordManifest(p) PROVE TickOK'
  <2>1. tick[p] \in TickType
    BY DEF TickOK
  <2>2. [tick[p] EXCEPT !.pc = "repin", !.seen = None] \in TickType
    BY <2>1 DEF TickType, Pcs
  <2> QED
    BY <1>5, <1>9, <2>2 DEF RecordManifest, TickOK
<1>10. ASSUME NEW p \in Procs, PrepareStep(p) PROVE TickOK'
  BY <1>4, <1>5, <1>7, <1>10 DEF PrepareStep, NodeStops, ClaimServices, ServicesClaimed, Waits, TimesOut
<1>11. ASSUME NEW p \in Procs, ServicesStep(p) PROVE TickOK'
  BY <1>4, <1>5, <1>8, <1>9, <1>11
     DEF ServicesStep, ReadServices, ClaimFinish, Decide, Repin, MarkPending
<1>12. ASSUME NEW p \in Procs, FinishStep(p) PROVE TickOK'
  BY <1>4, <1>5, <1>12
     DEF FinishStep, NodeStops, NodesFinished, ClaimKubernetes, Succeed, Waits, TimesOut
<1>13. ASSUME NEW p \in Procs, KubernetesStep(p) PROVE TickOK'
  BY <1>4, <1>5, <1>13
     DEF KubernetesStep, PlansMissing, ApplyK3s, NodeStops, NodesOnKubernetes, Succeed, Waits, TimesOut
<1>14. ASSUME NEW p \in Procs, Fail(p) \/ Reconcile(p) \/ ClearPending(p) PROVE TickOK'
  BY <1>4, <1>6, <1>14 DEF Fail, Reconcile, ClearPending
<1>15. ASSUME NEW p \in Procs, Roll(p) \/ Crash(p) PROVE TickOK'
  BY <1>6, <1>15 DEF Roll, Crash
<1> QED
  BY <1>1, <1>2, <1>3, <1>10, <1>11, <1>12, <1>13, <1>14, <1>15, TickWriters DEF Pass

LEMMA StepOpOK ==
  ASSUME Types, [Next]_vars
  PROVE  OpOK' /\ (op'.pc = "repin" => op'.prev \in Versions)
<1> USE DEF Types
<1>1. CASE UNCHANGED op
  BY <1>1 DEF OpOK, Releases
<1> op \in OpType /\ NoRequest \in OpType
  BY BoundsAssumption DEF OpOK, OpType, NoRequest, Requests, Steps, None
<1>2. CASE AskCancel
  <2>1. op' = [op EXCEPT !.pc = "cancel", !.r = ActiveRun, !.step = "prepare"]
    BY <1>2 DEF AskCancel
  <2> QED
    BY <2>1, ActiveRunIs DEF OpOK, OpType, Requests, Steps
<1>3. CASE AskRollback
  BY <1>3 DEF AskRollback, OpOK, OpType, Requests
<1>4. CASE Cancel
  BY <1>4 DEF Cancel, OpOK, OpType, Requests, NoRequest
<1>5. CASE StopPlans
  BY <1>5 DEF StopPlans, OpOK, OpType, Requests, NoRequest
<1>6. CASE ReadManifest
  <2>1. manifest.prev \in Versions /\ manifest.from \in Versions
    BY DEF ClusterOK
  <2> QED
    BY <1>6, <2>1 DEF ReadManifest, OpOK, OpType, Requests, NoRequest
<1>7. CASE RepinBack
  BY <1>7 DEF RepinBack, OpOK, OpType, Requests, NoRequest
<1>8. CASE MarkRolledBack
  BY <1>8 DEF MarkRolledBack, OpOK, OpType, Requests
<1>9. CASE ReadForAbort
  <2>1. ActiveRun # 0 => run[ActiveRun].step \in Steps
    BY ActiveRunIs DEF RunOK, RunType
  <2> QED
    BY <1>9, <2>1, ActiveRunIs DEF ReadForAbort, OpOK, OpType, Requests, NoRequest
<1>10. CASE Abort
  BY <1>10 DEF Abort, OpOK, OpType, Requests, NoRequest
<1>11. CASE Track \/ RequestDies
  BY <1>11 DEF Track, RequestDies, OpOK, NoRequest
<1>12. ASSUME NEW p \in Procs, RecordManifest(p) PROVE OpOK' /\ (op'.pc = "repin" => op'.prev \in Versions)
  BY <1>1, <1>12 DEF RecordManifest, OpOK, OpType, Releases
<1>13. CASE UNCHANGED vars
  BY <1>1, <1>13 DEF vars
<1>14. CASE Starting \/ NodeStep
  BY <1>1, <1>14 DEF Starting, Start, ApplyUpdatePlan, StarterDies, NodeStep, NodeDone, NodeFails3
<1>15. ASSUME NEW p \in Procs, Pass(p) \/ Roll(p) \/ Crash(p)
       PROVE  OpOK' /\ (op'.pc = "repin" => op'.prev \in Versions)
  BY <1>1, <1>12, <1>15
     DEF Pass, PrepareStep, ServicesStep, FinishStep, KubernetesStep, Tick, TakeLock, NodeStops,
         NodesPrepared, ClaimServices, ServicesClaimed, Waits, TimesOut, ReadServices, ClaimFinish,
         Decide, ReadRef, Repin, MarkPending, NodesFinished, ClaimKubernetes, ApplyK3s, Succeed,
         PlansMissing, NodesOnKubernetes, Fail, Reconcile, ClearPending, Roll, Crash
<1> QED
  BY <1>2, <1>3, <1>4, <1>5, <1>6, <1>7, <1>8, <1>9, <1>10, <1>11, <1>13, <1>14, <1>15
     DEF Next, Operator, Request

\* A pass writes no other replica's tick.
LEMMA OwnTick ==
  ASSUME TickOK, NEW p \in Procs, Pass(p) \/ Roll(p) \/ Crash(p), NEW q \in Procs, q # p
  PROVE  tick'[q] = tick[q]
<1> USE DEF TickOK
<1>1. ASSUME NEW pc, Goto(p, pc) PROVE tick'[q] = tick[q]
  BY <1>1 DEF Goto
<1>2. ASSUME NEW said, GiveUp(p, said) PROVE tick'[q] = tick[q]
  BY <1>2 DEF GiveUp
<1>3. CASE PrepareStep(p)
  BY <1>1, <1>2, <1>3
     DEF PrepareStep, NodeStops, NodesPrepared, ClaimServices, ServicesClaimed, Waits, TimesOut
<1>4. CASE ServicesStep(p)
  BY <1>1, <1>2, <1>4
     DEF ServicesStep, ReadServices, ClaimFinish, Decide, ReadRef, RecordManifest, Repin, MarkPending
<1>5. CASE FinishStep(p)
  BY <1>1, <1>2, <1>5
     DEF FinishStep, NodeStops, NodesFinished, ClaimKubernetes, Succeed, Waits, TimesOut
<1>6. CASE KubernetesStep(p)
  BY <1>1, <1>2, <1>6
     DEF KubernetesStep, PlansMissing, ApplyK3s, NodeStops, NodesOnKubernetes, Succeed, Waits, TimesOut
<1>7. CASE Tick(p) \/ TakeLock(p) \/ Fail(p) \/ Reconcile(p) \/ ClearPending(p) \/ Roll(p) \/ Crash(p)
  BY <1>1, <1>7 DEF Tick, TakeLock, Fail, Reconcile, ClearPending, Roll, Crash
<1> QED
  BY <1>3, <1>4, <1>5, <1>6, <1>7 DEF Pass

\* The lock is held by the replica whose pass goes on, and by nobody else.
LockShape == \A p \in Procs : tick[p].pc \notin {"idle", "read"} => lock = p

\* Past the lock a pass keeps it, or ends and gives it back.
LEMMA PassLock ==
  ASSUME NEW p \in Procs, Pass(p)
  PROVE  \/ Tick(p) \/ TakeLock(p)
         \/ /\ tick[p].pc \notin {"idle", "read"}
            /\ lock' = lock \/ (lock' = NoProc /\ tick' = [tick EXCEPT ![p] = Idle])
<1>1. CASE PrepareStep(p)
  BY <1>1 DEF PrepareStep, NodeStops, NodesPrepared, ClaimServices, ServicesClaimed, Waits, TimesOut, At
<1>2. CASE ServicesStep(p)
  BY <1>2
     DEF ServicesStep, ReadServices, ClaimFinish, Decide, ReadRef, RecordManifest, Repin, MarkPending, At
<1>3. CASE FinishStep(p)
  BY <1>3 DEF FinishStep, NodeStops, NodesFinished, ClaimKubernetes, Succeed, Waits, TimesOut, At
<1>4. CASE KubernetesStep(p)
  BY <1>4
     DEF KubernetesStep, PlansMissing, ApplyK3s, NodeStops, NodesOnKubernetes, Succeed, Waits, TimesOut, At
<1>5. CASE Fail(p) \/ Reconcile(p) \/ ClearPending(p)
  BY <1>5 DEF Fail, Reconcile, ClearPending, At
<1> QED
  BY <1>1, <1>2, <1>3, <1>4, <1>5 DEF Pass

LEMMA StepLock ==
  ASSUME Types, LockShape, [Next]_vars
  PROVE  LockOK' /\ LockShape'
<1> USE ProcsAssumption DEF Types, TickOK, LockOK, LockShape
<1>1. CASE UNCHANGED <<tick, lock>>
  BY <1>1
<1>2. CASE UNCHANGED vars
  BY <1>1, <1>2 DEF vars
<1>3. CASE Starting \/ NodeStep
  BY <1>1, <1>3 DEF Starting, Start, ApplyUpdatePlan, StarterDies, NodeStep, NodeDone, NodeFails3
<1>4. CASE Operator
  BY <1>1, <1>4 DEF Operator, Request, AskCancel, AskRollback, Cancel, StopPlans, ReadManifest,
                    RepinBack, MarkRolledBack, ReadForAbort, Abort, Track, RequestDies
<1>5. ASSUME NEW p \in Procs, Pass(p) PROVE LockOK' /\ LockShape'
  <2>1. \A q \in Procs \ {p} : tick'[q] = tick[q]
    BY <1>5, OwnTick
  <2>2. CASE Tick(p)
    BY <2>1, <2>2 DEF Tick, Idle
  <2>3. CASE TakeLock(p)
    <3>1. CASE lock = NoProc
      BY <2>1, <2>3, <3>1 DEF TakeLock
    <3>2. CASE lock # NoProc
      BY <2>1, <2>3, <3>2 DEF TakeLock, Idle
    <3> QED
      BY <3>1, <3>2
  <2>4. ASSUME tick[p].pc \notin {"idle", "read"}, lock' = lock PROVE LockOK' /\ LockShape'
    BY <2>1, <2>4
  <2>5. ASSUME tick[p].pc \notin {"idle", "read"}, lock' = NoProc, tick' = [tick EXCEPT ![p] = Idle]
        PROVE  LockOK' /\ LockShape'
    BY <2>1, <2>5 DEF Idle
  <2> QED
    BY <1>5, <2>2, <2>3, <2>4, <2>5, PassLock
<1>6. ASSUME NEW p \in Procs, Roll(p) \/ Crash(p) PROVE LockOK' /\ LockShape'
  BY <1>6 DEF Roll, Crash, Idle
<1> QED
  BY <1>2, <1>3, <1>4, <1>5, <1>6 DEF Next

LEMMA StepClusterOK ==
  ASSUME Types, [Next]_vars
  PROVE  ClusterOK'
<1> USE BoundsAssumption DEF Types, ClusterOK
<1>1. CASE UNCHANGED vars
  BY <1>1 DEF vars
<1>2. CASE Starting
  <2>1. ASSUME NEW r \in Runs, NEW nodes \in Included, NEW k8s \in Kubernetes, Start(r, nodes, k8s)
        PROVE  ClusterOK'
    BY <2>1 DEF Start, Runs
  <2>2. CASE ApplyUpdatePlan
    BY <2>2 DEF ApplyUpdatePlan, Kinds
  <2>3. CASE StarterDies
    BY <2>3 DEF StarterDies
  <2> QED
    BY <1>2, <2>1, <2>2, <2>3 DEF Starting
<1>3. CASE NodeStep
  <2>1. PICK n \in Nodes, k \in Kinds : NodeDone(n, k) \/ NodeFails3(n, k)
    BY <1>3 DEF NodeStep
  <2>2. done[n] \cup {k} \in SUBSET Kinds /\ broken[n] \cup {k} \in SUBSET Kinds
    OBVIOUS
  <2>3. CASE NodeDone(n, k)
    BY <2>2, <2>3 DEF NodeDone
  <2>4. CASE NodeFails3(n, k)
    BY <2>2, <2>4 DEF NodeFails3
  <2> QED
    BY <2>1, <2>3, <2>4
<1>4. CASE Operator
  <2>1. op \in OpType /\ op.prev \in Versions \cup {None} /\ op.from \in Versions \cup {None}
    BY DEF OpOK, OpType
  <2>2. CASE RepinBack
    BY <2>2 DEF RepinBack, Releases
  <2>3. CASE Track
    BY <2>1, <2>3 DEF Track
  <2>4. CASE MarkRolledBack
    BY <2>4 DEF MarkRolledBack
  <2>5. CASE StopPlans
    BY <2>5 DEF StopPlans
  <2>6. CASE AskRollback \/ RequestDies
    BY <2>6 DEF AskRollback, RequestDies
  <2>7. CASE AskCancel \/ Cancel \/ ReadManifest \/ ReadForAbort \/ Abort
    BY <2>7 DEF AskCancel, Cancel, ReadManifest, ReadForAbort, Abort
  <2> QED
    BY <1>4, <2>2, <2>3, <2>4, <2>5, <2>6, <2>7 DEF Operator, Request
<1>5. ASSUME NEW p \in Procs, Pass(p) PROVE ClusterOK'
  <2>1. Row(p) \in 0..MaxRuns
    BY DEF TickOK, TickType, Row
  <2>2. ASSUME NEW k \in Kinds, NEW r \in 0..MaxRuns, plan' = [plan EXCEPT ![k] = r],
               UNCHANGED <<pin, installed, pending, manifest, done, broken, ver, starter, left>>
        PROVE  ClusterOK'
    BY <2>2
  <2>3. CASE UNCHANGED <<plan, pin, installed, pending, manifest, done, broken, ver, starter, left>>
    BY <2>3
  <2>4. "update" \in Kinds /\ "finish" \in Kinds /\ "k3s" \in Kinds
    BY DEF Kinds
  <2>5. CASE PrepareStep(p)
    BY <2>2, <2>3, <2>4, <2>5
       DEF PrepareStep, NodeStops, NodesPrepared, ClaimServices, ServicesClaimed, Waits, TimesOut, Delete
  <2>6. CASE ReadServices(p)
    BY <2>1, <2>2, <2>3, <2>4, <2>6 DEF ReadServices
  <2>7. CASE RecordManifest(p)
    <3>1. tick[p].seen \in Versions
      BY <2>7 DEF RecordManifest, At, Releases
    <3>2. [prev |-> tick[p].seen, from |-> installed, undone |-> FALSE]
            \in [prev : Versions, from : Versions, undone : BOOLEAN]
      BY <3>1
    <3> QED
      BY <2>7, <3>2 DEF RecordManifest
  <2>8. CASE Repin(p) \/ MarkPending(p) \/ ClearPending(p)
    BY <2>8 DEF Repin, MarkPending, ClearPending, Versions, Target
  <2>9. CASE ClaimFinish(p) \/ Decide(p) \/ ReadRef(p)
    BY <2>3, <2>9 DEF ClaimFinish, Decide, ReadRef
  <2>10. CASE FinishStep(p)
    BY <2>2, <2>3, <2>4, <2>10
       DEF FinishStep, NodeStops, NodesFinished, ClaimKubernetes, Succeed, Waits, TimesOut, Delete
  <2>11. CASE KubernetesStep(p)
    BY <2>1, <2>2, <2>3, <2>4, <2>11
       DEF KubernetesStep, PlansMissing, ApplyK3s, NodeStops, NodesOnKubernetes, Succeed, Waits,
           TimesOut, Delete
  <2>12. CASE Tick(p) \/ TakeLock(p) \/ Fail(p) \/ Reconcile(p)
    BY <2>3, <2>12 DEF Tick, TakeLock, Fail, Reconcile
  <2> QED
    BY <1>5, <2>5, <2>6, <2>7, <2>8, <2>9, <2>10, <2>11, <2>12 DEF Pass, ServicesStep
<1>6. ASSUME NEW p \in Procs, Roll(p) \/ Crash(p) PROVE ClusterOK'
  BY <1>6 DEF Roll, Crash
<1> QED
  BY <1>1, <1>2, <1>3, <1>4, <1>5, <1>6 DEF Next


LEMMA StepReleases ==
  ASSUME Types, [Next]_vars
  PROVE  Releases'
<1> USE DEF Types
<1>1. op'.pc = "repin" => op'.prev \in Versions
  BY StepOpOK
<1>2. ASSUME NEW p \in Procs, tick'[p] = tick[p] PROVE tick'[p].pc = "record" => tick'[p].seen \in Versions
  BY <1>2 DEF Releases
<1>3. ASSUME NEW p \in Procs, Pass(p) \/ Roll(p) \/ Crash(p)
      PROVE tick'[p].pc = "record" => tick'[p].seen \in Versions
  <2> USE DEF TickOK
  <2>1. ASSUME NEW pc, pc # "record", Goto(p, pc) PROVE tick'[p].pc # "record"
    BY <2>1 DEF Goto, Idle
  <2>2. ASSUME NEW said, GiveUp(p, said) PROVE tick'[p].pc # "record"
    BY <2>2 DEF GiveUp, Idle
  <2>3. CASE PrepareStep(p)
    <3>1. CASE NodesPrepared(p)
      <4>1. tick'[p] = [tick[p] EXCEPT !.pc = "claim", !.seen = tick'[p].seen]
        BY <3>1 DEF NodesPrepared, TickType
      <4> QED
        BY <4>1 DEF TickType
    <3>2. CASE ServicesClaimed(p)
      BY <2>1, <3>2 DEF ServicesClaimed
    <3> QED
      BY <2>1, <2>2, <2>3, <3>1, <3>2 DEF PrepareStep, NodeStops, ClaimServices, Waits, TimesOut
  <2>4. CASE ServicesStep(p)
    <3>1. CASE ReadRef(p)
      BY <3>1 DEF ReadRef, ClusterOK, TickType
    <3>2. CASE RecordManifest(p)
      BY <2>2, <3>2 DEF RecordManifest, TickType
    <3> QED
      BY <2>1, <2>2, <2>4, <3>1, <3>2
         DEF ServicesStep, ReadServices, ClaimFinish, Decide, Repin, MarkPending
  <2>5. CASE FinishStep(p)
    BY <2>1, <2>2, <2>5
       DEF FinishStep, NodeStops, NodesFinished, ClaimKubernetes, Succeed, Waits, TimesOut
  <2>6. CASE KubernetesStep(p)
    BY <2>1, <2>2, <2>6
       DEF KubernetesStep, PlansMissing, ApplyK3s, NodeStops, NodesOnKubernetes, Succeed, Waits, TimesOut
  <2>7. CASE TakeLock(p)
    BY <2>1, <2>7 DEF TakeLock, TickType, Steps, Idle
  <2>8. CASE Tick(p)
    BY <2>8 DEF Tick, Idle
  <2>9. CASE Fail(p) \/ Reconcile(p)
    BY <2>1, <2>9 DEF Fail, Reconcile, Idle
  <2>10. CASE ClearPending(p) \/ Roll(p) \/ Crash(p)
    BY <2>10 DEF ClearPending, Roll, Crash, Idle
  <2> QED
    BY <1>3, <2>3, <2>4, <2>5, <2>6, <2>7, <2>8, <2>9, <2>10 DEF Pass
<1>4. \A p \in Procs : tick'[p].pc = "record" => tick'[p].seen \in Versions
  BY <1>2, <1>3, OwnTick, TickWriters
<1> QED
  BY <1>1, <1>4 DEF Releases

\* Every step keeps every variable in its type.
LEMMA StepTypes ==
  ASSUME Types, LockShape, PassShape, [Next]_vars
  PROVE  Types'
  BY StepRunOK, StepTickOK, StepOpOK, StepLock, StepClusterOK, StepReleases DEF Types

-----------------------------------------------------------------------------
(* What a step does to the rows.                                           *)

\* What a step may do to the row of a run.
Begins(r) ==
  /\ run[r] = NotStarted /\ Active = {}
  /\ \E nodes \in SUBSET Nodes, k8s \in BOOLEAN :
       run' = [run EXCEPT ![r] = [NotStarted EXCEPT !.status = "running", !.nodes = nodes, !.k8s = k8s]]
Advances(r) ==
  /\ run[r].status = "running"
  /\ \/ run[r].step = "prepare" /\ Ready(r, "update") /\ run' = [run EXCEPT ![r].step = "services"]
     \/ run[r].step = "services" /\ run' = [run EXCEPT ![r].step = "finish"]
     \/ run[r].step = "finish" /\ Ready(r, "finish") /\ run' = [run EXCEPT ![r].step = "kubernetes"]
Moves(r) ==
  /\ run[r].status # "none" /\ run[r].step # "prepare"
  /\ run' = [run EXCEPT ![r].repinned = TRUE]
Succeeds(r) ==
  /\ run[r].status = "running"
  /\ \/ run[r].step = "finish" /\ Ready(r, "finish") /\ ~run[r].k8s
     \/ run[r].step = "kubernetes" /\ Ready(r, "k3s")
  /\ run' = [run EXCEPT ![r].status = "succeeded", ![r].step = "done"]
Cancels(r) ==
  /\ run[r].status = "running" /\ run[r].step = "prepare"
  /\ run' = [run EXCEPT ![r].status = "cancelled"]
Stops(r) ==
  /\ run[r].status = "running"
  /\ \/ run' = [run EXCEPT ![r].status = "rolledBack"]
     \/ \E said \in Said : run' = [run EXCEPT ![r].status = "failed", ![r].said = said]

RowStep(r) == Begins(r) \/ Advances(r) \/ Moves(r) \/ Succeeds(r) \/ Cancels(r) \/ Stops(r)

\* Every step leaves the rows alone or does one of these to one of them.
LEMMA RowSteps ==
  ASSUME Types, PassShape, [Next]_vars
  PROVE  UNCHANGED run \/ \E r \in Runs : RowStep(r)
<1> USE DEF Types
<1>1. ASSUME NEW r \in Runs, NEW nodes \in Included, NEW k8s \in Kubernetes, Start(r, nodes, k8s)
      PROVE  RowStep(r)
  BY <1>1, BoundsAssumption DEF Start, RowStep, Begins
<1> "notStarted" \in Said
  BY DEF Said
<1>2. CASE ApplyUpdatePlan
  <2>1. starter \in 0..MaxRuns
    BY DEF ClusterOK
  <2> QED
    BY <1>2, <2>1, RunningRow DEF ApplyUpdatePlan, Transitionable, Running, RowStep, Stops
<1>3. CASE Cancel \/ Abort
  <2>1. op.r \in 0..MaxRuns
    BY DEF OpOK, OpType
  <2> QED
    BY <1>3, <2>1, RunningRow DEF Cancel, Abort, End, Transitionable, Running, RowStep, Cancels, Stops
<1>4. ASSUME NEW p \in Procs PROVE Row(p) \in 0..MaxRuns /\ tick[p].said \in Said /\ PassAt(p) /\ PassRow(p)
  BY DEF TickOK, TickType, Row, PassShape, PassOK
<1>5. ASSUME NEW p \in Procs, Fail(p) PROVE UNCHANGED run \/ \E r \in Runs : RowStep(r)
  BY <1>4, <1>5, RunningRow DEF Fail, Transitionable, Running, RowStep, Stops
<1>6. ASSUME NEW p \in Procs, ClaimServices(p) PROVE UNCHANGED run \/ \E r \in Runs : RowStep(r)
  BY <1>4, <1>6, RunningRow
     DEF ClaimServices, At, Row, SetStep, Transitionable, Running, PassAt, RowStep, Advances
<1>7. ASSUME NEW p \in Procs, ClaimFinish(p) PROVE UNCHANGED run \/ \E r \in Runs : RowStep(r)
  BY <1>4, <1>7, RunningRow DEF ClaimFinish, Transitionable, Running, RowStep, Advances
<1>8. ASSUME NEW p \in Procs, ClaimKubernetes(p) PROVE UNCHANGED run \/ \E r \in Runs : RowStep(r)
  BY <1>4, <1>8, RunningRow
     DEF ClaimKubernetes, At, Row, SetStep, Transitionable, Running, PassAt, RowStep, Advances
<1>9. ASSUME NEW p \in Procs, NEW from \in {"finish", "kubernetes"}, Succeed(p, from)
      PROVE  UNCHANGED run \/ \E r \in Runs : RowStep(r)
  BY <1>4, <1>9, RunningRow DEF Succeed, At, Row, Transitionable, Running, PassAt, RowStep, Succeeds
<1>10. ASSUME NEW p \in Procs, Repin(p) PROVE UNCHANGED run \/ \E r \in Runs : RowStep(r)
  <2>1. /\ Row(p) \in Runs
        /\ run[Row(p)].status # "none" /\ run[Row(p)].step # "prepare"
    BY <1>4, <1>10, BoundsAssumption DEF Repin, At, Row, Runs, PassAt, PassRow
  <2> QED
    BY <1>10, <2>1 DEF Repin, RowStep, Moves
<1> QED
  BY <1>1, <1>2, <1>3, <1>5, <1>6, <1>7, <1>8, <1>9, <1>10, RowWriters DEF RowWrites

\* What a node reports done it reports for good.
LEMMA DoneGrows ==
  ASSUME Types, [Next]_vars, NEW n \in Nodes
  PROVE  done[n] \subseteq done'[n]
<1>1. CASE UNCHANGED vars
  BY <1>1 DEF vars
<1>2. CASE Starting
  BY <1>2 DEF Starting, Start, ApplyUpdatePlan, StarterDies
<1>3. CASE NodeStep
  <2>1. PICK m \in Nodes, k \in Kinds : NodeDone(m, k) \/ NodeFails3(m, k)
    BY <1>3 DEF NodeStep
  <2>2. done \in [Nodes -> SUBSET Kinds]
    BY DEF Types, ClusterOK
  <2> QED
    BY <2>1, <2>2 DEF NodeDone, NodeFails3
<1>4. CASE Operator
  BY <1>4 DEF Operator, Request, AskCancel, AskRollback, Cancel, StopPlans, ReadManifest,
              RepinBack, MarkRolledBack, ReadForAbort, Abort, Track, RequestDies
<1>5. ASSUME NEW p \in Procs, Pass(p) \/ Roll(p) \/ Crash(p) PROVE UNCHANGED done
  BY <1>5
     DEF Pass, PrepareStep, ServicesStep, FinishStep, KubernetesStep, Tick, TakeLock, NodeStops,
         NodesPrepared, ClaimServices, ServicesClaimed, Waits, TimesOut, ReadServices, ClaimFinish,
         Decide, ReadRef, RecordManifest, Repin, MarkPending, NodesFinished, ClaimKubernetes, ApplyK3s,
         Succeed, PlansMissing, NodesOnKubernetes, Fail, Reconcile, ClearPending, Roll, Crash
<1> QED
  BY <1>1, <1>2, <1>3, <1>4, <1>5 DEF Next

\* What a step keeps of a run that was started.
Grown(r) ==
  /\ run'[r].status # "none"
  /\ run'[r].nodes = run[r].nodes /\ run'[r].k8s = run[r].k8s
  /\ run[r].step # "prepare" => run'[r].step # "prepare"
  /\ run[r].repinned => run'[r].repinned

\* A run that was started keeps its nodes, does not go back to prepare-nodes, and what its nodes have
\* done stays done.
LEMMA RunGrows ==
  ASSUME Types, PassShape, [Next]_vars, NEW r \in Runs, run[r].status # "none"
  PROVE  /\ Grown(r)
         /\ \A k \in Kinds : Ready(r, k) => Ready(r, k)'
<1>1. run \in [Runs -> RunType] /\ run[r] \in RunType
  BY DEF Types, RunOK
<1>2. Grown(r)
  <2>1. ASSUME NEW q \in Runs, RowStep(q), q # r PROVE run'[r] = run[r]
    BY <1>1, <2>1 DEF RowStep, Begins, Advances, Moves, Succeeds, Cancels, Stops
  <2>2. CASE Begins(r)
    BY <2>2 DEF Begins, NotStarted
  <2>3. CASE Advances(r)
    BY <1>1, <2>3 DEF Advances, Grown, RunType
  <2>4. CASE Moves(r)
    BY <1>1, <2>4 DEF Moves, Grown, RunType
  <2>5. CASE Succeeds(r)
    BY <1>1, <2>5 DEF Succeeds, Grown, RunType
  <2>6. CASE Cancels(r)
    BY <1>1, <2>6 DEF Cancels, Grown, RunType
  <2>7. CASE Stops(r)
    BY <1>1, <2>7 DEF Stops, Grown, RunType
  <2>8. CASE run'[r] = run[r]
    BY <2>8 DEF Grown
  <2> QED
    BY <2>1, <2>2, <2>3, <2>4, <2>5, <2>6, <2>7, <2>8, RowSteps DEF RowStep
<1>3. ASSUME NEW k \in Kinds, Ready(r, k) PROVE Ready(r, k)'
  <2>1. run[r].nodes \subseteq Nodes
    BY <1>1 DEF RunType
  <2> QED
    BY <1>2, <1>3, <2>1, DoneGrows DEF Ready, Grown
<1> QED
  BY <1>2, <1>3

-----------------------------------------------------------------------------
(* What a pass knows stays true under the steps of everybody else.         *)

LEMMA GotoIs ==
  ASSUME TickOK, NEW p \in Procs, NEW pc, Goto(p, pc)
  PROVE  /\ tick'[p].pc = pc
         /\ IF pc = "reconcile" THEN tick'[p].r = 0 ELSE tick'[p].r = tick[p].r /\ tick'[p].step = tick[p].step
<1>1. tick[p] \in TickType
  BY DEF TickOK
<1> QED
  BY <1>1 DEF Goto, TickOK, TickType, Idle

LEMMA GiveUpIs ==
  ASSUME TickOK, NEW p \in Procs, NEW said, GiveUp(p, said)
  PROVE  /\ tick'[p].pc = "fail" /\ tick'[p].said = said
         /\ tick'[p].r = tick[p].r /\ tick'[p].step = "none"
  BY DEF GiveUp, TickOK, Idle

\* A pass that stays with the run it read keeps what it knows of it.
LEMMA KeepsRow ==
  ASSUME Types, PassShape, [Next]_vars, NEW p \in Procs,
         tick'[p].r \in {0, tick[p].r}, tick'[p].step \in {"none", tick[p].step}
  PROVE  PassRow(p)'
<1>1. PassRow(p) /\ tick[p].r \in 0..MaxRuns
  BY DEF PassShape, PassOK, Types, TickOK, TickType
<1>2. tick[p].r # 0 => tick[p].r \in Runs
  BY <1>1, BoundsAssumption DEF Runs
<1> QED
  BY <1>1, <1>2, RunGrows DEF PassRow, Grown

\* A pass that does nothing keeps what it has seen.
LEMMA KeepsPass ==
  ASSUME Types, PassShape, [Next]_vars, NEW p \in Procs, tick'[p] = tick[p]
  PROVE  PassOK(p)'
<1>1. PassAt(p) /\ PassRow(p) /\ tick[p].r \in 0..MaxRuns
  BY DEF PassShape, PassOK, Types, TickOK, TickType
<1>2. tick[p].r # 0 => tick[p].r \in Runs
  BY <1>1, BoundsAssumption DEF Runs
<1>3. tick[p].r # 0 => run[tick[p].r].status # "none"
  BY <1>1 DEF PassRow
<1>4. tick[p].r # 0 => /\ Grown(tick[p].r)
                       /\ \A k \in Kinds : Ready(tick[p].r, k) => Ready(tick[p].r, k)'
  BY <1>2, <1>3, RunGrows
<1>5. "update" \in Kinds /\ "finish" \in Kinds /\ "k3s" \in Kinds
  BY DEF Kinds
<1>6. PassAt(p)'
  BY <1>1, <1>4, <1>5 DEF PassAt, Grown
<1> QED
  BY <1>6, KeepsRow DEF PassOK

LEMMA StepPass ==
  ASSUME Types, PassShape, [Next]_vars, NEW p \in Procs, Pass(p) \/ Roll(p) \/ Crash(p)
  PROVE  PassOK(p)'
<1> TickOK /\ PassAt(p) /\ PassRow(p) /\ tick[p] \in TickType
  BY DEF PassShape, PassOK, Types, TickOK
<1>1. ASSUME tick'[p] = Idle PROVE PassOK(p)'
  BY <1>1 DEF PassOK, PassAt, PassRow, Idle
<1>2. ASSUME tick'[p].pc = "reconcile", tick'[p].r = 0 PROVE PassOK(p)'
  BY <1>2 DEF PassOK, PassAt, PassRow
<1>3. ASSUME Goto(p, "reconcile") PROVE PassOK(p)'
  BY <1>2, <1>3, GotoIs
<1>4. ASSUME NEW said, GiveUp(p, said), tick[p].r # 0 PROVE PassOK(p)'
  <2>1. tick'[p].pc = "fail" /\ tick'[p].r = tick[p].r /\ tick'[p].step = "none"
    BY <1>4, GiveUpIs
  <2>2. PassRow(p)'
    BY <2>1, KeepsRow
  <2> QED
    BY <1>4, <2>1, <2>2 DEF PassOK, PassAt
<1>5. ASSUME NEW pc, Goto(p, pc), pc # "reconcile"
      PROVE  /\ tick'[p].pc = pc /\ tick'[p].r = tick[p].r /\ tick'[p].step = tick[p].step
             /\ PassRow(p)'
  <2>1. tick'[p].pc = pc /\ tick'[p].r = tick[p].r /\ tick'[p].step = tick[p].step
    BY <1>5, GotoIs
  <2> QED
    BY <2>1, KeepsRow
<1>6. ASSUME NEW pc \in {"claimFinish", "applyK3s"}, Goto(p, pc), tick[p].r # 0 PROVE PassOK(p)'
  BY <1>5, <1>6 DEF PassOK, PassAt
<1>7. ASSUME NEW pc \in {"claimed", "decide", "readRef", "mark"}, Goto(p, pc), tick[p].r # 0,
             run'[tick[p].r].step # "prepare"
      PROVE  PassOK(p)'
  BY <1>5, <1>7 DEF PassOK, PassAt
<1>8. tick[p].r \in 0..MaxRuns /\ (tick[p].r # 0 => tick[p].r \in Runs)
  BY BoundsAssumption DEF TickType, Runs
<1>9. CASE Tick(p)
  <2>1. /\ tick'[p].pc = "read" /\ tick'[p].r = ActiveRun
        /\ tick'[p].step = IF ActiveRun = 0 THEN "none" ELSE run[ActiveRun].step
    BY <1>9 DEF Tick, Idle, TickOK
  <2>2. UNCHANGED run
    BY <1>9 DEF Tick
  <2>3. ActiveRun # 0 => run[ActiveRun].step \in Steps /\ run[ActiveRun].status = "running"
    BY ActiveRunIs DEF Types, RunOK, RunType
  <2> QED
    BY <2>1, <2>2, <2>3 DEF PassOK, PassAt, PassRow, Steps
<1>10. CASE TakeLock(p)
  <2>1. CASE lock # NoProc
    BY <1>1, <1>10, <2>1 DEF TakeLock, TickOK
  <2>2. CASE lock = NoProc /\ Row(p) = 0
    BY <1>3, <1>10, <2>2 DEF TakeLock
  <2>3. CASE lock = NoProc /\ Row(p) # 0
    <3>1. tick[p].step \in Steps /\ tick[p].r # 0
      BY <1>10, <2>3 DEF TakeLock, At, Row, TickType, PassAt
    <3>2. Goto(p, tick[p].step)
      BY <1>10, <2>3 DEF TakeLock
    <3>3. /\ tick'[p].pc = tick[p].step /\ tick'[p].r = tick[p].r /\ tick'[p].step = tick[p].step
          /\ PassRow(p)'
      BY <1>5, <3>1, <3>2 DEF Steps
    <3> QED
      BY <3>1, <3>3 DEF PassOK, PassAt, Steps
  <2> QED
    BY <2>1, <2>2, <2>3
<1>11. CASE PrepareStep(p)
  <2>1. CASE NodesPrepared(p)
    <3>1. tick'[p].pc = "claim" /\ tick'[p].r = tick[p].r /\ tick'[p].step = tick[p].step
      BY <2>1 DEF NodesPrepared, TickOK, TickType
    <3>2. PassRow(p)'
      BY <3>1, KeepsRow
    <3>3. tick[p].r # 0 /\ Ready(tick[p].r, "update")'
      BY <2>1, <3>1 DEF NodesPrepared, At, Row, PassAt, Ready
    <3> QED
      BY <3>1, <3>2, <3>3 DEF PassOK, PassAt
  <2>2. CASE ClaimServices(p)
    <3>1. CASE Transitionable(Row(p), "prepare")
      <4>1. tick[p].r # 0 /\ Goto(p, "claimed") /\ SetStep(tick[p].r, "services")
        BY <2>2, <3>1 DEF ClaimServices, Row, At, PassAt
      <4>2. run'[tick[p].r].step # "prepare"
        BY <1>8, <4>1 DEF SetStep, Types, RunOK, RunType
      <4> QED
        BY <1>7, <4>1, <4>2
    <3> QED
      BY <1>3, <2>2, <3>1 DEF ClaimServices
  <2>3. CASE ServicesClaimed(p)
    BY <1>3, <1>7, <2>3 DEF ServicesClaimed, At, PassAt
  <2>4. CASE NodeStops(p, "prepare", "update", "unchanged") \/ TimesOut(p, "prepare", "update", "unchanged")
    BY <1>4, <2>4 DEF NodeStops, TimesOut, At, PassAt
  <2>5. CASE Waits(p, "prepare")
    BY <1>3, <2>5 DEF Waits
  <2> QED
    BY <1>11, <2>1, <2>2, <2>3, <2>4, <2>5 DEF PrepareStep
<1>12. CASE ServicesStep(p)
  <2>1. CASE ReadServices(p)
    <3>1. tick[p].r # 0 /\ UNCHANGED run /\ run[tick[p].r].step # "prepare"
      BY <2>1 DEF ReadServices, At, PassAt, PassRow
    <3> QED
      BY <1>3, <1>4, <1>6, <1>7, <2>1, <3>1 DEF ReadServices
  <2>2. CASE ClaimFinish(p)
    BY <1>3, <2>2 DEF ClaimFinish
  <2>3. CASE Decide(p)
    BY <1>4, <1>7, <2>3 DEF Decide, At, PassAt
  <2>4. CASE ReadRef(p)
    <3>1. tick'[p].pc = "record" /\ tick'[p].r = tick[p].r /\ tick'[p].step = tick[p].step
      BY <2>4 DEF ReadRef, TickOK, TickType
    <3>2. PassRow(p)'
      BY <3>1, KeepsRow
    <3>3. UNCHANGED run
      BY <2>4 DEF ReadRef
    <3> QED
      BY <2>4, <3>1, <3>2, <3>3 DEF PassOK, PassAt, ReadRef, At
  <2>5. CASE RecordManifest(p)
    <3>1. tick[p].r # 0 /\ UNCHANGED run /\ run[tick[p].r].step # "prepare"
      BY <2>5 DEF RecordManifest, At, PassAt
    <3>2. CASE tick' = [tick EXCEPT ![p].pc = "repin", ![p].seen = None]
      <4>1. tick'[p].pc = "repin" /\ tick'[p].r = tick[p].r /\ tick'[p].step = tick[p].step
        BY <3>2 DEF TickOK, TickType
      <4>2. PassRow(p)'
        BY <4>1, KeepsRow
      <4> QED
        BY <3>1, <4>1, <4>2 DEF PassOK, PassAt
    <3> QED
      BY <1>4, <2>5, <3>1, <3>2 DEF RecordManifest
  <2>6. CASE Repin(p)
    <3>1. tick[p].r # 0 /\ run[tick[p].r].step # "prepare" /\ run[tick[p].r].status # "none"
      BY <2>6 DEF Repin, At, PassAt, PassRow
    <3>2. run'[tick[p].r].step # "prepare"
      BY <1>8, <3>1, RunGrows DEF Grown
    <3> QED
      BY <1>4, <1>7, <2>6, <3>1, <3>2 DEF Repin
  <2>7. CASE MarkPending(p)
    BY <1>3, <2>7 DEF MarkPending
  <2> QED
    BY <1>12, <2>1, <2>2, <2>3, <2>4, <2>5, <2>6, <2>7 DEF ServicesStep
<1>13. CASE FinishStep(p)
  <2>1. CASE NodesFinished(p)
    <3>1. tick[p].r # 0 /\ tick[p].step = "finish" /\ Ready(tick[p].r, "finish") /\ UNCHANGED <<run, done>>
      BY <2>1 DEF NodesFinished, At, Row, PassAt
    <3>2. CASE run[tick[p].r].k8s
      <4>1. Goto(p, "claimKubernetes")
        BY <2>1, <3>2 DEF NodesFinished, Row
      <4> QED
        BY <1>5, <3>1, <4>1 DEF PassOK, PassAt, Ready
    <3>3. CASE ~run[tick[p].r].k8s
      <4>1. Goto(p, "succeed")
        BY <2>1, <3>3 DEF NodesFinished, Row
      <4> QED
        BY <1>5, <3>1, <3>3, <4>1 DEF PassOK, PassAt, Ready
    <3> QED
      BY <3>2, <3>3
  <2>2. CASE ClaimKubernetes(p)
    BY <1>3, <1>6, <2>2 DEF ClaimKubernetes, At, PassAt
  <2>3. CASE NodeStops(p, "finish", "finish", "changed") \/ TimesOut(p, "finish", "finish", "changed")
    BY <1>4, <2>3 DEF NodeStops, TimesOut, At, PassAt
  <2>4. CASE Waits(p, "finish") \/ Succeed(p, "finish")
    BY <1>3, <2>4 DEF Waits, Succeed
  <2> QED
    BY <1>13, <2>1, <2>2, <2>3, <2>4 DEF FinishStep
<1>14. CASE KubernetesStep(p)
  <2>1. CASE PlansMissing(p)
    BY <1>6, <2>1 DEF PlansMissing, At, PassAt
  <2>2. CASE ApplyK3s(p)
    BY <1>3, <1>4, <2>2 DEF ApplyK3s, At, PassAt
  <2>3. CASE NodesOnKubernetes(p)
    <3>1. /\ tick[p].r # 0 /\ tick[p].step = "kubernetes" /\ Goto(p, "succeed")
          /\ Ready(tick[p].r, "k3s") /\ UNCHANGED <<run, done>>
      BY <2>3 DEF NodesOnKubernetes, At, Row, PassAt
    <3> QED
      BY <1>5, <3>1 DEF PassOK, PassAt, Ready
  <2>4. CASE \/ NodeStops(p, "kubernetes", "k3s", "changed")
             \/ TimesOut(p, "kubernetes", "k3s", "changed")
    BY <1>4, <2>4 DEF NodeStops, TimesOut, At, PassAt
  <2>5. CASE Waits(p, "kubernetes") \/ Succeed(p, "kubernetes")
    BY <1>3, <2>5 DEF Waits, Succeed
  <2> QED
    BY <1>14, <2>1, <2>2, <2>3, <2>4, <2>5 DEF KubernetesStep
<1>15. CASE Fail(p)
  BY <1>3, <1>15 DEF Fail
<1>16. CASE Reconcile(p)
  <2>1. CASE Goto(p, "converged")
    BY <1>5, <2>1 DEF PassOK, PassAt
  <2> QED
    BY <1>1, <1>16, <2>1 DEF Reconcile, TickOK
<1>17. CASE ClearPending(p) \/ Roll(p) \/ Crash(p)
  BY <1>1, <1>17 DEF ClearPending, Roll, Crash, TickOK
<1> QED
  BY <1>9, <1>10, <1>11, <1>12, <1>13, <1>14, <1>15, <1>16, <1>17 DEF Pass

LEMMA StepPassShape ==
  ASSUME Types, PassShape, [Next]_vars
  PROVE  PassShape'
<1>1. CASE UNCHANGED tick
  BY <1>1, KeepsPass DEF PassShape
<1>2. ASSUME NEW p \in Procs, Pass(p) \/ Roll(p) \/ Crash(p) PROVE PassShape'
  BY <1>2, StepPass, OwnTick, KeepsPass DEF PassShape, Types
<1> QED
  BY <1>1, <1>2, TickWriters

-----------------------------------------------------------------------------
(* The rows.                                                               *)

\* What the row of a run stands for: nothing before the run is started, and every step behind it done
\* on every included node.
RowOK(r) ==
  /\ run[r].status = "none" => run[r] = NotStarted
  /\ run[r].status = "cancelled" => run[r].step = "prepare"
  /\ run[r].status = "succeeded" => run[r].step = "done"
  /\ run[r].repinned => run[r].step # "prepare"
  /\ run[r].step # "prepare" => Ready(r, "update")
  /\ run[r].step \in {"kubernetes", "done"} => Ready(r, "finish")
  /\ run[r].step = "done" /\ run[r].k8s => Ready(r, "k3s")

RowShape == \A r \in Runs : RowOK(r)

\* At most one run is in flight.
OneRun == \A q, r \in Runs : run[q].status = "running" /\ run[r].status = "running" => q = r

LEMMA StepRowShape ==
  ASSUME Types, PassShape, RowShape, [Next]_vars
  PROVE  RowShape'
<1> SUFFICES ASSUME NEW r \in Runs PROVE RowOK(r)'
  BY DEF RowShape
<1>1. run \in [Runs -> RunType] /\ run[r] \in RunType /\ RowOK(r)
  BY DEF Types, RunOK, RowShape
<1>2. "update" \in Kinds /\ "finish" \in Kinds /\ "k3s" \in Kinds
  BY DEF Kinds
<1>3. run[r].status # "none" => Grown(r) /\ \A k \in Kinds : Ready(r, k) => Ready(r, k)'
  BY RunGrows
<1>4. CASE run'[r] = run[r]
  <2>1. CASE run[r].status = "none"
    BY <1>1, <1>4, <2>1 DEF RowOK, NotStarted
  <2>2. CASE run[r].status # "none"
    BY <1>1, <1>2, <1>3, <1>4, <2>2 DEF RowOK
  <2> QED
    BY <2>1, <2>2
<1>5. ASSUME NEW q \in Runs, RowStep(q), q # r PROVE run'[r] = run[r]
  BY <1>1, <1>5 DEF RowStep, Begins, Advances, Moves, Succeeds, Cancels, Stops
<1>6. CASE Begins(r)
  <2>1. run'[r].status = "running" /\ run'[r].step = "prepare" /\ ~run'[r].repinned
    BY <1>1, <1>6 DEF Begins, NotStarted
  <2> QED
    BY <2>1 DEF RowOK
<1>7. CASE Advances(r)
  <2>1. /\ run'[r].status = "running" /\ run'[r].step # "done"
        /\ run'[r].step # "prepare" /\ run'[r].repinned = run[r].repinned
        /\ run'[r].step # "services" => run[r].step # "prepare"
        /\ run'[r].step = "services" => Ready(r, "update")
        /\ run'[r].step = "kubernetes" => Ready(r, "finish")
    BY <1>1, <1>7 DEF Advances, RunType
  <2>2. run[r].status # "none"
    BY <1>7 DEF Advances
  <2> QED
    BY <1>1, <1>2, <1>3, <2>1, <2>2 DEF RowOK
<1>8. CASE Moves(r)
  <2>1. /\ run'[r].status = run[r].status /\ run'[r].step = run[r].step
        /\ run'[r].k8s = run[r].k8s
        /\ run[r].status # "none" /\ run[r].step # "prepare"
    BY <1>1, <1>8 DEF Moves, RunType
  <2> QED
    BY <1>1, <1>2, <1>3, <2>1 DEF RowOK
<1>9. CASE Succeeds(r)
  <2>1. /\ run'[r].status = "succeeded" /\ run'[r].step = "done" /\ run'[r].k8s = run[r].k8s
        /\ run[r].status # "none" /\ run[r].step # "prepare"
        /\ \/ Ready(r, "finish") /\ ~run[r].k8s
           \/ run[r].step = "kubernetes" /\ Ready(r, "k3s")
    BY <1>1, <1>9 DEF Succeeds, RunType
  <2> QED
    BY <1>1, <1>2, <1>3, <2>1 DEF RowOK
<1>10. CASE Cancels(r)
  <2>1. /\ run'[r].status = "cancelled" /\ run'[r].step = "prepare"
        /\ run[r].step = "prepare" /\ run'[r].repinned = run[r].repinned
    BY <1>1, <1>10 DEF Cancels, RunType
  <2> QED
    BY <1>1, <2>1 DEF RowOK
<1>11. CASE Stops(r)
  <2>1. /\ run'[r].status \in {"failed", "rolledBack"} /\ run'[r].step = run[r].step
        /\ run'[r].k8s = run[r].k8s /\ run'[r].repinned = run[r].repinned
        /\ run[r].status # "none"
    BY <1>1, <1>11 DEF Stops, RunType
  <2> QED
    BY <1>1, <1>2, <1>3, <2>1 DEF RowOK
<1> QED
  BY <1>4, <1>5, <1>6, <1>7, <1>8, <1>9, <1>10, <1>11, RowSteps DEF RowStep

LEMMA StepOneRun ==
  ASSUME Types, PassShape, OneRun, [Next]_vars
  PROVE  OneRun'
<1>1. run \in [Runs -> RunType]
  BY DEF Types, RunOK
<1>2. CASE UNCHANGED run
  BY <1>2 DEF OneRun
<1>3. ASSUME NEW r \in Runs, Begins(r) PROVE OneRun'
  BY <1>1, <1>3 DEF Begins, OneRun, Active
<1>4. ASSUME NEW r \in Runs, Advances(r) \/ Moves(r) \/ Succeeds(r) \/ Cancels(r) \/ Stops(r) PROVE OneRun'
  <2>1. \A q \in Runs : run'[q].status = "running" => run[q].status = "running"
    BY <1>1, <1>4 DEF Advances, Moves, Succeeds, Cancels, Stops, RunType
  <2> QED
    BY <2>1 DEF OneRun
<1> QED
  BY <1>2, <1>3, <1>4, RowSteps DEF RowStep

LEMMA OneActive ==
  ASSUME OneRun
  PROVE  Cardinality(Active) <= 1
<1>1. CASE Active = {}
  BY <1>1, FS_EmptySet
<1>2. ASSUME NEW r \in Active PROVE Cardinality(Active) <= 1
  <2>1. Active = {r}
    BY <1>2 DEF Active, OneRun
  <2> QED
    BY <2>1, FS_Singleton
<1> QED
  BY <1>1, <1>2

-----------------------------------------------------------------------------
(* The pin.                                                                *)

\* While no run has moved the services, nothing that leads back leads to the target: not the manifest,
\* not the rollback that has read it, not the pass about to record one.
NoneMoved == \A r \in Runs : ~run[r].repinned
PinUntouched ==
  /\ pin = Target => installed = Target
  /\ manifest.prev # Target
  /\ op.prev # Target
  /\ \A p \in Procs : tick[p].pc = "record" => tick[p].seen # Target
  /\ \A p \in Procs : tick[p].pc = "readRef" => pin # Target

PinShape == NoneMoved => PinUntouched

LEMMA StillNoneMoved ==
  ASSUME Types, PassShape, RowShape, [Next]_vars, NoneMoved'
  PROVE  NoneMoved
<1> SUFFICES ASSUME NEW r \in Runs, run[r].repinned PROVE FALSE
  BY DEF NoneMoved
<1>1. run[r].status # "none"
  BY DEF RowShape, RowOK, NotStarted
<1> QED
  BY <1>1, RunGrows DEF Grown, NoneMoved

\* A pass comes to readRef and to record by one action each.
LEMMA PinPcs ==
  ASSUME Types, NEW p \in Procs, Pass(p)
  PROVE  \/ ReadRef(p) \/ Decide(p)
         \/ tick'[p].pc \notin {"record", "readRef"}
<1> USE DEF Types
<1>1. tick[p] \in TickType /\ tick \in [Procs -> TickType]
  BY DEF TickOK
<1>2. ASSUME NEW pc, Goto(p, pc), pc \notin {"record", "readRef"} PROVE tick'[p].pc \notin {"record", "readRef"}
  BY <1>2, GotoIs
<1>3. ASSUME NEW said, GiveUp(p, said) PROVE tick'[p].pc \notin {"record", "readRef"}
  BY <1>3, GiveUpIs
<1>4. ASSUME tick' = [tick EXCEPT ![p] = Idle] PROVE tick'[p].pc \notin {"record", "readRef"}
  BY <1>1, <1>4 DEF Idle
<1>5. CASE NodesPrepared(p)
  BY <1>1, <1>5 DEF NodesPrepared, TickType
<1>6. CASE ServicesClaimed(p)
  BY <1>2, <1>6 DEF ServicesClaimed
<1>7. CASE PrepareStep(p)
  BY <1>2, <1>3, <1>5, <1>6, <1>7 DEF PrepareStep, NodeStops, ClaimServices, Waits, TimesOut
<1>8. CASE RecordManifest(p)
  BY <1>1, <1>3, <1>8 DEF RecordManifest, TickType
<1>9. CASE ReadServices(p) \/ ClaimFinish(p) \/ Repin(p) \/ MarkPending(p)
  BY <1>2, <1>3, <1>9 DEF ReadServices, ClaimFinish, Repin, MarkPending
<1>10. CASE FinishStep(p)
  BY <1>2, <1>3, <1>10
     DEF FinishStep, NodeStops, NodesFinished, ClaimKubernetes, Succeed, Waits, TimesOut
<1>11. CASE KubernetesStep(p)
  BY <1>2, <1>3, <1>11
     DEF KubernetesStep, PlansMissing, ApplyK3s, NodeStops, NodesOnKubernetes, Succeed, Waits, TimesOut
<1>12. CASE Tick(p)
  BY <1>1, <1>12 DEF Tick, Idle
<1>13. CASE TakeLock(p)
  <2>1. (IF Row(p) = 0 THEN "reconcile" ELSE tick[p].step) \notin {"record", "readRef"}
    BY <1>1 DEF TickType, Steps
  <2> QED
    BY <1>2, <1>4, <1>13, <2>1 DEF TakeLock
<1>14. CASE Fail(p) \/ Reconcile(p) \/ ClearPending(p)
  BY <1>2, <1>4, <1>14 DEF Fail, Reconcile, ClearPending
<1> QED
  BY <1>7, <1>8, <1>9, <1>10, <1>11, <1>12, <1>13, <1>14 DEF Pass, ServicesStep

\* The steps that write the pin, the installed release, the manifest or a request.
LEMMA PinWriters ==
  ASSUME [Next]_vars
  PROVE  \/ UNCHANGED <<pin, installed, manifest, op>>
         \/ Operator /\ UNCHANGED <<installed, tick>>
         \/ \E p \in Procs : Roll(p) \/ RecordManifest(p) \/ Repin(p)
<1>1. CASE UNCHANGED vars
  BY <1>1 DEF vars
<1>2. CASE Starting \/ NodeStep
  BY <1>2 DEF Starting, Start, ApplyUpdatePlan, StarterDies, NodeStep, NodeDone, NodeFails3
<1>3. CASE Operator
  BY <1>3 DEF Operator, Request, AskCancel, AskRollback, Cancel, StopPlans, ReadManifest, RepinBack,
              MarkRolledBack, ReadForAbort, Abort, Track, RequestDies
<1>4. ASSUME NEW p \in Procs, Pass(p) \/ Crash(p)
      PROVE  UNCHANGED <<pin, installed, manifest, op>> \/ RecordManifest(p) \/ Repin(p)
  BY <1>4
     DEF Pass, PrepareStep, ServicesStep, FinishStep, KubernetesStep, Tick, TakeLock, NodeStops,
         NodesPrepared, ClaimServices, ServicesClaimed, Waits, TimesOut, ReadServices, ClaimFinish,
         Decide, ReadRef, MarkPending, NodesFinished, ClaimKubernetes, ApplyK3s, Succeed,
         PlansMissing, NodesOnKubernetes, Fail, Reconcile, ClearPending, Crash
<1> QED
  BY <1>1, <1>2, <1>3, <1>4 DEF Next

LEMMA StepPin ==
  ASSUME Types, PassShape, RowShape, PinShape, [Next]_vars
  PROVE  PinShape'
<1> SUFFICES ASSUME NoneMoved' PROVE PinUntouched'
  BY DEF PinShape
<1>1. PinUntouched
  BY StillNoneMoved DEF PinShape
<1> op \in OpType /\ tick \in [Procs -> TickType] /\ run \in [Runs -> RunType]
    /\ pin \in Versions /\ manifest \in [prev : Versions, from : Versions, undone : BOOLEAN]
  BY DEF Types, OpOK, TickOK, RunOK, ClusterOK
<1>2. ASSUME NEW p \in Procs, Repin(p) PROVE UNCHANGED pin
  <2>1. tick[p].r \in Runs
    BY <1>2, BoundsAssumption DEF Repin, At, PassShape, PassOK, PassAt, TickType, Runs
  <2>2. run[tick[p].r] \in RunType
    BY <2>1
  <2>3. run' # [run EXCEPT ![tick[p].r].repinned = TRUE]
    BY <2>1, <2>2 DEF NoneMoved, RunType
  <2> QED
    BY <1>2, <2>3 DEF Repin, Row
<1> DEFINE PinFacts == /\ pin' = Target => installed' = Target
                       /\ manifest'.prev # Target
                       /\ op'.prev # Target
                       /\ pin' = pin \/ pin' # Target
<1>3. PinFacts
  <2>1. CASE UNCHANGED <<pin, installed, manifest, op>>
    BY <1>1, <2>1 DEF PinUntouched
  <2>2. CASE Operator /\ UNCHANGED installed
    <3>1. CASE RepinBack
      BY <1>1, <2>2, <3>1 DEF RepinBack, PinUntouched, NoRequest, None, Target, OpType
    <3>2. CASE MarkRolledBack
      BY <1>1, <2>2, <3>2 DEF MarkRolledBack, PinUntouched, None, Target, OpType
    <3>3. CASE ReadManifest
      BY <1>1, <2>2, <3>3 DEF ReadManifest, PinUntouched, NoRequest, None, Target, OpType
    <3>4. ASSUME UNCHANGED <<pin, manifest>>, op'.prev \in {op.prev, None} PROVE PinFacts
      BY <1>1, <2>2, <3>4 DEF PinUntouched, None, Target
    <3>5. CASE AskCancel \/ AskRollback
      BY <3>4, <3>5 DEF AskCancel, AskRollback, OpType
    <3>6. CASE Cancel \/ Abort
      <4>1. op' \in {NoRequest, [op EXCEPT !.pc = "stop"], [NoRequest EXCEPT !.pc = "track", !.from = op.from]}
        BY <3>6 DEF Cancel, Abort
      <4>2. op'.prev \in {op.prev, None}
        <5>1. NoRequest.prev = None /\ [NoRequest EXCEPT !.pc = "track", !.from = op.from].prev = None
          BY DEF NoRequest
        <5>2. [op EXCEPT !.pc = "stop"].prev = op.prev
          BY DEF OpType
        <5> QED
          BY <4>1, <5>1, <5>2
      <4> QED
        BY <3>4, <3>6, <4>2 DEF Cancel, Abort
    <3>7. CASE StopPlans
      BY <3>4, <3>7 DEF StopPlans, NoRequest
    <3>8. CASE ReadForAbort
      BY <3>4, <3>8 DEF ReadForAbort, NoRequest, OpType
    <3>9. CASE Track \/ RequestDies
      BY <3>4, <3>9 DEF Track, RequestDies, NoRequest
    <3> QED
      BY <2>2, <3>1, <3>2, <3>3, <3>5, <3>6, <3>7, <3>8, <3>9 DEF Operator, Request
  <2>3. ASSUME NEW p \in Procs, Roll(p) PROVE PinFacts
    BY <1>1, <2>3 DEF Roll, PinUntouched
  <2>4. ASSUME NEW p \in Procs, RecordManifest(p) PROVE PinFacts
    BY <1>1, <2>4 DEF RecordManifest, PinUntouched, At, OpType
  <2>5. ASSUME NEW p \in Procs, Repin(p) PROVE PinFacts
    BY <1>1, <1>2, <2>5 DEF Repin, PinUntouched
  <2> QED
    BY <2>1, <2>2, <2>3, <2>4, <2>5, PinWriters
<1>4. ASSUME NEW p \in Procs, tick'[p] = tick[p]
      PROVE  /\ tick'[p].pc = "record" => tick'[p].seen # Target
             /\ tick'[p].pc = "readRef" => pin' # Target
  BY <1>1, <1>3, <1>4 DEF PinUntouched
<1>5. ASSUME NEW p \in Procs, Pass(p) \/ Roll(p) \/ Crash(p)
      PROVE  /\ tick'[p].pc = "record" => tick'[p].seen # Target
             /\ tick'[p].pc = "readRef" => pin' # Target
  <2>1. CASE ReadRef(p)
    BY <1>1, <2>1 DEF ReadRef, At, PinUntouched, TickType
  <2>2. CASE Decide(p)
    <3>1. CASE Goto(p, "readRef") /\ Newer
      <4>1. tick'[p].pc = "readRef" /\ UNCHANGED pin
        BY <2>2, <3>1, GotoIs DEF Decide, Types
      <4> QED
        BY <1>1, <3>1, <4>1 DEF Newer, PinUntouched, Target
    <3> QED
      BY <2>2, <3>1, GiveUpIs DEF Decide, Types
  <2>3. CASE Roll(p) \/ Crash(p)
    BY <2>3 DEF Roll, Crash, Idle
  <2> QED
    BY <1>5, <2>1, <2>2, <2>3, PinPcs
<1>6. \A p \in Procs : /\ tick'[p].pc = "record" => tick'[p].seen # Target
                       /\ tick'[p].pc = "readRef" => pin' # Target
  BY <1>4, <1>5, TickWriters, OwnTick DEF Types
<1> QED
  BY <1>3, <1>6 DEF PinUntouched

-----------------------------------------------------------------------------
(* The inductive invariant.                                                *)

Inv == Types /\ LockShape /\ PassShape /\ RowShape /\ OneRun /\ PinShape

LEMMA InitInv ==
  ASSUME Init
  PROVE  Inv
<1> USE BoundsAssumption DEF Init
<1>1. \A r \in Runs : run[r] = NotStarted
  OBVIOUS
<1>2. \A p \in Procs : tick[p].pc = "idle" /\ tick[p].r = 0
  BY DEF Idle
<1>3. NotStarted \in RunType /\ Idle \in TickType /\ NoRequest \in OpType
  BY DEF NotStarted, RunType, Idle, TickType, NoRequest, OpType, Ends, Steps, Said, Pcs, Requests, None
<1>4. RunOK /\ TickOK /\ OpOK /\ LockOK
  BY <1>3 DEF RunOK, TickOK, OpOK, LockOK
<1>5. ClusterOK
  BY DEF ClusterOK, Versions, Target, Kinds
<1>6. Releases
  BY <1>2 DEF Releases, NoRequest
<1>7. LockShape /\ PassShape
  BY <1>2 DEF LockShape, PassShape, PassOK, PassAt, PassRow
<1>8. RowShape /\ OneRun
  BY <1>1 DEF RowShape, RowOK, OneRun, NotStarted
<1>9. PinShape
  BY <1>2 DEF PinShape, PinUntouched, NoRequest, Target, None
<1> QED
  BY <1>4, <1>5, <1>6, <1>7, <1>8, <1>9 DEF Inv, Types

LEMMA NextInv ==
  ASSUME Inv, [Next]_vars
  PROVE  Inv'
  BY StepTypes, StepLock, StepPassShape, StepRowShape, StepOneRun, StepPin DEF Inv

LEMMA InvAlways == Spec => []Inv
  BY InitInv, NextInv, PTL DEF Spec

-----------------------------------------------------------------------------
(* The theorems.                                                           *)

\* Every variable has its type, at most one run is in flight, and only the holder of the pass lock
\* works on it, for any number of replicas, nodes, runs and faults.
THEOREM TypeCorrect == Spec => []TypeOK
<1>1. Inv => TypeOK
  BY OneActive DEF Inv, Types, RunOK, TickOK, OpOK, LockOK, ClusterOK, LockShape, TypeOK
<1> QED
  BY <1>1, InvAlways, PTL

\* A run that the panel shows as succeeded did all of its work on every included node: a verdict read
\* before the lock, a crash or another replica's pass never makes it say more than the nodes did.
THEOREM VerdictIsTrue == Spec => []SucceededIsDone
<1>1. ASSUME Inv, NEW r \in Runs, run[r].status = "succeeded", NEW n \in run[r].nodes
      PROVE  {"update", "finish"} \cup (IF run[r].k8s THEN {"k3s"} ELSE {}) \subseteq done[n]
  BY <1>1 DEF Inv, RowShape, RowOK, Ready
<1>2. Inv => SucceededIsDone
  BY <1>1 DEF SucceededIsDone
<1> QED
  BY <1>2, InvAlways, PTL

\* The cancel of a run and its claim of update-services never both win: a cancelled run never changes
\* the services, not even by a pass that was under way.
THEOREM CancelIsSafe == Spec => []CancelledLeavesServices
<1>1. Inv => CancelledLeavesServices
  BY DEF Inv, RowShape, RowOK, CancelledLeavesServices
<1> QED
  BY <1>1, InvAlways, PTL

\* A step that pins the services to the target is a re-pin by a run whose included nodes all hold the
\* release, or the rollback of one: no other rollback leads there.
THEOREM NodesBeforeServices == Spec => NodesFirst
<1> DEFINE Prepared == \E r \in Runs : /\ run'[r].repinned
                                      /\ \A n \in run[r].nodes : "update" \in done[n]
<1>1. ASSUME Inv, [Next]_vars, pin' = Target, pin # Target PROVE Prepared
  <2> Types /\ PassShape /\ RowShape /\ PinShape /\ run \in [Runs -> RunType]
    BY <1>1 DEF Inv, Types, RunOK
  <2>1. ASSUME NEW p \in Procs, Repin(p) PROVE Prepared
    <3>1. tick[p].r \in Runs /\ run[tick[p].r].step # "prepare"
      BY <2>1, BoundsAssumption
         DEF Repin, At, PassShape, PassOK, PassAt, Types, TickOK, TickType, Runs
    <3>2. run' = [run EXCEPT ![tick[p].r].repinned = TRUE]
      BY <1>1, <2>1 DEF Repin, Row
    <3>3. run[tick[p].r] \in RunType
      BY <3>1
    <3>4. run'[tick[p].r].repinned
      BY <3>1, <3>2, <3>3 DEF RunType
    <3> QED
      BY <3>1, <3>4 DEF RowShape, RowOK, Ready
  <2>2. CASE Operator
    <3>1. RepinBack
      BY <1>1, <2>2 DEF Operator, Request, AskCancel, AskRollback, Cancel, StopPlans, ReadManifest,
                        MarkRolledBack, ReadForAbort, Abort, Track, RequestDies
    <3>2. op.prev = Target /\ UNCHANGED run
      BY <1>1, <3>1 DEF RepinBack
    <3>3. PICK r \in Runs : run[r].repinned
      BY <3>2 DEF PinShape, PinUntouched, NoneMoved
    <3> QED
      BY <3>2, <3>3 DEF RowShape, RowOK, Ready
  <2>3. ASSUME NEW p \in Procs, Roll(p) \/ RecordManifest(p) PROVE FALSE
    BY <1>1, <2>3 DEF Roll, RecordManifest
  <2> QED
    BY <1>1, <2>1, <2>2, <2>3, PinWriters
<1>2. Inv /\ [Next]_vars =>
        [pin' = Target /\ pin # Target =>
           \E r \in Runs : /\ run'[r].repinned
                           /\ \A n \in run[r].nodes : "update" \in done[n]]_vars
  BY <1>1
<1> QED
  BY <1>2, InvAlways, PTL DEF NodesFirst, Spec

-----------------------------------------------------------------------------
(* The refinement of RunLife.                                              *)

LEMMA LifeInit ==
  ASSUME Init
  PROVE  Life!Init
<1>1. \A r \in Runs : run[r] = NotStarted
  BY DEF Init
<1> QED
  BY <1>1 DEF Life!Init, NotStarted

\* A step that writes the row of one run changes what RunLife sees of that run only.
LEMMA LifeRow ==
  ASSUME NEW r \in Runs, \A q \in Runs \ {r} : run'[q] = run[q]
  PROVE  /\ [q \in Runs |-> run[q].status]' = [[q \in Runs |-> run[q].status] EXCEPT ![r] = run'[r].status]
         /\ [q \in Runs |-> run[q].step]' = [[q \in Runs |-> run[q].step] EXCEPT ![r] = run'[r].step]
         /\ run'[r].status = run[r].status => UNCHANGED [q \in Runs |-> run[q].status]
         /\ run'[r].step = run[r].step => UNCHANGED [q \in Runs |-> run[q].step]
         /\ run'[r].repinned = run[r].repinned => UNCHANGED {q \in Runs : run[q].repinned}
         /\ run'[r].repinned => {q \in Runs : run[q].repinned}' = {q \in Runs : run[q].repinned} \cup {r}
  OBVIOUS

LEMMA LifeStep ==
  ASSUME Inv, [Next]_vars
  PROVE  [Life!Next]_(Life!vars)
<1> Types /\ PassShape /\ RowShape /\ run \in [Runs -> RunType]
  BY DEF Inv, Types, RunOK
<1>1. CASE UNCHANGED run
  BY <1>1 DEF Life!vars
<1>2. ASSUME NEW r \in Runs, RowStep(r) PROVE Life!Next
  <2>1. run[r] \in RunType
    OBVIOUS
  <2>2. \A q \in Runs \ {r} : run'[q] = run[q]
    BY <1>2 DEF RowStep, Begins, Advances, Moves, Succeeds, Cancels, Stops
  <2>3. CASE Begins(r)
    <3>1. /\ run[r].status = "none" /\ \A q \in Runs : run[q].status # "running"
          /\ run'[r].status = "running" /\ run'[r].step = run[r].step /\ run'[r].repinned = run[r].repinned
      BY <2>1, <2>3 DEF Begins, NotStarted, Active
    <3>2. Life!Begin(r)
      BY <2>2, <3>1, LifeRow DEF Life!Begin, Life!Running
    <3> QED
      BY <3>2 DEF Life!Next
  <2>4. CASE Advances(r)
    <3>1. /\ run[r].status = "running" /\ run'[r].step \in Life!After[run[r].step]
          /\ run'[r].status = run[r].status /\ run'[r].repinned = run[r].repinned
      BY <2>1, <2>4 DEF Advances, Life!After, RunType
    <3>2. Life!Advance(r)
      BY <2>2, <3>1, LifeRow DEF Life!Advance, Life!Running
    <3> QED
      BY <3>2 DEF Life!Next
  <2>5. CASE Moves(r)
    <3>1. /\ run[r].status # "none" /\ run[r].step # "prepare"
          /\ run'[r].status = run[r].status /\ run'[r].step = run[r].step /\ run'[r].repinned
      BY <2>1, <2>5 DEF Moves, RunType
    <3>2. Life!Move(r)
      BY <2>2, <3>1, LifeRow DEF Life!Move
    <3> QED
      BY <3>2 DEF Life!Next
  <2>6. CASE Succeeds(r)
    <3>1. /\ run[r].status = "running" /\ run[r].step \in {"finish", "kubernetes"}
          /\ run'[r].status = "succeeded" /\ run'[r].step = "done" /\ run'[r].repinned = run[r].repinned
      BY <2>1, <2>6 DEF Succeeds, RunType
    <3>2. Life!Succeed(r)
      BY <2>2, <3>1, LifeRow DEF Life!Succeed, Life!Running
    <3> QED
      BY <3>2 DEF Life!Next
  <2>7. CASE Cancels(r)
    <3>1. /\ run[r].status = "running" /\ run[r].step = "prepare"
          /\ run'[r].status = "cancelled" /\ run'[r].step = run[r].step /\ run'[r].repinned = run[r].repinned
      BY <2>1, <2>7 DEF Cancels, RunType
    <3>2. Life!Cancel(r)
      BY <2>2, <3>1, LifeRow DEF Life!Cancel, Life!Running
    <3> QED
      BY <3>2 DEF Life!Next
  <2>8. CASE Stops(r)
    <3>1. /\ run[r].status = "running"
          /\ run'[r].status \in {"failed", "rolledBack"}
          /\ run'[r].step = run[r].step /\ run'[r].repinned = run[r].repinned
      BY <2>1, <2>8 DEF Stops, RunType
    <3>2. Life!Stop(r)
      BY <2>2, <3>1, LifeRow DEF Life!Stop, Life!Running
    <3> QED
      BY <3>2 DEF Life!Next
  <2> QED
    BY <1>2, <2>3, <2>4, <2>5, <2>6, <2>7, <2>8 DEF RowStep
<1> QED
  BY <1>1, <1>2, RowSteps

\* The upgrade, with its passes, crashes, cancels, rollbacks and rolls, implements RunLife: one run at
\* a time, steps in their order, an end that is final.
THEOREM ImplementsRunLife == Spec => KeepsRunLife
<1>1. Inv /\ [Next]_vars => [Life!Next]_(Life!vars)
  BY LifeStep
<1> QED
  BY <1>1, LifeInit, InvAlways, PTL DEF Spec, KeepsRunLife, Life!Spec
=============================================================================
