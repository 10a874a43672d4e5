----------------------------- MODULE UpgradeRun -----------------------------
(***************************************************************************)
(* The platform upgrade run: prepare the nodes, re-pin the services to the *)
(* release, finish the hosts, optionally upgrade Kubernetes.               *)
(*                                                                         *)
(* Processes tick: each reads the run row, then takes the pass lock and    *)
(* advances the run by one step, then judges the roll of the services.     *)
(* Every call that changes shared state (a conditional update of the row,  *)
(* a Plan, the Flux pin, a setting) is an action of its own, so a cancel,  *)
(* a rollback, a roll of the pods or a crash may come between any two.     *)
(* Versions: 0 is the release before, 1 the installed one, 2 the target.   *)
(***************************************************************************)
EXTENDS Integers, FiniteSets

CONSTANTS
  Procs,       \* the replicas of platform-api
  Nodes,       \* the nodes of the cluster
  Included,    \* the sets of nodes a run may be started for
  Kubernetes,  \* whether a run may, or must, upgrade Kubernetes too
  MaxRuns,     \* bound: upgrade runs started
  Faults,      \* bound: crashes (of a pass, a start, a request) and rollbacks, together
  NodeFails    \* bound: node jobs that fail for good

ASSUME BoundsAssumption ==
  /\ MaxRuns \in Nat /\ Faults \in Nat /\ NodeFails \in Nat
  /\ IsFiniteSet(Nodes)
  /\ Included \subseteq SUBSET Nodes /\ Kubernetes \subseteq BOOLEAN

VARIABLES
  run,         \* platform_upgrade_runs, in the order they were started
  plan,        \* the run each Plan in the cluster was applied for, 0 for none
  pin,         \* the release the Flux source is pinned to
  installed,   \* installed_platform_version
  pending,     \* pending_update_version
  manifest,    \* the latest rollback manifest
  done,        \* what each node reports done
  broken,      \* the jobs that failed for good on each node
  tick,        \* each replica's pass
  lock,        \* the replica that holds the pass lock
  ver,         \* the release each replica runs
  starter,     \* the run whose update Plan is not applied yet
  op,          \* the operator's request in progress
  left         \* what is left of the bounds

vars == <<run, plan, pin, installed, pending, manifest, done, broken, tick, lock, ver, starter,
          op, left>>

Target   == 2
Versions == 0..Target
None     == -1
NoProc   == "none"

ASSUME ProcsAssumption == NoProc \notin Procs

Runs     == 1..MaxRuns
Kinds    == {"update", "finish", "k3s"}
Ends     == {"succeeded", "failed", "cancelled", "rolledBack"}
Steps    == {"prepare", "services", "finish", "kubernetes", "done"}

NotStarted == [status |-> "none", step |-> "prepare", nodes |-> {}, k8s |-> FALSE,
               said |-> "nothing", repinned |-> FALSE]
Idle       == [pc |-> "idle", r |-> 0, step |-> "none", seen |-> None, said |-> "nothing"]
NoRequest  == [pc |-> "none", r |-> 0, step |-> "none", m |-> "none", prev |-> None, from |-> None]

Running(r) == r # 0 /\ run[r].status = "running"
Active     == {r \in Runs : run[r].status = "running"}
(* getActiveRun: the one run in flight, 0 for none.                        *)
ActiveRun  == IF Active = {} THEN 0 ELSE CHOOSE r \in Active : TRUE

Init ==
  /\ run = [r \in Runs |-> NotStarted]
  /\ plan = [k \in Kinds |-> 0]
  /\ pin \in {1, Target}         \* Target: a release channel rolled the services first
  /\ installed = pin
  /\ pending = None
  /\ manifest = [prev |-> 0, from |-> 0, undone |-> FALSE]
  /\ done = [n \in Nodes |-> {}]
  /\ broken = [n \in Nodes |-> {}]
  /\ tick = [p \in Procs |-> Idle]
  /\ lock = NoProc
  /\ ver = [p \in Procs |-> pin]
  /\ starter = 0
  /\ op = NoRequest
  /\ left = [fault |-> Faults, fail |-> NodeFails]

-----------------------------------------------------------------------------
(* The row.                                                                *)

(* Mutant: the step is not part of the condition.                          *)
TransitionableInAnyStep(r, from) == Running(r)

(* transitionRun's condition: still running, and still in `from`.          *)
Transitionable(r, from) == Running(r) /\ (from = "any" \/ run[r].step = from)

SetStep(r, step)  == run' = [run EXCEPT ![r].step = step]
End(r, status)    == run' = [run EXCEPT ![r].status = status]

-----------------------------------------------------------------------------
(* Starting a run.                                                         *)

(* planUpgrade, manual: the target must be newer than what is installed.   *)
Newer == installed < Target

(* channelCatchUpTick: the channel rolled the services, the nodes are      *)
(* behind, and no run has aimed at that release yet.                       *)
CatchUp == installed = Target /\ pending = None /\ \A r \in Runs : run[r] = NotStarted

(* createRun: at most one run is running (partial unique index).           *)
Start(r, nodes, k8s) ==
  /\ Active = {}
  /\ starter = 0
  /\ run[r] = NotStarted
  /\ \A q \in Runs : q < r => run[q] # NotStarted
  /\ Newer \/ CatchUp
  /\ run' = [run EXCEPT ![r] = [NotStarted EXCEPT !.status = "running", !.nodes = nodes,
                                                  !.k8s = k8s]]
  /\ broken' = [n \in Nodes |-> {}]     \* only jobs since the step began count
  /\ starter' = r
  /\ UNCHANGED <<plan, pin, installed, pending, manifest, done, tick, lock, ver, op, left>>

(* startUpgradeRun: then push the release to the nodes, or fail the run.   *)
ApplyUpdatePlan ==
  /\ starter # 0
  /\ starter' = 0
  /\ \/ plan' = [plan EXCEPT !["update"] = starter] /\ UNCHANGED run
     \/ /\ run' = IF Transitionable(starter, "any")
                  THEN [run EXCEPT ![starter].status = "failed", ![starter].said = "notStarted"]
                  ELSE run
        /\ UNCHANGED plan
  /\ UNCHANGED <<pin, installed, pending, manifest, done, broken, tick, lock, ver, op, left>>

StarterDies ==
  /\ starter # 0
  /\ left.fault > 0
  /\ left' = [left EXCEPT !.fault = @ - 1]
  /\ starter' = 0
  /\ UNCHANGED <<run, plan, pin, installed, pending, manifest, done, broken, tick, lock, ver, op>>

-----------------------------------------------------------------------------
(* The nodes and the upgrade controller (external).                        *)

Covered(k, n) == plan[k] # 0 /\ n \in run[plan[k]].nodes

(* A node applies what a Plan asks, or what its own timer finds once the   *)
(* services run the release.                                               *)
NodeDone(n, k) ==
  /\ k \notin done[n]
  /\ CASE k = "update" -> Covered(k, n) \/ installed = Target
       [] k = "finish" -> "update" \in done[n] /\ installed = Target
       [] k = "k3s"    -> Covered(k, n)
  /\ done' = [done EXCEPT ![n] = @ \cup {k}]
  /\ UNCHANGED <<run, plan, pin, installed, pending, manifest, broken, tick, lock, ver, starter, op,
                 left>>

(* Its job has failed as often as the threshold.                           *)
NodeFails3(n, k) ==
  /\ Covered(k, n)
  /\ k \notin done[n] \cup broken[n]
  /\ left.fail > 0
  /\ left' = [left EXCEPT !.fail = @ - 1]
  /\ broken' = [broken EXCEPT ![n] = @ \cup {k}]
  /\ UNCHANGED <<run, plan, pin, installed, pending, manifest, done, tick, lock, ver, starter, op>>

(* Mutant: a node that has not failed is taken for ready.                  *)
ReadyUnlessFailed(r, k) == \A n \in run[r].nodes : k \notin broken[n]

(* assessRunNode, assessKubernetesNode over the nodes not excluded: the    *)
(* node's own report decides before its jobs do; a node that is not Ready  *)
(* counts as neither.                                                      *)
Ready(r, k)  == \A n \in run[r].nodes : k \in done[n]
Failed(r, k) == \E n \in run[r].nodes : k \in broken[n] /\ k \notin done[n]
Late(r)      == run[r].nodes # {}

-----------------------------------------------------------------------------
(* A pass of a replica.                                                    *)

Goto(p, pc) ==
  tick' = IF pc = "reconcile" THEN [tick EXCEPT ![p] = [Idle EXCEPT !.pc = pc]]
          ELSE [tick EXCEPT ![p].pc = pc]
GiveUp(p, said) ==
  tick' = [tick EXCEPT ![p] = [Idle EXCEPT !.pc = "fail", !.r = tick[p].r, !.said = said]]
At(p, pc)   == tick[p].pc = pc
Row(p)      == tick[p].r
Delete(k)   == plan' = [plan EXCEPT ![k] = 0]

(* The tick reads the run in flight; with none, and no re-pin in flight,   *)
(* it has nothing to do.                                                   *)
Tick(p) ==
  /\ At(p, "idle")
  /\ ActiveRun # 0 \/ pending # None
  /\ tick' = [tick EXCEPT ![p] = [Idle EXCEPT !.pc = "read", !.r = ActiveRun,
                                  !.step = IF ActiveRun = 0 THEN "none" ELSE run[ActiveRun].step]]
  /\ UNCHANGED <<run, plan, pin, installed, pending, manifest, done, broken, lock, ver, starter, op,
                 left>>

(* Mutant: the pass runs whoever holds the lock.                           *)
TakeLockAnyway(p) ==
  /\ At(p, "read")
  /\ lock' = p
  /\ Goto(p, IF Row(p) = 0 THEN "reconcile" ELSE tick[p].step)
  /\ UNCHANGED <<run, plan, pin, installed, pending, manifest, done, broken, ver, starter, op, left>>

(* withUpgradePassLock: the pass runs under the lock, or not at all.       *)
TakeLock(p) ==
  /\ At(p, "read")
  /\ IF lock = NoProc
     THEN lock' = p /\ Goto(p, IF Row(p) = 0 THEN "reconcile" ELSE tick[p].step)
     ELSE tick' = [tick EXCEPT ![p] = Idle] /\ UNCHANGED lock
  /\ UNCHANGED <<run, plan, pin, installed, pending, manifest, done, broken, ver, starter, op, left>>

(* fail: ends the run unless somebody already did.                         *)
Fail(p) ==
  /\ At(p, "fail")
  /\ run' = IF Transitionable(Row(p), "any")
            THEN [run EXCEPT ![Row(p)].status = "failed", ![Row(p)].said = tick[p].said]
            ELSE run
  /\ Goto(p, "reconcile")
  /\ UNCHANGED <<plan, pin, installed, pending, manifest, done, broken, lock, ver, starter, op, left>>

(* A step's nodes are late: the pass ends, or the step's time is over.     *)
Waits(p, pc) ==
  /\ At(p, pc)
  /\ Late(Row(p))
  /\ Goto(p, "reconcile")
  /\ UNCHANGED <<run, plan, pin, installed, pending, manifest, done, broken, lock, ver, starter, op,
                 left>>

TimesOut(p, pc, k, said) ==
  /\ At(p, pc)
  /\ Late(Row(p))
  /\ Delete(k)
  /\ GiveUp(p, said)
  /\ UNCHANGED <<run, pin, installed, pending, manifest, done, broken, lock, ver, starter, op, left>>

NodeStops(p, pc, k, said) ==
  /\ At(p, pc)
  /\ Failed(Row(p), k)
  /\ Delete(k)
  /\ GiveUp(p, said)
  /\ UNCHANGED <<run, pin, installed, pending, manifest, done, broken, lock, ver, starter, op, left>>

(* prepare-nodes.                                                          *)

(* Every node is ready: where the services stand is read before the claim. *)
NodesPrepared(p) ==
  /\ At(p, "prepare")
  /\ Ready(Row(p), "update")
  /\ tick' = [tick EXCEPT ![p].pc = "claim",
                          ![p].seen = IF Target \in {installed, pending} THEN Target ELSE None]
  /\ UNCHANGED <<run, plan, pin, installed, pending, manifest, done, broken, lock, ver, starter, op,
                 left>>

ClaimServices(p) ==
  /\ At(p, "claim")
  /\ IF Transitionable(Row(p), "prepare")
     THEN SetStep(Row(p), "services") /\ Goto(p, "claimed")
     ELSE Goto(p, "reconcile") /\ UNCHANGED run
  /\ UNCHANGED <<plan, pin, installed, pending, manifest, done, broken, lock, ver, starter, op, left>>

ServicesClaimed(p) ==
  /\ At(p, "claimed")
  /\ Delete("update")
  /\ Goto(p, IF tick[p].seen = Target THEN "reconcile" ELSE "decide")
  /\ UNCHANGED <<run, pin, installed, pending, manifest, done, broken, lock, ver, starter, op, left>>

(* update-services.                                                        *)

(* A re-pin in flight is waited for; services not on the target with none  *)
(* in flight are re-pinned; on the target, the finish Plan is applied,     *)
(* then its step is claimed.                                               *)
ReadServices(p) ==
  /\ At(p, "services")
  /\ \/ pending # None /\ Goto(p, "reconcile") /\ UNCHANGED plan
     \/ pending = None /\ installed # Target /\ Goto(p, "decide") /\ UNCHANGED plan
     \/ /\ pending = None /\ installed = Target
        /\ \/ plan' = [plan EXCEPT !["finish"] = Row(p)] /\ Goto(p, "claimFinish")
           \/ GiveUp(p, "changed") /\ UNCHANGED plan
  /\ UNCHANGED <<run, pin, installed, pending, manifest, done, broken, lock, ver, starter, op, left>>

ClaimFinish(p) ==
  /\ At(p, "claimFinish")
  /\ run' = IF Transitionable(Row(p), "services") THEN [run EXCEPT ![Row(p)].step = "finish"] ELSE run
  /\ Goto(p, "reconcile")
  /\ UNCHANGED <<plan, pin, installed, pending, manifest, done, broken, lock, ver, starter, op, left>>

(* runUpgrade: the decision, and the refusals before anything is written.  *)
Decide(p) ==
  /\ At(p, "decide")
  /\ \/ Newer /\ Goto(p, "readRef")
     \/ GiveUp(p, "notChanged")     \* not newer, Flux suspended, no source or tag
  /\ UNCHANGED <<run, plan, pin, installed, pending, manifest, done, broken, lock, ver, starter, op,
                 left>>

(* captureUpgradeRescue: the ref of now, the rescue snapshots, the record. *)
ReadRef(p) ==
  /\ At(p, "readRef")
  /\ tick' = [tick EXCEPT ![p].pc = "record", ![p].seen = pin]
  /\ UNCHANGED <<run, plan, pin, installed, pending, manifest, done, broken, lock, ver, starter, op,
                 left>>

RecordManifest(p) ==
  /\ At(p, "record")
  /\ \/ /\ manifest' = [prev |-> tick[p].seen, from |-> installed, undone |-> FALSE]
        /\ op' = [op EXCEPT !.m = IF @ = "latest" THEN "older" ELSE @]
        /\ tick' = [tick EXCEPT ![p].pc = "repin", ![p].seen = None]
     \/ GiveUp(p, "notChanged") /\ UNCHANGED <<manifest, op>>
  /\ UNCHANGED <<run, plan, pin, installed, pending, done, broken, lock, ver, starter, left>>

(* repinGitRepositoryTag                                                   *)
Repin(p) ==
  /\ At(p, "repin")
  /\ \/ /\ pin' = Target
        /\ run' = [run EXCEPT ![Row(p)].repinned = TRUE]
        /\ Goto(p, "mark")
     \/ GiveUp(p, "notChanged") /\ UNCHANGED <<pin, run>>
  /\ UNCHANGED <<plan, installed, pending, manifest, done, broken, lock, ver, starter, op, left>>

MarkPending(p) ==
  /\ At(p, "mark")
  /\ pending' = Target
  /\ Goto(p, "reconcile")
  /\ UNCHANGED <<run, plan, pin, installed, manifest, done, broken, lock, ver, starter, op, left>>

(* finish.                                                                 *)

(* Mutant: the step is over without a look at the nodes.                   *)
FinishedWithoutLook(p) ==
  /\ At(p, "finish")
  /\ Delete("finish")
  /\ Goto(p, IF run[Row(p)].k8s THEN "claimKubernetes" ELSE "succeed")
  /\ UNCHANGED <<run, pin, installed, pending, manifest, done, broken, lock, ver, starter, op, left>>

NodesFinished(p) ==
  /\ At(p, "finish")
  /\ Ready(Row(p), "finish")
  /\ Delete("finish")
  /\ Goto(p, IF run[Row(p)].k8s THEN "claimKubernetes" ELSE "succeed")
  /\ UNCHANGED <<run, pin, installed, pending, manifest, done, broken, lock, ver, starter, op, left>>

ClaimKubernetes(p) ==
  /\ At(p, "claimKubernetes")
  /\ IF Transitionable(Row(p), "finish")
     THEN SetStep(Row(p), "kubernetes") /\ Goto(p, "applyK3s")
     ELSE Goto(p, "reconcile") /\ UNCHANGED run
  /\ UNCHANGED <<plan, pin, installed, pending, manifest, done, broken, lock, ver, starter, op, left>>

(* applyKubernetesPlans, on the claim or by a later pass that finds none.  *)
ApplyK3s(p) ==
  /\ At(p, "applyK3s")
  /\ \/ plan' = [plan EXCEPT !["k3s"] = Row(p)] /\ Goto(p, "reconcile")
     \/ GiveUp(p, "changed") /\ UNCHANGED plan
  /\ UNCHANGED <<run, pin, installed, pending, manifest, done, broken, lock, ver, starter, op, left>>

Succeed(p, from) ==
  /\ At(p, "succeed")
  /\ tick[p].step = from
  /\ run' = IF Transitionable(Row(p), from)
            THEN [run EXCEPT ![Row(p)].status = "succeeded", ![Row(p)].step = "done"]
            ELSE run
  /\ Goto(p, "reconcile")
  /\ UNCHANGED <<plan, pin, installed, pending, manifest, done, broken, lock, ver, starter, op, left>>

(* upgrade-kubernetes.                                                     *)

(* Mutant: the step goes straight to its verdict.                          *)
NeverMissing(p) == FALSE

(* The Plans a crash left uncreated are created by the next pass.          *)
PlansMissing(p) ==
  /\ At(p, "kubernetes")
  /\ plan["k3s"] = 0
  /\ Late(Row(p))
  /\ ~Failed(Row(p), "k3s")
  /\ Goto(p, "applyK3s")
  /\ UNCHANGED <<run, plan, pin, installed, pending, manifest, done, broken, lock, ver, starter, op,
                 left>>

NodesOnKubernetes(p) ==
  /\ At(p, "kubernetes")
  /\ Ready(Row(p), "k3s")
  /\ plan["k3s"] # 0 \/ ~Late(Row(p))     \* a node is done only on the record of a Plan that exists
  /\ Delete("k3s")
  /\ Goto(p, "succeed")
  /\ UNCHANGED <<run, pin, installed, pending, manifest, done, broken, lock, ver, starter, op, left>>

(* reconcileUpgradeOnce: the replica judges the roll by its own version.   *)
Reconcile(p) ==
  /\ At(p, "reconcile")
  /\ IF pending # None /\ ver[p] = pending
     THEN \/ Goto(p, "converged") /\ UNCHANGED lock
          \/ tick' = [tick EXCEPT ![p] = Idle] /\ lock' = NoProc     \* other gates still fail
     ELSE tick' = [tick EXCEPT ![p] = Idle] /\ lock' = NoProc
  /\ UNCHANGED <<run, plan, pin, installed, pending, manifest, done, broken, ver, starter, op, left>>

(* The marker is cleared, whatever it says by now.                         *)
ClearPending(p) ==
  /\ At(p, "converged")
  /\ pending' = None
  /\ tick' = [tick EXCEPT ![p] = Idle]
  /\ lock' = NoProc
  /\ UNCHANGED <<run, plan, pin, installed, manifest, done, broken, ver, starter, op, left>>

(* Flux rolls a replica to the pinned release (external): the process and  *)
(* its pass die, the new one records its version.                          *)
Roll(p) ==
  /\ ver[p] # pin
  /\ ver' = [ver EXCEPT ![p] = pin]
  /\ installed' = pin
  /\ tick' = [tick EXCEPT ![p] = Idle]
  /\ lock' = IF lock = p THEN NoProc ELSE lock
  /\ UNCHANGED <<run, plan, pin, pending, manifest, done, broken, starter, op, left>>

Crash(p) ==
  /\ ~At(p, "idle")
  /\ left.fault > 0
  /\ left' = [left EXCEPT !.fault = @ - 1]
  /\ tick' = [tick EXCEPT ![p] = Idle]
  /\ lock' = IF lock = p THEN NoProc ELSE lock     \* lapses within its minute
  /\ UNCHANGED <<run, plan, pin, installed, pending, manifest, done, broken, ver, starter, op>>

-----------------------------------------------------------------------------
(* The operator.                                                           *)

(* Mutant: the cancel ends whatever step the run is in by then.            *)
CancelAnyStep ==
  /\ op.pc = "cancel"
  /\ IF Transitionable(op.r, "any")
     THEN End(op.r, "cancelled") /\ op' = [op EXCEPT !.pc = "stop"]
     ELSE op' = NoRequest /\ UNCHANGED run
  /\ UNCHANGED <<plan, pin, installed, pending, manifest, done, broken, tick, lock, ver, starter, left>>

(* cancelPreparingRun: refused past prepare-nodes, at the read ...         *)
AskCancel ==
  /\ op.pc = "none"
  /\ ActiveRun # 0
  /\ run[ActiveRun].step = "prepare"
  /\ op' = [op EXCEPT !.pc = "cancel", !.r = ActiveRun, !.step = "prepare"]
  /\ UNCHANGED <<run, plan, pin, installed, pending, manifest, done, broken, tick, lock, ver, starter,
                 left>>

(* ... and again at the update.                                            *)
Cancel ==
  /\ op.pc = "cancel"
  /\ IF Transitionable(op.r, "prepare")
     THEN End(op.r, "cancelled") /\ op' = [op EXCEPT !.pc = "stop"]
     ELSE op' = NoRequest /\ UNCHANGED run
  /\ UNCHANGED <<plan, pin, installed, pending, manifest, done, broken, tick, lock, ver, starter, left>>

(* endRun, after the update: the Plans of the run are deleted, the k3s     *)
(* ones only if the row was read in its Kubernetes step.                   *)
StopPlans ==
  /\ op.pc = "stop"
  /\ plan' = [k \in Kinds |-> IF k = "k3s" /\ op.step # "kubernetes" THEN plan[k] ELSE 0]
  /\ op' = IF op.m = "none" THEN NoRequest ELSE [NoRequest EXCEPT !.pc = "track", !.from = op.from]
  /\ UNCHANGED <<run, pin, installed, pending, manifest, done, broken, tick, lock, ver, starter, left>>

(* The rollback is refused while the run prepares nodes or upgrades        *)
(* Kubernetes, and when the latest manifest was rolled back already.       *)
AskRollback ==
  /\ op.pc = "none"
  /\ ActiveRun # 0 => run[ActiveRun].step \notin {"prepare", "kubernetes"}
  /\ left.fault > 0
  /\ left' = [left EXCEPT !.fault = @ - 1]
  /\ op' = [op EXCEPT !.pc = "manifest"]
  /\ UNCHANGED <<run, plan, pin, installed, pending, manifest, done, broken, tick, lock, ver, starter>>

ReadManifest ==
  /\ op.pc = "manifest"
  /\ op' = IF manifest.undone THEN NoRequest
           ELSE [op EXCEPT !.pc = "repin", !.m = "latest", !.prev = manifest.prev,
                           !.from = manifest.from]
  /\ UNCHANGED <<run, plan, pin, installed, pending, manifest, done, broken, tick, lock, ver, starter,
                 left>>

RepinBack ==
  /\ op.pc = "repin"
  /\ \/ pin' = op.prev /\ op' = [op EXCEPT !.pc = "undone"]
     \/ op' = NoRequest /\ UNCHANGED pin
  /\ UNCHANGED <<run, plan, installed, pending, manifest, done, broken, tick, lock, ver, starter, left>>

MarkRolledBack ==
  /\ op.pc = "undone"
  /\ manifest' = IF op.m = "latest" THEN [manifest EXCEPT !.undone = TRUE] ELSE manifest
  /\ op' = [op EXCEPT !.pc = "abort", !.m = "older", !.prev = None]
  /\ UNCHANGED <<run, plan, pin, installed, pending, done, broken, tick, lock, ver, starter, left>>

(* abortActiveRun: the row is read, then ended whatever step it is in; an  *)
(* error here is logged and the rollback goes on.                          *)
ReadForAbort ==
  /\ op.pc = "abort"
  /\ \/ op' = [NoRequest EXCEPT !.pc = "track", !.from = op.from]
     \/ ActiveRun # 0 /\ op' = [op EXCEPT !.pc = "end", !.r = ActiveRun, !.step = run[ActiveRun].step]
  /\ UNCHANGED <<run, plan, pin, installed, pending, manifest, done, broken, tick, lock, ver, starter,
                 left>>

Abort ==
  /\ op.pc = "end"
  /\ IF Transitionable(op.r, "any")
     THEN End(op.r, "rolledBack") /\ op' = [op EXCEPT !.pc = "stop"]
     ELSE op' = [NoRequest EXCEPT !.pc = "track", !.from = op.from] /\ UNCHANGED run
  /\ UNCHANGED <<plan, pin, installed, pending, manifest, done, broken, tick, lock, ver, starter, left>>

(* The rollback's own target becomes the re-pin in flight (best effort).   *)
Track ==
  /\ op.pc = "track"
  /\ pending' \in {op.from, pending}
  /\ op' = NoRequest
  /\ UNCHANGED <<run, plan, pin, installed, manifest, done, broken, tick, lock, ver, starter, left>>

RequestDies ==
  /\ op.pc # "none"
  /\ left.fault > 0
  /\ left' = [left EXCEPT !.fault = @ - 1]
  /\ op' = NoRequest
  /\ UNCHANGED <<run, plan, pin, installed, pending, manifest, done, broken, tick, lock, ver, starter>>

-----------------------------------------------------------------------------
Starting ==
  \/ \E r \in Runs, nodes \in Included, k8s \in Kubernetes : Start(r, nodes, k8s)
  \/ ApplyUpdatePlan \/ StarterDies

NodeStep == \E n \in Nodes, k \in Kinds : NodeDone(n, k) \/ NodeFails3(n, k)

PrepareStep(p) ==
  \/ NodeStops(p, "prepare", "update", "unchanged")
  \/ NodesPrepared(p) \/ ClaimServices(p) \/ ServicesClaimed(p)
  \/ Waits(p, "prepare") \/ TimesOut(p, "prepare", "update", "unchanged")

ServicesStep(p) ==
  \/ ReadServices(p) \/ ClaimFinish(p)
  \/ Decide(p) \/ ReadRef(p) \/ RecordManifest(p) \/ Repin(p) \/ MarkPending(p)

FinishStep(p) ==
  \/ NodeStops(p, "finish", "finish", "changed")
  \/ NodesFinished(p) \/ ClaimKubernetes(p) \/ Succeed(p, "finish")
  \/ Waits(p, "finish") \/ TimesOut(p, "finish", "finish", "changed")

KubernetesStep(p) ==
  \/ PlansMissing(p) \/ ApplyK3s(p)
  \/ NodeStops(p, "kubernetes", "k3s", "changed")
  \/ plan["k3s"] # 0 /\ (Waits(p, "kubernetes") \/ TimesOut(p, "kubernetes", "k3s", "changed"))
  \/ NodesOnKubernetes(p) \/ Succeed(p, "kubernetes")

Pass(p) ==
  \/ Tick(p) \/ TakeLock(p)
  \/ PrepareStep(p) \/ ServicesStep(p) \/ FinishStep(p) \/ KubernetesStep(p)
  \/ Fail(p) \/ Reconcile(p) \/ ClearPending(p)

Request ==
  \/ Cancel \/ StopPlans
  \/ ReadManifest \/ RepinBack \/ MarkRolledBack
  \/ ReadForAbort \/ Abort \/ Track

Operator == AskCancel \/ AskRollback \/ Request \/ RequestDies

Next == Starting \/ NodeStep \/ Operator \/ \E p \in Procs : Pass(p) \/ Roll(p) \/ Crash(p)

Spec == Init /\ [][Next]_vars

(* Ticks come on a timer, a step's time runs out, Flux rolls what is       *)
(* pinned, and the other gates of a roll pass in the end.                  *)
Fairness ==
  /\ WF_vars(ApplyUpdatePlan)
  /\ WF_vars(Request)
  /\ \A p \in Procs :
       /\ WF_vars(Pass(p))
       /\ WF_vars(Roll(p))
       /\ SF_vars(TimesOut(p, "prepare", "update", "unchanged"))
       /\ SF_vars(TimesOut(p, "finish", "finish", "changed"))
       /\ SF_vars(plan["k3s"] # 0 /\ TimesOut(p, "kubernetes", "k3s", "changed"))
       /\ SF_vars(Reconcile(p) /\ tick'[p].pc = "converged")

FairSpec == Spec /\ Fairness

-----------------------------------------------------------------------------
(* Properties.                                                             *)

Pcs == {"idle", "read", "prepare", "services", "finish", "kubernetes", "done", "reconcile", "fail",
        "claim", "claimed", "claimFinish", "decide", "readRef", "record", "repin", "mark",
        "claimKubernetes", "applyK3s", "succeed", "converged"}
Said == {"nothing", "notStarted", "unchanged", "notChanged", "changed"}

Requests == {"none", "cancel", "stop", "manifest", "repin", "undone", "abort", "end", "track"}

RunType  == [status : Ends \cup {"none", "running"}, step : Steps, nodes : SUBSET Nodes,
             k8s : BOOLEAN, said : Said, repinned : BOOLEAN]
TickType == [pc : Pcs, r : 0..MaxRuns, step : Steps \cup {"none"}, seen : Versions \cup {None},
             said : Said]
OpType   == [pc : Requests, r : 0..MaxRuns, step : Steps \cup {"none"},
             m : {"none", "latest", "older"}, prev : Versions \cup {None},
             from : Versions \cup {None}]

(* Every variable has its type; at most one run is in flight, and only the *)
(* holder of the pass lock advances it.                                    *)
TypeOK ==
  /\ run \in [Runs -> RunType]
  /\ plan \in [Kinds -> 0..MaxRuns]
  /\ pin \in Versions /\ installed \in Versions /\ pending \in Versions \cup {None}
  /\ manifest \in [prev : Versions, from : Versions, undone : BOOLEAN]
  /\ done \in [Nodes -> SUBSET Kinds] /\ broken \in [Nodes -> SUBSET Kinds]
  /\ tick \in [Procs -> TickType]
  /\ lock \in Procs \cup {NoProc}
  /\ ver \in [Procs -> Versions]
  /\ starter \in 0..MaxRuns
  /\ op \in OpType
  /\ left \in [fault : Nat, fail : Nat]
  /\ Cardinality(Active) <= 1
  /\ \A p \in Procs : tick[p].pc \notin {"idle", "read"} => lock = p

(* A run that was cancelled never changed the services: the cancel and the *)
(* claim of update-services cannot both win.                               *)
CancelledLeavesServices == \A r \in Runs : run[r].status = "cancelled" => ~run[r].repinned

(* A run reported succeeded did all of its work on every included node.    *)
SucceededIsDone ==
  \A r \in Runs : run[r].status = "succeeded" =>
    \A n \in run[r].nodes : {"update", "finish"} \cup (IF run[r].k8s THEN {"k3s"} ELSE {}) \subseteq done[n]

(* The services are moved to the target only once every included node of   *)
(* the run holds the release.                                              *)
NodesFirst ==
  [][pin' = Target /\ pin # Target =>
       \E r \in Runs : /\ run'[r].repinned
                       /\ \A n \in run[r].nodes : "update" \in done[n]]_vars

(* The runs keep what RunLife promises, with every pass, crash, cancel,    *)
(* rollback and roll in between: one at a time, forward only, ended once,  *)
(* and cancelled only before the services could be moved.                  *)
Life == INSTANCE RunLife WITH
  status <- [r \in Runs |-> run[r].status],
  step   <- [r \in Runs |-> run[r].step],
  moved  <- {r \in Runs : run[r].repinned}
KeepsRunLife == Life!Spec

(* Every run ends, whatever dies on the way, unless it waits for a roll    *)
(* that will not come: the marker names a release that is not pinned, and  *)
(* the way out of that is the operator's rollback.                         *)
EveryRunEnds ==
  \A r \in Runs : []<>(run[r].status # "running" \/ pending \notin {None, pin})
-----------------------------------------------------------------------------
(* What the source says of itself and the code does not do.                *)

(* "A failure while preparing nodes stops the run BEFORE the services      *)
(* change": a run that failed saying so did not change them.  Violated in  *)
(* the run upgrade_old_row, with two replicas: a pass may have read the    *)
(* row before another moved the run on, and fail does not look at the step.*)
HonestFailure ==
  \A r \in Runs : (run[r].status = "failed" /\ run[r].said = "unchanged") => ~run[r].repinned

(* "Never re-pin without a way back": while the services are pinned to the *)
(* target by a run, the latest manifest leads to another release (README,  *)
(* known divergences).                                                     *)
WayBack == (\E r \in Runs : run[r].repinned) => manifest.prev # Target
=============================================================================
