# Verification of insula's coordination core

Insula is a hosting platform. Its control plane is `platform-api` (`src/backend`), a Node.js
process that runs as several replicas beside one PostgreSQL database and a Kubernetes cluster.
Everything that lasts longer than a request - a schedule, a suspend, a delete, a restore - is
carried by rows of that database, and any replica may die between any two statements. What keeps
two replicas from doing the same work, and what finishes the work of one that died, is a small
body of code that everything else relies on:

* the **scheduler lease** (`shared/scheduler-lease.ts`), a row with a holder and a time;
* the **run lock** (`shared/exclusive-run.ts`), the same row used as a mutex;
* the **lifecycle transitions** of a tenant (`modules/tenant-lifecycle`), which run hooks under such
  locks and are finished by another replica when their process is gone;
* the **storage operations** (`modules/storage-lifecycle`), which delete and rebuild a tenant's volume
  under such a lock and are run again from the top by another replica;
* the **platform upgrade run** (`modules/platform-upgrades`), a step machine that any replica advances;
* the **gate of bundle captures** (`modules/tenant-bundles/cluster-concurrency.ts`) and the
  **disaster recovery** of tenants (`modules/dr-recover`), which count and exclude each other by rows
  that heartbeats keep fresh.

This directory models that core in TLA+, checks it with TLC and proves its main properties with
TLAPS. It says nothing about manifests, mail, DNS or the panels.

## 1. Inventory

State, operations and interactions of the parts; the ones with a module come first.

| part | state | operations | talks to |
|---|---|---|---|
| Scheduler lease | one `platform_settings` row per job (holder, until); per process: `inFlight`, `held`, `renewing`, `stopping`, `firstTickSeen`, `ranHere` | claim, renewal timer, end of run (release or cut-back), settle timeout, keep-alive, shutdown, start-up retries | PostgreSQL; called by some forty schedulers and by every run lock |
| Run lock | the same row, named `<job>-run`, deleted after each run | `runExclusive` with or without waiting, `ownsRunLock`, `forgetDeadRunLocks` | scheduler lease |
| Transition dispatcher | a transition row, a row per hook (state, attempts, next attempt) | begin, insert hook rows, run each hook, resolve, hold open, end, drop the tenant | transition's lock, tenant's lock, hooks |
| Pick-up of interrupted transitions | reads the rows and the locks | find, look again under the tenant's lock, resume, close (two statements), requeue cut-off retries | dispatcher, `tenants/service.ts` |
| Retry scheduler | the hook rows; the circuit breaker in memory | retry a due hook, re-evaluate its transition, operator's retry | scheduler lease (sticky), dispatcher's rows |
| Hook registry | list of hooks per transition | register, `topoSortForTransition` | dispatcher |
| Storage operations | `storage_operations`, `tenants.active_storage_op_id`, an operation's lock, the hold on the workloads | start, each destructive step after `stillMine`, fail, pick up, withdraw, end; the operator's cancel and reset | tenant's lock, dispatcher (suspend, archive), Kubernetes |
| Upgrade run | one row: status, step; the Plans, the Flux pin, `installed_` and `pending_update_version`, the rollback manifest | start, `advanceRun`, re-pin, `reconcileUpgradeOnce`, cancel, roll back, abort | upgrade controller, Flux, nodes |
| Capture gate | `tenant_bundle_in_flight` | acquire under an advisory lock, heartbeat, release, reap | backup captures and restores |
| Disaster recovery | task rows with heartbeats, restore carts and their items | in the background: enrol under an advisory lock, reap, refuse once, run, finish; batches. Within the request (the route's default, used by recover-all and a migration's import too): run at once, without row, heartbeat or question | task tracker, restore carts |
| Restore carts | cart and item rows | execute (claim, snapshot, items in order, close) | recoveries, operators |
| Delivery queue | delivery rows, pg-boss jobs | process, retry or dead-letter, re-enqueue scan | SMTP, pg-boss (external) |
| others | see `PROJECT.json`, "components" | | |

What is hard here is the same everywhere. Statements of one process travel on different pool
connections and are applied in any order. A process that is given up on may only be slow. A check
and the action after it are two statements. A lock that lapsed looks the same whether its holder
died or stalled. The hazards are listed, each at its line, in `PROJECT.json`.

What makes each part correct:

* lease: a run in flight keeps its lease, two replicas do not run one job, nothing on its way
  re-creates a lease that was given up, and the job keeps being run whoever dies;
* transitions: a hook that ended is not run again, hooks wait for the blocking ones ahead of them,
  two parties are never inside one hook, the pick-up acts on what is still so, and every
  transition ends;
* storage operations: the volume is deleted only while the workloads are stopped, a pick-up never
  loses the only copy of the data, workloads are not left at zero without the hold that restarts
  them, one operation at a time, and every operation ends;
* upgrade: steps in order, one end, cancel and advance do not both win, the services move only after
  the nodes, a run said to have succeeded did its work, every run ends;
* gate: at most the cap at once, and slots of the dead come back;
* recovery: of the enrolled ones one at a time and on no other restore, verdicts that are true, and no dead run that
  blocks the next for good;
* queue (not modelled): a delivery is sent at least once and is never stuck.

## 2. Modules

| module | models | kind |
|---|---|---|
| `RunLock` | what a lease promises the work that runs under it | abstract specification |
| `SchedulerLease` | `shared/scheduler-lease.ts` without the start-up retries; implements `RunLock` | component |
| `LeaseStartup` | `retryStartupRun`, on top of `SchedulerLease` | component, extends it |
| `Transitions` | dispatcher, pick-up and retry tick over one tenant's rows | composition of three parties |
| `StorageOp` | four storage operations of one tenant, their locks, pick-up, watchdog and valves | component |
| `RunLife` | what an upgrade run promises | abstract specification |
| `UpgradeRun` | start, advance, re-pin, roll, cancel, rollback of an upgrade run; implements `RunLife` | component |
| `ClusterGate` | the gate of bundle captures | component |
| `Recovery` | enrolment, heartbeats, recoveries, batches, the execution of carts, retention | composition of three parties |
| `MC...` | instances for TLC | |
| `SchedulerLeaseProofs`, `LeaseStartupProofs`, `TransitionsProofs`, `StorageOpProofs`, `StorageHoldProofs`, `UpgradeRunProofs`, `ClusterGateProofs`, `RecoveryProofs` | theorems | |

Definitions marked "Mutant" in a module are plausible bugs of the definition below them; they are
used only to show that a property can fail.

### SchedulerLease

One job, any set of processes. A process that restarts is another process, as `REPLICA_ID` is
drawn anew. `lease` is the row. Each statement that the code sends without holding a lock is split
in two: the step that sends it and the step at which the database applies it; in between anything
may happen, the death of the sender included. What is on its way is kept in `stage` (claim,
release, cut), `renew` and `stray` (the newest renewal, and one it overtook), `keep` (keep-alive),
`behind` (writes the settle timeout gave up on) and `stop` (the shutdown's DELETE).

Time is kept as durations left: `lease.left` is `until - now()`, `-1` when the lease has lapsed.
`Time` takes one unit off every duration at once, so the model has no clock that must be bounded,
and the boundary `until < now()` is the step from 0 to -1.

`promised` and `clean` are history: the time the run last wrote for itself, and whether it began
with no shutdown begun and no write of an earlier run left behind. The code makes no promise to a
run that is not clean, and says so; the properties are about clean ones.

One difference is left as it is because it only makes the model weaker. A second keep-alive joins the
promise of the first (`scheduler-lease.ts:237`), and what clears an entry's pending promise (`:224`,
`:507-509`) compares it with the one it set itself, so the joined one stays and the keep-alive skips that
entry from then on (`:206`). In the model `Pending` ends with the answer and the keep-alive goes on: it has
every behaviour of the code and more.

Constants select the situation: `Release` tells a run lock from a sticky lease, `Laggards` are the
processes whose statements may outlast every wait, `Survivors` those that are neither killed nor
stopped, `Wedged` those whose timer may stop firing while they live.

`RunLock` is the promise without clocks and statements on their way: a holder, whether the lock is fresh, and
the set of runs that count on it. It is taken when it is free, the taker's own or lapsed, and never while another's run
counts on it; it is deleted only when none does; when it lapses none counts on it any more. `SchedulerLease`
maps its row and its clean runs with time left (`Inside`) to these (`Lock == INSTANCE RunLock WITH ...`), and
`KeepsRunLock` says that it implements it. `StorageOp` keeps a lock of this form (`lock`, a
holder and whether it is fresh); `Transitions` needs only that two runs do not count on it at once.

### LeaseStartup

A sticky job's first tick may be refused; the helper then tries twice more. `startup`, `tryIn` and
`trying` are the timers of those tries, `ran` is `ranHere`. `diedIdle`, `witness` and `found` are history: who
died between two runs, the holder that was already dead in this way when the first tick was refused, and
what its lease had left at that moment. Every other step is `SchedulerLease`'s, the loss of the cut-back after a
run included. `LastTryOutlivesDeadHolder` is about a lease found within `Liveness`; a lease whose cut-back
was lost may be longer, and then the last try is refused (known divergence 7).

### Transitions

The rows of one tenant's transitions, numbered in the order in which they begin, and three parties
that no transaction holds together:

* the **dispatcher** (`pc`, `at`, `outcome` per transition): `Begin`, `InsertHook`, `PassHook`,
  `StartHook`, `EndHook`, `Resolve`; for a delete `LeaveOpen`, `DropTenant`, `EndTransition`;
* the **pick-up** (`sched` from "found" to "closed"): `FindInterrupted`, `LookClose`, `LookResume`,
  `LeaveAlone`, `Resume`, `CloseRow`, `CloseHooks`, `Requeue`;
* the **retry tick** (`sched` from "retry" to "lift"): `Retry`, `EndRetry`, `AnyFailed`,
  `AnyPending`, `Lift`; and the operator's `OperatorRetry`.

The pick-up and the retry tick are one job under one sticky lease, so `sched` is one program
counter. The transition's lock is read off `pc` (`Held`); the tenant's lock is `tlock`. Both are
run locks, and what the model assumes of them is what `SchedulerLease` establishes: while the
holder lives and renews nobody else has the lock, and a dead holder's lapses. Faults are
crashes of the request's or the scheduler's process at any point and statements that fail
(`DispatchThrows`, `DeleteThrows`, `EndFails`, a failed drop), `MaxFaults` of them.

`Requeue` assumes that no living hook outlasts the cut-off: the code hands back a hook by the age of its
`started_at` alone, thirty minutes (`interrupted-transitions.ts:322-335`), and a hook alive after that would
be run beside itself.

A hook's row reads "queued" for `failed` with a `next_attempt_at`, "failed" for one without, and
"ok" for `ok` or `noop`. What a hook does is one of three results. `MayBeLate` lets the
pick-up find a transition after the age rule. "status" stands for every transition that is neither
a delete nor a decommission.

### StorageOp

The rows of a tenant's storage operations (`op`), the tenant's pointer (`tenant`), an operation's lock
(`lock`: a holder, and whether it still counts), the run of each process of each operation (`run`), what an
operator or the sweep is doing beside them (`valve`), the tenant's volume claim (`claim`: which operation made
it, and whether it holds the tenant's files) and its `workloads`. `Path` lists the steps of a shrink, a restore
from a retained volume, an in-place revert and an archive in the order of their runners.

Whatever awaits a remote call is split there. The end of a run is `Finish` (a shrink asks, deletes its bundle
remotely, and only then writes the row) and `FreeTenant`; a failure is `MarkFailed`, `Settle` (the workloads) and
`GiveBack` (the tenant), in the order of the runner in question; the pick-up (`PickUp`, from the top,
`MaxResumes` times) and the watchdog's end of spent and withdrawn operations are actions of their own. A
cancel is five steps (look, end the row, start the workloads, clear the hold, free the tenant), a reset three
(look, start, free), the sweep two. They take no lock, decide on what the first step read, may fail to start the
workloads, and write the tenant whatever it says by then.

A step that the code precedes with `stillMine` is two actions: the question, then the step, with the run
`hot` in between. The header of `op-lock.ts` accepts that a process may stall in that gap, so another
actor that comes in there uses up `left.stall`, and the runs allow none; where the code does *not* ask
right before a step, others come in freely. `Budget` bounds each trouble.

Some of these writes come late, after the operation they were meant for has ended or another has begun.
The model carries them out as the code does and notes "late" in `decided`; that a valve left the workloads
unstarted is noted as well. The safety properties hold until then and say so (`Late`). What happens
afterwards is known divergences 8, 9, 12 and 13 and the finding `storage_cancel_late`.

### UpgradeRun and RunLife

`run` holds the rows of `platform_upgrade_runs`, `plan` the Plans in the cluster, `pin` the Flux source,
`installed` and `pending` the two settings, `manifest` the latest rollback manifest, `done` and
`broken` what the nodes report, `tick` where each replica's pass is, `lock` the pass lock. Every call that
changes shared state is an action, so a cancel, a rollback, a roll of the pods (which kills the pass
that caused it) or a crash may come between any two. A replica reads the row before it has the lock, as
the code does, and acts on what it read.

`RunLife` is the promise without the machinery: runs one at a time, steps in order, a final end, a cancel
only in prepare-nodes, services moved only past it. `UpgradeRun` maps its rows to it
(`Life == INSTANCE RunLife WITH ...`), and the property `KeepsRunLife` says that it implements it.

The nodes, the upgrade controller and Flux are external: they do what a Plan or a pin asks, in any order
and at any time. Kubernetes versions, node labels and the text of a failure are abstracted to what the
run decides on; `said` keeps whether the failure's text says that the services were not changed.

### ClusterGate

A row per (bundle, component) with its age, a caller per capture. Time is counted in steps of the
database's clock; a heartbeat may fail, `MaxMisses` times in a row. `Key` gives each caller its row, so an
instance can also let two callers share one.

### Recovery

`task` is the tracker's table, restricted to recoveries and batches; `cart` the restore carts, the one of
recovery *i* being cart *i*, cart 0 an operator's own; `pc` where each run is, batches and an operator's
execution included. The enrolment is one transaction under an advisory lock and therefore one action:
reap, refuse or begin, with what was reaped and failed kept when it refuses. `RecoverNow` is the other way in,
a recovery within the request: it has no row (its status reads "sync"), no heartbeat, and asks nobody.
Recover-all without `background` and a migration's import are several of these. An operator may execute any
cart that is not executing, a recovery's own included, as the claim in `backup-restore/routes.ts` allows.

Time is counted in heartbeats; a living run may lose up to `MaxMisses` in a row, which may be as many as
make it stale. `BeatsArrive` says that it is fewer; the threshold's comment (`liveness.ts:16`) supposes so. The
end of a run overwrites its row, whatever that says by then, and may fail to. `Targets`, the list a batch goes
through, has a single tenant in TLC's instance; the theorem is for every list.

## 3. Runs

State counts are distinct states; a run takes at most four minutes with two workers. Deadlock is checked in
the lease and gate runs. In the others it is not: the tenant's last transition or operation, or the last run, ends, and the model comes to rest.

| run | instance | result |
|---|---|---|
| `lease_sticky` | 2 processes, sticky, Ttl 2, Liveness 1, one process with every trouble, wedged included | `TypeOK`, `RunKeepsItsLease`, `NoWriteBack`, `JobKeepsRunning` hold; 530,000 states |
| `lease_run_lock` | 2 interchangeable processes, both with every trouble, Ttl 2 | `KeepsRunLock` holds; 576,000 states under symmetry |
| `lease_startup` | sticky, a rollout; statements, the cut-back among them, may fail | `Exclusion`, `LastTryOutlivesDeadHolder` hold; 915,000 states |
| `transitions` | a suspend and a delete of 2 hooks, the first blocking, 2 faults, 1 pick-up, 2 attempts | seven safety properties, `EveryTransitionEnds` and `NoHookRunsForEver` hold; 308,000 states |
| `storage` | 2 operations, each a shrink, a restore from a retained volume or a revert, 2 processes; one crash, failed step, lapse, cancel and reset each, at most three of these | `TypeOK`, `NeverStranded`, `OneOperation`, `DeletesStopped` hold; 2,260,000 states |
| `storage_liveness` | 1 operation of 4 kinds, 3 processes of which 2 die; one failed step, refused lock and lapse | `FirstRunHoldsWorkloads`, `SuccessKeepsFiles`, `EveryOperationEnds` hold; 153,000 states |
| `storage_cancel_late` | 2 restores from a retained volume, 1 process, one cancel | `NeverDeletesRunning` violated (finding) |
| `upgrade` | 2 replicas, 1 node, Kubernetes step or not, services rolled before or not, 1 crash or rollback, cancels at will | `TypeOK`, `SucceededIsDone`, `NodesFirst`, `KeepsRunLife` hold; 1,210,000 states |
| `upgrade_liveness` | 1 replica, 1 node (excluded or not), a node job that may fail for good, 1 crash or rollback | `CancelledLeavesServices`, `EveryRunEnds` hold; 229,000 states |
| `gate` | 3 captures of their own bundles, caps 0 to 2, up to 3 heartbeats of 5 missed | `TypeOK`, `AdmitsUnderCap`, `SlotsComeBack` hold; 295,000 states |
| `recovery` | 1 tenant, 2 recoveries of 1 item, enrolled or at once, a batch, 1 trouble (a death, a lost write, an expired row or an operator's execution of any cart) | `TypeOK`, `OneAtATime`, `SucceededIsApplied`, `BatchRecoveredAll`, `NotOnTopOfARestore`, `EveryRowEnds`, `RefusedOnce` hold; 541,000 states |
| `recovery_retried` | 1 tenant, an operator executes the cart of a failed recovery again | `NeverOnTopOfARestore` violated (finding) |

Why these bounds are enough to be interesting. *Lease*: every hazard on the list involves one
process that has trouble and one that takes over; with Ttl above Liveness a run's lease and an idle
holder's differ, so shortening, extending and lapsing are distinct events. At most one overtaken renewal
and one task left behind per process are kept at a time; more of them are the same statement again.
*Transitions*: two transitions make "later" and "beside" possible; two hooks with the first blocking
make "ahead", "behind" and "not there yet" possible; two faults let a resumed run die too, and are one more
than the pick-ups allowed, so the give-up is reached. *Storage*: two operations let one be begun under
another's feet; one pick-up lets an operation die, be run again and be spent. The cfg's constraint `Explored`
stops at the first late write, after which only `TypeOK` says anything (a late write is for ever, and the
theorem `TypeCorrect` covers what follows), and at three different troubles. *Upgrade*: two
replicas make a pass on an old row possible; one run suffices, since a second can begin only when the
first has ended, and what it inherits (a leaked Plan, a rolled pin) is allowed for by `Init`'s second
starting point. *Gate*: three callers against a cap of two. *Recovery*: one heartbeat lost while two make
a row stale has the order of 5 and 6; two recoveries and a batch compete for the tenant. The safety properties
were also checked with carts of two items (1,110,000 states), and `SucceededIsApplied` with as many lost
heartbeats as make a living run stale, so that it is failed and writes its outcome late (187,000 states).

Every property of a passing run is broken by a mutant of the code's definitions (`PROJECT.json`,
"mutants"; the mutated definitions stand beside the originals in the modules).

### Fairness

*Lease.* Weak fairness of `Time`, of a living process's timers, of answers to statements and of
`EndRun`: a run that does not return is given up after `maxHoldMs`, so "the run ends for the
helper" needs nothing of the job. Strong fairness of `ClaimGranted`: statements may fail, not for
ever. No fairness of `Tick` for a wedged process, and none that makes a process die or stop.

*Transitions.* Weak fairness of the steps of a live run, of the pick-up and of the tick's
re-evaluation (they are `await`s of a live process), and of a dead holder's locks lapsing. Strong
fairness of `FindInterrupted` for each transition and of `Requeue`: the tick is one sequential
job that looks at *every* interrupted transition each time it comes round, whatever the previous
tick was busy with, so one that is interrupted again and again is looked at. No fairness of retries,
of the operator or of new transitions. Faults are bounded, which is what "eventually" needs.

*Storage.* Weak fairness of a live run's steps, of a dead holder's lock lapsing, and of a pick-up by
some living process (the watchdog is a sticky job of the lease, so somebody runs it).

*Upgrade.* Weak fairness of each replica's pass, of a request under way, and of Flux rolling what is
pinned. Strong fairness of a step's timeout, which the pass evaluates each time it finds the step
late, and of the other gates of a roll passing when they are looked at again and again. None of nodes:
a node that never reports is what the timeout is for.

*Gate.* Weak fairness of time, of timers, of captures ending (their Jobs have a deadline) and of
release. None of an acquisition: nothing promises that a waiting caller gets in.

*Recovery.* Weak fairness of living runs, of time, and of somebody asking for a recovery, and for a
batch, again: dead rows are cleared by the next start, so without one nothing is promised.

## 4. Proofs

TLC's instances are small; the theorems hold for every value of the constants that satisfies the
named assumptions (`LeaseAssumption`, `StartupAssumption`, `TransitionAssumption`, `StorageAssumption`,
`GateAssumption`, `BoundsAssumption`, `ProcsAssumption`, `RecoveryAssumption`). They say that sets are sets and bounds are numbers, with two
exceptions that the code's constants satisfy: the heartbeats a capture may lose fit in `Stale`
(`GateAssumption`), and the last start-up try comes after the first and past the liveness window
(`StartupAssumption`). What a theorem needs beyond them is in its ASSUME, under a name.

**SchedulerLeaseProofs.** `RunKeepsItsLease` is not inductive: a DELETE or a cut of the same process
that is on its way would take the lease away. `LeaseInv` adds the two facts that rule this out:
`WorkStage` (work goes on only in a running process or after its death) and `CleanRun` (a
clean run has no after-run write and no shutdown DELETE on its way). From it: `TypeCorrect`,
`RunsKeepTheirLease`, and `RunsExclude`, which follows because two clean runs with time left would
both have to be the holder. `LetGoIsFinal` states `NoWriteBack` and rests on another invariant,
`Awaited`: whoever lets an entry of `held` go waits for the claim that the entry has on its way, so none is
left when its DELETE is sent. `Writers` lists the statements that can make a replica the holder; each
belongs to a run, to a task after one, or to an awaited entry. `ImplementsRunLock` states `KeepsRunLock`: each
statement that is applied is a step of `RunLock` or refused. A claim takes the lock (`LockTaken`), because by `LeaseInv`
whoever may claim finds no other run counting on it (`OnlyTheClaimer`); a DELETE comes from a process
without such a run (`LockReleased`); and a tick of the clock lapses the lease only as the run's own time
runs out (`LockTime`).

**LeaseStartupProofs.** `StartupSteps`: the tries add one step to those of the lease, the claim that is
granted while the process stops. It keeps `LeaseInv`, hence `TriesKeepExclusion`. `LastTrySucceedsTheDead`
compares two clocks that run at the same pace (`Clock`): a holder that died between runs and was found with
at most `Liveness` left when the first tick was refused has nothing on its way that could write more
(`WitnessShape`, `KeepsQuiet`), and the two waits add up to `StartupLastTry`, which is longer.

**TransitionsProofs.** `TransitionsInv` says who may touch what:

* `RunShape`, `LockShape`: where a run can be, and that whoever works under the tenant's lock has it;
* `TickShape`: what the tick found still stands. This is the heart of the pick-up: its second look
  is made with the tenant's lock free, a delete past its hooks would hold that lock, so the
  transition it looked at has no run, and none can start;
* `AheadShape`: ahead of a first run every hook is still pending, so neither a retry nor a requeue
  can reach it; `RunnerShape`: a hook somebody is inside says running, and only one is inside;
* `AbsentShape`: missing rows are the last ones, since they are inserted in order; `BehindShape`:
  behind a run that was not halted every blocking hook is done or missing. Together they give
  `BlockedUntilDone`: a hook that runs has its row, so no row before it is missing;
* `PendingShape`: nothing is pending behind a run that was not halted, nor once the tick has asked.

Each action has a lemma with a step per conjunct that it can disturb. From the invariant:
`TransitionsTypeCorrect`, `BlockingHooksComeFirst`, `HooksHaveOneRunner`, `PickUpIsNotStale`,
`CompletedMeansNonePending` and, as an action property, `FinishedHooksStand`. `PickUpIsTheLatest` needs
`LaterWait`, that every later transition is a delete and so waits for the tenant's lock, and `LatestShape`:
from the pick-up's look on, the transition is the tenant's last. Without `LaterWait` it is false (section 5).

**StorageOpProofs.** The first half says once what each action does to a run (`Moved`), to a row
(`Wrote`) and to both (`Goes`); everything else cites only that. `TypeCorrect` needs `PathShape` (a run is at
a step its runner has, and knows what that step needs) and `RowShape` (a row that was not started is empty).
`OneOperationInFlight` rests on `Owner`, which holds until somebody has written late:

* `Locked`: the starter of an operation is alone with it until it has the lock (`StartShape`); a run about
  to take a step (`hot`) has the lock of an operation in flight, and one that ended its operation finds it ended
  (`HoldShape`);
* `OrderShape`, `OwnShape`: operations begin in order, one in flight is the latest, and the tenant is busy with it;
* `ValveOwn`: a cancel that is not late is about to end the only operation in flight; past that, and in a reset,
  none is in flight until another is begun, which makes the valve late.

It is proved under `Calm`, that no process stalls between a question and the step after it, which the code
leaves open on purpose; with a stall it is false. The run `storage` has the same setting; what the theorem adds
are archives, refused starts, runs that take back a lock they lost, and any number of processes, operations,
cancels, resets and other troubles, step by step.

**StorageHoldProofs.** `NoneStranded` states `NeverStranded` and `DeletesWhileStopped` the action property
`DeletesStopped`, under `Calm` and `NoTakeBack`: two runs that take the lock from each other in turn do strand
workloads (section 5). Workloads lose the hold without being started only when they are started from a row
without counts, and they run under a delete only when somebody started them for an operation that is not over.
`HoldInv` says where the counts are and who may start:

* `HeldShape`: while workloads are held, unless a valve failed to start them, the tenant is not idle, so nothing
  begins, and the latest operation has their counts;
* `ActiveShape`, `FailedShape`, `SettleShape`, `ValveHold`: everybody who starts workloads (the run, the failure,
  the sweep, a cancel, a reset) reads the row of the latest operation;
* `UpShape`, `GoneShape`, `AwaitShape`: a run frees the tenant only when nothing is held, or before it stopped anything;
* `StopShape`: the run that has the lock of the operation in flight has the workloads stopped, from the step that
  stops them to the one that starts them.

`ComesStep`, `LockSteps`, `RowSteps`, `TenantSteps` and `WorkloadSteps` list what any step may do to a run, a
lock, a row, the tenant and the workloads; the preservation lemmas use these and not the actions.

**ClusterGateProofs.** `AdmitsUnderCap` compares two numbers: the rows a caller counts, and the
captures that are really in flight. `GateInv` says why the first is never less than the second when every
caller has a row of its own (`OwnRows`): a capture in flight has a row no older than its heartbeat timer
plus the beats it missed (`BeatShape`), and `MaxMisses` missed beats fit in `Stale` (the assumption
`GateAssumption`, which the constants of the code satisfy: five minutes, a minute, three beats). So the
captures in flight map one-to-one into the fresh rows. `GateAdmitsUnderCap` follows for any number of
callers, caps and intervals; `GateTypeCorrect` needs no `OwnRows`. Without `OwnRows` it is false (section 5).

**UpgradeRunProofs.** `Inv` is about rows that several replicas write without a transaction:

* `LockShape`: only the pass that has the lock is past its read;
* `PassShape`: what a pass has read of its run may be old, but a run it saw past prepare-nodes is past it,
  and the nodes it saw ready stay ready;
* `RowShape`, `OneRun`: the step a row is in says which work every included node has done, a cancelled row
  never left prepare-nodes, a moved one has; at most one row runs;
* `PinShape`: until some run moves the services, nothing on record leads to the target.

`RowSteps` says that a step of any actor does one of six things to one row (begin, advance, move the
services, succeed, cancel, stop) and nothing to the others; it carries the refinement: each of the six is
a step of `RunLife`, and every other action leaves its variables alone. From the invariant: `TypeCorrect`,
`VerdictIsTrue`, `CancelIsSafe`; as action properties `NodesBeforeServices` and `ImplementsRunLife`.

**RecoveryProofs.** `TypeCorrect` needs no hypothesis: an enrolment leaves no other active row of the tenant,
whoever lives. The other theorems are under `BeatsArrive`, since `Shapes` rests on one comparison of
clocks, `LiveShape`: the row of a living enrolled run was refreshed less than `StaleAfter` beats ago. Recoveries
within the request and an operator executing any cart are among the steps. No reaping touches a living run's row, and:

* `RunningOnce`: at most one row of the tenant is active, and with `LiveShape` at most one enrolled run lives:
  `OneRunAtATime`;
* `HolderShape`, `AppliedShape`: a cart that is being applied has one holder, which claimed it, and behind a recovery
  that applies its cart every item is done;
* `SealShape`: success is known or reported only of a sealed cart (all items done, its recovery past it, and an
  operator who executes it once more has nothing left to do). `SealStays` shows that no step of anyone breaks
  the seal: an execution skips items that are done, and an enrolment fails only carts that are executing.
  Hence `SuccessIsApplied`;
* `BatchShape`: a batch that has counted no failure has a sealed cart for each target behind it, but for
  the child it runs. Hence `BatchSuccessIsAll`.

`RowSteps`, `PcSteps`, `CartSteps` and `Moves` say what a step may do to a row, a program counter, a cart
and a run; the preservation lemmas use these and not the actions. `BeginsOffRestores` rests on `WorkShape`: a
cart that is being applied reads executing, unless an operator executes once more the cart of a recovery that
ended. That case is excepted in `NotOnTopOfARestore`, and the run `recovery_retried` shows why.

**Only model-checked.** Liveness (`JobKeepsRunning`, `EveryTransitionEnds`, `NoHookRunsForEver`,
`EveryOperationEnds`, `EveryRunEnds`, `SlotsComeBack`, `EveryRowEnds`, `RefusedOnce`): the prover handles
neither fairness nor ENABLED. And two properties of the tenant's files, `FirstRunHoldsWorkloads` and
`SuccessKeepsFiles`. Every other property of a passing run is the statement of a theorem.

## 5. Findings and known divergences

**Finding** (`recovery_retried`, `NeverOnTopOfARestore`). A recovery fails at an item; its task ends failed, and so does its cart.
An operator executes the cart again, as the route's comment and the failure's own notice invite them to.
A recovery asked for meanwhile sees an executing cart whose task has ended, takes it for one whose
process died, and marks it failed under the living execution; the one after that is enrolled, and two
restores are applied to the tenant at once. `exclusive.ts:14-17` says that a cart still executing
refuses the start and that a cart whose recovery ended "can never finish".

**Finding** (`storage_cancel_late`, `NeverDeletesRunning`). A cancel looks at the tenant when its
operation has just ended and has not freed it yet. The run frees the tenant, a second operation is begun and
stops the workloads. Only now the cancel, which was waiting for Jobs to be deleted, starts them from the first
operation's counts, and the second operation deletes the volume under them. `service.ts:2043-2046` says of the run that is cancelled that
"marked failed, it stops - it must not go on to delete a volume under the workloads this cancel is about to start."

**Known divergences.** Each of these was reproduced with TLC on the module named, with the property and
the instance given, and contradicts the text quoted. The properties are kept in the modules; a cfg with
the constants given shows the trace.

| # | what the code does | what the repository says | property, instance |
|---|---|---|---|
| 1 | the renewal timer overwrites `renewing` (`scheduler-lease.ts:445`); an overtaken renewal is awaited by nobody and re-creates a run lock after its release, for one ttl | "A renewal on its way would land after them and undo them." (`scheduler-lease.ts:493`, on why renewals are awaited) | `NoRenewalWritesBack`; run lock, one laggard |
| 2 | `releaseAllSchedulerLeases` reads the jobs in flight once, before it waits (`:347`); a run lock taken meanwhile is deleted under its run | "A graceful shutdown must not hand these to another replica" (`:153-154`) | `ShutdownSparesRunningJobs`; run lock, no laggard |
| 3 | hooks behind a blocking hook that failed stay pending for ever, also after its retry succeeded (`dispatcher.ts:315`) | "Leave remaining rows `pending` so the scheduler can resume after the upstream blocker is fixed." (`dispatcher.ts:316-317`) | `BlockedHooksResume` with `FairSpec`; one suspend, no fault |
| 4 | a process that dies while it inserts the hooks' rows leaves a transition that is completed without the missing hooks (`dispatcher.ts:303`) | "shouldn't happen - pre-inserted above" (same line) | `CompletedHadEveryHook`; one suspend, one fault |
| 5 | the retry tick ends a held-open delete as completed before the tenant is dropped (`scheduler.ts:268`); a process that dies there is not found again | "Its transition is held open until the row is gone" (`interrupted-transitions.ts:16-18`) | `HeldOpenUntilDropped`; one delete, no fault |
| 6 | a bulk action (`bulk.ts:74`) or the expiry check begins a transition without the tenant's lock, beside a pick-up | "a new suspend, or a delete, is never begun beside it" (`interrupted-transitions.ts:225-227`) | `PickUpRunsTheLatest`; two bulk actions, one fault |
| 7 | a cut-back that fails after a run leaves the run's ttl in the row (`scheduler-lease.ts:506`), and the keep-alive, which claims extend-only, does not shorten it (`:293-298`); when the holder then dies between runs the last start-up try is refused | "the keep-alive will" (`:506`); "by when a holder that died between runs has lost the lease" (`:85-89`); "loses the job after at most this long, whatever the job's interval" (`:76-80`) | `DeadHolderHasLapsed`; the instance of `lease_startup` |
| 8 | a cancel reads the tenant once, waits without a lock, and sets it idle whatever it says by then (`service.ts:2106`); an operation begun meanwhile loses its claim, and another is admitted beside it | "the state read here is still the state when the caller writes its own claim" (`service.ts:100-103`) | `IdleIsFree`; two restores from a retained volume, one cancel |
| 9 | a shrink asks for the last time before it writes the size, deletes its bundle off-site and writes `idle` over the failure a cancel wrote meanwhile (`service.ts:1210-1240`); a revert ends without asking (`:1568`) | "A run that is still alive asks before every step [...] marked failed, it stops" (`service.ts:2043-2045`); `op-lock.ts:15-16` | `CancelledStops`; one shrink, one cancel |
| 10 | `fail` ends the run whatever step it is in by then (`machine.ts:123`), on a row read before the pass lock was taken (`scheduler.ts:279`): with two replicas it reports "the services still run the previous release" of a run that moved them | "a failure while preparing nodes stops the run BEFORE the services change" (`machine.ts:20-22`) | `HonestFailure`; the instance of `upgrade` without the Kubernetes step, no fault |
| 11 | two restores from one bundle share a row of the gate and are counted once (`cluster-concurrency.ts:213-216`) | `mailbox-backup-engine.ts:12-13`, on restores and captures sharing the cap | `AdmitsUnderCap` with `Key <- SharedBundle` |
| 12 | a shrink picked up after its old volume was deleted writes `quiescing` over the state that said so (`service.ts:1097`); when that run fails too, the workloads are started without their files | "The workloads are NOT started when the operation left the tenant's volume without its files" (`quiesce-watchdog.ts:167-168`) | `HeldWithoutFiles`; one shrink, `Budget <- CrashOnly` |
| 13 | a cancel clears the hold of workloads it could not start (`service.ts:2103`); a reset that could not start them frees the tenant, and an operation begun then and failing before it has counts clears it (`:2005`) | "Deliberately keep the hold: it is the watchdog's handle." (`quiesce.ts:618`); `service.ts:394-397` | `HoldIsKept`; one shrink, `Budget <- CancelFails`; two shrinks, one reset, three failed steps |
| 14 | a recovery within the request, the route's default (`dr-recover/routes.ts:104-107`), takes no lock, writes no row and asks for no running recovery and no executing cart; recover-all without `background` (`:205-217`) and a migration's import (`migration/service.ts:141`) send it per tenant | "One recovery per tenant, one batch at a time - enforced in the database." (`exclusive.ts:2`); "Two at once would restore over each other." (`:57`) | `OneRecoveryPerTenant`; the instance of `recovery_retried` without trouble |
| 15 | a heartbeat that cannot be written is only logged (`liveness.ts:27`); after three minutes of that a start fails the living run's row and is enrolled beside it | "Longer than any pause a live run makes between writes." (`liveness.ts:16`); "A live run of this tenant refuses the start (409)." (`exclusive.ts:12`) | `OneAtATime`; `MaxMisses = StaleAfter` |
| 16 | a process that dies between the re-pin and its marker (`orchestrate.ts:134-137`) lets the next pass capture again, with the target as the release to go back to | "never re-pin without a way back" (`orchestrate.ts:126`) | `WayBack`; one replica, one crash |

Behaviours the models have that no text of the repository promises otherwise:

* *lease*: a holder killed in a run keeps the job for up to its ttl, not `LEASE_LIVENESS_MS`;
* *transitions*: the retry tick's `completed` is overwritten by the dispatcher's `failed_partial` when
  the retry succeeds first, and nothing lifts it again (`dispatcher.ts:391`, `scheduler.ts:251-252`). A
  delete halted by the system-tenant guard ends `failed_blocking`, and the tenant is dropped all the
  same (`cascades.ts:287`, `hooks/system-tenant-guard.ts:6-14`);
* *storage*: a process that stalls between its question and the step after it acts as the owner it no
  longer is (`Budget` with a stall); a stalled first run that retakes the lock of a dead second one
  captures the empty volume over the good bundle (`Budget` with a retake). With two retakes `NeverStranded`
  fails too: a first run takes the lock back from a second that has started the workloads, scales them down,
  loses the lock to the second, and that one finishes and frees the tenant. A process that dies between
  ending the operation and freeing the tenant leaves it to the operator's cancel;
* *upgrade*: an update Plan applied after a cancel, and a finish Plan applied before its claim, outlive
  their run until the next one replaces them. The rollback is refused in prepare-nodes only, so one asked
  for after the services were claimed and before they were re-pinned undoes the previous upgrade. A pass
  that is capturing when a rollback ends its run still re-pins. An
  abort with a row read in finish leaves the Kubernetes Plans (`real.ts:185`). The marker is cleared
  whatever it says by then (`collect-postflight.ts:239`);
* *gate*: a capture that misses more than three beats is not counted, and one more is admitted; the Jobs
  of a dead process run on uncounted;
* *recovery*: when the write of the cart's id is lost and the process dies, or the owner's row has expired,
  the cart refuses every recovery until it is failed by hand. An operator's restore may begin under a
  recovery already enrolled: the check is made at the start of a recovery only.

## 6. Not modelled

Within the modelled parts: a lock holder that outlives its own lock (the lease and storage modules
have it, `Transitions` assumes it away); a volume claim that lingers in deletion, the time limits on waiting for
it (`service.ts:1362-1366`, `:2665-2666`) and the repeated delete without a question (`claim-release.ts:131-138`):
in the model the claim is gone once its delete is sent; transitions that a storage operation runs inside itself, with
`applyOnceSince` and the owner guard of the pick-up; the circuit breaker, which only delays a retry; rows
written by releases that had no transition lock; hooks that a deploy removed; the check that an archived
tenant is still archived; the online grow, fsck and the restore of an archived tenant (runners of the
shape of the four modelled); the upgrade's pre-flight, maintenance window, abort streak and rescue
contents; the steps of a recovery before its cart and after its restore; the executors of cart items;
log lines, progress texts and notifications.

Whole parts: listed in `PROJECT.json` with the reason. The ones under "Plan" are left for later;
level-triggered reconcilers over Kubernetes objects, the mail server's migration, the panels, the
host agents, scripts and manifests are out of scope because their state is outside the repository or
is not shared between processes.

## 7. Plan

1. **DeliveryQueue** (`notifications/queue`): deliveries against pg-boss jobs, with a worker that dies
   after it marked one as being sent.
2. **ExclusiveRun**: the waiting caller; **HookRegistry**: `topoSortForTransition` as a recursive function
   against a reference definition.
