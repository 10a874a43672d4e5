----------------------------- MODULE StorageOp -----------------------------
(***************************************************************************)
(* The storage operations of one tenant (backend/src/modules/              *)
(* storage-lifecycle: service.ts, op-lock.ts, interrupted-ops.ts,          *)
(* quiesce-watchdog.ts).  An operation stops the tenant's workloads, works *)
(* on the tenant's volume and starts the workloads again, detached from    *)
(* the request that asked for it.  It runs under a lock that its process   *)
(* renews; when the process dies the lock lapses, and the watchdog of      *)
(* another process runs the operation again from the top, or ends it.      *)
(*                                                                         *)
(* Four operations are modelled: "shrink" (runResizeDestructive),          *)
(* "retained" (runRestoreFromRetained), "revert" (runRestoreFromSnapshot)  *)
(* and "archive" (runArchive).  Path lists the steps of each.  A step that *)
(* asks `stillMine` first is two actions: Ask, then the step itself, with  *)
(* the run `hot` in between.  Another actor that comes in between one      *)
(* question and its step is the stall the code leaves open on purpose; it  *)
(* costs one of left.stall.  A step that follows a wait, a remote call or   *)
(* another write without a question is not hot: others come in before it   *)
(* at no cost.                                                             *)
(*                                                                         *)
(* Three others act on the tenant without any lock and in several steps,   *)
(* each a request or a tick of some process (valve): the operator's cancel *)
(* and reset, and the watchdog's sweep for held workloads.  What they do   *)
(* after another operation was begun, and what a run does unasked after    *)
(* its lock or its tenant went to another, is noted as late.               *)
(***************************************************************************)
EXTENDS Integers, Sequences

CONSTANTS
  Procs,       \* API processes; a restarted pod is another process
  NoProc,      \* the holder of a lock whose row does not exist
  MaxOps,      \* operations started on the tenant, one after another
  Kinds,       \* which operations are started
  MaxResumes,  \* OP_MAX_RESUMES
  Budget       \* how often each trouble happens, see TroubleOK

Ops == 1..MaxOps

(* crash: a process dies; fault: a step throws; refuse: the database does  *)
(* not answer a starter; lapse: a living process cannot renew; stall: a    *)
(* process stops between a question and its step; retake: a process whose  *)
(* lock went to another takes it back once that one lapsed; cancel, reset: *)
(* the operator's two valves.                                              *)
Troubles == {"crash", "fault", "refuse", "lapse", "stall", "retake", "cancel", "reset"}

ASSUME StorageAssumption ==
  /\ NoProc \notin Procs
  /\ MaxOps \in Nat \ {0}
  /\ Kinds \subseteq {"shrink", "retained", "revert", "archive"}
  /\ MaxResumes \in Nat
  /\ Budget \in [Troubles -> Nat]

VARIABLES
  op,         \* the rows of storage_operations, with their snapshot row
  tenant,     \* storageLifecycleState and activeStorageOpId (0: none)
  lock,       \* the run lock of each operation
  run,        \* the run of each process of each operation
  claim,      \* the tenant's volume claim
  workloads,  \* up; held (at zero, with the hold and its count); down
              \* (at zero, without); gone (deleted by an archive)
  alive,      \* the processes that have not died
  left,       \* the troubles still to come
  valve,      \* the cancel, reset or sweep that each process is at
  decided     \* what happened: noFiles, a valve started workloads without
              \* their files; notStarted, a valve did not start the workloads
              \* it was to start; late, somebody wrote who is not the owner

vars == <<op, tenant, lock, run, claim, workloads, alive, left, decided, valve>>

Unstarted == [kind |-> "none", state |-> "none", awaiting |-> FALSE, resumes |-> 0,
              counts |-> "none", bundle |-> "none", whole |-> FALSE]
NotRunning == [pc |-> "none", hot |-> FALSE, resumed |-> FALSE, counts |-> "none",
               taken |-> "none", bundle |-> "none", replaced |-> FALSE, hold |-> FALSE]
NoLock  == [holder |-> NoProc, fresh |-> FALSE]
NoClaim == [by |-> -1, files |-> FALSE]
NoValve == [pc |-> "none", op |-> 0, late |-> FALSE]

(* Where a run is: being started, at a step of its runner, or failing (in  *)
(* the runner, or in the watchdog that ends the operation).                *)
Working == {"quiescing", "counts", "scale", "snapshotting", "capture", "noteBundle", "replacing",
            "drop", "delete", "create", "restoring", "restore", "unquiescing", "start", "size",
            "reap", "archiving", "finish"}
Pcs == Working \cup {"none", "starting", "top", "free", "catch", "recover", "mark", "settle", "give",
                     "end", "endSettle", "endGive"}

(* Where a valve is: a cancel from "end", a reset from "restart", a sweep.  *)
ValvePcs == {"none", "end", "start", "clear", "restart", "sweep", "free"}

OpType == [kind : Kinds \cup {"none"},
           state : {"none", "quiescing", "snapshotting", "replacing", "restoring",
                    "unquiescing", "archiving", "idle", "failed"},
           awaiting : BOOLEAN, resumes : 0..MaxResumes, counts : {"none", "up", "zero"},
           bundle : {"none", "full", "empty", "failed", "reaped"}, whole : BOOLEAN]
RunType == [pc : Pcs, hot : BOOLEAN, resumed : BOOLEAN, counts : {"none", "up", "zero"},
            taken : {"none", "full", "empty"}, bundle : {"none", "full", "empty"},
            replaced : BOOLEAN, hold : BOOLEAN]
ValveType == [pc : ValvePcs, op : 0..MaxOps, late : BOOLEAN]

TypeOK ==
  /\ op \in [Ops -> OpType]
  /\ tenant \in [state : {"idle", "busy", "failed"}, active : 0..MaxOps]
  /\ lock \in [Ops -> [holder : Procs \cup {NoProc}, fresh : BOOLEAN]]
  /\ run \in [Procs -> [Ops -> RunType]]
  /\ \A p \in Procs, o \in Ops :
       /\ run[p][o].hot => run[p][o].pc # "none"
       /\ run[p][o].pc # "none" => p \in alive /\ op[o].kind \in Kinds
  /\ claim \in [by : -1..MaxOps, files : BOOLEAN]
  /\ claim.by = -1 => ~claim.files
  /\ workloads \in {"up", "held", "down", "gone"}
  /\ alive \subseteq Procs
  /\ left \in [Troubles -> Nat]
  /\ decided \subseteq {"noFiles", "notStarted", "late"}
  /\ valve \in [Procs -> ValveType]
  /\ \A p \in Procs : valve[p].pc # "none" => p \in alive

Init ==
  /\ op = [o \in Ops |-> Unstarted]
  /\ tenant = [state |-> "idle", active |-> 0]
  /\ lock = [o \in Ops |-> NoLock]
  /\ run = [p \in Procs |-> [o \in Ops |-> NotRunning]]
  /\ claim = [by |-> 0, files |-> TRUE]
  /\ workloads = "up"
  /\ alive = Procs
  /\ left = Budget
  /\ decided = {}
  /\ valve = [p \in Procs |-> NoValve]

Spend(trouble) ==
  /\ left[trouble] > 0
  /\ left' = [left EXCEPT ![trouble] = @ - 1]

(* Another actor takes or ends operation o: between a question of its run  *)
(* and the step after it only if that run stalls there.                    *)
Hot(o) == \E p \in Procs : run[p][o].hot
StalledIfHot(o, lft) ==
  /\ Hot(o) => lft["stall"] > 0
  /\ left' = IF Hot(o) THEN [lft EXCEPT !["stall"] = @ - 1] ELSE lft

Ended(o) == op[o].state \in {"idle", "failed"}
InFlight(o) == op[o].state \notin {"none", "idle", "failed"}

(* A later operation was begun on the tenant.                              *)
Overtaken(o) == \E q \in Ops : q > o /\ op[q] # Unstarted

Note(what, happened) == decided' = IF happened THEN decided \cup {what} ELSE decided

(* A run writes, unasked, what is not its own any more.                    *)
NoteLate(p, o) == Note("late", lock[o].holder # p \/ Overtaken(o))

-----------------------------------------------------------------------------
(* The steps of each runner.                                               *)

(* runResizeDestructive                                                    *)
ShrinkPath ==
  <<"quiescing", "counts", "scale", "snapshotting", "capture", "noteBundle", "replacing", "delete",
    "create", "restoring", "restore", "unquiescing", "start", "size", "reap", "finish", "free">>

(* runRestoreFromRetained                                                  *)
RetainedPath ==
  <<"quiescing", "counts", "scale", "restoring", "replacing", "delete", "create", "size",
    "unquiescing", "start", "finish", "free">>

(* runRestoreFromSnapshot                                                  *)
RevertPath ==
  <<"quiescing", "counts", "scale", "restoring", "unquiescing", "start", "finish", "free">>

(* runArchive                                                              *)
ArchivePath ==
  <<"quiescing", "counts", "scale", "snapshotting", "capture", "noteBundle", "replacing", "drop",
    "delete", "archiving", "finish", "free">>

Path == [shrink |-> ShrinkPath, retained |-> RetainedPath, revert |-> RevertPath,
         archive |-> ArchivePath]

Then(k, pc) == LET i == CHOOSE n \in DOMAIN Path[k] : Path[k][n] = pc IN Path[k][i + 1]

(* The steps that write the operation's state (`progress`).                *)
ProgressSteps == {"quiescing", "snapshotting", "replacing", "restoring", "unquiescing", "archiving"}

(* The steps before which the runner asks whether the operation is its own.*)
Asked(k) == ProgressSteps \cup
  (CASE k = "shrink"   -> {"noteBundle", "delete", "create", "size"}
     [] k = "retained" -> {"size", "finish"}
     [] k = "archive"  -> {"noteBundle", "delete", "finish"}
     [] OTHER          -> {})

(* The steps that follow the one before them at once, with no question.    *)
AtOnce(k) == {"counts", "scale", "restore", "start", "drop"}
             \cup (IF k = "retained" THEN {"delete"} ELSE {})

(* Mutant: the name on the lock alone.                                     *)
MineByName(p, o) == lock[o].holder = p

(* operationIsMine: the lock carries the name, and the operation goes on.  *)
Mine(p, o) == lock[o].holder = p /\ InFlight(o)

Goto(p, o, pc) ==
  run' = [run EXCEPT ![p][o].pc = pc, ![p][o].hot = pc \in AtOnce(op[o].kind)]
Advance(p, o) == Goto(p, o, Then(op[o].kind, run[p][o].pc))

(* The run returns: its lock is deleted if it is still its own.            *)
Leave(p, o) ==
  /\ run' = [run EXCEPT ![p][o] = NotRunning]
  /\ lock' = IF lock[o].holder = p THEN [lock EXCEPT ![o] = NoLock] ELSE lock

(* Mutant: before the delete, an operation that goes on is taken for the   *)
(* process's own, whoever its lock names.                                  *)
AskByState(p, o) ==
  /\ run[p][o].pc \in Asked(op[o].kind)
  /\ ~run[p][o].hot
  /\ IF Mine(p, o) \/ (run[p][o].pc = "delete" /\ InFlight(o))
     THEN run' = [run EXCEPT ![p][o].hot = TRUE] /\ UNCHANGED lock
     ELSE Leave(p, o)
  /\ UNCHANGED <<op, tenant, claim, workloads, alive, left, decided, valve>>

(* stillMine: an answer no stops the run where it is, touching nothing.    *)
Ask(p, o) ==
  /\ run[p][o].pc \in Asked(op[o].kind)
  /\ ~run[p][o].hot
  /\ IF Mine(p, o)
     THEN run' = [run EXCEPT ![p][o].hot = TRUE] /\ UNCHANGED lock
     ELSE Leave(p, o)
  /\ UNCHANGED <<op, tenant, claim, workloads, alive, left, decided, valve>>

At(p, o, pc) ==
  /\ run[p][o].pc = pc
  /\ run[p][o].hot \/ pc \notin Asked(op[o].kind)

-----------------------------------------------------------------------------
(* Starting an operation.                                                  *)

FirstState(k) == IF k = "shrink" THEN "snapshotting" ELSE "quiescing"

(* mustBeIdle and the claim, in one transaction under the tenant's lock.   *)
Begin(p, o, k) ==
  /\ p \in alive
  /\ tenant.state = "idle"
  /\ workloads # "gone"
  /\ op[o] = Unstarted
  /\ \A q \in Ops : q < o => op[q] # Unstarted
  /\ op' = [op EXCEPT ![o] = [Unstarted EXCEPT !.kind = k, !.state = FirstState(k),
                                               !.awaiting = TRUE, !.whole = claim.files]]
  /\ tenant' = [state |-> "busy", active |-> o]
  /\ run' = [run EXCEPT ![p][o].pc = "starting"]
  /\ valve' = [q \in Procs |-> [valve[q] EXCEPT !.late = valve[q].pc # "none"]]
  /\ UNCHANGED <<lock, claim, workloads, alive, left, decided>>

(* beginOp, launchOp: the lock, then AWAITING_LOCK cleared under it.       *)
StartRun(p, o) ==
  /\ run[p][o].pc = "starting"
  /\ ~lock[o].fresh
  /\ lock' = [lock EXCEPT ![o] = [holder |-> p, fresh |-> TRUE]]
  /\ op' = [op EXCEPT ![o].awaiting = FALSE]
  /\ run' = [run EXCEPT ![p][o].pc = "top"]
  /\ UNCHANGED <<tenant, claim, workloads, alive, left, decided, valve>>

(* withdrawUnstartedOp                                                     *)
Withdraw(o) ==
  /\ op' = [op EXCEPT ![o].state = "failed",
                      ![o].bundle = IF @ = "none" THEN "failed" ELSE @]
  /\ tenant' = IF tenant.active = o THEN [state |-> "idle", active |-> 0] ELSE tenant

(* The lock could not be taken: the claim is withdrawn, or that fails too. *)
StartRefused(p, o) ==
  /\ run[p][o].pc = "starting"
  /\ Spend("refuse")
  /\ run' = [run EXCEPT ![p][o] = NotRunning]
  /\ \/ InFlight(o) /\ op[o].awaiting /\ Withdraw(o)
     \/ UNCHANGED <<op, tenant>>
  /\ UNCHANGED <<lock, claim, workloads, alive, decided, valve>>

-----------------------------------------------------------------------------
(* The run.                                                                *)

CutOffWhileUnquiescing(p, o) ==
  /\ run[p][o].resumed
  /\ op[o].kind # "archive"
  /\ op[o].state = "unquiescing"

(* What a run reads first.  One picked up takes the bundle of the snapshot *)
(* row, and goes straight to the workloads if only those were left.        *)
Top(p, o) ==
  LET bundle == IF run[p][o].resumed /\ op[o].bundle \in {"full", "empty"}
                THEN op[o].bundle ELSE "none"
      next == IF ~CutOffWhileUnquiescing(p, o) THEN "quiescing"
              ELSE IF op[o].counts = "none" THEN "catch" ELSE "unquiescing"
  IN /\ run[p][o].pc = "top"
     /\ run' = [run EXCEPT ![p][o].pc = next, ![p][o].bundle = bundle,
                           ![p][o].counts = IF next = "unquiescing" THEN op[o].counts ELSE @]
     /\ UNCHANGED <<op, tenant, lock, claim, workloads, alive, left, decided, valve>>

(* Mutant: a volume that is the new one already is taken to hold the files.*)
AfterProgressNoRestore(p, o) ==
  IF op[o].kind = "shrink" /\ run[p][o].pc = "replacing" /\ run[p][o].replaced
  THEN "unquiescing" ELSE Then(op[o].kind, run[p][o].pc)

(* A shrink that finds the smaller volume there does not replace it again. *)
AfterProgress(p, o) ==
  IF op[o].kind = "shrink" /\ run[p][o].pc = "replacing" /\ run[p][o].replaced
  THEN "restoring" ELSE Then(op[o].kind, run[p][o].pc)

(* progress(state): the operation's row and, but for an archive, the tenant *)
(* that points at it.                                                       *)
Progress(p, o) ==
  LET pc == run[p][o].pc
  IN /\ pc \in ProgressSteps
     /\ At(p, o, pc)
     /\ op' = [op EXCEPT ![o].state = pc]
     /\ tenant' = IF tenant.active = o /\ op[o].kind # "archive"
                  THEN [tenant EXCEPT !.state = "busy"] ELSE tenant
     /\ Goto(p, o, AfterProgress(p, o))
     /\ UNCHANGED <<lock, claim, workloads, alive, left, decided, valve>>

Live == IF workloads = "up" THEN "up" ELSE "zero"

(* Mutant: the counts stay in the memory of the process.                   *)
WriteCountsLocally(p, o) ==
  /\ At(p, o, "counts")
  /\ run' = [run EXCEPT ![p][o].pc = "scale", ![p][o].counts = Live]
  /\ UNCHANGED <<op, tenant, lock, claim, workloads, alive, left, decided, valve>>

(* quiesceForOp, quiesce: the replica counts are written before anything   *)
(* is scaled; a run picked up keeps the counts written the first time.     *)
WriteCounts(p, o) ==
  LET written == run[p][o].resumed /\ op[o].counts # "none"
      counts == IF written THEN op[o].counts ELSE Live
  IN /\ At(p, o, "counts")
     /\ op' = [op EXCEPT ![o].counts = counts]
     /\ run' = [run EXCEPT ![p][o].pc = "scale", ![p][o].counts = counts]
     /\ UNCHANGED <<tenant, lock, claim, workloads, alive, left, decided, valve>>

(* Scaled to zero and waited for; then the claim is read and the way       *)
(* through the rest is chosen.                                             *)
AfterQuiesce(p, o) ==
  LET r == run[p][o]
      swapped == r.resumed /\ claim.by = o
      bundled == op[o].kind \in {"shrink", "archive"} /\ r.bundle # "none"
      noWay == op[o].kind = "shrink" /\ r.resumed /\ (claim = NoClaim \/ swapped)
  IN CASE bundled -> "replacing"
       [] ~bundled /\ noWay -> "catch"
       [] op[o].kind = "retained" /\ swapped -> "size"
       [] OTHER -> Then(op[o].kind, "scale")

ScaleDown(p, o) ==
  /\ At(p, o, "scale")
  /\ workloads' = IF workloads = "up" THEN "held" ELSE workloads
  /\ run' = [run EXCEPT ![p][o].pc = AfterQuiesce(p, o), ![p][o].hot = FALSE,
                        ![p][o].replaced = run[p][o].resumed /\ claim.by = o]
  /\ UNCHANGED <<op, tenant, lock, claim, alive, left, decided, valve>>

(* captureFilesOnlyBundle, captureArchiveBundle: what the claim holds now. *)
Capture(p, o) ==
  /\ At(p, o, "capture")
  /\ run' = [run EXCEPT ![p][o].pc = IF claim = NoClaim THEN "catch" ELSE "noteBundle",
                        ![p][o].taken = IF claim.files THEN "full" ELSE "empty"]
  /\ UNCHANGED <<op, tenant, lock, claim, workloads, alive, left, decided, valve>>

(* The bundle is known to this process, and on the snapshot row.           *)
NoteBundle(p, o) ==
  /\ At(p, o, "noteBundle")
  /\ op' = [op EXCEPT ![o].bundle = run[p][o].taken]
  /\ run' = [run EXCEPT ![p][o].pc = "replacing", ![p][o].hot = FALSE,
                        ![p][o].bundle = run[p][o].taken]
  /\ UNCHANGED <<tenant, lock, claim, workloads, alive, left, decided, valve>>

(* deleteAllDeploymentsCronJobsServices                                    *)
DropWorkloads(p, o) ==
  /\ At(p, o, "drop")
  /\ workloads' = "gone"
  /\ Advance(p, o)
  /\ UNCHANGED <<op, tenant, lock, claim, alive, left, decided, valve>>

(* deleteClaimOrThrow.  The claim goes at once: not modelled are one that  *)
(* lingers, and that the wait deletes again, without a question, a claim   *)
(* of the name made meanwhile.                                             *)
DeleteClaim(p, o) ==
  /\ At(p, o, "delete")
  /\ claim' = NoClaim
  /\ Advance(p, o)
  /\ UNCHANGED <<op, tenant, lock, workloads, alive, left, decided, valve>>

(* applyPVCMib (an existing claim is kept) and the create at the end of    *)
(* rebindPvcToRetainedVolume (an existing claim is an error).              *)
CreateClaim(p, o) ==
  LET retained == op[o].kind = "retained"
  IN /\ At(p, o, "create")
     /\ claim' = IF claim = NoClaim THEN [by |-> o, files |-> retained] ELSE claim
     /\ Goto(p, o, IF retained /\ claim # NoClaim THEN "catch" ELSE Then(op[o].kind, "create"))
     /\ IF retained THEN NoteLate(p, o) ELSE UNCHANGED decided
     /\ UNCHANGED <<op, tenant, lock, workloads, alive, left, valve>>

(* restoreFilesBundleIntoPvc: the bundle is laid over what is there.       *)
RestoreFiles(p, o) ==
  /\ At(p, o, "restore")
  /\ IF claim = NoClaim
     THEN Goto(p, o, "catch") /\ UNCHANGED claim
     ELSE /\ claim' = [claim EXCEPT !.files = @ \/ run[p][o].bundle = "full"]
          /\ Advance(p, o)
  /\ UNCHANGED <<op, tenant, lock, workloads, alive, left, decided, valve>>

(* The new size is written on the tenant's row.                            *)
WriteSize(p, o) ==
  /\ At(p, o, "size")
  /\ Advance(p, o)
  /\ UNCHANGED <<op, tenant, lock, claim, workloads, alive, left, decided, valve>>

(* unquiesce from written counts; a count of zero gives way to the one the *)
(* hold carries.  Without counts only the hold is cleared.                 *)
Unquiesce(counts) ==
  IF workloads \in {"gone", "up"} THEN workloads
  ELSE IF counts = "up" \/ (counts = "zero" /\ workloads = "held") THEN "up" ELSE "down"

StartWorkloads(p, o) ==
  /\ At(p, o, "start")
  /\ workloads' = Unquiesce(run[p][o].counts)
  /\ Advance(p, o)
  /\ UNCHANGED <<op, tenant, lock, claim, alive, left, decided, valve>>

(* reapPreResizeBundle, and the snapshot row: remote, and not asked for.   *)
ReapBundle(p, o) ==
  /\ At(p, o, "reap")
  /\ op' = [op EXCEPT ![o].bundle = "reaped"]
  /\ Advance(p, o)
  /\ UNCHANGED <<tenant, lock, claim, workloads, alive, left, decided, valve>>

(* The operation is done, whatever its row says: a retained restore and an *)
(* archive ask first, a shrink and a revert do not ...                     *)
Finish(p, o) ==
  /\ At(p, o, "finish")
  /\ op' = [op EXCEPT ![o].state = "idle"]
  /\ Goto(p, o, "free")
  /\ IF run[p][o].hot THEN UNCHANGED left ELSE StalledIfHot(o, left)
  /\ NoteLate(p, o)
  /\ UNCHANGED <<tenant, lock, claim, workloads, alive, valve>>

(* ... and the tenant freed (markTenantState), whatever it points at.      *)
FreeTenant(p, o) ==
  /\ At(p, o, "free")
  /\ tenant' = [state |-> "idle", active |-> 0]
  /\ Leave(p, o)
  /\ NoteLate(p, o)
  /\ UNCHANGED <<op, claim, workloads, alive, left, valve>>

-----------------------------------------------------------------------------
(* Failing.                                                                *)

(* Any step may throw before it does anything.                             *)
Throw(p, o) ==
  /\ run[p][o].pc \in Working
  /\ run[p][o].hot \/ run[p][o].pc \notin Asked(op[o].kind)
  /\ Spend("fault")
  /\ run' = [run EXCEPT ![p][o].pc = "catch", ![p][o].hot = FALSE]
  /\ UNCHANGED <<op, tenant, lock, claim, workloads, alive, decided, valve>>

(* failureIsMine                                                           *)
Catch(p, o) ==
  /\ run[p][o].pc = "catch"
  /\ IF Mine(p, o)
     THEN /\ run' = [run EXCEPT ![p][o].pc = IF op[o].kind = "revert" THEN "recover" ELSE "mark",
                                ![p][o].hot = TRUE]
          /\ UNCHANGED lock
     ELSE Leave(p, o)
  /\ UNCHANGED <<op, tenant, claim, workloads, alive, left, decided, valve>>

(* Mutant: a shrink holds its workloads only until the new claim is made.  *)
StayStoppedUntilClaim(o) == op[o].state = "replacing" /\ claim = NoClaim

(* whyWorkloadsStayStopped, from the state the row says it stopped in.     *)
WorkloadsStayStopped(o) ==
  \/ /\ op[o].kind = "shrink"
     /\ op[o].state \in {"replacing", "restoring"}
     /\ claim = NoClaim \/ claim.by = o
  \/ /\ op[o].kind = "retained"
     /\ op[o].state = "replacing"
     /\ claim = NoClaim

(* unquiesceBestEffort for a run: the counts it knows, or the row's.  When *)
(* the workloads cannot be started they keep the hold.                     *)
Recounted(p, o) == IF run[p][o].counts # "none" THEN run[p][o].counts ELSE op[o].counts
StartAgain(p, o) ==
  \/ workloads' = Unquiesce(Recounted(p, o)) /\ UNCHANGED left
  \/ UNCHANGED workloads /\ Spend("fault")

(* A revert starts its workloads before it says that it failed.            *)
Recover(p, o) ==
  /\ run[p][o].pc = "recover"
  /\ StartAgain(p, o)
  /\ run' = [run EXCEPT ![p][o].pc = "mark", ![p][o].hot = FALSE]
  /\ NoteLate(p, o)
  /\ UNCHANGED <<op, tenant, lock, claim, alive, valve>>

(* The operation is marked failed and its snapshot row settled.  A run     *)
(* ("mark") keeps the bundle it knows of, the watchdog ("end") fails a row *)
(* that waits for its capture.                                             *)
MarkFailed(p, o) ==
  LET r == run[p][o]
      settled == IF r.pc = "end"
                 THEN IF op[o].bundle = "none" THEN "failed" ELSE op[o].bundle
                 ELSE IF r.bundle # "none" THEN r.bundle ELSE "failed"
      next == IF r.pc = "end" THEN "endSettle" ELSE IF op[o].kind = "revert" THEN "give" ELSE "settle"
  IN /\ r.pc \in {"mark", "end"}
     /\ op' = [op EXCEPT ![o].state = "failed",
                         ![o].bundle = IF op[o].kind \in {"shrink", "archive"} THEN settled ELSE @]
     /\ run' = [run EXCEPT ![p][o].hold = WorkloadsStayStopped(o), ![p][o].pc = next, ![p][o].hot = FALSE]
     /\ IF r.hot THEN UNCHANGED left ELSE StalledIfHot(o, left)
     /\ UNCHANGED <<tenant, lock, claim, workloads, alive, decided, valve>>

(* The workloads are started again, unless their volume lacks the files ...*)
Settle(p, o) ==
  LET r == run[p][o]
  IN /\ r.pc \in {"settle", "endSettle"}
     /\ IF r.hold THEN UNCHANGED <<workloads, left, decided>> ELSE StartAgain(p, o) /\ NoteLate(p, o)
     /\ run' = [run EXCEPT ![p][o].pc = IF r.pc = "settle" THEN "give" ELSE "endGive"]
     /\ UNCHANGED <<op, tenant, lock, claim, alive, valve>>

(* ... and the tenant is failed: if it points at the operation             *)
(* (settleTenantAfterFailure), or whatever it points at (the runners of a  *)
(* revert and an archive).                                                 *)
GiveBack(p, o) ==
  LET r == run[p][o]
      any == r.pc = "give" /\ op[o].kind \in {"revert", "archive"}
  IN /\ r.pc \in {"give", "endGive"}
     /\ tenant' = IF tenant.active # o /\ ~any THEN tenant
                  ELSE [state |-> "failed", active |-> IF r.hold THEN o ELSE 0]
     /\ Leave(p, o)
     /\ IF any THEN NoteLate(p, o) ELSE UNCHANGED decided
     /\ UNCHANGED <<op, claim, workloads, alive, left, valve>>

-----------------------------------------------------------------------------
(* The watchdog.                                                           *)

Take(p, o) == lock' = [lock EXCEPT ![o] = [holder |-> p, fresh |-> TRUE]]

(* Mutant: only operations that ever had a lock are looked for.            *)
InterruptedWithLock(o) ==
  InFlight(o) /\ tenant.active = o /\ ~lock[o].fresh /\ lock[o] # NoLock

(* findInterruptedOperations: the tenant's operation, not ended, its lock  *)
(* lapsed or absent.  An operation without a lock is left alone for        *)
(* minutes, far longer than its starter takes.                             *)
Interrupted(o) ==
  /\ InFlight(o)
  /\ tenant.active = o
  /\ ~lock[o].fresh
  /\ lock[o] = NoLock => \A q \in alive : run[q][o].pc # "starting"

(* Mutant: one pick-up too many.                                           *)
SpentOneLate(o) == op[o].resumes > MaxResumes

Spent(o) == op[o].resumes >= MaxResumes

(* resumeOperation: withdrawn when it never began, ended when spent, run   *)
(* again otherwise.                                                        *)
PickUp(p, o) ==
  /\ p \in alive
  /\ Interrupted(o)
  /\ run[p][o].pc = "none"
  /\ \/ /\ op[o].awaiting
        /\ Withdraw(o)
        /\ StalledIfHot(o, left)
        /\ UNCHANGED <<run, lock>>
     \/ /\ ~op[o].awaiting
        /\ Spent(o)
        /\ Take(p, o)
        /\ StalledIfHot(o, left)
        /\ run' = [run EXCEPT ![p][o].pc = "end", ![p][o].hot = TRUE]
        /\ UNCHANGED <<op, tenant>>
     \/ /\ ~op[o].awaiting
        /\ ~Spent(o)
        /\ Take(p, o)
        /\ StalledIfHot(o, left)
        /\ op' = [op EXCEPT ![o].resumes = @ + 1]
        /\ run' = [run EXCEPT ![p][o].pc = "top", ![p][o].resumed = TRUE]
        /\ UNCHANGED tenant
  /\ UNCHANGED <<claim, workloads, alive, decided, valve>>

(* sweepAbandonedQuiesce, leg A: an operation that is old is ended under   *)
(* its lock, whatever the tenant points at.  Its age is left open.         *)
EndStale(p, o) ==
  /\ p \in alive
  /\ InFlight(o)
  /\ ~lock[o].fresh
  /\ \A q \in alive : run[q][o].pc # "starting"
  /\ run[p][o].pc = "none"
  /\ Take(p, o)
  /\ StalledIfHot(o, left)
  /\ run' = [run EXCEPT ![p][o].pc = "end", ![p][o].hot = TRUE]
  /\ UNCHANGED <<op, tenant, claim, workloads, alive, decided, valve>>

-----------------------------------------------------------------------------
(* The valves: they read, wait and write, and take no lock.                *)

Counts(o) == IF o = 0 THEN "none" ELSE op[o].counts

(* A request or a tick begins with what it reads.                          *)
Look(p, pc, o) ==
  /\ p \in alive
  /\ valve[p].pc = "none"
  /\ valve' = [valve EXCEPT ![p] = [pc |-> pc, op |-> o, late |-> FALSE]]

To(p, pc) == valve' = [valve EXCEPT ![p].pc = pc]
Done(p) == valve' = [valve EXCEPT ![p] = NoValve]

(* What a valve did; the cancel and the reset are the operator's.          *)
NoteValve(p, unstarted, operators) ==
  decided' = decided \cup (IF unstarted THEN {"notStarted"} ELSE {})
                     \cup (IF operators /\ ~claim.files THEN {"noFiles"} ELSE {})
                     \cup (IF valve[p].late THEN {"late"} ELSE {})

(* cancelStorageOperation: the operation is ended first ...                *)
CancelLook(p) ==
  /\ tenant.state # "idle"
  /\ Look(p, "end", tenant.active)
  /\ Spend("cancel")
  /\ UNCHANGED <<op, tenant, lock, run, claim, workloads, alive, decided>>

CancelEnd(p) ==
  LET o == valve[p].op
      ends == o # 0 /\ InFlight(o)
  IN /\ valve[p].pc = "end"
     /\ op' = IF ends THEN [op EXCEPT ![o].state = "failed"] ELSE op
     /\ IF ends THEN StalledIfHot(o, left) ELSE UNCHANGED left
     /\ To(p, "start")
     /\ UNCHANGED <<tenant, lock, run, claim, workloads, alive, decided>>

(* ... then its workloads are started from the counts on its row, if there *)
(* are any and if they start ...                                           *)
CancelStart(p) ==
  LET counts == Counts(valve[p].op)
  IN /\ valve[p].pc = "start"
     /\ To(p, "clear")
     /\ \/ /\ workloads' = IF counts = "none" THEN workloads ELSE Unquiesce(counts)
           /\ NoteValve(p, FALSE, TRUE)
           /\ UNCHANGED left
        \/ /\ counts # "none"
           /\ Spend("fault")
           /\ NoteValve(p, TRUE, TRUE)
           /\ UNCHANGED workloads
     /\ UNCHANGED <<op, tenant, lock, run, claim, alive>>

(* ... the hold is cleared whether they started or not ...                 *)
CancelClear(p) ==
  /\ valve[p].pc = "clear"
  /\ To(p, "free")
  /\ workloads' = IF workloads = "held" THEN "down" ELSE workloads
  /\ NoteValve(p, workloads = "held", TRUE)
  /\ UNCHANGED <<op, tenant, lock, run, claim, alive, left>>

(* ... and the tenant is freed, whatever it points at by then.             *)
ValveFree(p) ==
  /\ valve[p].pc = "free"
  /\ Done(p)
  /\ tenant' = [state |-> "idle", active |-> 0]
  /\ NoteValve(p, FALSE, FALSE)
  /\ UNCHANGED <<op, lock, run, claim, workloads, alive, left>>

(* unquiesceBestEffort for the reset and the sweep: from the counts of the *)
(* row, without counts the hold is only cleared; a failure keeps it.       *)
BestEffort(p, operators) ==
  \/ /\ workloads' = Unquiesce(Counts(valve[p].op))
     /\ NoteValve(p, FALSE, operators)
     /\ UNCHANGED left
  \/ /\ Spend("fault")
     /\ NoteValve(p, operators, operators)
     /\ UNCHANGED workloads

(* clearFailedStorageState (Reset to idle): the workloads of the operation *)
(* that failed last, then the tenant, whether they started or not.         *)
ResetLook(p) ==
  /\ tenant.state = "failed"
  /\ \E o \in 0..MaxOps :
       /\ o # 0 => op[o].state = "failed"
       /\ \A q \in Ops : q > o => op[q].state # "failed"
       /\ Look(p, "restart", o)
  /\ Spend("reset")
  /\ UNCHANGED <<op, tenant, lock, run, claim, workloads, alive, decided>>

ResetStart(p) ==
  /\ valve[p].pc = "restart"
  /\ BestEffort(p, TRUE)
  /\ To(p, "free")
  /\ UNCHANGED <<op, tenant, lock, run, claim, alive>>

(* sweepAbandonedQuiesce, leg B: workloads held at zero that no operation  *)
(* owns are started from the counts of the latest one.  One process sweeps *)
(* at a time.                                                              *)
SweepLook(p) ==
  /\ workloads = "held"
  /\ tenant.active = 0
  /\ tenant.state \in {"idle", "failed"}
  /\ \A q \in Procs : valve[q].pc # "sweep"
  /\ \E o \in Ops :
       /\ op[o] # Unstarted
       /\ ~Overtaken(o)
       /\ Look(p, "sweep", o)
  /\ UNCHANGED <<op, tenant, lock, run, claim, workloads, alive, left, decided>>

SweepStart(p) ==
  /\ valve[p].pc = "sweep"
  /\ BestEffort(p, FALSE)
  /\ Done(p)
  /\ UNCHANGED <<op, tenant, lock, run, claim, alive>>

-----------------------------------------------------------------------------
(* The lock and the processes.                                             *)

(* A lock whose holder is dead, or is not running the operation any more,  *)
(* lapses; a living holder's lapses when it cannot renew.                  *)
Lapse(o) ==
  LET h == lock[o].holder
      living == h \in alive /\ run[h][o].pc # "none"
  IN /\ lock[o].fresh
     /\ lock' = [lock EXCEPT ![o].fresh = FALSE]
     /\ IF living THEN Spend("lapse") ELSE UNCHANGED left
     /\ UNCHANGED <<op, tenant, run, claim, workloads, alive, decided, valve>>

(* The renewal timer of a run goes on until the run returns; it claims a   *)
(* lock that has lapsed or is gone, its own or another's.                  *)
Renew(p, o) ==
  /\ run[p][o].pc \notin {"none", "starting"}
  /\ ~lock[o].fresh
  /\ Take(p, o)
  /\ IF lock[o].holder = p THEN UNCHANGED left
     ELSE /\ left["retake"] > 0
          /\ StalledIfHot(o, [left EXCEPT !["retake"] = @ - 1])
  /\ UNCHANGED <<op, tenant, run, claim, workloads, alive, decided, valve>>

Crash(p) ==
  /\ p \in alive
  /\ Spend("crash")
  /\ alive' = alive \ {p}
  /\ run' = [run EXCEPT ![p] = [o \in Ops |-> NotRunning]]
  /\ valve' = [valve EXCEPT ![p] = NoValve]
  /\ UNCHANGED <<op, tenant, lock, claim, workloads, decided>>

Step(p, o) ==
  \/ StartRun(p, o) \/ Top(p, o) \/ Ask(p, o) \/ Progress(p, o)
  \/ WriteCounts(p, o) \/ ScaleDown(p, o) \/ Capture(p, o) \/ NoteBundle(p, o)
  \/ DropWorkloads(p, o) \/ DeleteClaim(p, o) \/ CreateClaim(p, o)
  \/ RestoreFiles(p, o) \/ WriteSize(p, o) \/ StartWorkloads(p, o)
  \/ ReapBundle(p, o) \/ Finish(p, o) \/ FreeTenant(p, o)
  \/ Catch(p, o) \/ Recover(p, o) \/ MarkFailed(p, o) \/ Settle(p, o) \/ GiveBack(p, o)

ValveStep(p) ==
  \/ CancelEnd(p) \/ CancelStart(p) \/ CancelClear(p) \/ ResetStart(p) \/ SweepStart(p)
  \/ ValveFree(p)

Next ==
  \/ \E p \in Procs, o \in Ops :
       \/ \E k \in Kinds : Begin(p, o, k)
       \/ StartRefused(p, o)
       \/ Step(p, o)
       \/ Throw(p, o)
       \/ PickUp(p, o)
       \/ EndStale(p, o)
       \/ Renew(p, o)
  \/ \E p \in Procs : Crash(p) \/ CancelLook(p) \/ ResetLook(p) \/ SweepLook(p) \/ ValveStep(p)
  \/ \E o \in Ops : Lapse(o)

Spec == Init /\ [][Next]_vars

(* Every step of a run waits with a timeout; a lock nobody renews lapses;  *)
(* the watchdog of every living process ticks.  Nothing is assumed of the  *)
(* operator, nor of the sweep for old operations.                          *)
Fairness ==
  /\ \A p \in Procs, o \in Ops : WF_vars(Step(p, o))
  /\ \A o \in Ops : WF_vars(Lapse(o) /\ UNCHANGED left)
  /\ \A o \in Ops : WF_vars(\E p \in Procs : PickUp(p, o))

FairSpec == Spec /\ Fairness

-----------------------------------------------------------------------------
(* Properties.                                                             *)

Late == "late" \in decided

(* An operation that reports success kept the files it began with: they   *)
(* are on the tenant's volume, or for an archive in its bundle, however   *)
(* often the run died, failed, was picked up or lost its lock on the way, *)
(* unless somebody wrote late.                                            *)
SuccessKeepsFiles ==
  [][\A o \in Ops :
       (op[o].whole /\ op[o].state # "idle" /\ op'[o].state = "idle") =>
         \/ IF op[o].kind = "archive" THEN op'[o].bundle = "full" ELSE claim'.files
         \/ Late']_vars

(* Workloads run on a volume that does not hold the tenant's files only   *)
(* by an operator's decision or a late write, unless the operation was    *)
(* picked up: then see HeldWithoutFiles.                                  *)
FirstRunHoldsWorkloads ==
  (workloads = "up" /\ ~claim.files) =>
    "noFiles" \in decided \/ Late \/ \E o \in Ops : op[o].resumes > 0

(* "The workloads are NOT started when the operation left the tenant's    *)
(* volume without its files."                                             *)
HeldWithoutFiles ==
  (workloads = "up" /\ ~claim.files) => "noFiles" \in decided

(* Workloads at zero always carry the hold that every recovery reads,     *)
(* unless a cancel or a reset did not start them, or somebody wrote late. *)
NeverStranded == workloads = "down" => "notStarted" \in decided \/ Late

(* "Deliberately keep the hold: it is the watchdog's handle."             *)
HoldIsKept == workloads # "down"

(* Two operations are never in flight on one tenant: an operation that is *)
(* in flight is the one the tenant points at, unless somebody wrote late. *)
OneOperation == \A o \in Ops : InFlight(o) => tenant.active = o \/ Late

(* "Refuse when an operation already owns the tenant": the tenant is idle *)
(* only when no operation is in flight.                                   *)
IdleIsFree == tenant.state = "idle" => \A o \in Ops : ~InFlight(o)

(* "marked failed, it stops": an operation that a cancel has ended is not *)
(* reported as a success by its run.                                      *)
CancelledStops ==
  [][\A o \in Ops : op[o].state = "failed" => op'[o].state = "failed"]_vars

(* The tenant's volume is deleted only while its workloads are stopped,   *)
(* unless somebody wrote late.                                            *)
DeletesStopped ==
  [][(claim # NoClaim /\ claim' = NoClaim) => workloads # "up" \/ Late]_vars

(* "it must not go on to delete a volume under the workloads this cancel  *)
(* is about to start"                                                     *)
NeverDeletesRunning ==
  [][(claim # NoClaim /\ claim' = NoClaim) => workloads # "up"]_vars

(* Every operation ends, although its starter, its runs and their locks   *)
(* die on it.                                                             *)
EveryOperationEnds == \A o \in Ops : []<>~InFlight(o)
=============================================================================
