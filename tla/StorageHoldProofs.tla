------------------------- MODULE StorageHoldProofs -------------------------
(***************************************************************************)
(* Proofs about the workloads that StorageOp stops and starts: workloads   *)
(* at zero keep their hold (NeverStranded), and a volume is deleted only   *)
(* while they are stopped (DeletesStopped).  Both hold for every number of *)
(* processes and operations and every budget of deaths, faults, refusals,  *)
(* lapses, cancels and resets, when no process stops between a question    *)
(* and its step (Calm) and none takes back a lock that went to another     *)
(* (NoTakeBack), and as long as nobody has written late.                   *)
(*                                                                         *)
(* HoldInv is the inductive invariant.  NeverStranded alone is not         *)
(* inductive: workloads lose their hold when they are started without      *)
(* counts, and whether there are counts depends on which operation holds   *)
(* the workloads.  HeldShape says that it is the latest one, and that the  *)
(* tenant is not free meanwhile.  To keep that, whoever frees the tenant   *)
(* must have started the workloads: a run (UpShape, and for an archive     *)
(* GoneShape), a valve (ValveHold), or a withdrawal of an operation that   *)
(* has stopped nothing (AwaitShape).  What a reset reads is the latest     *)
(* operation because a failed tenant failed in it (FailedShape,            *)
(* SettleShape, ActiveShape).  StopShape says that a run between its scale *)
(* to zero and its unquiesce, which has the lock, finds workloads stopped. *)
(***************************************************************************)
EXTENDS StorageOpProofs

-----------------------------------------------------------------------------
(* How a run comes to a step.                                              *)

\* After the workloads were scaled down, until they are started again.
StopPcs == {"snapshotting", "capture", "noteBundle", "replacing", "drop", "delete", "create",
            "restoring", "restore"}

\* After the workloads were started again.
UpPcs(k) == {"reap", "finish", "free"} \cup (IF k = "shrink" THEN {"size"} ELSE {})

\* After an archive has deleted the workloads.
GonePcs == {"delete", "archiving", "finish", "free"}

\* After the operation was marked failed.
FailPcs == {"settle", "give", "endSettle", "endGive"}

\* Where the runs are of an operation that waits for its lock: being started, or being ended.
Waiting == {"none", "starting", "end", "endSettle", "endGive"}

\* What must have happened when the run of p of operation o is at pc now.
Comes(p, o, pc) ==
  /\ pc \in StopPcs => run[p][o].pc \in StopPcs \/ ScaleDown(p, o)
  /\ pc \in UpPcs(op[o].kind) =>
       run[p][o].pc \in UpPcs(op[o].kind) \/ StartWorkloads(p, o) \/ op[o].kind = "archive"
  /\ pc \in GonePcs /\ op[o].kind = "archive" => run[p][o].pc \in GonePcs \/ DropWorkloads(p, o)
  /\ pc \in FailPcs =>
       \/ run[p][o].pc \in FailPcs /\ (run[p][o].pc = "give" => pc = "give")
       \/ /\ MarkFailed(p, o)
          /\ run[p][o].hot \/ (pc = "give" /\ op[o].kind = "revert")
  /\ pc \notin Waiting => run[p][o].pc \notin Waiting \/ ~op'[o].awaiting
  /\ pc = "starting" => run[p][o].pc = "starting" \/ \E k \in Kinds : Begin(p, o, k)

LEMMA ComesSame ==
  ASSUME NEW p \in Procs, NEW o \in Ops
  PROVE  Comes(p, o, run[p][o].pc)
  BY DEF Comes

\* The steps that lead to nothing of the kind.
LEMMA ComesPlain ==
  ASSUME NEW p \in Procs, NEW o \in Ops, run[p][o].pc \notin Waiting,
         NEW pc \in {"quiescing", "counts", "scale", "unquiescing", "start", "catch", "recover",
                     "mark", "end", "none"}
  PROVE  Comes(p, o, pc)
  BY DEF Comes, StopPcs, UpPcs, GonePcs, FailPcs, Waiting

LEMMA ComesStart ==
  ASSUME NEW p \in Procs, NEW o \in Ops,
         NEW pc \in {"none", "end", "top"}, pc = "top" => ~op'[o].awaiting
  PROVE  Comes(p, o, pc)
  BY DEF Comes, StopPcs, UpPcs, GonePcs, FailPcs, Waiting

\* Within a set of steps.
LEMMA ComesWithin ==
  ASSUME NEW p \in Procs, NEW o \in Ops, run[p][o].pc \notin Waiting, NEW pc, pc \notin FailPcs \cup {"starting"},
         pc \in StopPcs => run[p][o].pc \in StopPcs,
         pc \in UpPcs(op[o].kind) => run[p][o].pc \in UpPcs(op[o].kind) \/ op[o].kind = "archive",
         pc \in GonePcs /\ op[o].kind = "archive" => run[p][o].pc \in GonePcs
  PROVE  Comes(p, o, pc)
  BY DEF Comes

\* The run of p of operation o has come to where it is, and the others are where they were.
ComesAt(p, o) ==
  \A q \in Procs, x \in Ops :
    run'[q][x].pc = run[q][x].pc \/ (q = p /\ x = o /\ Comes(p, o, run'[q][x].pc))

LEMMA ComesMoved ==
  ASSUME NEW p \in Procs, NEW o \in Ops, NEW pc, NEW hot, NEW counts, Moved(p, o, pc, hot, counts),
         Comes(p, o, pc)
  PROVE  ComesAt(p, o)
<1>1. \A q \in Procs, x \in Ops : q # p \/ x # o => run'[q][x] = run[q][x]
  BY DEF Moved
<1>2. run'[p][o].pc = pc
  BY DEF Moved
<1> QED
  BY <1>1, <1>2 DEF ComesAt

LEMMA ComesGoto ==
  ASSUME TypeOK, NEW p \in Procs, NEW o \in Ops, NEW pc \in Pcs, Goto(p, o, pc), Comes(p, o, pc)
  PROVE  ComesAt(p, o)
<1> DEFINE hot == pc \in AtOnce(op[o].kind)
<1>1. Moved(p, o, pc, hot, run[p][o].counts)
  BY MoveGoto
<1> HIDE DEF hot
<1> QED
  BY <1>1, ComesMoved

LEMMA ComesProgress ==
  ASSUME Typed, NEW p \in Procs, NEW o \in Ops, Progress(p, o)
  PROVE  ComesAt(p, o)
<1> DEFINE k == op[o].kind
           pc == AfterProgress(p, o)
<1>1. run[p][o].pc \in ProgressSteps /\ Goto(p, o, pc)
  BY DEF Progress
<1>2. k \in Kinds /\ run[p][o].pc \notin OffPath(k)
  BY <1>1 DEF Typed, TypeOK, PathShape, RunShape, ProgressSteps
<1>3. /\ pc \in {"counts", "capture", "delete", "drop", "restoring", "restore", "replacing",
                 "unquiescing", "start", "finish"}
      /\ pc \in StopPcs => run[p][o].pc \in StopPcs
      /\ pc = "finish" => k = "archive" /\ run[p][o].pc = "archiving"
      /\ pc = "delete" => k # "archive"
  <2>1. CASE k = "shrink"
    BY <1>1, <1>2, <2>1, ThenShrink DEF OffPath, AfterProgress, ProgressSteps, StopPcs
  <2>2. CASE k = "retained"
    BY <1>1, <1>2, <2>2, ThenRetained DEF OffPath, AfterProgress, ProgressSteps, StopPcs
  <2>3. CASE k = "revert"
    BY <1>1, <1>2, <2>3, ThenRevert DEF OffPath, AfterProgress, ProgressSteps, StopPcs
  <2>4. CASE k = "archive"
    BY <1>1, <1>2, <2>4, ThenArchive DEF OffPath, AfterProgress, ProgressSteps, StopPcs
  <2> QED
    BY <1>2, <2>1, <2>2, <2>3, <2>4, StorageAssumption
<1> HIDE DEF pc
<1>4. run[p][o].pc \notin Waiting /\ pc \notin FailPcs \cup {"starting"} /\ pc \in Pcs
  BY <1>1, <1>3 DEF ProgressSteps, Waiting, FailPcs, Pcs, Working
<1>5. /\ pc \in UpPcs(k) => k = "archive"
      /\ pc \in GonePcs /\ k = "archive" => run[p][o].pc \in GonePcs
  BY <1>3 DEF UpPcs, GonePcs
<1>6. Comes(p, o, pc)
  BY <1>3, <1>4, <1>5, ComesWithin
<1> QED
  BY <1>1, <1>4, <1>6, ComesGoto DEF Typed

LEMMA ComesVolume ==
  ASSUME Typed, NEW p \in Procs, NEW o \in Ops,
         \/ DropWorkloads(p, o) \/ DeleteClaim(p, o) \/ CreateClaim(p, o) \/ RestoreFiles(p, o)
         \/ WriteSize(p, o) \/ StartWorkloads(p, o) \/ ReapBundle(p, o)
  PROVE  ComesAt(p, o)
<1> DEFINE k == op[o].kind
           pc == Then(k, run[p][o].pc)
<1>1. /\ run[p][o].pc \in {"drop", "delete", "create", "restore", "size", "start", "reap"}
      /\ run[p][o].pc = "drop" => DropWorkloads(p, o)
      /\ run[p][o].pc = "start" => StartWorkloads(p, o)
  BY DEF DropWorkloads, DeleteClaim, CreateClaim, RestoreFiles, WriteSize, StartWorkloads, ReapBundle, At
<1>2. Goto(p, o, pc) \/ Goto(p, o, "catch")
  BY <1>1 DEF DropWorkloads, DeleteClaim, CreateClaim, RestoreFiles, WriteSize, StartWorkloads, ReapBundle,
              Advance, At
<1>3. k \in Kinds /\ run[p][o].pc \notin OffPath(k)
  BY <1>1 DEF Typed, TypeOK, PathShape, RunShape
<1>4. /\ pc \in {"delete", "create", "archiving", "restoring", "size", "unquiescing", "reap", "finish"}
      /\ pc \in StopPcs => run[p][o].pc \in StopPcs
      /\ pc \in UpPcs(k) => run[p][o].pc \in UpPcs(k) \cup {"start"}
      /\ pc \in GonePcs /\ k = "archive" => run[p][o].pc \in GonePcs \cup {"drop"}
  <2>1. CASE k = "shrink"
    BY <1>1, <1>3, <2>1, ThenShrink DEF OffPath, StopPcs, UpPcs, GonePcs
  <2>2. CASE k = "retained"
    BY <1>1, <1>3, <2>2, ThenRetained DEF OffPath, StopPcs, UpPcs, GonePcs
  <2>3. CASE k = "revert"
    BY <1>1, <1>3, <2>3, ThenRevert DEF OffPath, StopPcs, UpPcs, GonePcs
  <2>4. CASE k = "archive"
    BY <1>1, <1>3, <2>4, ThenArchive DEF OffPath, StopPcs, UpPcs, GonePcs
  <2> QED
    BY <1>3, <2>1, <2>2, <2>3, <2>4, StorageAssumption
<1> HIDE DEF pc
<1>5. /\ run[p][o].pc \notin Waiting /\ pc \notin FailPcs \cup {"starting"} /\ pc \in Pcs
      /\ "catch" \in Pcs
  BY <1>1, <1>4 DEF Waiting, FailPcs, Pcs, Working
<1>6. Comes(p, o, pc)
  BY <1>1, <1>4, <1>5 DEF Comes
<1>7. Comes(p, o, "catch")
  BY <1>5, ComesPlain
<1> QED
  BY <1>2, <1>5, <1>6, <1>7, ComesGoto DEF Typed

LEMMA ComesMoving ==
  ASSUME Typed, NEW p \in Procs, NEW o \in Ops, Moving(p, o)
  PROVE  ComesAt(p, o)
<1> USE DEF Typed
<1>1. CASE Top(p, o)
  <2>1. PICK pc \in {"quiescing", "catch", "unquiescing"}, counts \in {"none", "up", "zero"} :
          Moved(p, o, pc, run[p][o].hot, counts)
    BY <1>1, MoveTop
  <2>2. run[p][o].pc \notin Waiting
    BY <1>1 DEF Top, Waiting
  <2> QED
    BY <2>1, <2>2, ComesPlain, ComesMoved
<1>2. CASE WriteCounts(p, o)
  <2>1. PICK counts \in {"up", "zero"} : Moved(p, o, "scale", run[p][o].hot, counts)
    BY <1>2, MoveCounts
  <2>2. run[p][o].pc \notin Waiting
    BY <1>2 DEF WriteCounts, At, Waiting
  <2> QED
    BY <2>1, <2>2, ComesPlain, ComesMoved
<1>3. CASE ScaleDown(p, o)
  <2>1. PICK pc \in {"replacing", "catch", "size", "snapshotting", "restoring"} :
          Moved(p, o, pc, FALSE, run[p][o].counts) /\ (pc = "size" => op[o].kind # "shrink")
    <3>1. AfterQuiesce(p, o) = "size" => op[o].kind # "shrink"
      BY ThenShrink DEF AfterQuiesce
    <3>2. PICK pc \in {"replacing", "catch", "size", "snapshotting", "restoring"} :
            Moved(p, o, pc, FALSE, run[p][o].counts)
      BY <1>3, MoveScale
    <3>3. run'[p][o].pc = AfterQuiesce(p, o)
      BY <1>3 DEF ScaleDown, TypeOK, RunType
    <3> QED
      BY <3>1, <3>2, <3>3 DEF Moved
  <2>2. run[p][o].pc = "scale"
    BY <1>3 DEF ScaleDown, At
  <2>3. Comes(p, o, pc)
    BY <1>3, <2>1, <2>2 DEF Comes, StopPcs, UpPcs, GonePcs, FailPcs, Waiting
  <2> QED
    BY <2>1, <2>3, ComesMoved
<1>4. CASE Capture(p, o)
  <2>1. PICK pc \in {"catch", "noteBundle"} : Moved(p, o, pc, run[p][o].hot, run[p][o].counts)
    BY <1>4, MoveCapture
  <2>2. run[p][o].pc = "capture"
    BY <1>4 DEF Capture, At
  <2>3. Comes(p, o, pc)
    BY <2>1, <2>2, ComesWithin DEF StopPcs, UpPcs, GonePcs, FailPcs, Waiting
  <2> QED
    BY <2>1, <2>3, ComesMoved
<1>5. CASE NoteBundle(p, o)
  <2>1. Moved(p, o, "replacing", FALSE, run[p][o].counts)
    BY <1>5, MoveNote
  <2>2. run[p][o].pc = "noteBundle"
    BY <1>5 DEF NoteBundle, At
  <2>3. Comes(p, o, "replacing")
    BY <2>1, <2>2, ComesWithin DEF StopPcs, UpPcs, GonePcs, FailPcs, Waiting
  <2> QED
    BY <2>1, <2>3, ComesMoved
<1>6. CASE \/ DropWorkloads(p, o) \/ DeleteClaim(p, o) \/ CreateClaim(p, o) \/ RestoreFiles(p, o)
           \/ WriteSize(p, o) \/ StartWorkloads(p, o) \/ ReapBundle(p, o)
  BY <1>6, ComesVolume
<1>7. CASE Throw(p, o)
  <2>1. "catch" \in Pcs /\ run[p][o].pc \notin Waiting
    BY <1>7 DEF Throw, Pcs, Working, Waiting
  <2>2. Moved(p, o, "catch", FALSE, run[p][o].counts)
    BY <1>7, <2>1, MovePcHot DEF Throw
  <2> QED
    BY <2>1, <2>2, ComesPlain, ComesMoved
<1>8. CASE Mine(p, o) /\ Ask(p, o)
  <2>1. Moved(p, o, run[p][o].pc, TRUE, run[p][o].counts)
    BY <1>8, MoveHot DEF Ask
  <2> QED
    BY <2>1, ComesSame, ComesMoved
<1>9. CASE Mine(p, o) /\ Catch(p, o)
  <2> DEFINE pc == IF op[o].kind = "revert" THEN "recover" ELSE "mark"
  <2>1. pc \in {"recover", "mark"} /\ pc \in Pcs /\ run[p][o].pc \notin Waiting
    BY <1>9 DEF Catch, Pcs, Waiting
  <2>2. run' = [run EXCEPT ![p][o].pc = pc, ![p][o].hot = TRUE]
    BY <1>9 DEF Catch
  <2> HIDE DEF pc
  <2>3. Moved(p, o, pc, TRUE, run[p][o].counts)
    BY <2>1, <2>2, MovePcHot
  <2> QED
    BY <2>1, <2>3, ComesPlain, ComesMoved
<1>10. CASE Recover(p, o)
  <2>1. "mark" \in Pcs /\ run[p][o].pc \notin Waiting
    BY <1>10 DEF Recover, Pcs, Working, Waiting
  <2>2. Moved(p, o, "mark", FALSE, run[p][o].counts)
    BY <1>10, <2>1, MovePcHot DEF Recover
  <2> QED
    BY <2>1, <2>2, ComesPlain, ComesMoved
<1> QED
  BY <1>1, <1>2, <1>3, <1>4, <1>5, <1>6, <1>7, <1>8, <1>9, <1>10 DEF Moving

LEMMA ComesOther ==
  ASSUME Typed, NEW p \in Procs, NEW o \in Ops,
         \/ Stopping(p, o) \/ StartRun(p, o) \/ StartRefused(p, o) \/ Finish(p, o) \/ FreeTenant(p, o)
         \/ MarkFailed(p, o) \/ Settle(p, o) \/ GiveBack(p, o) \/ PickUp(p, o) \/ EndStale(p, o)
         \/ \E k \in Kinds : Begin(p, o, k)
  PROVE  ComesAt(p, o)
<1> USE DEF Typed
<1>1. CASE Stopping(p, o) \/ StartRefused(p, o) \/ FreeTenant(p, o) \/ GiveBack(p, o)
  <2>1. run' = [run EXCEPT ![p][o] = NotRunning]
    BY <1>1 DEF Stopping, Ask, Catch, StartRefused, FreeTenant, GiveBack, Leave
  <2>2. Moved(p, o, "none", FALSE, "none")
    BY <2>1, MoveLeave
  <2> QED
    BY <2>2, ComesStart, ComesMoved
<1>2. CASE StartRun(p, o)
  <2>1. run' = [run EXCEPT ![p][o].pc = "top"] /\ "top" \in Pcs
    BY <1>2 DEF StartRun, Pcs
  <2>2. Moved(p, o, "top", run[p][o].hot, run[p][o].counts)
    BY <2>1, MovePc
  <2>3. ~op'[o].awaiting
    BY <1>2, WriteStarted DEF StartRun, Wrote
  <2> QED
    BY <2>2, <2>3, ComesStart, ComesMoved
<1>3. CASE Finish(p, o)
  <2>1. "free" \in Pcs /\ Goto(p, o, "free") /\ run[p][o].pc = "finish"
    BY <1>3 DEF Pcs, Finish, At
  <2>2. Comes(p, o, "free")
    BY <2>1, ComesWithin DEF StopPcs, UpPcs, GonePcs, FailPcs, Waiting
  <2> QED
    BY <2>1, <2>2, ComesGoto
<1>4. CASE MarkFailed(p, o)
  <2>1. PICK pc \in {"settle", "give", "endSettle"} : Moved(p, o, pc, FALSE, run[p][o].counts)
    BY <1>4, MoveMark
  <2>2. run'[p][o].pc = IF run[p][o].pc = "end" THEN "endSettle"
                        ELSE IF op[o].kind = "revert" THEN "give" ELSE "settle"
    BY <1>4 DEF MarkFailed, TypeOK, RunType
  <2>3. pc = IF run[p][o].pc = "end" THEN "endSettle" ELSE IF op[o].kind = "revert" THEN "give" ELSE "settle"
    BY <2>1, <2>2 DEF Moved
  <2>4. run[p][o].pc \in {"mark", "end"}
    BY <1>4 DEF MarkFailed
  <2>5. run[p][o].hot \/ (pc = "give" /\ op[o].kind = "revert")
    BY <2>3, <2>4 DEF PathShape, RunShape, Sure
  <2>6. pc \notin Waiting => run[p][o].pc \notin Waiting
    BY <2>3, <2>4 DEF Waiting
  <2>7. Comes(p, o, pc)
    BY <1>4, <2>1, <2>5, <2>6 DEF Comes, StopPcs, UpPcs, GonePcs
  <2> QED
    BY <2>1, <2>7, ComesMoved
<1>5. CASE Settle(p, o)
  <2> DEFINE pc == IF run[p][o].pc = "settle" THEN "give" ELSE "endGive"
  <2>1. /\ run[p][o].pc \in {"settle", "endSettle"}
        /\ run' = [run EXCEPT ![p][o].pc = pc]
    BY <1>5 DEF Settle
  <2>2. pc \in Pcs /\ pc \in {"give", "endGive"} /\ (pc = "give" => run[p][o].pc = "settle")
    BY <2>1 DEF Pcs
  <2> HIDE DEF pc
  <2>3. Moved(p, o, pc, run[p][o].hot, run[p][o].counts)
    BY <2>1, <2>2, MovePc
  <2>4. Comes(p, o, pc)
    BY <2>1, <2>2 DEF Comes, StopPcs, UpPcs, GonePcs, FailPcs, Waiting
  <2> QED
    BY <2>3, <2>4, ComesMoved
<1>6. CASE PickUp(p, o) \/ EndStale(p, o)
  <2>1. CASE run' = [run EXCEPT ![p][o].pc = "end", ![p][o].hot = TRUE]
    <3>1. "end" \in Pcs
      BY DEF Pcs
    <3>2. Moved(p, o, "end", TRUE, run[p][o].counts)
      BY <2>1, <3>1, MovePcHot
    <3> QED
      BY <3>2, ComesStart, ComesMoved
  <2>2. CASE /\ run' = [run EXCEPT ![p][o].pc = "top", ![p][o].resumed = TRUE] /\ ~op[o].awaiting
             /\ ~Spent(o) /\ op' = [op EXCEPT ![o].resumes = @ + 1]
    <3>1. Moved(p, o, "top", run[p][o].hot, run[p][o].counts)
      BY <2>2, MoveResumed
    <3>2. Wrote(o, op[o].state, op[o].awaiting, op[o].counts)
      BY <2>2, WriteResumes
    <3>3. ~op'[o].awaiting
      BY <2>2, <3>2 DEF Wrote
    <3> QED
      BY <3>1, <3>3, ComesStart, ComesMoved
  <2>3. CASE run' = run
    BY <2>3 DEF ComesAt
  <2> QED
    BY <1>6, <2>1, <2>2, <2>3 DEF PickUp, EndStale
<1>7. ASSUME NEW k \in Kinds, Begin(p, o, k) PROVE ComesAt(p, o)
  <2>1. Moved(p, o, "starting", run[p][o].hot, run[p][o].counts)
    BY <1>7, BeginRun
  <2>2. Comes(p, o, "starting")
    BY <1>7 DEF Comes, StopPcs, UpPcs, GonePcs, FailPcs, Waiting
  <2> QED
    BY <2>1, <2>2, ComesMoved
<1> QED
  BY <1>1, <1>2, <1>3, <1>4, <1>5, <1>6, <1>7

LEMMA ComesStep ==
  ASSUME Typed, [Next]_vars
  PROVE  \A q \in Procs, x \in Ops : run'[q][x].pc = "none" \/ Comes(q, x, run'[q][x].pc)
<1>1. SUFFICES ASSUME NEW q \in Procs, NEW x \in Ops, run'[q][x].pc # "none", run'[q][x].pc # run[q][x].pc
               PROVE  Comes(q, x, run'[q][x].pc)
  BY ComesSame
<1>2. ASSUME NEW p \in Procs, NEW o \in Ops, ComesAt(p, o) PROVE Comes(q, x, run'[q][x].pc)
  BY <1>1, <1>2 DEF ComesAt
<1>3. ASSUME NEW p \in Procs, Crash(p) PROVE FALSE
  <2>1. run'[q][x] = run[q][x] \/ run'[q][x] = NotRunning
    BY <1>3 DEF Crash, Typed, TypeOK
  <2> QED
    BY <1>1, <2>1 DEF NotRunning
<1>4. ASSUME UNCHANGED run PROVE FALSE
  BY <1>1, <1>4
<1>5. ASSUME NEW p \in Procs, NEW o \in Ops, Renew(p, o) \/ Lapse(o) PROVE UNCHANGED run
  BY <1>5 DEF Renew, Lapse
<1>6. ASSUME NEW p \in Procs, Looks(p) \/ ValveStep(p) PROVE UNCHANGED run
  BY <1>6, ValvesLeave
<1>7. ASSUME NEW o \in Ops, Lapse(o) PROVE UNCHANGED run
  BY <1>7 DEF Lapse
<1>8. CASE UNCHANGED vars
  BY <1>4, <1>8 DEF vars
<1> QED
  BY <1>2, <1>3, <1>4, <1>5, <1>6, <1>7, <1>8, StepKinds, ComesMoving, ComesProgress, ComesOther

-----------------------------------------------------------------------------
(* What a step does to the locks, the rows and the tenant.                 *)

\* No process takes back a lock that went to another.
NoRetake == left["retake"] = 0

\* A lock is left alone, lapses, is given up by its holder, is renewed, or is taken by a starter or
\* by a watchdog that has no run of the operation, which is in flight.
LockAct(o) ==
  \/ lock'[o] = lock[o]
  \/ lock[o].fresh /\ lock'[o].holder = lock[o].holder
  \/ \E p \in Procs : /\ lock[o].holder = p /\ lock'[o] = NoLock /\ run'[p][o].pc = "none"
  \/ \E p \in Procs : lock[o].holder = p /\ lock'[o].holder = p
  \/ \E p \in Procs : /\ lock'[o].holder = p
                      /\ \/ run[p][o].pc = "starting"
                         \/ run[p][o].pc = "none" /\ InFlight(o)

LEMMA LockLeave ==
  ASSUME Typed, NEW p \in Procs, NEW o \in Ops, Leave(p, o)
  PROVE  \A x \in Ops : LockAct(x)
<1>1. run'[p][o].pc = "none"
  BY MoveLeave DEF Leave, Moved, Typed
<1>2. lock \in [Ops -> LockType]
  BY DEF Typed, TypeOK, LockType
<1>3. CASE lock[o].holder = p
  <2>1. lock' = [lock EXCEPT ![o] = NoLock]
    BY <1>3 DEF Leave
  <2> QED
    BY <1>1, <1>2, <1>3, <2>1 DEF LockAct
<1>4. CASE lock[o].holder # p
  BY <1>4 DEF Leave, LockAct
<1> QED
  BY <1>3, <1>4

LEMMA LockTake ==
  ASSUME Typed, NEW p \in Procs, NEW o \in Ops, Take(p, o),
         \/ lock[o].holder = p \/ run[p][o].pc = "starting"
         \/ run[p][o].pc = "none" /\ InFlight(o)
  PROVE  \A x \in Ops : LockAct(x)
<1>1. lock \in [Ops -> LockType]
  BY DEF Typed, TypeOK, LockType
<1>2. lock'[o].holder = p /\ \A x \in Ops : x # o => lock'[x] = lock[x]
  BY <1>1 DEF Take
<1> QED
  BY <1>2 DEF LockAct

LEMMA LockSteps ==
  ASSUME Typed, NoRetake, [Next]_vars
  PROVE  \A x \in Ops : LockAct(x)
<1>1. CASE UNCHANGED lock
  BY <1>1 DEF LockAct
<1>2. ASSUME NEW p \in Procs, NEW o \in Ops,
             \/ Moving(p, o) \/ StartRefused(p, o) \/ Progress(p, o) \/ Finish(p, o) \/ MarkFailed(p, o)
             \/ Settle(p, o) \/ \E k \in Kinds : Begin(p, o, k)
      PROVE  UNCHANGED lock
  BY <1>2 DEF Moving, Ask, Catch, StartRefused, Finish, MarkFailed, Settle, Progress, Begin,
              Top, WriteCounts, ScaleDown, Capture, NoteBundle, DropWorkloads, DeleteClaim, CreateClaim,
              RestoreFiles, WriteSize, StartWorkloads, ReapBundle, Throw, Recover
<1>3. ASSUME NEW p \in Procs, NEW o \in Ops, Stopping(p, o) \/ FreeTenant(p, o) \/ GiveBack(p, o)
      PROVE  Leave(p, o)
  BY <1>3 DEF Stopping, Ask, Catch, FreeTenant, GiveBack
<1>4. ASSUME NEW p \in Procs, NEW o \in Ops, StartRun(p, o) PROVE \A x \in Ops : LockAct(x)
  <2>1. Take(p, o) /\ run[p][o].pc = "starting"
    BY <1>4 DEF StartRun, Take
  <2> QED
    BY <2>1, LockTake
<1>5. ASSUME NEW p \in Procs, NEW o \in Ops, PickUp(p, o) \/ EndStale(p, o) PROVE \A x \in Ops : LockAct(x)
  <2>1. (Take(p, o) \/ UNCHANGED lock) /\ run[p][o].pc = "none" /\ InFlight(o)
    BY <1>5 DEF PickUp, EndStale, Interrupted
  <2> QED
    BY <1>1, <2>1, LockTake
<1>6. ASSUME NEW p \in Procs, NEW o \in Ops, Renew(p, o) PROVE \A x \in Ops : LockAct(x)
  <2>1. Take(p, o) /\ lock[o].holder = p
    BY <1>6 DEF Renew, NoRetake
  <2> QED
    BY <2>1, LockTake
<1>7. ASSUME NEW o \in Ops, Lapse(o) PROVE \A x \in Ops : LockAct(x)
  <2>1. lock' = [lock EXCEPT ![o].fresh = FALSE] /\ lock[o].fresh
    BY <1>7 DEF Lapse
  <2>2. lock \in [Ops -> LockType]
    BY DEF Typed, TypeOK, LockType
  <2>3. lock'[o].holder = lock[o].holder /\ \A x \in Ops : x # o => lock'[x] = lock[x]
    BY <2>1, <2>2 DEF LockType
  <2> QED
    BY <2>1, <2>3 DEF LockAct
<1>8. ASSUME NEW p \in Procs, Crash(p) PROVE UNCHANGED lock
  BY <1>8 DEF Crash
<1>9. ASSUME NEW p \in Procs, Looks(p) \/ ValveStep(p) PROVE UNCHANGED lock
  BY <1>9, ValvesLeave
<1>10. CASE UNCHANGED vars
  BY <1>1, <1>10 DEF vars
<1> QED
  BY <1>1, <1>2, <1>3, <1>4, <1>5, <1>6, <1>7, <1>8, <1>9, <1>10, StepKinds, LockLeave

\* A run does not get a lock it did not have.
LEMMA HolderKept ==
  ASSUME Typed, Locked, NoRetake, [Next]_vars, NEW p \in Procs, NEW o \in Ops,
         run[p][o].pc \notin {"none", "starting"}, lock'[o].holder = p
  PROVE  lock[o].holder = p
<1>1. LockAct(o)
  BY LockSteps
<1>2. NoLock.holder # p
  BY StorageAssumption DEF NoLock
<1> QED
  BY <1>1, <1>2 DEF LockAct

\* Nobody takes the lock of a run that has ended its operation.
LEMMA HolderStays ==
  ASSUME Typed, Locked, NoRetake, [Next]_vars, NEW p \in Procs, NEW o \in Ops,
         run[p][o].pc \in Ending, run'[p][o].pc # "none", lock[o].holder = p
  PROVE  lock'[o].holder = p
<1>1. LockAct(o) /\ ~InFlight(o)
  BY LockSteps DEF Locked, HoldShape, HoldAt
<1>2. \A q \in Procs : run[q][o].pc # "starting"
  BY DEF Locked, StartShape, Ending
<1> QED
  BY <1>1, <1>2 DEF LockAct

\* What a step other than a begin does to a row: its counts are written by a run only, and what has
\* failed is done only when a run finishes it all the same.
RowAct(x) ==
  /\ op'[x].counts = op[x].counts \/ \E p \in Procs : WriteCounts(p, x)
  /\ op[x].state = "failed" => op'[x].state = "failed" \/ \E p \in Procs : Finish(p, x)

LEMMA RowWrote ==
  ASSUME NEW o \in Ops, NEW state, NEW awaiting, Wrote(o, state, awaiting, op[o].counts),
         op[o].state = "failed" => state = "failed" \/ \E p \in Procs : Finish(p, o)
  PROVE  \A x \in Ops : RowAct(x)
<1>1. op'[o].counts = op[o].counts /\ op'[o].state = state /\ \A x \in Ops : x # o => op'[x] = op[x]
  BY DEF Wrote
<1> QED
  BY <1>1 DEF RowAct

LEMMA RowMoving ==
  ASSUME Typed, NEW p \in Procs, NEW o \in Ops, Moving(p, o)
  PROVE  \A x \in Ops : RowAct(x)
<1> USE DEF Typed
<1>1. CASE NoteBundle(p, o)
  <2>1. run[p][o].taken \in {"none", "full", "empty"}
    BY DEF TypeOK, RunType
  <2>2. Wrote(o, op[o].state, op[o].awaiting, op[o].counts)
    BY <1>1, <2>1, WriteBundle DEF NoteBundle
  <2> QED
    BY <2>2, RowWrote
<1>2. CASE ReapBundle(p, o)
  <2>1. Wrote(o, op[o].state, op[o].awaiting, op[o].counts)
    BY <1>2, WriteBundle DEF ReapBundle
  <2> QED
    BY <2>1, RowWrote
<1>3. CASE WriteCounts(p, o)
  <2>1. \A x \in Ops : op'[x].state = op[x].state
    BY <1>3, GoesCounts DEF Goes, KeepsOps
  <2>2. \A x \in Ops : x # o => op'[x] = op[x]
    BY <1>3 DEF WriteCounts, TypeOK
  <2> QED
    BY <1>3, <2>1, <2>2 DEF RowAct
<1>4. CASE ~NoteBundle(p, o) /\ ~ReapBundle(p, o) /\ ~WriteCounts(p, o)
  <2>1. UNCHANGED op
    BY <1>4 DEF Moving, Ask, Catch, Top, ScaleDown, Capture, DropWorkloads, DeleteClaim, CreateClaim,
                RestoreFiles, WriteSize, StartWorkloads, Throw, Recover
  <2> QED
    BY <2>1 DEF RowAct
<1> QED
  BY <1>1, <1>2, <1>3, <1>4

LEMMA RowSteps ==
  ASSUME Typed, Locked, NoStall, [Next]_vars, ~Begins
  PROVE  \A x \in Ops : RowAct(x)
<1> USE DEF Typed
<1>1. ASSUME NEW p \in Procs, NEW o \in Ops, StartRun(p, o) PROVE \A x \in Ops : RowAct(x)
  BY <1>1, WriteStarted, RowWrote DEF StartRun
<1>2. CASE UNCHANGED op
  BY <1>2 DEF RowAct
<1>3. ASSUME NEW o \in Ops, Withdraw(o) PROVE \A x \in Ops : RowAct(x)
  BY <1>3, WriteWithdrawn, RowWrote
<1>4. ASSUME NEW p \in Procs, NEW o \in Ops, Progress(p, o) PROVE \A x \in Ops : RowAct(x)
  <2>1. run[p][o].hot /\ Wrote(o, run[p][o].pc, op[o].awaiting, op[o].counts)
    BY <1>4, GoesProgress
  <2>2. op[o].state # "failed"
    BY <2>1 DEF Locked, HoldShape, HoldAt, InFlight
  <2> QED
    BY <2>1, <2>2, RowWrote
<1>5. ASSUME NEW p \in Procs, NEW o \in Ops, Finish(p, o) PROVE \A x \in Ops : RowAct(x)
  BY <1>5, WriteFinished, RowWrote
<1>6. ASSUME NEW p \in Procs, NEW o \in Ops, MarkFailed(p, o) PROVE \A x \in Ops : RowAct(x)
  BY <1>6, WriteFailed, RowWrote
<1>7. ASSUME NEW p \in Procs, NEW o \in Ops, PickUp(p, o) PROVE \A x \in Ops : RowAct(x)
  <2>1. CASE ~Spent(o) /\ op' = [op EXCEPT ![o].resumes = @ + 1]
    <3>1. Wrote(o, op[o].state, op[o].awaiting, op[o].counts)
      BY <2>1, WriteResumes
    <3> QED
      BY <3>1, RowWrote
  <2>2. \/ Withdraw(o) \/ UNCHANGED op
        \/ ~Spent(o) /\ op' = [op EXCEPT ![o].resumes = @ + 1]
    BY <1>7 DEF PickUp
  <2> QED
    BY <1>2, <1>3, <2>1, <2>2
<1>8. ASSUME NEW p \in Procs, CancelEnd(p) PROVE \A x \in Ops : RowAct(x)
  <2>1. ASSUME NEW o \in Ops, Wrote(o, "failed", op[o].awaiting, op[o].counts) PROVE \A x \in Ops : RowAct(x)
    BY <2>1, RowWrote
  <2> QED
    BY <1>2, <1>8, <2>1, CancelEnds
<1>9. ASSUME NEW p \in Procs, NEW o \in Ops, \/ Stopping(p, o) \/ FreeTenant(p, o) \/ Settle(p, o)
                                              \/ GiveBack(p, o) \/ EndStale(p, o) \/ Renew(p, o)
      PROVE UNCHANGED op
  BY <1>9 DEF Stopping, Ask, Catch, FreeTenant, Settle, GiveBack, EndStale, Renew
<1>10. ASSUME NEW o \in Ops, Lapse(o) PROVE UNCHANGED op
  BY <1>10 DEF Lapse
<1>11. ASSUME NEW p \in Procs, Crash(p) PROVE UNCHANGED op
  BY <1>11 DEF Crash
<1>12. ASSUME NEW p \in Procs, Looks(p) \/ ValveActs(p) PROVE UNCHANGED op
  BY <1>12, ValvesLeave
<1>13. CASE UNCHANGED vars
  BY <1>2, <1>13 DEF vars
<1>14. ASSUME NEW p \in Procs, NEW o \in Ops, StartRefused(p, o) PROVE \A x \in Ops : RowAct(x)
  BY <1>2, <1>3, <1>14 DEF StartRefused
<1> QED
  BY <1>1, <1>2, <1>4, <1>5, <1>6, <1>7, <1>8, <1>9, <1>10, <1>11, <1>12, <1>13, <1>14,
     StepKinds, ValvesLeave, RowMoving DEF Begins

\* Who writes the tenant's row, and what.
TenantAct ==
  \/ UNCHANGED tenant
  \/ tenant' = [tenant EXCEPT !.state = "busy"]
  \/ \E p \in Procs, o \in Ops : FreeTenant(p, o) \/ (GiveBack(p, o) /\ tenant' # tenant)
  \/ \E p \in Procs : ValveFree(p)
  \/ \E o \in Ops : Withdraw(o) /\ InFlight(o) /\ op[o].awaiting /\ UNCHANGED workloads

LEMMA TenantSteps ==
  ASSUME [Next]_vars, ~Begins
  PROVE  TenantAct
<1>1. ASSUME NEW p \in Procs, NEW o \in Ops, FreeTenant(p, o) \/ GiveBack(p, o) PROVE TenantAct
  BY <1>1 DEF TenantAct
<1>2. ASSUME NEW p \in Procs, NEW o \in Ops, StartRefused(p, o) \/ PickUp(p, o) PROVE TenantAct
  BY <1>2 DEF StartRefused, PickUp, Interrupted, TenantAct
<1>3. ASSUME NEW p \in Procs, NEW o \in Ops, Progress(p, o) PROVE TenantAct
  BY <1>3 DEF Progress, TenantAct
<1>4. ASSUME NEW p \in Procs, ValveFree(p) PROVE TenantAct
  BY <1>4 DEF TenantAct
<1>5. CASE UNCHANGED tenant
  BY <1>5 DEF TenantAct
<1>6. ASSUME NEW p \in Procs, NEW o \in Ops,
             \/ Moving(p, o) \/ Stopping(p, o) \/ StartRun(p, o) \/ Finish(p, o) \/ MarkFailed(p, o)
             \/ Settle(p, o) \/ EndStale(p, o) \/ Renew(p, o)
      PROVE  UNCHANGED tenant
  BY <1>6 DEF Moving, Stopping, Ask, Catch, StartRun, Finish, MarkFailed, Settle, EndStale, Renew,
              Top, WriteCounts, ScaleDown, Capture, NoteBundle, DropWorkloads, DeleteClaim, CreateClaim,
              RestoreFiles, WriteSize, StartWorkloads, ReapBundle, Throw, Recover
<1>7. ASSUME NEW p \in Procs, Crash(p) PROVE UNCHANGED tenant
  BY <1>7 DEF Crash
<1>8. ASSUME NEW o \in Ops, Lapse(o) PROVE UNCHANGED tenant
  BY <1>8 DEF Lapse
<1>9. ASSUME NEW p \in Procs, Looks(p) \/ (ValveStep(p) /\ ~ValveFree(p)) PROVE UNCHANGED tenant
  BY <1>9, ValvesLeave
<1>10. CASE UNCHANGED vars
  BY <1>5, <1>10 DEF vars
<1> QED
  BY <1>1, <1>2, <1>3, <1>4, <1>5, <1>6, <1>7, <1>8, <1>9, <1>10, StepKinds DEF Begins

-----------------------------------------------------------------------------
(* The invariant.                                                          *)

\* A cancel or a reset did not start the workloads.
Lost == "notStarted" \in decided

\* The operation begun last.
Latest(o) == op[o].kind # "none" /\ ~Overtaken(o)

\* The tenant points at the latest operation, or at none.
ActiveShape == Late \/ \A o \in Ops : tenant.active = o => Latest(o)

\* A run that has marked its operation failed has its lock, but for a revert, which marks it
\* unasked; and then it has failed.
SettleAt(p, o) ==
  run[p][o].pc \in FailPcs =>
    /\ (run[p][o].pc = "give" /\ op[o].kind = "revert") \/ lock[o].holder = p
    /\ Late \/ (lock[o].holder = p => op[o].state = "failed")

SettleShape == \A p \in Procs, o \in Ops : SettleAt(p, o)

\* A tenant that has failed failed in the latest operation, which nobody runs or starts.
FailedIn(o) ==
  /\ Latest(o) /\ op[o].state = "failed" /\ lock[o] = NoLock
  /\ \A p \in Procs : run[p][o].pc # "starting"

FailedShape == Late \/ (tenant.state = "failed" => \E o \in Ops : FailedIn(o))

\* An operation that waits for its lock has stopped nothing yet.
AwaitShape ==
  \A o \in Ops : op[o].awaiting => op[o].counts = "none" /\ \A p \in Procs : run[p][o].pc \in Waiting

\* The run that has the lock of the operation in flight has the workloads stopped.
StopShape ==
  Late \/ \A p \in Procs, o \in Ops : run[p][o].pc \in StopPcs /\ Mine(p, o) => workloads # "up"

\* An archive past its delete has deleted the workloads.
GoneShape ==
  \A p \in Procs, o \in Ops :
    op[o].kind = "archive" /\ run[p][o].pc \in GonePcs => workloads = "gone"

\* The run of the latest operation that has started the workloads, and has the lock.
UpShape ==
  \/ Late \/ Lost
  \/ \A p \in Procs, o \in Ops :
       run[p][o].pc \in UpPcs(op[o].kind) /\ lock[o].holder = p /\ ~Overtaken(o) => workloads # "held"

\* Workloads are held while the tenant is not free, by the latest operation, with their counts.
HeldShape ==
  \/ Late \/ Lost
  \/ workloads = "held" => tenant.state # "idle" /\ \A o \in Ops : Latest(o) => op[o].counts # "none"

\* A reset and a sweep that are not late read the latest operation; the tenant is not freed by one
\* that has left workloads held.
ValveKeeps(p) ==
  ~valve[p].late =>
    /\ valve[p].pc \in {"restart", "sweep"} => valve[p].op \in Ops /\ Latest(valve[p].op)
    /\ valve[p].pc = "sweep" => \A o \in Ops : ~InFlight(o)
    /\ valve[p].pc = "free" => Lost \/ workloads # "held"

ValveHold == Late \/ \A p \in Procs : ValveKeeps(p)

HoldInv ==
  /\ OwnerInv /\ NoRetake
  /\ ActiveShape /\ SettleShape /\ FailedShape /\ AwaitShape
  /\ StopShape /\ GoneShape /\ UpShape /\ HeldShape /\ ValveHold /\ NeverStranded

\* There is one latest operation, and an operation in flight is it.
LEMMA OneLatest ==
  ASSUME Typed, NEW o \in Ops, NEW x \in Ops, Latest(o), Latest(x)
  PROVE  o = x
<1>1. ~(x > o) /\ ~(o > x)
  BY OvertakenIs DEF Latest, Typed
<1> QED
  BY <1>1 DEF Ops

LEMMA FlightLatest ==
  ASSUME OwnerInv, ~Late, NEW o \in Ops, InFlight(o)
  PROVE  Latest(o) /\ tenant = Busy(o)
<1>1. op[o].kind # "none"
  BY Started DEF OwnerInv, Typed
<1> QED
  BY <1>1 DEF OwnerInv, Owner, OwnShape, Latest

LEMMA RunLatest ==
  ASSUME OwnerInv, NEW p \in Procs, NEW o \in Ops, run[p][o].pc # "none", ~Overtaken(o)
  PROVE  Latest(o)
  BY Started DEF OwnerInv, Typed, Latest

\* Without a begin the latest operation stays the latest.
LEMMA LatestStays ==
  ASSUME OwnerInv, [Next]_vars, ~Begins, NEW o \in Ops
  PROVE  Latest(o)' <=> Latest(o)
  BY KindsKept DEF OwnerInv, Latest

\* What was overtaken stays overtaken.
LEMMA OvertakenStays ==
  ASSUME OwnerInv, [Next]_vars, NEW o \in Ops, ~Overtaken(o)'
  PROVE  ~Overtaken(o)
<1>1. RowsGrow /\ RowShape'
  BY RowsStep, TypesStep DEF OwnerInv, Typed
<1>2. \A q \in Ops : op'[q].kind = "none" => op[q].kind = "none"
  BY <1>1, StorageAssumption DEF RowsGrow, RowGrows
<1>3. \A q \in Ops : op[q] # Unstarted => op'[q] # Unstarted
  BY <1>2, Unbegun DEF OwnerInv, Typed, Unstarted
<1> QED
  BY <1>3 DEF Overtaken

\* A run about to scale has the lock of the operation in flight, whose row has the counts.
LEMMA ScalesAsOwner ==
  ASSUME OwnerInv, ~Late, NEW p \in Procs, NEW o \in Ops, ScaleDown(p, o)
  PROVE  /\ lock[o].holder = p /\ InFlight(o) /\ Latest(o) /\ tenant = Busy(o)
         /\ op[o].counts # "none" /\ run[p][o].pc = "scale"
<1>1. run[p][o].pc = "scale"
  BY DEF ScaleDown, At
<1>2. run[p][o].hot /\ op[o].counts # "none"
  BY <1>1 DEF OwnerInv, Typed, PathShape, RunShape, Sure, AtOnce
<1>3. lock[o].holder = p /\ InFlight(o)
  BY <1>2 DEF OwnerInv, Owner, Locked, HoldShape, HoldAt
<1> QED
  BY <1>1, <1>2, <1>3, FlightLatest

LEMMA LateStays ==
  ASSUME OwnerInv, [Next]_vars
  PROVE  (Late => Late') /\ (Lost => Lost')
  BY NotedStep DEF OwnerInv, Typed, Late, Lost

\* A run that has written and is not late has the lock of the latest operation.
LEMMA NotLate ==
  ASSUME NEW p, NEW o, NoteLate(p, o), ~Late'
  PROVE  ~Late /\ ~Overtaken(o) /\ lock[o].holder = p
  BY DEF NoteLate, Note, Late

\* Nor is a valve.
LEMMA ValveNotLate ==
  ASSUME NEW p, NEW a, NEW b, NoteValve(p, a, b), ~Late'
  PROVE  ~Late /\ ~valve[p].late
  BY DEF NoteValve, Late

LEMMA GivesBack ==
  ASSUME HoldInv, NEW p \in Procs, NEW o \in Ops, GiveBack(p, o), tenant' # tenant, ~Late, ~Late'
  PROVE  /\ Latest(o) /\ lock[o].holder = p /\ op[o].state = "failed" /\ run[p][o].pc \in FailPcs
         /\ tenant'.state = "failed" /\ tenant'.active \in {0, o}
<1>1. run[p][o].pc \in {"give", "endGive"} /\ run[p][o].pc \in FailPcs /\ run[p][o].pc # "none"
  BY DEF GiveBack, FailPcs
<1>2. tenant'.state = "failed" /\ tenant'.active \in {0, o}
  BY DEF GiveBack
<1>3. SettleAt(p, o)
  BY DEF HoldInv, SettleShape
<1>4. CASE NoteLate(p, o)
  <2>1. lock[o].holder = p /\ ~Overtaken(o)
    BY <1>4, NotLate
  <2>2. Latest(o)
    BY <1>1, <2>1, RunLatest DEF HoldInv
  <2> QED
    BY <1>1, <1>2, <1>3, <2>1, <2>2 DEF SettleAt
<1>5. CASE ~NoteLate(p, o)
  <2>1. tenant.active = o /\ ~(run[p][o].pc = "give" /\ op[o].kind = "revert")
    BY <1>5 DEF GiveBack
  <2>2. lock[o].holder = p /\ op[o].state = "failed"
    BY <1>1, <1>3, <2>1 DEF SettleAt
  <2>3. Latest(o)
    BY <2>1 DEF HoldInv, ActiveShape
  <2> QED
    BY <1>1, <1>2, <2>2, <2>3
<1> QED
  BY <1>4, <1>5

LEMMA FreesIdle ==
  ASSUME \/ \E p \in Procs, o \in Ops : FreeTenant(p, o)
         \/ \E p \in Procs : ValveFree(p)
  PROVE  tenant'.state = "idle" /\ tenant'.active = 0
<1>1. ASSUME NEW p \in Procs, NEW o \in Ops, FreeTenant(p, o) PROVE tenant' = [state |-> "idle", active |-> 0]
  BY <1>1 DEF FreeTenant
<1>2. ASSUME NEW p \in Procs, ValveFree(p) PROVE tenant' = [state |-> "idle", active |-> 0]
  BY <1>2 DEF ValveFree
<1>3. tenant' = [state |-> "idle", active |-> 0]
  BY <1>1, <1>2
<1> QED
  BY <1>3

LEMMA BeginsBusy ==
  ASSUME Begins
  PROVE  tenant.state = "idle" /\ tenant'.state = "busy"
<1>1. PICK p \in Procs, o \in Ops, k \in Kinds : Begin(p, o, k)
  BY DEF Begins
<1>2. tenant.state = "idle" /\ tenant' = [state |-> "busy", active |-> o]
  BY <1>1 DEF Begin
<1> QED
  BY <1>2

LEMMA ActiveStep ==
  ASSUME HoldInv, [Next]_vars
  PROVE  ActiveShape'
<1>1. SUFFICES ASSUME ~Late', NEW x \in Ops, tenant'.active = x PROVE Latest(x)'
  BY DEF ActiveShape
<1>2. ~Late
  BY <1>1, LateStays DEF HoldInv
<1>3. CASE Begins
  <2>1. PICK p \in Procs, o \in Ops, k \in Kinds : Begin(p, o, k)
    BY <1>3 DEF Begins
  <2>2. tenant'.active = o
    BY <2>1 DEF Begin
  <2>3. op'[o].kind = k /\ op'[o].state \in {"snapshotting", "quiescing"}
    BY <2>1, BeginRow DEF HoldInv, OwnerInv, Typed
  <2>4. InFlight(o)' /\ op'[o].kind # "none"
    BY <2>3, StorageAssumption DEF InFlight
  <2>5. ~Overtaken(o)'
    BY <1>2, <2>1, <2>4, OwnBegin DEF HoldInv
  <2> QED
    BY <1>1, <2>2, <2>4, <2>5 DEF Latest
<1>4. CASE ~Begins
  <2>1. Latest(x)' <=> Latest(x)
    BY <1>4, LatestStays DEF HoldInv
  <2>2. tenant.active = x => Latest(x)
    BY <1>2 DEF HoldInv, ActiveShape
  <2>3. x # 0
    BY DEF Ops
  <2>4. CASE UNCHANGED tenant
    BY <1>1, <2>1, <2>2, <2>4
  <2>5. CASE tenant' = [tenant EXCEPT !.state = "busy"]
    <3>1. tenant'.active = tenant.active
      BY <2>5 DEF HoldInv, OwnerInv, Typed, TypeOK
    <3> QED
      BY <1>1, <2>1, <2>2, <3>1
  <2>6. ASSUME NEW p \in Procs, NEW o \in Ops, GiveBack(p, o), tenant' # tenant PROVE Latest(x)'
    BY <1>1, <1>2, <2>1, <2>3, <2>6, GivesBack
  <2>7. ASSUME \/ \E p \in Procs, o \in Ops : FreeTenant(p, o)
               \/ \E p \in Procs : ValveFree(p)
        PROVE  FALSE
    BY <1>1, <2>3, <2>7, FreesIdle
  <2>8. ASSUME NEW o \in Ops, Withdraw(o) PROVE Latest(x)'
    BY <1>1, <2>1, <2>2, <2>3, <2>8 DEF Withdraw
  <2> QED
    BY <1>4, <2>4, <2>5, <2>6, <2>7, <2>8, TenantSteps DEF TenantAct
<1> QED
  BY <1>3, <1>4

LEMMA SettleStep ==
  ASSUME HoldInv, [Next]_vars
  PROVE  SettleShape'
<1> SUFFICES ASSUME NEW p \in Procs, NEW o \in Ops, run'[p][o].pc \in FailPcs
             PROVE  /\ (run'[p][o].pc = "give" /\ op'[o].kind = "revert") \/ lock'[o].holder = p
                    /\ Late' \/ (lock'[o].holder = p => op'[o].state = "failed")
  BY DEF SettleShape, SettleAt
<1> USE DEF HoldInv, OwnerInv
<1>1. run'[p][o].pc # "none" /\ Comes(p, o, run'[p][o].pc)
  BY ComesStep DEF FailPcs
<1>2. CASE /\ MarkFailed(p, o)
           /\ run[p][o].hot \/ (run'[p][o].pc = "give" /\ op[o].kind = "revert")
  <2>1. op'[o].state = "failed" /\ op'[o].kind = op[o].kind
    BY <1>2, WriteFailed DEF Wrote, Typed
  <2>2. UNCHANGED lock
    BY <1>2 DEF MarkFailed
  <2>3. run[p][o].hot => lock[o].holder = p
    BY DEF Owner, Locked, HoldShape, HoldAt
  <2> QED
    BY <1>2, <2>1, <2>2, <2>3
<1>3. CASE run[p][o].pc \in FailPcs /\ (run[p][o].pc = "give" => run'[p][o].pc = "give")
  <2>1. /\ (run[p][o].pc = "give" /\ op[o].kind = "revert") \/ lock[o].holder = p
        /\ Late \/ (lock[o].holder = p => op[o].state = "failed")
    BY <1>3 DEF SettleShape, SettleAt
  <2>2. run[p][o].pc \in Ending /\ run[p][o].pc \notin {"none", "starting", "finish"}
    BY <1>3 DEF FailPcs, Ending
  <2>3. /\ lock[o].holder = p => lock'[o].holder = p
        /\ lock'[o].holder = p => lock[o].holder = p
    BY <1>1, <2>2, HolderStays, HolderKept DEF Owner
  <2>4. op[o].kind # "none"
    BY <2>2, Started DEF Typed
  <2>5. op'[o].kind = op[o].kind
    BY <2>4, RowsStep DEF RowsGrow, RowGrows, Unstarted, Typed
  <2>6. ASSUME ~Late', lock'[o].holder = p PROVE op'[o].state = "failed"
    <3>1. ~Late
      BY <2>6, LateStays
    <3>2. op[o].state = "failed" /\ lock[o].holder = p
      BY <2>1, <2>3, <2>6, <3>1
    <3>3. ASSUME NEW q \in Procs, Finish(q, o) PROVE FALSE
      <4>1. lock[o].holder = q /\ run[q][o].pc = "finish"
        BY <2>6, <3>3, NotLate DEF Finish, At
      <4> QED
        BY <2>2, <3>2, <4>1
    <3>4. CASE ~Begins
      BY <3>2, <3>3, <3>4, RowSteps DEF RowAct, Owner
    <3>5. ASSUME NEW q \in Procs, NEW x \in Ops, NEW k \in Kinds, Begin(q, x, k) PROVE op'[o] = op[o]
      <4>1. x # o
        BY <2>4, <3>5 DEF Begin, Unstarted
      <4> QED
        BY <3>5, <4>1, BeginRow DEF Typed
    <3> QED
      BY <3>2, <3>4, <3>5 DEF Begins
  <2> QED
    BY <1>3, <2>1, <2>3, <2>5, <2>6
<1> QED
  BY <1>1, <1>2, <1>3 DEF Comes

LEMMA FailedStep ==
  ASSUME HoldInv, [Next]_vars
  PROVE  FailedShape'
<1> USE DEF HoldInv, OwnerInv
<1>1. SUFFICES ASSUME ~Late', tenant'.state = "failed" PROVE \E o \in Ops : FailedIn(o)'
  BY DEF FailedShape
<1>2. ~Late
  BY <1>1, LateStays
<1>3. ~Begins
  BY <1>1, BeginsBusy
<1>4. CASE tenant.state = "failed"
  <2>1. PICK o \in Ops : FailedIn(o)
    BY <1>2, <1>4 DEF FailedShape
  <2>2. Latest(o)' /\ ~InFlight(o)
    BY <1>3, <2>1, LatestStays DEF FailedIn, InFlight
  <2>3. lock[o] = NoLock /\ lock[o].holder \notin Procs /\ ~lock[o].fresh
    BY <2>1, StorageAssumption DEF FailedIn, NoLock
  <2>4. lock'[o] = NoLock
    <3>1. LockAct(o)
      BY LockSteps
    <3> QED
      BY <2>1, <2>2, <2>3, <3>1 DEF LockAct, FailedIn
  <2>5. op'[o].state = "failed"
    <3>1. ASSUME NEW q \in Procs, Finish(q, o) PROVE FALSE
      BY <1>1, <2>3, <3>1, NotLate DEF Finish
    <3> QED
      BY <1>3, <2>1, <3>1, RowSteps DEF RowAct, Owner, FailedIn
  <2>6. ASSUME NEW p \in Procs, run'[p][o].pc = "starting" PROVE FALSE
    <3>1. Comes(p, o, "starting")
      BY <2>6, ComesStep
    <3> QED
      BY <1>3, <2>1, <3>1 DEF Comes, FailedIn, Begins
  <2> QED
    BY <2>2, <2>4, <2>5, <2>6 DEF FailedIn
<1>5. CASE tenant.state # "failed"
  <2>1. PICK p \in Procs, o \in Ops : GiveBack(p, o) /\ tenant' # tenant
    <3>1. ASSUME tenant' = [tenant EXCEPT !.state = "busy"] PROVE FALSE
      BY <1>1, <3>1 DEF Typed, TypeOK
    <3>2. ASSUME NEW o \in Ops, Withdraw(o) PROVE FALSE
      BY <1>1, <1>5, <3>2 DEF Withdraw
    <3>3. ASSUME \/ \E p \in Procs, o \in Ops : FreeTenant(p, o)
                 \/ \E p \in Procs : ValveFree(p)
          PROVE  FALSE
      BY <1>1, <3>3, FreesIdle
    <3> QED
      BY <1>1, <1>3, <1>5, <3>1, <3>2, <3>3, TenantSteps DEF TenantAct
  <2>2. Latest(o) /\ lock[o].holder = p /\ op[o].state = "failed" /\ run[p][o].pc \in FailPcs
    BY <1>1, <1>2, <2>1, GivesBack
  <2>3. Latest(o)'
    BY <1>3, <2>2, LatestStays
  <2>4. Leave(p, o) /\ UNCHANGED op
    BY <2>1 DEF GiveBack
  <2>5. lock'[o] = NoLock
    BY <2>2, <2>4 DEF Leave, Typed, TypeOK
  <2>6. ASSUME NEW q \in Procs, run'[q][o].pc = "starting" PROVE FALSE
    <3>1. run[q][o].pc = "starting"
      BY <1>3, <2>6, ComesStep DEF Comes, Begins
    <3>2. q = p
      BY <2>2, <3>1 DEF Owner, Locked, StartShape, FailPcs
    <3> QED
      BY <2>2, <3>1, <3>2 DEF FailPcs
  <2> QED
    BY <2>2, <2>3, <2>4, <2>5, <2>6 DEF FailedIn
<1> QED
  BY <1>4, <1>5

LEMMA AwaitStep ==
  ASSUME HoldInv, [Next]_vars
  PROVE  AwaitShape'
<1> USE DEF HoldInv, OwnerInv
<1> SUFFICES ASSUME NEW o \in Ops, op'[o].awaiting
             PROVE  op'[o].counts = "none" /\ \A p \in Procs : run'[p][o].pc \in Waiting
  BY DEF AwaitShape
<1>1. CASE op[o].awaiting
  <2>1. op[o].counts = "none" /\ \A p \in Procs : run[p][o].pc \in Waiting
    BY <1>1 DEF AwaitShape
  <2>2. \A p \in Procs : run'[p][o].pc \in Waiting
    BY <2>1, ComesStep DEF Comes, Waiting
  <2>3. op[o].kind # "none"
    BY <1>1 DEF Typed, RowShape, Unstarted
  <2>4. op'[o].counts = op[o].counts
    <3>1. ASSUME NEW p \in Procs, WriteCounts(p, o) PROVE FALSE
      BY <2>1, <3>1 DEF WriteCounts, At, Waiting
    <3>2. CASE ~Begins
      BY <3>1, <3>2, RowSteps DEF RowAct, Owner
    <3>3. ASSUME NEW q \in Procs, NEW x \in Ops, NEW k \in Kinds, Begin(q, x, k) PROVE op'[o] = op[o]
      <4>1. x # o
        BY <2>3, <3>3 DEF Begin, Unstarted
      <4> QED
        BY <3>3, <4>1, BeginRow DEF Typed
    <3> QED
      BY <3>2, <3>3 DEF Begins
  <2> QED
    BY <2>1, <2>2, <2>4
<1>2. CASE ~op[o].awaiting
  <2>1. PICK p \in Procs, k \in Kinds : Begin(p, o, k)
    BY <1>2, RowsStep DEF RowsGrow, RowGrows, Typed
  <2>2. op'[o].counts = "none"
    BY <2>1, BeginRow DEF Typed
  <2>3. /\ \A q \in Procs : run[q][o].pc = "none"
        /\ run'[p][o].pc = "starting" /\ \A q \in Procs : q # p => run'[q][o] = run[q][o]
    BY <2>1, BeginRun DEF Moved, Typed
  <2> QED
    BY <2>2, <2>3 DEF Waiting
<1> QED
  BY <1>1, <1>2

-----------------------------------------------------------------------------
(* The workloads.                                                          *)

LEMMA UnquiesceIs ==
  ASSUME NEW c
  PROVE  /\ Unquiesce(c) # "held"
         /\ workloads = "gone" => Unquiesce(c) = "gone"
         /\ workloads = "up" => Unquiesce(c) = "up"
         /\ c \in {"up", "zero"} /\ workloads = "held" => Unquiesce(c) = "up"
  BY DEF Unquiesce

\* Who starts workloads, and from which counts: a run that unquiesces, one that fails, or a valve.
Starts(c) ==
  /\ workloads' = Unquiesce(c)
  /\ \/ \E p \in Procs, o \in Ops : StartWorkloads(p, o) /\ c = run[p][o].counts
     \/ \E p \in Procs, o \in Ops : /\ run[p][o].pc \in {"recover", "settle", "endSettle"}
                                    /\ NoteLate(p, o) /\ c = Recounted(p, o)
     \/ \E p \in Procs : /\ valve[p].pc \in {"start", "restart", "sweep"}
                         /\ valve[p].pc = "start" => c # "none"
                         /\ c = Counts(valve[p].op)
                         /\ \E a, b : NoteValve(p, a, b)

LEMMA WorkloadSteps ==
  ASSUME [Next]_vars
  PROVE  \/ UNCHANGED workloads
         \/ \E p \in Procs, o \in Ops : ScaleDown(p, o)
         \/ workloads' = "gone"
         \/ \E c : Starts(c)
         \/ \E p \in Procs : CancelClear(p)
<1>1. ASSUME NEW p \in Procs, NEW o \in Ops, StartWorkloads(p, o) PROVE Starts(run[p][o].counts)
  BY <1>1 DEF Starts, StartWorkloads
<1>2. ASSUME NEW p \in Procs, NEW o \in Ops, Recover(p, o) \/ Settle(p, o)
      PROVE  UNCHANGED workloads \/ Starts(Recounted(p, o))
  BY <1>2 DEF Starts, Recover, Settle, StartAgain
<1>3. ASSUME NEW p \in Procs, CancelStart(p) \/ ResetStart(p) \/ SweepStart(p)
      PROVE  UNCHANGED workloads \/ Starts(Counts(valve[p].op))
  <2> DEFINE c == Counts(valve[p].op)
  <2>1. /\ valve[p].pc \in {"start", "restart", "sweep"}
        /\ \/ UNCHANGED workloads
           \/ workloads' = Unquiesce(c) /\ (valve[p].pc = "start" => c # "none")
    BY <1>3 DEF CancelStart, ResetStart, SweepStart, BestEffort
  <2>2. \E a, b : NoteValve(p, a, b)
    BY <1>3 DEF CancelStart, ResetStart, SweepStart, BestEffort
  <2> HIDE DEF c
  <2>3. ASSUME workloads' = Unquiesce(c), valve[p].pc = "start" => c # "none", c = Counts(valve[p].op)
        PROVE  Starts(c)
    BY <2>1, <2>2, <2>3 DEF Starts
  <2> QED
    BY <2>1, <2>3 DEF c
<1>5. ASSUME NEW p \in Procs, NEW o \in Ops, DropWorkloads(p, o) PROVE workloads' = "gone"
  BY <1>5 DEF DropWorkloads
<1> QED
  BY <1>1, <1>2, <1>3, <1>5, WorkloadWriters

LEMMA ClearIs ==
  ASSUME NEW p, CancelClear(p)
  PROVE  /\ workloads = "held" => workloads' = "down" /\ Lost'
         /\ workloads # "held" => workloads' = workloads
  BY DEF CancelClear, NoteValve, Lost

\* Only a run that scales down holds workloads, and gone workloads stay gone.
LEMMA HeldBy ==
  ASSUME [Next]_vars
  PROVE  /\ workloads' = "held" => workloads = "held" \/ \E p \in Procs, o \in Ops : ScaleDown(p, o)
         /\ workloads = "gone" => workloads' = "gone"
<1>1. ASSUME NEW p \in Procs, CancelClear(p) PROVE workloads' # "held" /\ (workloads = "gone" => workloads' = "gone")
  BY <1>1, ClearIs
<1>2. ASSUME NEW c, Starts(c) PROVE workloads' # "held" /\ (workloads = "gone" => workloads' = "gone")
  BY <1>2, UnquiesceIs DEF Starts
<1>3. ASSUME NEW p \in Procs, NEW o \in Ops, ScaleDown(p, o) PROVE workloads = "gone" => workloads' = "gone"
  BY <1>3 DEF ScaleDown
<1> QED
  BY <1>1, <1>2, <1>3, WorkloadSteps

\* Workloads that are started were stopped by nobody who is still at it.
LEMMA StartsAs ==
  ASSUME HoldInv, NEW c, Starts(c), ~Late, ~Late'
  PROVE  \/ \E p \in Procs, o \in Ops : StartWorkloads(p, o) /\ run[p][o].pc = "start" /\ Mine(p, o)
         \/ \E p \in Procs, o \in Ops : /\ run[p][o].pc \in {"recover", "settle", "endSettle"}
                                        /\ Latest(o) /\ lock[o].holder = p
         \/ \A o \in Ops : ~InFlight(o)
<1> USE DEF HoldInv, OwnerInv
<1>1. ASSUME NEW p \in Procs, NEW o \in Ops, StartWorkloads(p, o) PROVE run[p][o].pc = "start" /\ Mine(p, o)
  <2>1. run[p][o].pc = "start"
    BY <1>1 DEF StartWorkloads, At
  <2>2. run[p][o].hot
    BY <2>1 DEF Typed, PathShape, RunShape, Sure, AtOnce
  <2> QED
    BY <2>1, <2>2 DEF Owner, Locked, HoldShape, HoldAt, Mine
<1>2. ASSUME NEW p \in Procs, NEW o \in Ops, run[p][o].pc \in {"recover", "settle", "endSettle"}, NoteLate(p, o)
      PROVE  Latest(o) /\ lock[o].holder = p
  <2>1. ~Overtaken(o) /\ lock[o].holder = p
    BY <1>2, NotLate
  <2> QED
    BY <1>2, <2>1, RunLatest
<1>3. ASSUME NEW p \in Procs, NEW a, NEW b, NoteValve(p, a, b), valve[p].pc \in {"start", "restart", "sweep"}
      PROVE  \A o \in Ops : ~InFlight(o)
  <2>1. ~valve[p].late
    BY <1>3, ValveNotLate
  <2>2. ValveAt(p) /\ ValveKeeps(p)
    BY DEF Owner, ValveOwn, ValveHold
  <2> QED
    BY <1>3, <2>1, <2>2 DEF ValveAt, ValveKeeps
<1> QED
  BY <1>1, <1>2, <1>3 DEF Starts

LEMMA StopStep ==
  ASSUME HoldInv, [Next]_vars
  PROVE  StopShape'
<1> USE DEF HoldInv, OwnerInv
<1>1. SUFFICES ASSUME ~Late', NEW p \in Procs, NEW o \in Ops, run'[p][o].pc \in StopPcs, Mine(p, o)'
               PROVE  workloads' # "up"
  BY DEF StopShape
<1>2. ~Late
  BY <1>1, LateStays
<1>3. Comes(p, o, run'[p][o].pc)
  BY <1>1, ComesStep DEF StopPcs
<1>4. CASE ScaleDown(p, o)
  BY <1>4 DEF ScaleDown
<1>5. CASE run[p][o].pc \in StopPcs
  <2>1. run[p][o].pc \notin {"none", "starting", "start"} \cup FailPcs \cup {"recover"}
    BY <1>5 DEF StopPcs, FailPcs
  <2>2. lock[o].holder = p
    BY <1>1, <2>1, HolderKept DEF Owner, Mine
  <2>3. op[o].kind # "none"
    BY <2>1, Started DEF Typed
  <2>4. InFlight(o)
    <3>1. CASE ~Begins
      BY <1>1, <3>1, FlightStep DEF FlightShrinks, Owner, Mine
    <3>2. ASSUME NEW q \in Procs, NEW x \in Ops, NEW k \in Kinds, Begin(q, x, k) PROVE op'[o] = op[o]
      <4>1. x # o
        BY <2>3, <3>2 DEF Begin, Unstarted
      <4> QED
        BY <3>2, <4>1, BeginRow DEF Typed
    <3> QED
      BY <1>1, <3>1, <3>2 DEF Begins, Mine, InFlight
  <2>5. Latest(o) /\ workloads # "up"
    BY <1>2, <1>5, <2>2, <2>4, FlightLatest DEF StopShape, Mine
  <2>6. ASSUME NEW c, Starts(c) PROVE FALSE
    <3>1. ASSUME NEW q \in Procs, NEW x \in Ops, lock[x].holder = q, Latest(x),
                 run[q][x].pc \in {"start", "recover", "settle", "endSettle"}
          PROVE  FALSE
      <4>1. x = o
        BY <2>5, <3>1, OneLatest
      <4> QED
        BY <2>1, <2>2, <3>1, <4>1 DEF FailPcs
    <3>2. ASSUME NEW q \in Procs, NEW x \in Ops, run[q][x].pc = "start", Mine(q, x) PROVE FALSE
      <4>1. Latest(x) /\ lock[x].holder = q
        BY <1>2, <3>2, FlightLatest DEF Mine
      <4> QED
        BY <3>1, <3>2, <4>1
    <3>3. ~(\A x \in Ops : ~InFlight(x))
      BY <2>4
    <3> QED
      BY <1>1, <1>2, <2>6, <3>1, <3>2, <3>3, StartsAs
  <2>7. ASSUME NEW q \in Procs, CancelClear(q) PROVE workloads' # "up"
    BY <2>5, <2>7, ClearIs
  <2>8. ASSUME NEW q \in Procs, NEW x \in Ops, ScaleDown(q, x) PROVE workloads' # "up"
    BY <2>8 DEF ScaleDown
  <2> QED
    BY <2>5, <2>6, <2>7, <2>8, WorkloadSteps
<1> QED
  BY <1>1, <1>3, <1>4, <1>5 DEF Comes

\* A run at work was begun before.
LEMMA KindWas ==
  ASSUME Typed, [Next]_vars, NEW p \in Procs, NEW o \in Ops, run'[p][o].pc \notin {"none", "starting"}
  PROVE  op'[o].kind = op[o].kind
<1>1. RowGrows(o)
  BY RowsStep DEF RowsGrow, Typed
<1>2. ASSUME NEW q \in Procs, NEW k \in Kinds, Begin(q, o, k) PROVE FALSE
  <2>1. /\ run[p][o].pc = "none" /\ run'[q][o].pc = "starting"
        /\ q # p => run'[p][o] = run[p][o]
    BY <1>2, BeginRun DEF Typed, Moved
  <2> QED
    BY <2>1
<1> QED
  BY <1>1, <1>2 DEF RowGrows

LEMMA GoneStep ==
  ASSUME HoldInv, [Next]_vars
  PROVE  GoneShape'
<1> USE DEF HoldInv, OwnerInv
<1> SUFFICES ASSUME NEW p \in Procs, NEW o \in Ops, op'[o].kind = "archive", run'[p][o].pc \in GonePcs
             PROVE  workloads' = "gone"
  BY DEF GoneShape
<1>1. Comes(p, o, run'[p][o].pc)
  BY ComesStep DEF GonePcs
<1>2. op[o].kind = "archive"
  BY KindWas DEF GonePcs
<1>3. CASE run[p][o].pc \in GonePcs
  <2>1. workloads = "gone"
    BY <1>2, <1>3 DEF GoneShape
  <2> QED
    BY <2>1, HeldBy
<1>4. CASE DropWorkloads(p, o)
  BY <1>4 DEF DropWorkloads
<1> QED
  BY <1>1, <1>2, <1>3, <1>4 DEF Comes


LEMMA UpStep ==
  ASSUME HoldInv, [Next]_vars
  PROVE  UpShape'
<1> USE DEF HoldInv, OwnerInv
<1>1. SUFFICES ASSUME ~Late', ~Lost', NEW p \in Procs, NEW o \in Ops,
                      run'[p][o].pc \in UpPcs(op'[o].kind), lock'[o].holder = p, ~Overtaken(o)'
               PROVE  workloads' # "held"
  BY DEF UpShape
<1>2. ~Late /\ ~Lost
  BY <1>1, LateStays
<1>3. run'[p][o].pc \notin {"none", "starting"}
  BY <1>1 DEF UpPcs
<1>4. Comes(p, o, run'[p][o].pc) /\ op'[o].kind = op[o].kind
  BY <1>3, ComesStep, KindWas
<1>5. CASE run[p][o].pc \in UpPcs(op[o].kind)
  <2>1. run[p][o].pc \notin {"none", "starting", "scale"}
    BY <1>5 DEF UpPcs
  <2>2. lock[o].holder = p /\ ~Overtaken(o)
    BY <1>1, <2>1, HolderKept, OvertakenStays DEF Owner
  <2>3. workloads # "held" /\ Latest(o)
    BY <1>2, <1>5, <2>1, <2>2, RunLatest DEF UpShape
  <2>4. ASSUME NEW q \in Procs, NEW x \in Ops, ScaleDown(q, x) PROVE FALSE
    <3>1. lock[x].holder = q /\ Latest(x) /\ run[q][x].pc = "scale"
      BY <1>2, <2>4, ScalesAsOwner
    <3>2. x = o
      BY <2>3, <3>1, OneLatest
    <3> QED
      BY <2>1, <2>2, <3>1, <3>2
  <2> QED
    BY <2>3, <2>4, HeldBy
<1>6. CASE StartWorkloads(p, o)
  BY <1>6, UnquiesceIs DEF StartWorkloads
<1>7. CASE op[o].kind = "archive"
  <2>1. run'[p][o].pc \notin OffPath("archive")
    BY <1>4, <1>7, TypesStep DEF Typed, PathShape, RunShape
  <2>2. run'[p][o].pc \in GonePcs
    BY <1>1, <1>4, <1>7, <2>1 DEF UpPcs, GonePcs, OffPath
  <2> QED
    BY <1>4, <1>7, <2>2, GoneStep DEF GoneShape
<1> QED
  BY <1>1, <1>4, <1>5, <1>6, <1>7 DEF Comes

LEMMA HeldStep ==
  ASSUME HoldInv, [Next]_vars
  PROVE  HeldShape'
<1> USE DEF HoldInv, OwnerInv
<1>1. SUFFICES ASSUME ~Late', ~Lost', workloads' = "held"
               PROVE  tenant'.state # "idle" /\ \A o \in Ops : Latest(o)' => op'[o].counts # "none"
  BY DEF HeldShape
<1>2. ~Late /\ ~Lost
  BY <1>1, LateStays
<1>3. ASSUME NEW p \in Procs, NEW x \in Ops, ScaleDown(p, x)
      PROVE  tenant'.state # "idle" /\ \A o \in Ops : Latest(o)' => op'[o].counts # "none"
  <2>1. UNCHANGED <<op, tenant>>
    BY <1>3 DEF ScaleDown
  <2>2. Latest(x) /\ tenant = Busy(x) /\ op[x].counts # "none"
    BY <1>2, <1>3, ScalesAsOwner
  <2>3. \A o \in Ops : Latest(o)' => Latest(o)
    BY <2>1 DEF Latest, Overtaken
  <2>4. \A o \in Ops : Latest(o) => o = x
    BY <2>2, OneLatest
  <2> QED
    BY <2>1, <2>2, <2>3, <2>4 DEF Busy
<1>4. CASE workloads = "held"
  <2>1. tenant.state # "idle" /\ \A o \in Ops : Latest(o) => op[o].counts # "none"
    BY <1>2, <1>4 DEF HeldShape
  <2>2. ~Begins
    BY <2>1, BeginsBusy
  <2>3. \A o \in Ops : Latest(o)' => Latest(o)
    BY <2>2, LatestStays
  <2>4. ASSUME NEW o \in Ops, Latest(o)' PROVE op'[o].counts # "none"
    <3>1. op[o].counts # "none" /\ RowGrows(o)
      BY <2>1, <2>3, <2>4, RowsStep DEF Typed, RowsGrow
    <3> QED
      BY <3>1 DEF RowGrows, Unstarted
  <2>5. ASSUME NEW p \in Procs, NEW o \in Ops, FreeTenant(p, o) PROVE FALSE
    <3>1. ~Overtaken(o) /\ lock[o].holder = p /\ run[p][o].pc = "free"
      BY <1>1, <2>5, NotLate DEF FreeTenant, At
    <3>2. run[p][o].pc \in UpPcs(op[o].kind)
      BY <3>1 DEF UpPcs
    <3> QED
      BY <1>2, <1>4, <3>1, <3>2 DEF UpShape
  <2>6. ASSUME NEW p \in Procs, ValveFree(p) PROVE FALSE
    <3>1. ~valve[p].late /\ valve[p].pc = "free"
      BY <1>1, <2>6, ValveNotLate DEF ValveFree
    <3> QED
      BY <1>2, <1>4, <3>1 DEF ValveHold, ValveKeeps
  <2>7. ASSUME NEW o \in Ops, InFlight(o), op[o].awaiting PROVE FALSE
    BY <1>2, <2>1, <2>7, FlightLatest DEF AwaitShape
  <2>8. ASSUME NEW p \in Procs, NEW o \in Ops, GiveBack(p, o), tenant' # tenant PROVE tenant'.state # "idle"
    BY <1>1, <1>2, <2>8, GivesBack
  <2>9. ASSUME tenant' = [tenant EXCEPT !.state = "busy"] PROVE tenant'.state # "idle"
    BY <2>9 DEF Typed, TypeOK
  <2> QED
    BY <2>1, <2>2, <2>4, <2>5, <2>6, <2>7, <2>8, <2>9, TenantSteps DEF TenantAct
<1> QED
  BY <1>1, <1>3, <1>4, HeldBy

-----------------------------------------------------------------------------
(* The valves.                                                             *)

LEMMA KeepsSame ==
  ASSUME HoldInv, [Next]_vars, ~Begins, ~Late, NEW q \in Procs, valve'[q] = valve[q]
  PROVE  ValveKeeps(q)'
<1> USE DEF HoldInv, OwnerInv
<1>1. SUFFICES ASSUME ~valve[q].late
               PROVE  /\ valve[q].pc \in {"restart", "sweep"} => \E o \in Ops : o = valve[q].op /\ Latest(o)'
                      /\ valve[q].pc = "sweep" => \A o \in Ops : ~InFlight(o)'
                      /\ valve[q].pc = "free" => Lost' \/ workloads' # "held"
  BY DEF ValveKeeps, Latest, Overtaken
<1>2. ValveKeeps(q) /\ ValveAt(q)
  BY DEF ValveHold, Owner, ValveOwn
<1>3. ASSUME valve[q].pc \in {"restart", "sweep"} PROVE \E o \in Ops : o = valve[q].op /\ Latest(o)'
  <2>1. PICK o \in Ops : o = valve[q].op /\ Latest(o)
    BY <1>1, <1>2, <1>3 DEF ValveKeeps
  <2>2. Latest(o)'
    BY <2>1, LatestStays
  <2> QED
    BY <2>1, <2>2
<1>4. FlightShrinks
  BY FlightStep DEF Owner
<1>5. valve[q].pc = "sweep" => \A o \in Ops : ~InFlight(o)'
  BY <1>1, <1>2, <1>4 DEF ValveKeeps, FlightShrinks
<1>6. ASSUME valve[q].pc = "free", ~Lost', workloads' = "held" PROVE FALSE
  <2>1. ~Lost
    BY <1>6, LateStays
  <2>2. workloads # "held" /\ \A o \in Ops : ~InFlight(o)
    BY <1>1, <1>2, <1>6, <2>1 DEF ValveKeeps, ValveAt
  <2>3. PICK p \in Procs, o \in Ops : ScaleDown(p, o)
    BY <1>6, <2>2, HeldBy
  <2> QED
    BY <2>2, <2>3, ScalesAsOwner
<1> QED
  BY <1>3, <1>5, <1>6

LEMMA KeepsLooks ==
  ASSUME HoldInv, ~Late, NEW p \in Procs, Looks(p)
  PROVE  /\ \A q \in Procs : q # p => valve'[q] = valve[q]
         /\ ValveKeeps(p)'
<1> USE DEF HoldInv, OwnerInv
<1>1. UNCHANGED <<op, workloads, decided>>
  BY ValvesLeave
<1>2. ASSUME NEW pc, NEW o, Look(p, pc, o)
      PROVE  /\ \A q \in Procs : q # p => valve'[q] = valve[q]
             /\ valve'[p].pc = pc /\ valve'[p].op = o
  BY <1>2 DEF Look, Typed, TypeOK
<1>3. CASE CancelLook(p)
  <2>1. Look(p, "end", tenant.active)
    BY <1>3 DEF CancelLook
  <2> QED
    BY <1>2, <2>1 DEF ValveKeeps
<1>4. CASE ResetLook(p)
  <2>1. PICK o \in 0..MaxOps : /\ o # 0 => op[o].state = "failed"
                               /\ \A x \in Ops : x > o => op[x].state # "failed"
                               /\ Look(p, "restart", o)
    BY <1>4 DEF ResetLook
  <2>2. PICK x \in Ops : FailedIn(x)
    BY <1>4 DEF ResetLook, FailedShape
  <2>3. o \in Ops /\ ~(x > o) /\ op[o].state = "failed"
    BY <2>1, <2>2 DEF FailedIn, Ops
  <2>4. op[o].kind # "none"
    BY <2>3 DEF Typed, RowShape, Unstarted
  <2>5. ~(o > x)
    BY <2>2, <2>3, <2>4, OvertakenIs DEF FailedIn, Latest, Typed
  <2>6. o = x
    BY <2>3, <2>5 DEF Ops
  <2>7. Latest(o)'
    BY <1>1, <2>2, <2>6 DEF FailedIn, Latest, Overtaken
  <2>8. valve'[p].pc = "restart" /\ valve'[p].op = o
    BY <1>2, <2>1
  <2> QED
    BY <1>2, <2>1, <2>3, <2>7, <2>8 DEF ValveKeeps, Latest, Overtaken
<1>5. CASE SweepLook(p)
  <2>1. PICK o \in Ops : op[o] # Unstarted /\ ~Overtaken(o) /\ Look(p, "sweep", o)
    BY <1>5 DEF SweepLook
  <2>2. op[o].kind # "none"
    BY <2>1, Unbegun DEF Typed
  <2>3. Latest(o)'
    BY <1>1, <2>1, <2>2 DEF Latest, Overtaken
  <2>4. \A x \in Ops : ~InFlight(x)
    <3>1. tenant.active = 0 /\ \A x \in Ops : Busy(x).active # 0
      BY <1>5 DEF SweepLook, Busy, Ops
    <3> QED
      BY <3>1 DEF Owner, OwnShape
  <2>5. valve'[p].pc = "sweep" /\ valve'[p].op = o
    BY <1>2, <2>1
  <2> QED
    BY <1>1, <1>2, <2>1, <2>3, <2>4, <2>5 DEF ValveKeeps, Latest, Overtaken, InFlight
<1> QED
  BY <1>3, <1>4, <1>5 DEF Looks

LEMMA KeepsGoes ==
  ASSUME HoldInv, NEW p \in Procs, ValveStep(p)
  PROVE  /\ \A q \in Procs : q # p => valve'[q] = valve[q]
         /\ ValveKeeps(p)'
<1> USE DEF HoldInv, OwnerInv
<1>1. CASE CancelEnd(p) \/ CancelStart(p)
  <2>1. To(p, "start") \/ To(p, "clear")
    BY <1>1 DEF CancelEnd, CancelStart
  <2> QED
    BY <2>1, ValveIs DEF ValveKeeps, Typed
<1>2. CASE SweepStart(p) \/ ValveFree(p)
  <2>1. Done(p)
    BY <1>2 DEF SweepStart, ValveFree
  <2> QED
    BY <2>1, ValveIs DEF ValveKeeps, Typed
<1>3. CASE CancelClear(p)
  <2>1. To(p, "free") /\ workloads' # "held"
    BY <1>3 DEF CancelClear
  <2> QED
    BY <2>1, ValveIs DEF ValveKeeps, Typed
<1>4. CASE ResetStart(p)
  <2>1. To(p, "free") /\ BestEffort(p, TRUE)
    BY <1>4 DEF ResetStart
  <2>2. workloads' # "held" \/ NoteValve(p, TRUE, TRUE)
    BY <2>1, UnquiesceIs DEF BestEffort
  <2>3. workloads' # "held" \/ Lost'
    BY <2>2 DEF NoteValve, Lost
  <2> QED
    BY <2>1, <2>3, ValveIs DEF ValveKeeps, Typed
<1> QED
  BY <1>1, <1>2, <1>3, <1>4 DEF ValveStep

LEMMA ValveHoldStep ==
  ASSUME HoldInv, [Next]_vars
  PROVE  ValveHold'
<1> USE DEF HoldInv, OwnerInv
<1>1. SUFFICES ASSUME ~Late', NEW q \in Procs PROVE ValveKeeps(q)'
  BY DEF ValveHold
<1>2. ~Late
  BY <1>1, LateStays
<1>3. ASSUME NEW p \in Procs, NEW o \in Ops, NEW k \in Kinds, Begin(p, o, k) PROVE ValveKeeps(q)'
  <2>1. valve' = [x \in Procs |-> [valve[x] EXCEPT !.late = valve[x].pc # "none"]]
    BY <1>3 DEF Begin
  <2>2. valve[q] \in ValveType
    BY DEF Typed, TypeOK
  <2>3. valve'[q].late = (valve[q].pc # "none") /\ valve'[q].pc = valve[q].pc
    BY <2>1, <2>2 DEF ValveType
  <2> QED
    BY <2>3 DEF ValveKeeps
<1>4. CASE ~Begins
  <2>1. ASSUME NEW p \in Procs, Crash(p) PROVE ValveKeeps(q)'
    <3>1. valve'[p].pc = "none" /\ \A x \in Procs : x # p => valve'[x] = valve[x]
      BY <2>1 DEF Crash, NoValve, Typed, TypeOK
    <3>2. CASE q = p
      BY <3>1, <3>2 DEF ValveKeeps
    <3>3. CASE q # p
      BY <1>2, <1>4, <3>1, <3>3, KeepsSame
    <3> QED
      BY <3>2, <3>3
  <2>2. ASSUME NEW p \in Procs, Looks(p) PROVE ValveKeeps(q)'
    BY <1>2, <1>4, <2>2, KeepsLooks, KeepsSame
  <2>3. ASSUME NEW p \in Procs, ValveStep(p) PROVE ValveKeeps(q)'
    BY <1>2, <1>4, <2>3, KeepsGoes, KeepsSame
  <2>4. CASE UNCHANGED valve
    BY <1>2, <1>4, <2>4, KeepsSame
  <2> QED
    BY <1>4, <2>1, <2>2, <2>3, <2>4, ValveWriters DEF Begins
<1> QED
  BY <1>3, <1>4 DEF Begins

-----------------------------------------------------------------------------
(* Nothing is stranded.                                                    *)

\* Held workloads are started from counts.
LEMMA StartsCounted ==
  ASSUME HoldInv, ~Late, ~Late', ~Lost, NEW c, Starts(c), workloads = "held"
  PROVE  c \in {"up", "zero"}
<1> USE DEF HoldInv, OwnerInv
<1>1. \A x \in Ops : op[x].counts \in {"none", "up", "zero"}
  BY DEF Typed, TypeOK, OpType
<1>2. \A p \in Procs, x \in Ops : run[p][x].counts \in {"none", "up", "zero"}
  BY DEF Typed, TypeOK, RunType
<1>3. \A x \in Ops : Latest(x) => op[x].counts \in {"up", "zero"}
  BY <1>1 DEF HeldShape
<1>4. ASSUME NEW p \in Procs, NEW o \in Ops, StartWorkloads(p, o) PROVE run[p][o].counts \in {"up", "zero"}
  <2>1. run[p][o].pc \in Counted
    BY <1>4 DEF StartWorkloads, At, Counted, Working
  <2> QED
    BY <1>2, <2>1 DEF Typed, PathShape, RunShape
<1>5. ASSUME NEW p \in Procs, NEW o \in Ops, run[p][o].pc \in {"recover", "settle", "endSettle"}, NoteLate(p, o)
      PROVE  Recounted(p, o) \in {"up", "zero"}
  <2>1. Latest(o)
    BY <1>5, NotLate, RunLatest
  <2> QED
    BY <1>2, <1>3, <2>1 DEF Recounted
<1>6. ASSUME NEW p \in Procs, NEW a, NEW b, NoteValve(p, a, b), valve[p].pc \in {"start", "restart", "sweep"},
             valve[p].pc = "start" => Counts(valve[p].op) # "none"
      PROVE  Counts(valve[p].op) \in {"up", "zero"}
  <2> DEFINE o == valve[p].op
  <2>1. o \in 0..MaxOps
    BY DEF Typed, TypeOK, ValveType
  <2>2. ~valve[p].late
    BY <1>6, ValveNotLate
  <2>3. valve[p].pc \in {"restart", "sweep"} => o \in Ops /\ Latest(o)
    BY <2>2 DEF ValveHold, ValveKeeps
  <2> HIDE DEF o
  <2>4. Counts(o) \in {"none", "up", "zero"}
    BY <1>1, <2>1 DEF Counts, Ops
  <2>5. valve[p].pc \in {"restart", "sweep"} => Counts(o) # "none"
    <3>1. o \in Ops => Counts(o) = op[o].counts
      BY DEF Counts, Ops
    <3> QED
      BY <1>3, <2>3, <3>1
  <2>6. valve[p].pc = "start" => Counts(o) # "none"
    BY <1>6 DEF o
  <2> QED
    BY <1>6, <2>4, <2>5, <2>6 DEF o
<1> QED
  BY <1>4, <1>5, <1>6 DEF Starts

LEMMA StrandedStep ==
  ASSUME HoldInv, [Next]_vars
  PROVE  NeverStranded'
<1> USE DEF HoldInv, OwnerInv
<1>1. SUFFICES ASSUME ~Late', ~Lost' PROVE workloads' # "down"
  BY DEF NeverStranded, Lost
<1>2. ~Late /\ ~Lost
  BY <1>1, LateStays
<1>3. workloads \in {"up", "held", "gone"}
  BY <1>2 DEF NeverStranded, Lost, Typed, TypeOK
<1>4. ASSUME NEW c, Starts(c) PROVE workloads' # "down"
  <2>1. workloads = "held" => c \in {"up", "zero"}
    BY <1>1, <1>2, <1>4, StartsCounted
  <2>2. workloads' = Unquiesce(c)
    BY <1>4 DEF Starts
  <2> QED
    BY <1>3, <2>1, <2>2, UnquiesceIs
<1>5. ASSUME NEW p \in Procs, CancelClear(p) PROVE workloads' # "down"
  BY <1>1, <1>3, <1>5, ClearIs
<1>6. ASSUME NEW p \in Procs, NEW o \in Ops, ScaleDown(p, o) PROVE workloads' # "down"
  BY <1>3, <1>6 DEF ScaleDown
<1> QED
  BY <1>3, <1>4, <1>5, <1>6, WorkloadSteps

-----------------------------------------------------------------------------
(* The theorems.                                                           *)

(* No process takes back a lock that went to another after it had lapsed.  *)
NoTakeBack == Budget["retake"] = 0

LEMMA HoldInit ==
  ASSUME Init, Calm, NoTakeBack
  PROVE  HoldInv
<1>1. OwnerInv /\ NoRetake
  BY OwnerInit DEF Init, NoTakeBack, NoRetake
<1>2. /\ \A o \in Ops : op[o].kind = "none" /\ ~InFlight(o) /\ ~op[o].awaiting
      /\ \A p \in Procs, o \in Ops : run[p][o].pc = "none"
      /\ \A p \in Procs : valve[p].pc = "none"
      /\ tenant.active = 0 /\ tenant.state = "idle" /\ workloads = "up"
  BY DEF Init, Unstarted, InFlight, NotRunning, NoValve
<1>3. \A o \in Ops : o # 0
  BY DEF Ops
<1>4. ActiveShape /\ FailedShape /\ AwaitShape
  BY <1>2, <1>3 DEF ActiveShape, FailedShape, AwaitShape
<1>5. SettleShape /\ StopShape /\ GoneShape /\ UpShape
  BY <1>2 DEF SettleShape, SettleAt, FailPcs, StopShape, StopPcs, GoneShape, GonePcs, UpShape, UpPcs
<1>6. HeldShape /\ ValveHold /\ NeverStranded
  BY <1>2 DEF HeldShape, ValveHold, ValveKeeps, NeverStranded
<1> QED
  BY <1>1, <1>4, <1>5, <1>6 DEF HoldInv

LEMMA HoldStep ==
  ASSUME HoldInv, [Next]_vars
  PROVE  HoldInv'
<1>1. OwnerInv'
  BY OwnerStep DEF HoldInv
<1>2. NoRetake'
  <2>1. left'["retake"] \in Nat /\ left'["retake"] <= left["retake"]
    BY LeftStep DEF Spends, Troubles, HoldInv, OwnerInv, Typed
  <2> QED
    BY <2>1 DEF NoRetake, HoldInv
<1>3. ActiveShape' /\ SettleShape' /\ FailedShape' /\ AwaitShape'
  BY ActiveStep, SettleStep, FailedStep, AwaitStep
<1>4. StopShape' /\ GoneShape' /\ UpShape' /\ HeldShape'
  BY StopStep, GoneStep, UpStep, HeldStep
<1>5. ValveHold' /\ NeverStranded'
  BY ValveHoldStep, StrandedStep
<1> QED
  BY <1>1, <1>2, <1>3, <1>4, <1>5 DEF HoldInv

(* Workloads at zero always carry the hold that the recoveries read, for   *)
(* any number of processes, operations, valves, deaths, failures and       *)
(* pick-ups, unless a cancel or a reset failed to start them or somebody   *)
(* wrote late; when no process stops between a question and its step and   *)
(* none takes back a lock.                                                 *)
THEOREM NoneStranded == ASSUME Calm, NoTakeBack PROVE Spec => []NeverStranded
<1>1. Init => HoldInv
  BY HoldInit
<1>2. HoldInv /\ [Next]_vars => HoldInv'
  BY HoldStep
<1>3. HoldInv => NeverStranded
  BY DEF HoldInv
<1> QED
  BY <1>1, <1>2, <1>3, PTL DEF Spec

LEMMA DeletesHeld ==
  ASSUME HoldInv, [Next]_vars, claim # NoClaim, claim' = NoClaim
  PROVE  workloads # "up" \/ Late
<1> USE DEF HoldInv, OwnerInv
<1>1. claim \in ClaimType /\ (claim.by = -1 => ~claim.files)
  BY DEF Typed, TypeOK, ClaimType
<1>2. ASSUME NEW p \in Procs, NEW o \in Ops, CreateClaim(p, o) PROVE FALSE
  BY <1>2 DEF CreateClaim, NoClaim, Ops
<1>3. ASSUME NEW p \in Procs, NEW o \in Ops, RestoreFiles(p, o) PROVE FALSE
  <2>1. claim'.by = claim.by
    BY <1>1, <1>3 DEF RestoreFiles, ClaimType
  <2>2. claim.by = -1 /\ ~claim.files
    BY <1>1, <2>1 DEF NoClaim
  <2> QED
    BY <1>1, <2>2 DEF NoClaim, ClaimType
<1>4. ASSUME NEW p \in Procs, NEW o \in Ops, DeleteClaim(p, o) PROVE workloads # "up" \/ Late
  <2>1. /\ run[p][o].pc = "delete"
        /\ run[p][o].hot \/ "delete" \notin Asked(op[o].kind)
    BY <1>4 DEF DeleteClaim, At
  <2>2. op[o].kind \in Kinds /\ RunShape(p, o)
    BY <2>1, Started DEF Typed, PathShape
  <2>3. op[o].kind \in {"shrink", "retained", "archive"}
    BY <2>1, <2>2, StorageAssumption DEF RunShape, OffPath
  <2>4. run[p][o].hot
    BY <2>1, <2>2, <2>3, AskedSteps DEF RunShape, Sure, AtOnce
  <2>5. Mine(p, o)
    BY <2>4 DEF Owner, Locked, HoldShape, HoldAt, Mine
  <2> QED
    BY <2>1, <2>5 DEF StopShape, StopPcs
<1> QED
  BY <1>2, <1>3, <1>4, ClaimWriters

(* A volume is deleted only while the tenant's workloads are stopped,      *)
(* whoever died, failed, was picked up or lost its lock before, unless     *)
(* somebody wrote late; under the same two assumptions.                    *)
THEOREM DeletesWhileStopped == ASSUME Calm, NoTakeBack PROVE Spec => DeletesStopped
<1>1. Init => HoldInv
  BY HoldInit
<1>2. HoldInv /\ [Next]_vars => HoldInv'
  BY HoldStep
<1>3. HoldInv /\ [Next]_vars => [(claim # NoClaim /\ claim' = NoClaim) => workloads # "up" \/ Late]_vars
  BY DeletesHeld
<1> QED
  BY <1>1, <1>2, <1>3, PTL DEF Spec, DeletesStopped
=============================================================================
