-------------------------- MODULE StorageOpProofs --------------------------
(***************************************************************************)
(* Proofs about StorageOp: type correctness, for every budget of troubles, *)
(* and OneOperation: an operation in flight is the one that the tenant     *)
(* points at, unless somebody wrote late.  The second holds for every      *)
(* budget in which no process stops between a question and its step        *)
(* (Calm), the window that op-lock.ts leaves open on purpose; deaths,      *)
(* faults, lapses, take-backs, cancels, resets and reverts are included.   *)
(*                                                                         *)
(* PathShape and RowShape strengthen TypeOK: a run is at a step that its   *)
(* runner has and knows what that step needs.  OwnerInv is the inductive   *)
(* invariant of the second result.  Owner adds that a run which has asked  *)
(* holds the lock of an operation in flight and one past its end finds it  *)
(* ended (Locked), that rows are begun in order (OrderShape), that an      *)
(* operation in flight is the latest and the tenant's (OwnShape), and that *)
(* a valve that no begin has made late meets no operation in flight but    *)
(* the one it is about to end (ValveOwn).                                  *)
(***************************************************************************)
EXTENDS StorageOp, TLAPS

\* The steps that the runner of an operation does not have.
OffPath(k) ==
  CASE k = "shrink"   -> {"drop", "archiving", "recover"}
    [] k = "retained" -> {"snapshotting", "capture", "noteBundle", "restore", "drop", "reap",
                          "archiving", "recover"}
    [] k = "revert"   -> {"snapshotting", "capture", "noteBundle", "replacing", "drop", "delete",
                          "create", "restore", "size", "reap", "archiving"}
    [] OTHER          -> {"create", "restoring", "restore", "size", "reap", "unquiescing", "start",
                          "recover"}

-----------------------------------------------------------------------------
(* The step after each step.                                               *)

LEMMA ThenShrink ==
  /\ Then("shrink", "quiescing") = "counts"
  /\ Then("shrink", "counts") = "scale"
  /\ Then("shrink", "scale") = "snapshotting"
  /\ Then("shrink", "snapshotting") = "capture"
  /\ Then("shrink", "capture") = "noteBundle"
  /\ Then("shrink", "noteBundle") = "replacing"
  /\ Then("shrink", "replacing") = "delete"
  /\ Then("shrink", "delete") = "create"
  /\ Then("shrink", "create") = "restoring"
  /\ Then("shrink", "restoring") = "restore"
  /\ Then("shrink", "restore") = "unquiescing"
  /\ Then("shrink", "unquiescing") = "start"
  /\ Then("shrink", "start") = "size"
  /\ Then("shrink", "size") = "reap"
  /\ Then("shrink", "reap") = "finish"
  /\ Then("shrink", "finish") = "free"
<1>1. Path["shrink"] = ShrinkPath
  BY DEF Path
<1>2. DOMAIN ShrinkPath = 1..17
  BY DEF ShrinkPath
<1> QED
  BY <1>1, <1>2 DEF Then, ShrinkPath

LEMMA ThenRetained ==
  /\ Then("retained", "quiescing") = "counts"
  /\ Then("retained", "counts") = "scale"
  /\ Then("retained", "scale") = "restoring"
  /\ Then("retained", "restoring") = "replacing"
  /\ Then("retained", "replacing") = "delete"
  /\ Then("retained", "delete") = "create"
  /\ Then("retained", "create") = "size"
  /\ Then("retained", "size") = "unquiescing"
  /\ Then("retained", "unquiescing") = "start"
  /\ Then("retained", "start") = "finish"
  /\ Then("retained", "finish") = "free"
<1>1. Path["retained"] = RetainedPath
  BY DEF Path
<1>2. DOMAIN RetainedPath = 1..12
  BY DEF RetainedPath
<1> QED
  BY <1>1, <1>2 DEF Then, RetainedPath

LEMMA ThenRevert ==
  /\ Then("revert", "quiescing") = "counts"
  /\ Then("revert", "counts") = "scale"
  /\ Then("revert", "scale") = "restoring"
  /\ Then("revert", "restoring") = "unquiescing"
  /\ Then("revert", "unquiescing") = "start"
  /\ Then("revert", "start") = "finish"
  /\ Then("revert", "finish") = "free"
<1>1. Path["revert"] = RevertPath
  BY DEF Path
<1>2. DOMAIN RevertPath = 1..8
  BY DEF RevertPath
<1> QED
  BY <1>1, <1>2 DEF Then, RevertPath

LEMMA ThenArchive ==
  /\ Then("archive", "quiescing") = "counts"
  /\ Then("archive", "counts") = "scale"
  /\ Then("archive", "scale") = "snapshotting"
  /\ Then("archive", "snapshotting") = "capture"
  /\ Then("archive", "capture") = "noteBundle"
  /\ Then("archive", "noteBundle") = "replacing"
  /\ Then("archive", "replacing") = "drop"
  /\ Then("archive", "drop") = "delete"
  /\ Then("archive", "delete") = "archiving"
  /\ Then("archive", "archiving") = "finish"
  /\ Then("archive", "finish") = "free"
<1>1. Path["archive"] = ArchivePath
  BY DEF Path
<1>2. DOMAIN ArchivePath = 1..12
  BY DEF ArchivePath
<1> QED
  BY <1>1, <1>2 DEF Then, ArchivePath

-----------------------------------------------------------------------------
(* One step of one process.                                                *)

\* The steps before which the replica counts have been read.
Counted == Working \ {"quiescing", "counts"}

\* The steps that a run takes without asking again: those that follow at once, and its failure.
\* A revert has its workloads started in between.
Sure(k) == AtOnce(k) \cup {"recover", "end"} \cup (IF k = "revert" THEN {} ELSE {"mark"})

\* Where a run has ended its operation.
Ending == {"free", "settle", "give", "endSettle", "endGive"}

\* A run is at a step that its runner has, and knows what that step needs.
RunShape(p, o) ==
  /\ run[p][o].pc \notin OffPath(op[o].kind)
  /\ run[p][o].pc \in Sure(op[o].kind) => run[p][o].hot
  /\ run[p][o].pc \in Ending => ~run[p][o].hot
  /\ run[p][o].pc \in Counted => run[p][o].counts # "none"
  /\ run[p][o].pc = "scale" => op[o].counts # "none"

PathShape == \A p \in Procs, o \in Ops : RunShape(p, o)

\* The run of p of operation o is at pc now, and no other run has changed.
Moved(p, o, pc, hot, counts) ==
  /\ run' \in [Procs -> [Ops -> RunType]]
  /\ \A q \in Procs, x \in Ops : q # p \/ x # o => run'[q][x] = run[q][x]
  /\ run'[p][o].pc = pc
  /\ run'[p][o].hot = hot
  /\ run'[p][o].counts = counts

LEMMA MoveRun ==
  ASSUME TypeOK, NEW p \in Procs, NEW o \in Ops, NEW r \in RunType,
         run' = [run EXCEPT ![p][o] = r]
  PROVE  Moved(p, o, r.pc, r.hot, r.counts)
  BY DEF TypeOK, Moved

\* One field of a run at a time.
LEMMA FieldType ==
  ASSUME NEW r \in RunType
  PROVE  /\ \A pc \in Pcs : [r EXCEPT !.pc = pc] \in RunType
         /\ \A b \in BOOLEAN : /\ [r EXCEPT !.hot = b] \in RunType
                               /\ [r EXCEPT !.resumed = b] \in RunType
                               /\ [r EXCEPT !.replaced = b] \in RunType
                               /\ [r EXCEPT !.hold = b] \in RunType
         /\ \A c \in {"none", "up", "zero"} : [r EXCEPT !.counts = c] \in RunType
         /\ \A b \in {"none", "full", "empty"} : /\ [r EXCEPT !.taken = b] \in RunType
                                                 /\ [r EXCEPT !.bundle = b] \in RunType
  BY DEF RunType

LEMMA MoveGoto ==
  ASSUME TypeOK, NEW p \in Procs, NEW o \in Ops, NEW pc \in Pcs, Goto(p, o, pc)
  PROVE  Moved(p, o, pc, pc \in AtOnce(op[o].kind), run[p][o].counts)
<1> DEFINE hot == pc \in AtOnce(op[o].kind)
           r == [run[p][o] EXCEPT !.pc = pc, !.hot = hot]
<1>0. run[p][o] \in RunType
  BY DEF TypeOK
<1>1. hot \in BOOLEAN
  BY DEF AtOnce
<1>3. run' = [run EXCEPT ![p][o] = r]
  BY DEF Goto, TypeOK
<1> HIDE DEF hot
<1>2. r \in RunType
  BY <1>0, <1>1, FieldType
<1>4. r.pc = pc /\ r.hot = hot /\ r.counts = run[p][o].counts
  BY <1>0 DEF RunType
<1> HIDE DEF r
<1> QED
  BY <1>2, <1>3, <1>4, MoveRun DEF hot

LEMMA MoveLeave ==
  ASSUME TypeOK, NEW p \in Procs, NEW o \in Ops, run' = [run EXCEPT ![p][o] = NotRunning]
  PROVE  Moved(p, o, "none", FALSE, "none")
<1>1. NotRunning \in RunType
  BY DEF NotRunning, RunType, Pcs
<1> QED
  BY <1>1, MoveRun DEF NotRunning

LEMMA MovePc ==
  ASSUME TypeOK, NEW p \in Procs, NEW o \in Ops, NEW pc \in Pcs, run' = [run EXCEPT ![p][o].pc = pc]
  PROVE  Moved(p, o, pc, run[p][o].hot, run[p][o].counts)
<1> DEFINE r == [run[p][o] EXCEPT !.pc = pc]
<1>1. run[p][o] \in RunType
  BY DEF TypeOK
<1>2. run' = [run EXCEPT ![p][o] = r]
  BY DEF TypeOK
<1>3. r \in RunType
  BY <1>1, FieldType
<1>4. r.pc = pc /\ r.hot = run[p][o].hot /\ r.counts = run[p][o].counts
  BY <1>1 DEF RunType
<1> HIDE DEF r
<1> QED
  BY <1>2, <1>3, <1>4, MoveRun

LEMMA MovePcHot ==
  ASSUME TypeOK, NEW p \in Procs, NEW o \in Ops, NEW pc \in Pcs, NEW hot \in BOOLEAN,
         run' = [run EXCEPT ![p][o].pc = pc, ![p][o].hot = hot]
  PROVE  Moved(p, o, pc, hot, run[p][o].counts)
<1> DEFINE r == [run[p][o] EXCEPT !.pc = pc, !.hot = hot]
<1>1. run[p][o] \in RunType
  BY DEF TypeOK
<1>2. run' = [run EXCEPT ![p][o] = r]
  BY DEF TypeOK
<1>3. r \in RunType
  BY <1>1, FieldType
<1>4. r.pc = pc /\ r.hot = hot /\ r.counts = run[p][o].counts
  BY <1>1 DEF RunType
<1> HIDE DEF r
<1> QED
  BY <1>2, <1>3, <1>4, MoveRun

LEMMA MoveHot ==
  ASSUME TypeOK, NEW p \in Procs, NEW o \in Ops, run' = [run EXCEPT ![p][o].hot = TRUE]
  PROVE  Moved(p, o, run[p][o].pc, TRUE, run[p][o].counts)
<1> DEFINE r == [run[p][o] EXCEPT !.hot = TRUE]
<1>1. run[p][o] \in RunType
  BY DEF TypeOK
<1>2. run' = [run EXCEPT ![p][o] = r]
  BY DEF TypeOK
<1>3. r \in RunType
  BY <1>1, FieldType
<1>4. r.pc = run[p][o].pc /\ r.hot = TRUE /\ r.counts = run[p][o].counts
  BY <1>1 DEF RunType
<1> HIDE DEF r
<1> QED
  BY <1>2, <1>3, <1>4, MoveRun

LEMMA MoveTop ==
  ASSUME TypeOK, NEW p \in Procs, NEW o \in Ops, Top(p, o)
  PROVE  \E pc \in {"quiescing", "catch", "unquiescing"}, counts \in {"none", "up", "zero"} :
           /\ Moved(p, o, pc, run[p][o].hot, counts)
           /\ pc = "unquiescing" => op[o].kind # "archive" /\ counts # "none"
<1> DEFINE bundle == IF run[p][o].resumed /\ op[o].bundle \in {"full", "empty"}
                     THEN op[o].bundle ELSE "none"
           next == IF ~CutOffWhileUnquiescing(p, o) THEN "quiescing"
                   ELSE IF op[o].counts = "none" THEN "catch" ELSE "unquiescing"
           counts == IF next = "unquiescing" THEN op[o].counts ELSE run[p][o].counts
           r == [run[p][o] EXCEPT !.pc = next, !.bundle = bundle, !.counts = counts]
<1>1. run[p][o] \in RunType
  BY DEF TypeOK
<1>2. op[o].counts \in {"none", "up", "zero"} /\ run[p][o].counts \in {"none", "up", "zero"}
  BY <1>1 DEF TypeOK, OpType, RunType
<1>3. run' = [run EXCEPT ![p][o].pc = next, ![p][o].bundle = bundle,
                       ![p][o].counts = IF next = "unquiescing" THEN op[o].counts ELSE @]
  BY DEF Top
<1>4. /\ next \in {"quiescing", "catch", "unquiescing"}
      /\ next = "unquiescing" => op[o].kind # "archive" /\ op[o].counts # "none"
  BY DEF CutOffWhileUnquiescing
<1>5. bundle \in {"none", "full", "empty"}
  OBVIOUS
<1> HIDE DEF next, bundle
<1>6. run' = [run EXCEPT ![p][o] = r]
  BY <1>3 DEF TypeOK
<1>7. /\ counts \in {"none", "up", "zero"}
      /\ next = "unquiescing" => op[o].kind # "archive" /\ counts # "none"
  BY <1>2, <1>4
<1> HIDE DEF counts
<1>8. next \in Pcs
  BY <1>4 DEF Pcs, Working
<1>9. r \in RunType
  BY <1>1, <1>5, <1>7, <1>8, FieldType
<1>10. r.pc = next /\ r.hot = run[p][o].hot /\ r.counts = counts
  BY <1>1 DEF RunType
<1> HIDE DEF r
<1> QED
  BY <1>4, <1>6, <1>7, <1>9, <1>10, MoveRun

LEMMA MoveCounts ==
  ASSUME TypeOK, NEW p \in Procs, NEW o \in Ops, WriteCounts(p, o)
  PROVE  \E counts \in {"up", "zero"} :
           /\ Moved(p, o, "scale", run[p][o].hot, counts)
           /\ op' = [op EXCEPT ![o].counts = counts]
<1> DEFINE counts == IF run[p][o].resumed /\ op[o].counts # "none" THEN op[o].counts ELSE Live
           r == [run[p][o] EXCEPT !.pc = "scale", !.counts = counts]
<1>1. run[p][o] \in RunType
  BY DEF TypeOK
<1>2. counts \in {"up", "zero"}
  BY DEF TypeOK, OpType, Live
<1>3. run' = [run EXCEPT ![p][o] = r] /\ op' = [op EXCEPT ![o].counts = counts]
  BY DEF TypeOK, WriteCounts
<1> HIDE DEF counts
<1>4. "scale" \in Pcs
  BY DEF Pcs, Working
<1>5. r \in RunType
  BY <1>1, <1>2, <1>4, FieldType
<1>6. r.pc = "scale" /\ r.hot = run[p][o].hot /\ r.counts = counts
  BY <1>1 DEF RunType
<1> HIDE DEF r
<1> QED
  BY <1>2, <1>3, <1>5, <1>6, MoveRun

LEMMA QuiescedOnPath ==
  ASSUME TypeOK, PathShape, NEW p \in Procs, NEW o \in Ops, At(p, o, "scale")
  PROVE  /\ AfterQuiesce(p, o) \in {"replacing", "catch", "size", "snapshotting", "restoring"}
         /\ AfterQuiesce(p, o) \notin OffPath(op[o].kind)
<1>1. op[o].kind \in Kinds
  BY DEF TypeOK, At
<1>2. CASE op[o].kind = "shrink"
  BY <1>2, ThenShrink DEF AfterQuiesce, OffPath
<1>3. CASE op[o].kind = "retained"
  BY <1>3, ThenRetained DEF AfterQuiesce, OffPath
<1>4. CASE op[o].kind = "revert"
  BY <1>4, ThenRevert DEF AfterQuiesce, OffPath
<1>5. CASE op[o].kind = "archive"
  BY <1>5, ThenArchive DEF AfterQuiesce, OffPath
<1> QED
  BY <1>1, <1>2, <1>3, <1>4, <1>5, StorageAssumption

LEMMA MoveScale ==
  ASSUME TypeOK, PathShape, NEW p \in Procs, NEW o \in Ops, ScaleDown(p, o)
  PROVE  \E pc \in {"replacing", "catch", "size", "snapshotting", "restoring"} :
           /\ Moved(p, o, pc, FALSE, run[p][o].counts)
           /\ pc \notin OffPath(op[o].kind)
<1> DEFINE pc == AfterQuiesce(p, o)
           replaced == run[p][o].resumed /\ claim.by = o
           r == [run[p][o] EXCEPT !.pc = pc, !.hot = FALSE, !.replaced = replaced]
<1>1. run[p][o] \in RunType
  BY DEF TypeOK
<1>2. /\ pc \in {"replacing", "catch", "size", "snapshotting", "restoring"}
      /\ pc \notin OffPath(op[o].kind)
  BY QuiescedOnPath DEF ScaleDown
<1>3. run' = [run EXCEPT ![p][o] = r]
  BY DEF TypeOK, ScaleDown
<1>4. replaced \in BOOLEAN
  BY <1>1 DEF RunType
<1> HIDE DEF pc, replaced
<1>5. pc \in Pcs
  BY <1>2 DEF Pcs, Working
<1>6. r \in RunType
  BY <1>1, <1>4, <1>5, FieldType
<1>7. r.pc = pc /\ r.hot = FALSE /\ r.counts = run[p][o].counts
  BY <1>1 DEF RunType
<1> HIDE DEF r
<1> QED
  BY <1>2, <1>3, <1>6, <1>7, MoveRun

LEMMA MoveCapture ==
  ASSUME TypeOK, NEW p \in Procs, NEW o \in Ops, Capture(p, o)
  PROVE  \E pc \in {"catch", "noteBundle"} : Moved(p, o, pc, run[p][o].hot, run[p][o].counts)
<1> DEFINE pc == IF claim = NoClaim THEN "catch" ELSE "noteBundle"
           taken == IF claim.files THEN "full" ELSE "empty"
           r == [run[p][o] EXCEPT !.pc = pc, !.taken = taken]
<1>1. run[p][o] \in RunType
  BY DEF TypeOK
<1>2. run' = [run EXCEPT ![p][o] = r]
  BY DEF TypeOK, Capture
<1>3. pc \in {"catch", "noteBundle"} /\ taken \in {"none", "full", "empty"}
  OBVIOUS
<1> HIDE DEF pc, taken
<1>4. pc \in Pcs
  BY <1>3 DEF Pcs, Working
<1>5. r \in RunType
  BY <1>1, <1>3, <1>4, FieldType
<1>6. r.pc = pc /\ r.hot = run[p][o].hot /\ r.counts = run[p][o].counts
  BY <1>1 DEF RunType
<1> HIDE DEF r
<1> QED
  BY <1>2, <1>3, <1>5, <1>6, MoveRun

LEMMA MoveNote ==
  ASSUME TypeOK, NEW p \in Procs, NEW o \in Ops, NoteBundle(p, o)
  PROVE  Moved(p, o, "replacing", FALSE, run[p][o].counts)
<1> DEFINE r == [run[p][o] EXCEPT !.pc = "replacing", !.hot = FALSE, !.bundle = run[p][o].taken]
<1>1. run[p][o] \in RunType
  BY DEF TypeOK
<1>2. run' = [run EXCEPT ![p][o] = r]
  BY DEF TypeOK, NoteBundle
<1>3. "replacing" \in Pcs /\ run[p][o].taken \in {"none", "full", "empty"}
  BY <1>1 DEF Pcs, Working, RunType
<1>4. r \in RunType
  BY <1>1, <1>3, FieldType
<1>5. r.pc = "replacing" /\ r.hot = FALSE /\ r.counts = run[p][o].counts
  BY <1>1 DEF RunType
<1> HIDE DEF r
<1> QED
  BY <1>2, <1>4, <1>5, MoveRun

LEMMA MoveMark ==
  ASSUME TypeOK, NEW p \in Procs, NEW o \in Ops, MarkFailed(p, o)
  PROVE  \E pc \in {"settle", "give", "endSettle"} : Moved(p, o, pc, FALSE, run[p][o].counts)
<1> DEFINE pc == IF run[p][o].pc = "end" THEN "endSettle"
                 ELSE IF op[o].kind = "revert" THEN "give" ELSE "settle"
           hold == WorkloadsStayStopped(o)
           r == [run[p][o] EXCEPT !.hold = hold, !.pc = pc, !.hot = FALSE]
<1>1. run[p][o] \in RunType
  BY DEF TypeOK
<1>2. run' = [run EXCEPT ![p][o] = r]
  BY DEF TypeOK, MarkFailed
<1>3. pc \in {"settle", "give", "endSettle"} /\ hold \in BOOLEAN
  BY DEF WorkloadsStayStopped
<1> HIDE DEF pc, hold
<1>4. pc \in Pcs
  BY <1>3 DEF Pcs
<1>5. r \in RunType
  BY <1>1, <1>3, <1>4, FieldType
<1>6. r.pc = pc /\ r.hot = FALSE /\ r.counts = run[p][o].counts
  BY <1>1 DEF RunType
<1> HIDE DEF r
<1> QED
  BY <1>2, <1>3, <1>5, <1>6, MoveRun

LEMMA MoveResumed ==
  ASSUME TypeOK, NEW p \in Procs, NEW o \in Ops,
         run' = [run EXCEPT ![p][o].pc = "top", ![p][o].resumed = TRUE]
  PROVE  Moved(p, o, "top", run[p][o].hot, run[p][o].counts)
<1> DEFINE r == [run[p][o] EXCEPT !.pc = "top", !.resumed = TRUE]
<1>1. run[p][o] \in RunType
  BY DEF TypeOK
<1>2. run' = [run EXCEPT ![p][o] = r]
  BY DEF TypeOK
<1>3. "top" \in Pcs
  BY DEF Pcs
<1>4. r \in RunType
  BY <1>1, <1>3, FieldType
<1>5. r.pc = "top" /\ r.hot = run[p][o].hot /\ r.counts = run[p][o].counts
  BY <1>1 DEF RunType
<1> HIDE DEF r
<1> QED
  BY <1>2, <1>4, <1>5, MoveRun

-----------------------------------------------------------------------------
(* One write of a row of storage_operations.                               *)

OpStates == {"none", "quiescing", "snapshotting", "replacing", "restoring", "unquiescing",
             "archiving", "idle", "failed"}

\* The row of operation o has this state, mark and counts now, and no other row has changed.
Wrote(o, state, awaiting, counts) ==
  /\ op' \in [Ops -> OpType]
  /\ \A x \in Ops : x # o => op'[x] = op[x]
  /\ op'[o].kind = op[o].kind
  /\ op'[o].state = state
  /\ op'[o].awaiting = awaiting
  /\ op'[o].counts = counts

LEMMA OpFieldType ==
  ASSUME NEW w \in OpType
  PROVE  /\ \A v \in OpStates : [w EXCEPT !.state = v] \in OpType
         /\ \A v \in Kinds : [w EXCEPT !.kind = v] \in OpType
         /\ \A v \in BOOLEAN : [w EXCEPT !.awaiting = v] \in OpType /\ [w EXCEPT !.whole = v] \in OpType
         /\ \A v \in 0..MaxResumes : [w EXCEPT !.resumes = v] \in OpType
         /\ \A v \in {"none", "up", "zero"} : [w EXCEPT !.counts = v] \in OpType
         /\ \A v \in {"none", "full", "empty", "failed", "reaped"} : [w EXCEPT !.bundle = v] \in OpType
  BY DEF OpType, OpStates

LEMMA WriteOp ==
  ASSUME TypeOK, NEW o \in Ops, NEW w \in OpType, w.kind = op[o].kind, op' = [op EXCEPT ![o] = w]
  PROVE  Wrote(o, w.state, w.awaiting, w.counts)
  BY DEF TypeOK, Wrote

LEMMA WriteState ==
  ASSUME TypeOK, NEW o \in Ops, NEW v \in OpStates, op' = [op EXCEPT ![o].state = v]
  PROVE  Wrote(o, v, op[o].awaiting, op[o].counts)
<1> DEFINE w == [op[o] EXCEPT !.state = v]
<1>1. op[o] \in OpType
  BY DEF TypeOK
<1>2. op' = [op EXCEPT ![o] = w]
  BY DEF TypeOK
<1>3. w \in OpType
  BY <1>1, OpFieldType
<1>4. w.kind = op[o].kind /\ w.state = v /\ w.awaiting = op[o].awaiting /\ w.counts = op[o].counts
  BY <1>1 DEF OpType
<1> HIDE DEF w
<1> QED
  BY <1>2, <1>3, <1>4, WriteOp

\* A row that ends settles the bundle of its snapshot row too.
LEMMA WriteEnd ==
  ASSUME TypeOK, NEW o \in Ops, NEW v \in OpStates,
         NEW b \in {"none", "full", "empty", "failed", "reaped"},
         op' = [op EXCEPT ![o].state = v, ![o].bundle = b]
  PROVE  Wrote(o, v, op[o].awaiting, op[o].counts)
<1> DEFINE w == [op[o] EXCEPT !.state = v, !.bundle = b]
<1>1. op[o] \in OpType
  BY DEF TypeOK
<1>2. op' = [op EXCEPT ![o] = w]
  BY DEF TypeOK
<1>3. w \in OpType
  BY <1>1, OpFieldType
<1>4. w.kind = op[o].kind /\ w.state = v /\ w.awaiting = op[o].awaiting /\ w.counts = op[o].counts
  BY <1>1 DEF OpType
<1> HIDE DEF w
<1> QED
  BY <1>2, <1>3, <1>4, WriteOp

LEMMA WriteStarted ==
  ASSUME TypeOK, NEW o \in Ops, op' = [op EXCEPT ![o].awaiting = FALSE]
  PROVE  Wrote(o, op[o].state, FALSE, op[o].counts)
<1> DEFINE w == [op[o] EXCEPT !.awaiting = FALSE]
<1>1. op[o] \in OpType
  BY DEF TypeOK
<1>2. op' = [op EXCEPT ![o] = w]
  BY DEF TypeOK
<1>3. w \in OpType
  BY <1>1, OpFieldType
<1>4. w.kind = op[o].kind /\ w.state = op[o].state /\ w.awaiting = FALSE /\ w.counts = op[o].counts
  BY <1>1 DEF OpType
<1> HIDE DEF w
<1> QED
  BY <1>2, <1>3, <1>4, WriteOp

LEMMA WriteOpCounts ==
  ASSUME TypeOK, NEW o \in Ops, NEW c \in {"up", "zero"}, op' = [op EXCEPT ![o].counts = c]
  PROVE  Wrote(o, op[o].state, op[o].awaiting, c)
<1> DEFINE w == [op[o] EXCEPT !.counts = c]
<1>1. op[o] \in OpType
  BY DEF TypeOK
<1>2. op' = [op EXCEPT ![o] = w]
  BY DEF TypeOK
<1>3. w \in OpType
  BY <1>1, OpFieldType
<1>4. w.kind = op[o].kind /\ w.state = op[o].state /\ w.awaiting = op[o].awaiting /\ w.counts = c
  BY <1>1 DEF OpType
<1> HIDE DEF w
<1> QED
  BY <1>2, <1>3, <1>4, WriteOp

LEMMA WriteBundle ==
  ASSUME TypeOK, NEW o \in Ops, NEW b \in {"none", "full", "empty", "reaped"},
         op' = [op EXCEPT ![o].bundle = b]
  PROVE  Wrote(o, op[o].state, op[o].awaiting, op[o].counts)
<1> DEFINE w == [op[o] EXCEPT !.bundle = b]
<1>1. op[o] \in OpType
  BY DEF TypeOK
<1>2. op' = [op EXCEPT ![o] = w]
  BY DEF TypeOK
<1>3. w \in OpType
  BY <1>1, OpFieldType
<1>4. /\ w.kind = op[o].kind /\ w.state = op[o].state
      /\ w.awaiting = op[o].awaiting /\ w.counts = op[o].counts
  BY <1>1 DEF OpType
<1> HIDE DEF w
<1> QED
  BY <1>2, <1>3, <1>4, WriteOp

LEMMA WriteResumes ==
  ASSUME TypeOK, NEW o \in Ops, ~Spent(o), op' = [op EXCEPT ![o].resumes = @ + 1]
  PROVE  Wrote(o, op[o].state, op[o].awaiting, op[o].counts)
<1> DEFINE n == op[o].resumes + 1
           w == [op[o] EXCEPT !.resumes = n]
<1>1. op[o] \in OpType
  BY DEF TypeOK
<1>2. op' = [op EXCEPT ![o] = w]
  BY DEF TypeOK
<1>3. op[o].resumes \in 0..MaxResumes
  BY <1>1 DEF OpType
<1>4. n \in 0..MaxResumes
  BY <1>3, StorageAssumption DEF Spent
<1> HIDE DEF n
<1>5. w \in OpType
  BY <1>1, <1>4, OpFieldType
<1>6. /\ w.kind = op[o].kind /\ w.state = op[o].state
      /\ w.awaiting = op[o].awaiting /\ w.counts = op[o].counts
  BY <1>1 DEF OpType
<1> HIDE DEF w
<1> QED
  BY <1>2, <1>5, <1>6, WriteOp

\* Withdraw, Finish, MarkFailed
LEMMA WriteWithdrawn ==
  ASSUME TypeOK, NEW o \in Ops, Withdraw(o)
  PROVE  Wrote(o, "failed", op[o].awaiting, op[o].counts)
<1> DEFINE b == IF op[o].bundle = "none" THEN "failed" ELSE op[o].bundle
<1>1. op[o] \in OpType
  BY DEF TypeOK
<1>2. b \in {"none", "full", "empty", "failed", "reaped"}
  BY <1>1 DEF OpType
<1>3. op' = [op EXCEPT ![o].state = "failed", ![o].bundle = b]
  BY DEF Withdraw, TypeOK
<1> HIDE DEF b
<1>4. "failed" \in OpStates
  BY DEF OpStates
<1> QED
  BY <1>2, <1>3, <1>4, WriteEnd

LEMMA WriteFinished ==
  ASSUME TypeOK, NEW p \in Procs, NEW o \in Ops, Finish(p, o)
  PROVE  Wrote(o, "idle", op[o].awaiting, op[o].counts)
<1>1. op' = [op EXCEPT ![o].state = "idle"] /\ "idle" \in OpStates
  BY DEF Finish, OpStates
<1> QED
  BY <1>1, WriteState

LEMMA WriteFailed ==
  ASSUME TypeOK, NEW p \in Procs, NEW o \in Ops, MarkFailed(p, o)
  PROVE  Wrote(o, "failed", op[o].awaiting, op[o].counts)
<1> DEFINE settled == IF run[p][o].pc = "end"
                      THEN IF op[o].bundle = "none" THEN "failed" ELSE op[o].bundle
                      ELSE IF run[p][o].bundle # "none" THEN run[p][o].bundle ELSE "failed"
           b == IF op[o].kind \in {"shrink", "archive"} THEN settled ELSE op[o].bundle
<1>1. op[o] \in OpType /\ run[p][o] \in RunType
  BY DEF TypeOK
<1>2. b \in {"none", "full", "empty", "failed", "reaped"}
  BY <1>1 DEF OpType, RunType
<1>3. op' = [op EXCEPT ![o].state = "failed", ![o].bundle = b]
  BY DEF MarkFailed, TypeOK
<1> HIDE DEF b
<1>4. "failed" \in OpStates
  BY DEF OpStates
<1> QED
  BY <1>2, <1>3, <1>4, WriteEnd

-----------------------------------------------------------------------------
(* What a step of a run comes to.                                          *)

\* The rows are what they were, but for counts and bundles.
KeepsOps ==
  /\ op' \in [Ops -> OpType]
  /\ \A x \in Ops :
       /\ op'[x].kind = op[x].kind
       /\ op'[x].state = op[x].state
       /\ op'[x].awaiting = op[x].awaiting
       /\ op[x].kind = "none" => op'[x] = op[x]
       /\ op[x].counts # "none" => op'[x].counts # "none"

\* A run goes on: what it may do next it either was sure of, or has asked for.
Goes(p, o) ==
  /\ KeepsOps
  /\ UNCHANGED <<tenant, lock, alive>>
  /\ run[p][o].pc \notin {"none", "starting", "mark", "end"} \cup Ending
  /\ \E pc \in Pcs \ ({"none", "starting", "top", "end"} \cup Ending), hot \in BOOLEAN,
        counts \in {"none", "up", "zero"} :
       /\ Moved(p, o, pc, hot, counts)
       /\ pc \notin OffPath(op[o].kind)
       /\ pc \in Sure(op[o].kind) => hot
       /\ hot => run[p][o].hot \/ Mine(p, o)
       /\ pc \in Counted => counts # "none"
       /\ pc = "scale" => op'[o].counts # "none"

LEMMA SameOps ==
  ASSUME TypeOK, UNCHANGED op
  PROVE  KeepsOps
  BY DEF TypeOK, KeepsOps

LEMMA WroteKeeps ==
  ASSUME TypeOK, NEW p \in Procs, NEW o \in Ops, run[p][o].pc # "none",
         NEW counts, op[o].counts # "none" => counts # "none",
         Wrote(o, op[o].state, op[o].awaiting, counts)
  PROVE  KeepsOps
<1>1. op[o].kind # "none"
  BY StorageAssumption DEF TypeOK
<1> QED
  BY <1>1 DEF Wrote, KeepsOps

LEMMA GoesTop ==
  ASSUME TypeOK, PathShape, NEW p \in Procs, NEW o \in Ops, Top(p, o)
  PROVE  Goes(p, o)
<1>1. PICK pc \in {"quiescing", "catch", "unquiescing"}, counts \in {"none", "up", "zero"} :
           /\ Moved(p, o, pc, run[p][o].hot, counts)
           /\ pc = "unquiescing" => op[o].kind # "archive" /\ counts # "none"
  BY MoveTop
<1>2. run[p][o].hot \in BOOLEAN /\ op[o].kind \in Kinds
  BY DEF TypeOK, RunType, Top
<1>3. /\ pc \in Pcs \ ({"none", "starting", "top", "end"} \cup Ending)
      /\ pc \notin Sure(op[o].kind)
      /\ pc # "scale"
      /\ pc \in Counted => pc = "unquiescing"
  BY <1>1 DEF Pcs, Working, Ending, Sure, AtOnce, Counted
<1>4. pc \notin OffPath(op[o].kind)
  BY <1>1, <1>2, StorageAssumption DEF OffPath
<1>5. /\ UNCHANGED <<op, tenant, lock, alive>>
      /\ run[p][o].pc \notin {"none", "starting", "mark", "end"} \cup Ending
  BY DEF Top, Ending
<1>6. KeepsOps
  BY <1>5, SameOps
<1> QED
  BY <1>1, <1>2, <1>3, <1>4, <1>5, <1>6 DEF Goes

LEMMA AskedSteps ==
  ASSUME NEW k \in Kinds
  PROVE  /\ Asked(k) \subseteq Working \ {"scale"}
         /\ ProgressSteps \subseteq Asked(k)
         /\ k \in {"retained", "archive"} => "finish" \in Asked(k)
         /\ k \in {"shrink", "archive"} => "delete" \in Asked(k)
  BY StorageAssumption DEF Asked, ProgressSteps, Working

LEMMA GoesAsk ==
  ASSUME TypeOK, PathShape, NEW p \in Procs, NEW o \in Ops, Ask(p, o), Mine(p, o)
  PROVE  Goes(p, o)
<1> DEFINE pc == run[p][o].pc
<1>1. Moved(p, o, pc, TRUE, run[p][o].counts)
  BY MoveHot DEF Ask
<1>2. pc \in Asked(op[o].kind) /\ UNCHANGED <<op, tenant, lock, alive>>
  BY DEF Ask
<1>3. run[p][o].counts \in {"none", "up", "zero"}
  BY DEF TypeOK, RunType
<1>4. op[o].kind \in Kinds
  <2>1. pc # "none"
    BY <1>2 DEF Asked, ProgressSteps
  <2> QED
    BY <2>1 DEF TypeOK
<1>5. pc \in Working \ {"scale"}
  BY <1>2, <1>4, AskedSteps
<1>6. /\ pc \in Pcs \ ({"none", "starting", "top", "end"} \cup Ending)
      /\ pc \notin {"none", "starting", "mark", "end"} \cup Ending
  BY <1>5 DEF Pcs, Working, Ending
<1>7. pc \notin OffPath(op[o].kind) /\ (pc \in Counted => run[p][o].counts # "none")
  BY DEF PathShape, RunShape
<1>8. KeepsOps
  BY <1>2, SameOps
<1> QED
  BY <1>1, <1>2, <1>3, <1>5, <1>6, <1>7, <1>8 DEF Goes

\* A step that goes to one before which its runner asks, or fails.
LEMMA GoesOn ==
  ASSUME TypeOK, PathShape, NEW p \in Procs, NEW o \in Ops,
         run[p][o].pc \in Counted,
         KeepsOps, UNCHANGED <<tenant, lock, alive>>,
         NEW pc \in Working \cup {"catch"}, NEW hot \in BOOLEAN,
         pc \notin OffPath(op[o].kind), pc \notin Sure(op[o].kind),
         hot => run[p][o].hot,
         Moved(p, o, pc, hot, run[p][o].counts)
  PROVE  Goes(p, o)
<1>1. run[p][o].counts \in {"up", "zero"}
  BY DEF TypeOK, RunType, PathShape, RunShape
<1>2. /\ run[p][o].pc \notin {"none", "starting", "mark", "end"} \cup Ending
      /\ pc \in Pcs \ ({"none", "starting", "top", "end"} \cup Ending)
      /\ pc # "scale"
  BY DEF Counted, Working, Ending, Pcs, Sure, AtOnce
<1> QED
  BY <1>1, <1>2 DEF Goes

LEMMA GoesCounts ==
  ASSUME TypeOK, PathShape, NEW p \in Procs, NEW o \in Ops, WriteCounts(p, o)
  PROVE  Goes(p, o)
<1>1. PICK counts \in {"up", "zero"} : /\ Moved(p, o, "scale", run[p][o].hot, counts)
                                       /\ op' = [op EXCEPT ![o].counts = counts]
  BY MoveCounts
<1>2. Wrote(o, op[o].state, op[o].awaiting, counts)
  BY <1>1, WriteOpCounts
<1>3. run[p][o].pc = "counts" /\ UNCHANGED <<tenant, lock, alive>>
  BY DEF WriteCounts, At
<1>4. run[p][o].hot /\ op[o].kind \in Kinds
  BY <1>3 DEF PathShape, RunShape, Sure, AtOnce, TypeOK
<1>5. KeepsOps
  BY <1>1, <1>2, <1>3, WroteKeeps
<1>6. /\ "scale" \in Pcs \ ({"none", "starting", "top", "end"} \cup Ending)
      /\ run[p][o].pc \notin {"none", "starting", "mark", "end"} \cup Ending
  BY <1>3 DEF Pcs, Working, Ending
<1>7. "scale" \notin OffPath(op[o].kind)
  BY <1>4, StorageAssumption DEF OffPath
<1>8. op'[o].counts # "none"
  BY <1>1, <1>2 DEF Wrote
<1>9. run[p][o].hot \in BOOLEAN /\ counts \in {"none", "up", "zero"} /\ counts # "none"
  BY <1>1, <1>4 DEF TypeOK, RunType
<1> QED
  BY <1>1, <1>3, <1>4, <1>5, <1>6, <1>7, <1>8, <1>9 DEF Goes

LEMMA GoesScale ==
  ASSUME TypeOK, PathShape, NEW p \in Procs, NEW o \in Ops, ScaleDown(p, o)
  PROVE  Goes(p, o)
<1>1. PICK pc \in {"replacing", "catch", "size", "snapshotting", "restoring"} :
           /\ Moved(p, o, pc, FALSE, run[p][o].counts)
           /\ pc \notin OffPath(op[o].kind)
  BY MoveScale
<1>2. UNCHANGED <<op, tenant, lock, alive>> /\ run[p][o].pc = "scale"
  BY DEF ScaleDown, At
<1>3. KeepsOps
  BY <1>2, SameOps
<1>4. pc \in Working \cup {"catch"} /\ pc \notin Sure(op[o].kind) /\ "scale" \in Counted
  BY DEF Working, Sure, AtOnce, Counted
<1> QED
  BY <1>1, <1>2, <1>3, <1>4, GoesOn

LEMMA GoesCapture ==
  ASSUME TypeOK, PathShape, NEW p \in Procs, NEW o \in Ops, Capture(p, o)
  PROVE  Goes(p, o)
<1>1. PICK pc \in {"catch", "noteBundle"} : Moved(p, o, pc, run[p][o].hot, run[p][o].counts)
  BY MoveCapture
<1>2. UNCHANGED <<op, tenant, lock, alive>> /\ run[p][o].pc = "capture"
  BY DEF Capture, At
<1>3. KeepsOps
  BY <1>2, SameOps
<1>4. pc \in Working \cup {"catch"} /\ pc \notin Sure(op[o].kind) /\ "capture" \in Counted
  BY DEF Working, Sure, AtOnce, Counted
<1>5. op[o].kind \in Kinds /\ "capture" \notin OffPath(op[o].kind) /\ run[p][o].hot \in BOOLEAN
  BY <1>2 DEF PathShape, RunShape, TypeOK, RunType
<1>6. pc \notin OffPath(op[o].kind)
  BY <1>5, StorageAssumption DEF OffPath
<1> QED
  BY <1>1, <1>2, <1>3, <1>4, <1>5, <1>6, GoesOn

LEMMA GoesNote ==
  ASSUME TypeOK, PathShape, NEW p \in Procs, NEW o \in Ops, NoteBundle(p, o)
  PROVE  Goes(p, o)
<1>1. Moved(p, o, "replacing", FALSE, run[p][o].counts)
  BY MoveNote
<1>2. UNCHANGED <<tenant, lock, alive>> /\ run[p][o].pc = "noteBundle"
  BY DEF NoteBundle, At
<1>3. run[p][o].taken \in {"none", "full", "empty"}
  BY DEF TypeOK, RunType
<1>4. Wrote(o, op[o].state, op[o].awaiting, op[o].counts)
  BY <1>3, WriteBundle DEF NoteBundle
<1>5. KeepsOps
  BY <1>2, <1>4, WroteKeeps
<1>6. "replacing" \in Working /\ "replacing" \notin Sure(op[o].kind) /\ "noteBundle" \in Counted
  BY DEF Working, Sure, AtOnce, Counted
<1>7. op[o].kind \in Kinds /\ "noteBundle" \notin OffPath(op[o].kind)
  BY <1>2 DEF PathShape, RunShape, TypeOK
<1>8. "replacing" \notin OffPath(op[o].kind)
  BY <1>7, StorageAssumption DEF OffPath
<1> QED
  BY <1>1, <1>2, <1>5, <1>6, <1>8, GoesOn

LEMMA GoesGoto ==
  ASSUME TypeOK, PathShape, NEW p \in Procs, NEW o \in Ops,
         run[p][o].pc \in Counted, UNCHANGED <<op, tenant, lock, alive>>,
         NEW pc \in Working \cup {"catch"}, pc \notin OffPath(op[o].kind), pc \notin Sure(op[o].kind),
         Goto(p, o, pc)
  PROVE  Goes(p, o)
<1>1. pc \in Pcs /\ ~(pc \in AtOnce(op[o].kind))
  BY DEF Pcs, Sure
<1> DEFINE hot == pc \in AtOnce(op[o].kind)
<1>2. Moved(p, o, pc, hot, run[p][o].counts)
  BY <1>1, MoveGoto
<1>4. hot = FALSE
  BY <1>1
<1> HIDE DEF hot
<1>3. Moved(p, o, pc, FALSE, run[p][o].counts)
  BY <1>2, <1>4
<1> QED
  BY <1>3, SameOps, GoesOn

LEMMA GoesVolume ==
  ASSUME TypeOK, PathShape, NEW p \in Procs, NEW o \in Ops,
         \/ DropWorkloads(p, o) \/ DeleteClaim(p, o) \/ CreateClaim(p, o)
         \/ RestoreFiles(p, o) \/ WriteSize(p, o) \/ StartWorkloads(p, o)
  PROVE  Goes(p, o)
<1> DEFINE k == op[o].kind
<1>1. /\ run[p][o].pc \in {"drop", "delete", "create", "restore", "size", "start"}
      /\ UNCHANGED <<op, tenant, lock, alive>>
  BY DEF DropWorkloads, DeleteClaim, CreateClaim, RestoreFiles, WriteSize, StartWorkloads, At
<1>2. k \in Kinds /\ run[p][o].pc \notin OffPath(k)
  BY <1>1 DEF TypeOK, PathShape, RunShape
<1>3. \/ Goto(p, o, Then(k, run[p][o].pc))
      \/ Goto(p, o, "catch")
  BY <1>1 DEF DropWorkloads, DeleteClaim, CreateClaim, RestoreFiles, WriteSize, StartWorkloads,
              Advance, At
<1>4. /\ Then(k, run[p][o].pc) \in Working
      /\ Then(k, run[p][o].pc) \notin OffPath(k)
      /\ Then(k, run[p][o].pc) \notin Sure(k)
  <2>1. CASE k = "shrink"
    BY <1>1, <1>2, <2>1, ThenShrink DEF OffPath, Working, Sure, AtOnce
  <2>2. CASE k = "retained"
    BY <1>1, <1>2, <2>2, ThenRetained DEF OffPath, Working, Sure, AtOnce
  <2>3. CASE k = "revert"
    BY <1>1, <1>2, <2>3, ThenRevert DEF OffPath, Working, Sure, AtOnce
  <2>4. CASE k = "archive"
    BY <1>1, <1>2, <2>4, ThenArchive DEF OffPath, Working, Sure, AtOnce
  <2> QED
    BY <1>2, <2>1, <2>2, <2>3, <2>4, StorageAssumption
<1>5. "catch" \notin OffPath(k) /\ "catch" \notin Sure(k)
  BY <1>2, StorageAssumption DEF OffPath, Sure, AtOnce
<1>6. run[p][o].pc \in Counted
  BY <1>1 DEF Counted, Working
<1> QED
  BY <1>1, <1>3, <1>4, <1>5, <1>6, GoesGoto

LEMMA GoesReap ==
  ASSUME TypeOK, PathShape, NEW p \in Procs, NEW o \in Ops, ReapBundle(p, o)
  PROVE  Goes(p, o)
<1>1. run[p][o].pc = "reap" /\ UNCHANGED <<tenant, lock, alive>> /\ Advance(p, o)
  BY DEF ReapBundle, At
<1>2. op[o].kind \in Kinds /\ "reap" \notin OffPath(op[o].kind)
  BY <1>1 DEF TypeOK, PathShape, RunShape
<1>3. op[o].kind = "shrink"
  BY <1>2, StorageAssumption DEF OffPath
<1>4. Goto(p, o, "finish")
  BY <1>1, <1>3, ThenShrink DEF Advance
<1> DEFINE hot == "finish" \in AtOnce(op[o].kind)
<1>5. "finish" \in Pcs /\ hot = FALSE
  BY <1>3 DEF Pcs, Working, AtOnce
<1>6. Moved(p, o, "finish", hot, run[p][o].counts)
  BY <1>4, <1>5, MoveGoto
<1> HIDE DEF hot
<1>7. Moved(p, o, "finish", FALSE, run[p][o].counts)
  BY <1>5, <1>6
<1>8. Wrote(o, op[o].state, op[o].awaiting, op[o].counts)
  BY WriteBundle DEF ReapBundle
<1>9. KeepsOps
  BY <1>1, <1>8, WroteKeeps
<1>10. /\ "reap" \in Counted /\ "finish" \in Working
       /\ "finish" \notin Sure(op[o].kind) /\ "finish" \notin OffPath(op[o].kind)
  BY <1>3 DEF Counted, Working, Sure, AtOnce, OffPath
<1> QED
  BY <1>1, <1>7, <1>9, <1>10, GoesOn

LEMMA GoesRecover ==
  ASSUME TypeOK, PathShape, NEW p \in Procs, NEW o \in Ops, Recover(p, o)
  PROVE  Goes(p, o)
<1>1. /\ run[p][o].pc = "recover" /\ UNCHANGED <<op, tenant, lock, alive>>
      /\ run' = [run EXCEPT ![p][o].pc = "mark", ![p][o].hot = FALSE]
  BY DEF Recover
<1>2. op[o].kind \in Kinds /\ "recover" \notin OffPath(op[o].kind) /\ run[p][o].counts \in {"none", "up", "zero"}
  BY <1>1 DEF TypeOK, PathShape, RunShape, RunType
<1>3. op[o].kind = "revert"
  BY <1>2, StorageAssumption DEF OffPath
<1>4. /\ "mark" \in Pcs \ ({"none", "starting", "top", "end"} \cup Ending)
      /\ "mark" \notin Counted /\ "mark" \notin Sure("revert") /\ "mark" \notin OffPath("revert")
      /\ "recover" \notin {"none", "starting", "mark", "end"} \cup Ending
  BY DEF Pcs, Working, Counted, Sure, AtOnce, OffPath, Ending
<1>5. Moved(p, o, "mark", FALSE, run[p][o].counts)
  BY <1>1, <1>4, MovePcHot
<1>6. KeepsOps
  BY <1>1, SameOps
<1> QED
  BY <1>1, <1>2, <1>3, <1>4, <1>5, <1>6 DEF Goes

LEMMA GoesThrow ==
  ASSUME TypeOK, PathShape, NEW p \in Procs, NEW o \in Ops, Throw(p, o)
  PROVE  Goes(p, o)
<1>1. /\ run[p][o].pc \in Working /\ UNCHANGED <<op, tenant, lock, alive>>
      /\ run' = [run EXCEPT ![p][o].pc = "catch", ![p][o].hot = FALSE]
  BY DEF Throw
<1>2. /\ "catch" \in Pcs \ ({"none", "starting", "top", "end"} \cup Ending)
      /\ "catch" \notin Counted /\ "catch" \notin Sure(op[o].kind)
      /\ run[p][o].pc \notin {"none", "starting", "mark", "end"} \cup Ending
  BY <1>1 DEF Pcs, Working, Counted, Sure, AtOnce, Ending
<1>3. Moved(p, o, "catch", FALSE, run[p][o].counts)
  BY <1>1, <1>2, MovePcHot
<1>4. op[o].kind \in Kinds /\ run[p][o].counts \in {"none", "up", "zero"}
  BY <1>2 DEF TypeOK, RunType
<1>5. "catch" \notin OffPath(op[o].kind)
  BY <1>4, StorageAssumption DEF OffPath
<1>6. KeepsOps
  BY <1>1, SameOps
<1> QED
  BY <1>1, <1>2, <1>3, <1>4, <1>5, <1>6 DEF Goes

LEMMA GoesCatch ==
  ASSUME TypeOK, PathShape, NEW p \in Procs, NEW o \in Ops, Catch(p, o), Mine(p, o)
  PROVE  Goes(p, o)
<1> DEFINE pc == IF op[o].kind = "revert" THEN "recover" ELSE "mark"
<1>1. /\ run[p][o].pc = "catch" /\ UNCHANGED <<op, tenant, lock, alive>>
      /\ run' = [run EXCEPT ![p][o].pc = pc, ![p][o].hot = TRUE]
  BY DEF Catch, TypeOK
<1>2. op[o].kind \in Kinds /\ run[p][o].counts \in {"none", "up", "zero"}
  BY <1>1 DEF TypeOK, RunType
<1>3. pc \notin OffPath(op[o].kind) /\ pc \in {"recover", "mark"}
  BY <1>2, StorageAssumption DEF OffPath
<1> HIDE DEF pc
<1>4. /\ pc \in Pcs \ ({"none", "starting", "top", "end"} \cup Ending)
      /\ pc \notin Counted /\ pc # "scale"
      /\ run[p][o].pc \notin {"none", "starting", "mark", "end"} \cup Ending
  BY <1>1, <1>3 DEF Pcs, Working, Counted, Ending
<1>5. Moved(p, o, pc, TRUE, run[p][o].counts)
  BY <1>1, <1>4, MovePcHot
<1>6. KeepsOps
  BY <1>1, SameOps
<1> QED
  BY <1>1, <1>2, <1>3, <1>4, <1>5, <1>6 DEF Goes

\* A step that writes the state of the operation goes to the step it announces.
LEMMA GoesProgress ==
  ASSUME TypeOK, PathShape, NEW p \in Procs, NEW o \in Ops, Progress(p, o)
  PROVE  /\ run[p][o].pc \in ProgressSteps /\ run[p][o].hot
         /\ Wrote(o, run[p][o].pc, op[o].awaiting, op[o].counts)
         /\ \E pc \in {"counts", "capture", "delete", "drop", "restoring", "restore", "replacing",
                      "unquiescing", "start", "finish"} :
              /\ Moved(p, o, pc, pc \in AtOnce(op[o].kind), run[p][o].counts)
              /\ pc \notin OffPath(op[o].kind)
              /\ pc \in Counted => run[p][o].pc \in Counted
              /\ pc = "finish" => op[o].kind = "archive" /\ run[p][o].pc = "archiving"
              /\ pc = "delete" => op[o].kind # "archive"
<1> DEFINE k == op[o].kind
           pc == AfterProgress(p, o)
<1>1. /\ run[p][o].pc \in ProgressSteps /\ At(p, o, run[p][o].pc) /\ Goto(p, o, pc)
      /\ op' = [op EXCEPT ![o].state = run[p][o].pc]
  BY DEF Progress
<1>2. k \in Kinds /\ run[p][o].pc \notin OffPath(k)
  BY <1>1 DEF TypeOK, PathShape, RunShape, ProgressSteps
<1>3. run[p][o].hot
  BY <1>1, <1>2, AskedSteps DEF At
<1>4. run[p][o].pc \in OpStates
  BY <1>1 DEF ProgressSteps, OpStates
<1>5. Wrote(o, run[p][o].pc, op[o].awaiting, op[o].counts)
  BY <1>1, <1>4, WriteState
<1>6. /\ pc \in {"counts", "capture", "delete", "drop", "restoring", "restore", "replacing",
                  "unquiescing", "start", "finish"}
      /\ pc \notin OffPath(k)
      /\ pc = "finish" => k = "archive" /\ run[p][o].pc = "archiving"
      /\ pc = "delete" => k # "archive"
      /\ run[p][o].pc = "quiescing" => pc = "counts"
  <2>1. CASE k = "shrink"
    BY <1>1, <1>2, <2>1, ThenShrink DEF OffPath, AfterProgress, ProgressSteps
  <2>2. CASE k = "retained"
    BY <1>1, <1>2, <2>2, ThenRetained DEF OffPath, AfterProgress, ProgressSteps
  <2>3. CASE k = "revert"
    BY <1>1, <1>2, <2>3, ThenRevert DEF OffPath, AfterProgress, ProgressSteps
  <2>4. CASE k = "archive"
    BY <1>1, <1>2, <2>4, ThenArchive DEF OffPath, AfterProgress, ProgressSteps
  <2> QED
    BY <1>2, <2>1, <2>2, <2>3, <2>4, StorageAssumption
<1> HIDE DEF pc
<1>7. pc \in Pcs /\ (pc \in Counted => run[p][o].pc \in Counted)
  BY <1>1, <1>6 DEF Pcs, Working, Counted, ProgressSteps
<1>8. Moved(p, o, pc, pc \in AtOnce(k), run[p][o].counts)
  BY <1>1, <1>7, MoveGoto
<1> QED
  BY <1>1, <1>3, <1>5, <1>6, <1>7, <1>8

\* The row of a new operation.
LEMMA BeginRow ==
  ASSUME TypeOK, NEW p \in Procs, NEW o \in Ops, NEW k \in Kinds, Begin(p, o, k)
  PROVE  /\ op' \in [Ops -> OpType]
         /\ \A x \in Ops : x # o => op'[x] = op[x]
         /\ op'[o].kind = k /\ op'[o].awaiting /\ op'[o].counts = "none"
         /\ op'[o].state \in {"snapshotting", "quiescing"}
<1> DEFINE first == FirstState(k)
           files == claim.files
           w == [Unstarted EXCEPT !.kind = k, !.state = first, !.awaiting = TRUE, !.whole = files]
<1>1. first \in {"snapshotting", "quiescing"} /\ first \in OpStates /\ files \in BOOLEAN
  BY DEF FirstState, TypeOK, OpStates
<1>2. Unstarted \in OpType
  BY StorageAssumption DEF OpType, Unstarted
<1>3. op' = [op EXCEPT ![o] = w]
  BY DEF Begin
<1> HIDE DEF first, files
<1>4. w \in OpType
  BY <1>1, <1>2, OpFieldType
<1>5. w.kind = k /\ w.awaiting = TRUE /\ w.counts = "none" /\ w.state = first
  BY DEF Unstarted
<1> HIDE DEF w
<1>6. op'[o] = w /\ op' \in [Ops -> OpType] /\ \A x \in Ops : x # o => op'[x] = op[x]
  BY <1>3, <1>4 DEF TypeOK
<1> QED
  BY <1>1, <1>5, <1>6

LEMMA BeginRun ==
  ASSUME TypeOK, NEW p \in Procs, NEW o \in Ops, NEW k \in Kinds, Begin(p, o, k)
  PROVE  /\ \A q \in Procs : run[q][o].pc = "none"
         /\ Moved(p, o, "starting", run[p][o].hot, run[p][o].counts)
<1>1. op[o].kind \notin Kinds
  BY StorageAssumption DEF Begin, Unstarted
<1>2. \A q \in Procs : run[q][o].pc = "none"
  BY <1>1 DEF TypeOK
<1>3. "starting" \in Pcs
  BY DEF Pcs
<1> QED
  BY <1>2, <1>3, MovePc DEF Begin

\* The steps of a run that only move it on.
Moving(p, o) ==
  \/ Top(p, o) \/ WriteCounts(p, o) \/ ScaleDown(p, o) \/ Capture(p, o) \/ NoteBundle(p, o)
  \/ DropWorkloads(p, o) \/ DeleteClaim(p, o) \/ CreateClaim(p, o) \/ RestoreFiles(p, o)
  \/ WriteSize(p, o) \/ StartWorkloads(p, o) \/ ReapBundle(p, o) \/ Throw(p, o) \/ Recover(p, o)
  \/ (Mine(p, o) /\ (Ask(p, o) \/ Catch(p, o)))

\* A run that is told that the operation is not its own returns.
Stopping(p, o) == ~Mine(p, o) /\ (Ask(p, o) \/ Catch(p, o))

LEMMA GoesMoving ==
  ASSUME TypeOK, PathShape, NEW p \in Procs, NEW o \in Ops, Moving(p, o)
  PROVE  Goes(p, o)
  BY GoesTop, GoesCounts, GoesScale, GoesCapture, GoesNote, GoesVolume, GoesReap, GoesThrow,
     GoesRecover, GoesAsk, GoesCatch DEF Moving

\* A valve is begun.
Looks(p) == CancelLook(p) \/ ResetLook(p) \/ SweepLook(p)

\* The steps of the valves after that, but for the end a cancel puts to an operation.
ValveActs(p) ==
  CancelStart(p) \/ CancelClear(p) \/ ResetStart(p) \/ SweepStart(p) \/ ValveFree(p)

\* What the valves leave alone.
LEMMA ValvesLeave ==
  ASSUME NEW p
  PROVE  /\ Looks(p) => UNCHANGED <<op, tenant, lock, run, claim, workloads, alive, decided>>
         /\ ValveActs(p) => UNCHANGED <<op, lock, run, claim, alive>>
         /\ CancelEnd(p) => UNCHANGED <<tenant, lock, run, claim, workloads, alive, decided>>
         /\ ValveStep(p) => CancelEnd(p) \/ ValveActs(p)
         /\ ValveActs(p) /\ ~ValveFree(p) => UNCHANGED tenant
         /\ ValveFree(p) => UNCHANGED <<workloads, left>>
<1>1. Looks(p) => UNCHANGED <<op, tenant, lock, run, claim, workloads, alive, decided>>
  BY DEF Looks, CancelLook, ResetLook, SweepLook
<1>2. /\ ValveActs(p) => UNCHANGED <<op, lock, run, claim, alive>>
      /\ ValveActs(p) /\ ~ValveFree(p) => UNCHANGED tenant
  BY DEF ValveActs, CancelStart, CancelClear, ResetStart, SweepStart, ValveFree
<1>3. CancelEnd(p) => UNCHANGED <<tenant, lock, run, claim, workloads, alive, decided>>
  BY DEF CancelEnd
<1>4. ValveFree(p) => UNCHANGED <<workloads, left>>
  BY DEF ValveFree
<1> QED
  BY <1>1, <1>2, <1>3, <1>4 DEF ValveStep, ValveActs

\* Every step is one of these.
LEMMA StepKinds ==
  ASSUME [Next]_vars
  PROVE  \/ UNCHANGED vars
         \/ \E p \in Procs, o \in Ops :
              \/ \E k \in Kinds : Begin(p, o, k)
              \/ Moving(p, o) \/ Stopping(p, o)
              \/ StartRun(p, o) \/ StartRefused(p, o)
              \/ Progress(p, o) \/ Finish(p, o) \/ FreeTenant(p, o)
              \/ MarkFailed(p, o) \/ Settle(p, o) \/ GiveBack(p, o)
              \/ PickUp(p, o) \/ EndStale(p, o) \/ Renew(p, o)
         \/ \E p \in Procs : Crash(p) \/ Looks(p) \/ ValveStep(p)
         \/ \E o \in Ops : Lapse(o)
  BY DEF Next, Step, Moving, Stopping, Looks

-----------------------------------------------------------------------------
(* Types.                                                                  *)

\* A row that was not started is empty.
RowShape == \A o \in Ops : op[o].kind = "none" => op[o] = Unstarted

\* Rows are started once; a started row keeps its kind and its counts, and never waits for its
\* lock again.
RowGrows(x) ==
  \/ op'[x] = op[x]
  \/ /\ op[x].kind # "none" /\ op'[x].kind = op[x].kind
     /\ op'[x].awaiting => op[x].awaiting
     /\ op[x].counts # "none" => op'[x].counts # "none"
  \/ /\ op[x] = Unstarted /\ op'[x].kind \in Kinds
     /\ \E p \in Procs, k \in Kinds : Begin(p, x, k)

RowsGrow == op' \in [Ops -> OpType] /\ \A x \in Ops : RowGrows(x)

LEMMA RowsSame ==
  ASSUME TypeOK, UNCHANGED op
  PROVE  RowsGrow
  BY DEF TypeOK, RowsGrow, RowGrows

LEMMA RowsWrote ==
  ASSUME TypeOK, NEW o \in Ops, op[o].kind # "none", NEW state, NEW awaiting,
         awaiting => op[o].awaiting, Wrote(o, state, awaiting, op[o].counts)
  PROVE  RowsGrow
  BY DEF Wrote, RowsGrow, RowGrows

LEMMA Started ==
  ASSUME TypeOK, RowShape, NEW o \in Ops
  PROVE  /\ InFlight(o) => op[o].kind # "none"
         /\ \A p \in Procs : run[p][o].pc # "none" => op[o].kind # "none" /\ op[o].kind \in Kinds /\ p \in alive
  BY StorageAssumption DEF TypeOK, RowShape, InFlight, Unstarted

LEMMA RowsActs ==
  ASSUME TypeOK, PathShape, RowShape, NEW p \in Procs, NEW o \in Ops,
         \/ StartRun(p, o) \/ StartRefused(p, o) \/ Progress(p, o) \/ Finish(p, o)
         \/ MarkFailed(p, o) \/ PickUp(p, o)
  PROVE  RowsGrow
<1>1. CASE StartRun(p, o)
  <2>1. op[o].kind # "none"
    BY <1>1, Started DEF StartRun
  <2> QED
    BY <1>1, <2>1, WriteStarted, RowsWrote DEF StartRun
<1>2. CASE StartRefused(p, o)
  <2>1. op[o].kind # "none"
    BY <1>2, Started DEF StartRefused
  <2> QED
    BY <1>2, <2>1, WriteWithdrawn, RowsWrote, RowsSame DEF StartRefused
<1>3. CASE Progress(p, o)
  <2>1. op[o].kind # "none"
    BY <1>3, GoesProgress, Started DEF ProgressSteps
  <2> QED
    BY <1>3, <2>1, GoesProgress, RowsWrote
<1>4. CASE Finish(p, o)
  <2>1. op[o].kind # "none"
    BY <1>4, Started DEF Finish, At
  <2> QED
    BY <1>4, <2>1, WriteFinished, RowsWrote
<1>5. CASE MarkFailed(p, o)
  <2>1. op[o].kind # "none"
    BY <1>5, Started DEF MarkFailed
  <2> QED
    BY <1>5, <2>1, WriteFailed, RowsWrote
<1>6. CASE PickUp(p, o)
  <2>1. op[o].kind # "none"
    BY <1>6, Started DEF PickUp, Interrupted
  <2>2. CASE Withdraw(o)
    BY <2>1, <2>2, WriteWithdrawn, RowsWrote
  <2>3. CASE UNCHANGED <<op, tenant>>
    BY <2>3, RowsSame
  <2>4. CASE ~Spent(o) /\ op' = [op EXCEPT ![o].resumes = @ + 1]
    <3>1. Wrote(o, op[o].state, op[o].awaiting, op[o].counts)
      BY <2>4, WriteResumes
    <3> QED
      BY <2>1, <3>1, RowsWrote
  <2>5. \/ Withdraw(o) \/ UNCHANGED <<op, tenant>>
        \/ ~Spent(o) /\ op' = [op EXCEPT ![o].resumes = @ + 1]
    BY <1>6 DEF PickUp
  <2> QED
    BY <2>2, <2>3, <2>4, <2>5
<1> QED
  BY <1>1, <1>2, <1>3, <1>4, <1>5, <1>6

LEMMA RowsStep ==
  ASSUME TypeOK, PathShape, RowShape, [Next]_vars
  PROVE  RowsGrow
<1>1. ASSUME NEW p \in Procs, NEW o \in Ops, NEW k \in Kinds, Begin(p, o, k) PROVE RowsGrow
  <2>1. op[o] = Unstarted
    BY <1>1 DEF Begin
  <2> QED
    BY <1>1, <2>1, BeginRow DEF RowsGrow, RowGrows
<1>2. ASSUME NEW p \in Procs, NEW o \in Ops, Moving(p, o) PROVE RowsGrow
  <2>1. KeepsOps
    BY <1>2, GoesMoving DEF Goes
  <2> QED
    BY <2>1 DEF KeepsOps, RowsGrow, RowGrows
<1>3. ASSUME NEW p \in Procs, CancelEnd(p) PROVE RowsGrow
  <2> DEFINE o == valve[p].op
  <2>1. CASE o # 0 /\ InFlight(o)
    <3>1. o \in Ops
      BY <2>1 DEF TypeOK, ValveType, Ops
    <3>2. op' = [op EXCEPT ![o].state = "failed"] /\ "failed" \in OpStates
      BY <1>3, <2>1 DEF CancelEnd, OpStates
    <3>3. op[o].kind # "none"
      BY <2>1, <3>1, Started
    <3> HIDE DEF o
    <3>4. Wrote(o, "failed", op[o].awaiting, op[o].counts)
      BY <3>1, <3>2, WriteState
    <3> QED
      BY <3>1, <3>3, <3>4, RowsWrote
  <2>2. CASE ~(o # 0 /\ InFlight(o))
    BY <1>3, <2>2, RowsSame DEF CancelEnd
  <2> QED
    BY <2>1, <2>2
<1>4. CASE UNCHANGED op
  BY <1>4, RowsSame
<1>5. ASSUME NEW p \in Procs, NEW o \in Ops, \/ Stopping(p, o) \/ FreeTenant(p, o) \/ Settle(p, o)
                                              \/ GiveBack(p, o) \/ EndStale(p, o) \/ Renew(p, o)
      PROVE UNCHANGED op
  BY <1>5 DEF Stopping, Ask, Catch, FreeTenant, Settle, GiveBack, EndStale, Renew
<1>6. ASSUME NEW o \in Ops, Lapse(o) PROVE UNCHANGED op
  BY <1>6 DEF Lapse
<1>7. ASSUME NEW p \in Procs, Crash(p) PROVE UNCHANGED op
  BY <1>7 DEF Crash
<1>8. ASSUME NEW p \in Procs, Looks(p) \/ ValveActs(p) PROVE UNCHANGED op
  BY <1>8, ValvesLeave
<1>9. CASE UNCHANGED vars
  BY <1>4, <1>9 DEF vars
<1> QED
  BY <1>1, <1>2, <1>3, <1>4, <1>5, <1>6, <1>7, <1>8, <1>9, StepKinds, ValvesLeave, RowsActs

\* A run is left alone, has returned, or is at a step of its runner.
RunGrows(p, o) ==
  \/ run'[p][o] = run[p][o] /\ (p \in alive => p \in alive')
  \/ run'[p][o].pc = "none" /\ run'[p][o].hot = FALSE
  \/ /\ run'[p][o].pc # "none" /\ p \in alive' /\ op'[o].kind \in Kinds
     /\ RunShape(p, o)'

RunsGrow == run' \in [Procs -> [Ops -> RunType]] /\ \A p \in Procs, o \in Ops : RunGrows(p, o)

LEMMA RunsSame ==
  ASSUME TypeOK, UNCHANGED <<run, alive>>
  PROVE  RunsGrow
  BY DEF TypeOK, RunsGrow, RunGrows

LEMMA RunsLeft ==
  ASSUME NEW p \in Procs, NEW o \in Ops, UNCHANGED alive, Moved(p, o, "none", FALSE, "none")
  PROVE  RunsGrow
  BY DEF Moved, RunsGrow, RunGrows

LEMMA RunsMoved ==
  ASSUME TypeOK, RowsGrow, NEW p \in Procs, NEW o \in Ops, UNCHANGED alive, p \in alive,
         op'[o].kind \in Kinds,
         NEW pc, NEW hot, NEW counts, Moved(p, o, pc, hot, counts),
         pc # "none", pc \notin OffPath(op'[o].kind), pc \in Sure(op'[o].kind) => hot,
         pc \in Ending => ~hot, pc \in Counted => counts # "none", pc = "scale" => op'[o].counts # "none"
  PROVE  RunsGrow
<1>1. RunShape(p, o)'
  BY DEF Moved, RunShape, OffPath, Sure, AtOnce, Ending
<1> QED
  BY <1>1 DEF Moved, RunsGrow, RunGrows

LEMMA RunKept ==
  ASSUME TypeOK, RowShape, RowsGrow, NEW p \in Procs, NEW o \in Ops, run[p][o].pc # "none"
  PROVE  op'[o].kind = op[o].kind /\ op'[o].kind \in Kinds /\ p \in alive
<1>1. op[o].kind \in Kinds /\ op[o] # Unstarted
  BY StorageAssumption DEF TypeOK, Unstarted
<1> QED
  BY <1>1 DEF RowsGrow, RowGrows, TypeOK

LEMMA NotWorking ==
  ASSUME NEW k \in Kinds, NEW pc \in {"starting", "top", "end"} \cup Ending
  PROVE  pc \notin OffPath(k) /\ pc \notin Counted /\ pc # "scale" /\ pc # "none" /\ pc \in Pcs
  BY StorageAssumption DEF OffPath, Counted, Working, Pcs, Ending

LEMMA RunsMovedOut ==
  ASSUME TypeOK, RowsGrow, NEW p \in Procs, NEW o \in Ops, UNCHANGED alive, p \in alive,
         op'[o].kind \in Kinds,
         NEW pc \in {"starting", "top", "end"} \cup Ending,
         NEW hot, NEW counts, Moved(p, o, pc, hot, counts), pc = "end" => hot, pc \in Ending => ~hot
  PROVE  RunsGrow
<1>1. pc \in Sure(op'[o].kind) => hot
  BY DEF Sure, AtOnce, Ending
<1> QED
  BY <1>1, NotWorking, RunsMoved

LEMMA RunsActs ==
  ASSUME TypeOK, PathShape, RowShape, RowsGrow, NEW p \in Procs, NEW o \in Ops,
         \/ Moving(p, o) \/ Stopping(p, o) \/ StartRun(p, o) \/ StartRefused(p, o) \/ Progress(p, o)
         \/ Finish(p, o) \/ FreeTenant(p, o) \/ MarkFailed(p, o) \/ Settle(p, o) \/ GiveBack(p, o)
  PROVE  RunsGrow
<1>1. CASE Moving(p, o)
  <2>1. Goes(p, o)
    BY <1>1, GoesMoving
  <2>2. PICK pc \in Pcs \ ({"none", "starting", "top", "end"} \cup Ending), hot \in BOOLEAN,
             counts \in {"none", "up", "zero"} :
               /\ Moved(p, o, pc, hot, counts)
               /\ pc \notin OffPath(op[o].kind)
               /\ pc \in Sure(op[o].kind) => hot
               /\ pc \in Counted => counts # "none"
               /\ pc = "scale" => op'[o].counts # "none"
    BY <2>1 DEF Goes
  <2>3. run[p][o].pc # "none" /\ UNCHANGED alive
    BY <2>1 DEF Goes
  <2>4. op'[o].kind = op[o].kind /\ op'[o].kind \in Kinds /\ p \in alive
    BY <2>3, RunKept
  <2>5. pc \notin Ending /\ pc # "none"
    BY <2>2
  <2> QED
    BY <2>2, <2>3, <2>4, <2>5, RunsMoved
<1>2. CASE Stopping(p, o) \/ StartRefused(p, o) \/ FreeTenant(p, o) \/ GiveBack(p, o)
  <2>1. run' = [run EXCEPT ![p][o] = NotRunning] /\ UNCHANGED alive
    BY <1>2 DEF Stopping, Ask, Catch, StartRefused, FreeTenant, GiveBack, Leave
  <2> QED
    BY <2>1, MoveLeave, RunsLeft
<1>3. CASE StartRun(p, o)
  <2>1. run[p][o].pc = "starting" /\ run' = [run EXCEPT ![p][o].pc = "top"] /\ UNCHANGED alive
    BY <1>3 DEF StartRun
  <2>2. op'[o].kind \in Kinds /\ p \in alive
    BY <2>1, RunKept
  <2>3. "top" \in Pcs
    BY DEF Pcs
  <2>4. Moved(p, o, "top", run[p][o].hot, run[p][o].counts)
    BY <2>1, <2>3, MovePc
  <2>5. "top" \notin Ending
    BY DEF Ending
  <2> QED
    BY <2>1, <2>2, <2>4, <2>5, RunsMovedOut
<1>4. CASE Progress(p, o)
  <2>1. PICK pc \in {"counts", "capture", "delete", "drop", "restoring", "restore", "replacing",
                     "unquiescing", "start", "finish"} :
              /\ Moved(p, o, pc, pc \in AtOnce(op[o].kind), run[p][o].counts)
              /\ pc \notin OffPath(op[o].kind)
              /\ pc \in Counted => run[p][o].pc \in Counted
    BY <1>4, GoesProgress
  <2>2. run[p][o].pc # "none" /\ UNCHANGED alive
    BY <1>4 DEF Progress, ProgressSteps
  <2>3. op'[o].kind = op[o].kind /\ op'[o].kind \in Kinds /\ p \in alive
    BY <2>2, RunKept
  <2>4. pc \in Counted => run[p][o].counts # "none"
    BY <2>1 DEF PathShape, RunShape
  <2>5. pc # "none" /\ pc # "scale" /\ pc \notin Ending
    BY <2>1 DEF Ending
  <2> DEFINE hot == pc \in AtOnce(op[o].kind)
  <2>6. pc \in Sure(op'[o].kind) => hot
    BY <2>1, <2>3 DEF Sure, AtOnce
  <2>7. Moved(p, o, pc, hot, run[p][o].counts)
    BY <2>1
  <2> HIDE DEF hot
  <2> QED
    BY <2>1, <2>2, <2>3, <2>4, <2>5, <2>6, <2>7, RunsMoved
<1>5. CASE Finish(p, o)
  <2>1. run[p][o].pc = "finish" /\ Goto(p, o, "free") /\ UNCHANGED alive
    BY <1>5 DEF Finish, At
  <2>2. op'[o].kind \in Kinds /\ p \in alive
    BY <2>1, RunKept
  <2> DEFINE hot == "free" \in AtOnce(op[o].kind)
  <2>3. "free" \in Pcs /\ "free" \in Ending /\ hot = FALSE
    BY DEF Pcs, AtOnce, Ending
  <2>4. Moved(p, o, "free", hot, run[p][o].counts)
    BY <2>1, <2>3, MoveGoto
  <2> HIDE DEF hot
  <2> QED
    BY <2>1, <2>2, <2>3, <2>4, RunsMovedOut DEF Ending
<1>6. CASE MarkFailed(p, o)
  <2>1. run[p][o].pc \in {"mark", "end"} /\ UNCHANGED alive
    BY <1>6 DEF MarkFailed
  <2>2. op'[o].kind \in Kinds /\ p \in alive
    BY <2>1, RunKept
  <2>3. PICK pc \in {"settle", "give", "endSettle"} : Moved(p, o, pc, FALSE, run[p][o].counts)
    BY <1>6, MoveMark
  <2>4. pc \in Ending /\ pc # "end"
    BY DEF Ending
  <2> QED
    BY <2>1, <2>2, <2>3, <2>4, RunsMovedOut
<1>7. CASE Settle(p, o)
  <2> DEFINE pc == IF run[p][o].pc = "settle" THEN "give" ELSE "endGive"
  <2>1. /\ run[p][o].pc \in {"settle", "endSettle"} /\ UNCHANGED alive
        /\ run' = [run EXCEPT ![p][o].pc = pc]
    BY <1>7 DEF Settle
  <2>2. op'[o].kind \in Kinds /\ p \in alive
    BY <2>1, RunKept
  <2>3. run[p][o].hot = FALSE
    <3>1. run[p][o].hot \in BOOLEAN
      BY DEF TypeOK, RunType
    <3> QED
      BY <2>1, <3>1 DEF PathShape, RunShape, Ending
  <2>4. pc \in Ending /\ pc \in Pcs /\ pc # "end"
    BY DEF Ending, Pcs
  <2> HIDE DEF pc
  <2>5. Moved(p, o, pc, run[p][o].hot, run[p][o].counts)
    BY <2>1, <2>4, MovePc
  <2> QED
    BY <2>1, <2>2, <2>3, <2>4, <2>5, RunsMovedOut
<1> QED
  BY <1>1, <1>2, <1>3, <1>4, <1>5, <1>6, <1>7

LEMMA RunsStep ==
  ASSUME TypeOK, PathShape, RowShape, RowsGrow, [Next]_vars
  PROVE  RunsGrow
<1>1. ASSUME NEW p \in Procs, NEW o \in Ops, NEW k \in Kinds, Begin(p, o, k) PROVE RunsGrow
  <2>1. p \in alive /\ UNCHANGED alive
    BY <1>1 DEF Begin
  <2>2. op'[o].kind \in Kinds
    BY <1>1, BeginRow
  <2>3. Moved(p, o, "starting", run[p][o].hot, run[p][o].counts)
    BY <1>1, BeginRun
  <2>4. "starting" \notin Ending
    BY DEF Ending
  <2> QED
    BY <2>1, <2>2, <2>3, <2>4, RunsMovedOut
<1>2. ASSUME NEW p \in Procs, NEW o \in Ops, PickUp(p, o) \/ EndStale(p, o) PROVE RunsGrow
  <2>1. p \in alive /\ UNCHANGED alive /\ InFlight(o)
    BY <1>2 DEF PickUp, EndStale, Interrupted
  <2>2. op[o].kind \in Kinds /\ op[o] # Unstarted
    BY <2>1, Started, StorageAssumption DEF TypeOK, OpType, Unstarted
  <2>3. op'[o].kind \in Kinds
    BY <2>2 DEF RowsGrow, RowGrows
  <2>4. CASE UNCHANGED <<run, lock>>
    BY <2>1, <2>4, RunsSame
  <2>5. CASE run' = [run EXCEPT ![p][o].pc = "end", ![p][o].hot = TRUE]
    <3>1. "end" \in Pcs
      BY DEF Pcs
    <3>2. Moved(p, o, "end", TRUE, run[p][o].counts)
      BY <2>5, <3>1, MovePcHot
    <3>3. "end" \notin Ending
      BY DEF Ending
    <3> QED
      BY <2>1, <2>3, <3>2, <3>3, RunsMovedOut
  <2>6. CASE run' = [run EXCEPT ![p][o].pc = "top", ![p][o].resumed = TRUE]
    <3>1. Moved(p, o, "top", run[p][o].hot, run[p][o].counts)
      BY <2>6, MoveResumed
    <3>2. "top" \notin Ending
      BY DEF Ending
    <3> QED
      BY <2>1, <2>3, <3>1, <3>2, RunsMovedOut
  <2>7. \/ UNCHANGED <<run, lock>>
        \/ run' = [run EXCEPT ![p][o].pc = "end", ![p][o].hot = TRUE]
        \/ run' = [run EXCEPT ![p][o].pc = "top", ![p][o].resumed = TRUE]
    BY <1>2 DEF PickUp, EndStale
  <2> QED
    BY <2>4, <2>5, <2>6, <2>7
<1>3. ASSUME NEW p \in Procs, Crash(p) PROVE RunsGrow
  <2>1. NotRunning \in RunType /\ NotRunning.pc = "none" /\ NotRunning.hot = FALSE
    BY DEF NotRunning, RunType, Pcs
  <2>2. /\ run' \in [Procs -> [Ops -> RunType]]
        /\ \A o \in Ops : run'[p][o] = NotRunning
        /\ \A q \in Procs : q # p => run'[q] = run[q] /\ (q \in alive => q \in alive')
    BY <1>3, <2>1 DEF Crash, TypeOK
  <2> QED
    BY <2>1, <2>2 DEF RunsGrow, RunGrows
<1>4. CASE UNCHANGED <<run, alive>>
  BY <1>4, RunsSame
<1>5. ASSUME NEW p \in Procs, NEW o \in Ops, Renew(p, o) PROVE UNCHANGED <<run, alive>>
  BY <1>5 DEF Renew
<1>6. ASSUME NEW o \in Ops, Lapse(o) PROVE UNCHANGED <<run, alive>>
  BY <1>6 DEF Lapse
<1>7. ASSUME NEW p \in Procs, Looks(p) \/ ValveStep(p) PROVE UNCHANGED <<run, alive>>
  BY <1>7, ValvesLeave
<1>8. CASE UNCHANGED vars
  BY <1>4, <1>8 DEF vars
<1> QED
  BY <1>1, <1>2, <1>3, <1>4, <1>5, <1>6, <1>7, <1>8, StepKinds, RunsActs

TenantType == [state : {"idle", "busy", "failed"}, active : 0..MaxOps]
LockType == [holder : Procs \cup {NoProc}, fresh : BOOLEAN]
ClaimType == [by : -1..MaxOps, files : BOOLEAN]

\* The steps that write the tenant's row, and what they write.
LEMMA TenantStep ==
  ASSUME TypeOK, [Next]_vars
  PROVE  tenant' \in TenantType
<1>1. tenant \in TenantType /\ \A o \in Ops : o \in 0..MaxOps /\ 0 \in 0..MaxOps
  BY StorageAssumption DEF TypeOK, TenantType, Ops
<1>2. /\ [state |-> "idle", active |-> 0] \in TenantType
      /\ \A o \in Ops : /\ [state |-> "busy", active |-> o] \in TenantType
                        /\ [state |-> "failed", active |-> o] \in TenantType
                        /\ [state |-> "failed", active |-> 0] \in TenantType
      /\ [tenant EXCEPT !.state = "busy"] \in TenantType
  BY <1>1, StorageAssumption DEF TenantType
<1>3. ASSUME NEW p \in Procs, NEW o \in Ops,
             \/ \E k \in Kinds : Begin(p, o, k)
             \/ StartRefused(p, o) \/ Progress(p, o) \/ FreeTenant(p, o) \/ GiveBack(p, o) \/ PickUp(p, o)
      PROVE  tenant' \in TenantType
  BY <1>1, <1>2, <1>3 DEF Begin, StartRefused, Progress, FreeTenant, GiveBack, PickUp, Withdraw
<1>4. ASSUME NEW p \in Procs, ValveFree(p) PROVE tenant' \in TenantType
  BY <1>2, <1>4 DEF ValveFree
<1>5. ASSUME NEW p \in Procs, NEW o \in Ops,
             \/ Moving(p, o) \/ Stopping(p, o) \/ StartRun(p, o) \/ Finish(p, o) \/ MarkFailed(p, o)
             \/ Settle(p, o) \/ EndStale(p, o) \/ Renew(p, o)
      PROVE  UNCHANGED tenant
  BY <1>5 DEF Moving, Stopping, Ask, Catch, StartRun, Finish, MarkFailed, Settle, EndStale, Renew,
              Top, WriteCounts, ScaleDown, Capture, NoteBundle, DropWorkloads, DeleteClaim, CreateClaim,
              RestoreFiles, WriteSize, StartWorkloads, ReapBundle, Throw, Recover
<1>6. ASSUME NEW p \in Procs, Crash(p) PROVE UNCHANGED tenant
  BY <1>6 DEF Crash
<1>7. ASSUME NEW o \in Ops, Lapse(o) PROVE UNCHANGED tenant
  BY <1>7 DEF Lapse
<1>8. ASSUME NEW p \in Procs, Looks(p) \/ (ValveStep(p) /\ ~ValveFree(p)) PROVE UNCHANGED tenant
  BY <1>8, ValvesLeave
<1>9. CASE UNCHANGED vars
  BY <1>1, <1>9 DEF vars
<1> QED
  BY <1>1, <1>3, <1>4, <1>5, <1>6, <1>7, <1>8, <1>9, StepKinds

\* A lock is taken by a process, given up by its holder, or lapses.
Locks(o) ==
  \/ \E p \in Procs : Take(p, o)
  \/ \E p \in Procs : lock' = IF lock[o].holder = p THEN [lock EXCEPT ![o] = NoLock] ELSE lock
  \/ lock' = [lock EXCEPT ![o].fresh = FALSE]

LEMMA LockWriters ==
  ASSUME [Next]_vars
  PROVE  UNCHANGED lock \/ \E o \in Ops : Locks(o)
<1>1. ASSUME NEW p \in Procs, NEW o \in Ops,
             \/ Moving(p, o) \/ StartRefused(p, o) \/ Progress(p, o) \/ Finish(p, o) \/ MarkFailed(p, o)
             \/ Settle(p, o) \/ \E k \in Kinds : Begin(p, o, k)
      PROVE  UNCHANGED lock
  BY <1>1 DEF Moving, Ask, Catch, StartRefused, Finish, MarkFailed, Settle, Progress, Begin,
              Top, WriteCounts, ScaleDown, Capture, NoteBundle, DropWorkloads, DeleteClaim, CreateClaim,
              RestoreFiles, WriteSize, StartWorkloads, ReapBundle, Throw, Recover
<1>2. ASSUME NEW p \in Procs, NEW o \in Ops, Stopping(p, o) \/ FreeTenant(p, o) \/ GiveBack(p, o)
      PROVE  Locks(o)
  BY <1>2 DEF Stopping, Ask, Catch, FreeTenant, GiveBack, Leave, Locks
<1>3. ASSUME NEW p \in Procs, NEW o \in Ops, StartRun(p, o) \/ PickUp(p, o) \/ EndStale(p, o) \/ Renew(p, o)
      PROVE  Locks(o) \/ UNCHANGED lock
  BY <1>3 DEF StartRun, PickUp, EndStale, Renew, Take, Locks
<1>4. ASSUME NEW p \in Procs, Crash(p) PROVE UNCHANGED lock
  BY <1>4 DEF Crash
<1>5. ASSUME NEW o \in Ops, Lapse(o) PROVE Locks(o)
  BY <1>5 DEF Lapse, Locks
<1>6. ASSUME NEW p \in Procs, Looks(p) \/ ValveStep(p) PROVE UNCHANGED lock
  BY <1>6, ValvesLeave
<1>7. CASE UNCHANGED vars
  BY <1>7 DEF vars
<1> QED
  BY <1>1, <1>2, <1>3, <1>4, <1>5, <1>6, <1>7, StepKinds

LEMMA LockStep ==
  ASSUME TypeOK, [Next]_vars
  PROVE  lock' \in [Ops -> LockType]
<1>1. lock \in [Ops -> LockType]
  BY DEF TypeOK, LockType
<1>2. NoLock \in LockType /\ \A p \in Procs : [holder |-> p, fresh |-> TRUE] \in LockType
  BY DEF NoLock, LockType
<1>3. \A l \in LockType : [l EXCEPT !.fresh = FALSE] \in LockType
  BY DEF LockType
<1>4. ASSUME NEW o \in Ops, Locks(o) PROVE lock' \in [Ops -> LockType]
  BY <1>1, <1>2, <1>3, <1>4 DEF Locks, Take
<1> QED
  BY <1>1, <1>4, LockWriters

\* Only three steps touch the volume claim.
LEMMA ClaimWriters ==
  ASSUME [Next]_vars
  PROVE  \/ UNCHANGED claim
         \/ \E p \in Procs, o \in Ops : DeleteClaim(p, o) \/ CreateClaim(p, o) \/ RestoreFiles(p, o)
<1>1. ASSUME NEW p \in Procs, NEW o \in Ops, Moving(p, o)
      PROVE  UNCHANGED claim \/ DeleteClaim(p, o) \/ CreateClaim(p, o) \/ RestoreFiles(p, o)
  BY <1>1 DEF Moving, Ask, Catch, Top, WriteCounts, ScaleDown, Capture, NoteBundle, DropWorkloads,
              WriteSize, StartWorkloads, ReapBundle, Throw, Recover
<1>2. ASSUME NEW p \in Procs, NEW o \in Ops,
             \/ Stopping(p, o) \/ StartRun(p, o) \/ StartRefused(p, o) \/ Progress(p, o) \/ Finish(p, o)
             \/ FreeTenant(p, o) \/ MarkFailed(p, o) \/ Settle(p, o) \/ GiveBack(p, o)
             \/ PickUp(p, o) \/ EndStale(p, o) \/ Renew(p, o) \/ \E k \in Kinds : Begin(p, o, k)
      PROVE  UNCHANGED claim
  BY <1>2 DEF Stopping, Ask, Catch, StartRun, StartRefused, Progress, Finish, FreeTenant, MarkFailed,
              Settle, GiveBack, PickUp, EndStale, Renew, Begin
<1>3. ASSUME NEW p \in Procs, Crash(p) PROVE UNCHANGED claim
  BY <1>3 DEF Crash
<1>4. ASSUME NEW o \in Ops, Lapse(o) PROVE UNCHANGED claim
  BY <1>4 DEF Lapse
<1>5. ASSUME NEW p \in Procs, Looks(p) \/ ValveStep(p) PROVE UNCHANGED claim
  BY <1>5, ValvesLeave
<1>6. CASE UNCHANGED vars
  BY <1>6 DEF vars
<1> QED
  BY <1>1, <1>2, <1>3, <1>4, <1>5, <1>6, StepKinds

LEMMA ClaimStep ==
  ASSUME TypeOK, [Next]_vars
  PROVE  claim' \in ClaimType /\ (claim'.by = -1 => ~claim'.files)
<1>1. claim \in ClaimType /\ (claim.by = -1 => ~claim.files)
  BY DEF TypeOK, ClaimType
<1>2. NoClaim \in ClaimType /\ NoClaim.by = -1 /\ ~NoClaim.files
  BY StorageAssumption DEF NoClaim, ClaimType
<1>3. ASSUME NEW p \in Procs, NEW o \in Ops, DeleteClaim(p, o) PROVE claim' = NoClaim
  BY <1>3 DEF DeleteClaim
<1>4. ASSUME NEW p \in Procs, NEW o \in Ops, CreateClaim(p, o)
      PROVE  claim' \in ClaimType /\ (claim'.by = -1 => ~claim'.files)
  <2> DEFINE retained == op[o].kind = "retained"
  <2>1. claim' = IF claim = NoClaim THEN [by |-> o, files |-> retained] ELSE claim
    BY <1>4 DEF CreateClaim
  <2>2. retained \in BOOLEAN /\ o \in -1..MaxOps /\ o # -1
    BY StorageAssumption DEF Ops
  <2> HIDE DEF retained
  <2>3. [by |-> o, files |-> retained] \in ClaimType
    BY <2>2 DEF ClaimType
  <2> QED
    BY <1>1, <2>1, <2>2, <2>3
<1>5. ASSUME NEW p \in Procs, NEW o \in Ops, RestoreFiles(p, o)
      PROVE  claim' \in ClaimType /\ (claim'.by = -1 => ~claim'.files)
  <2> DEFINE files == claim.files \/ run[p][o].bundle = "full"
  <2>1. claim' = claim \/ (claim # NoClaim /\ claim' = [claim EXCEPT !.files = files])
    BY <1>5 DEF RestoreFiles
  <2>2. files \in BOOLEAN
    OBVIOUS
  <2> HIDE DEF files
  <2>3. [claim EXCEPT !.files = files] \in ClaimType
    BY <1>1, <2>2 DEF ClaimType
  <2>4. claim.by = -1 => claim = NoClaim
    BY <1>1 DEF ClaimType, NoClaim
  <2>5. [claim EXCEPT !.files = files].by = claim.by
    BY <1>1 DEF ClaimType
  <2> QED
    BY <1>1, <2>1, <2>3, <2>4, <2>5
<1> QED
  BY <1>1, <1>2, <1>3, <1>4, <1>5, ClaimWriters

LEMMA UnquiesceType ==
  ASSUME TypeOK, NEW counts
  PROVE  Unquiesce(counts) \in {"up", "down", "gone"}
  BY DEF TypeOK, Unquiesce

\* What a step does to the workloads: it stops them, deletes them, or starts them.
LEMMA WorkloadWriters ==
  ASSUME [Next]_vars
  PROVE  \/ UNCHANGED workloads
         \/ \E p \in Procs, o \in Ops : \/ ScaleDown(p, o) \/ DropWorkloads(p, o) \/ StartWorkloads(p, o)
                                        \/ Recover(p, o) \/ Settle(p, o)
         \/ \E p \in Procs : CancelStart(p) \/ CancelClear(p) \/ ResetStart(p) \/ SweepStart(p)
<1>1. ASSUME NEW p \in Procs, NEW o \in Ops, Moving(p, o)
      PROVE  \/ UNCHANGED workloads \/ ScaleDown(p, o) \/ DropWorkloads(p, o) \/ StartWorkloads(p, o)
             \/ Recover(p, o)
  BY <1>1 DEF Moving, Ask, Catch, Top, WriteCounts, Capture, NoteBundle, DeleteClaim, CreateClaim,
              RestoreFiles, WriteSize, ReapBundle, Throw
<1>2. ASSUME NEW p \in Procs, NEW o \in Ops,
             \/ Stopping(p, o) \/ StartRun(p, o) \/ StartRefused(p, o) \/ Progress(p, o) \/ Finish(p, o)
             \/ FreeTenant(p, o) \/ MarkFailed(p, o) \/ GiveBack(p, o) \/ PickUp(p, o) \/ EndStale(p, o)
             \/ Renew(p, o) \/ \E k \in Kinds : Begin(p, o, k)
      PROVE  UNCHANGED workloads
  BY <1>2 DEF Stopping, Ask, Catch, StartRun, StartRefused, Progress, Finish, FreeTenant, MarkFailed,
              GiveBack, PickUp, EndStale, Renew, Begin
<1>3. ASSUME NEW p \in Procs, Crash(p) PROVE UNCHANGED workloads
  BY <1>3 DEF Crash
<1>4. ASSUME NEW o \in Ops, Lapse(o) PROVE UNCHANGED workloads
  BY <1>4 DEF Lapse
<1>5. ASSUME NEW p \in Procs, Looks(p) \/ CancelEnd(p) \/ ValveFree(p) PROVE UNCHANGED workloads
  BY <1>5, ValvesLeave
<1>6. CASE UNCHANGED vars
  BY <1>6 DEF vars
<1> QED
  BY <1>1, <1>2, <1>3, <1>4, <1>5, <1>6, StepKinds DEF ValveStep

LEMMA WorkloadStep ==
  ASSUME TypeOK, [Next]_vars
  PROVE  workloads' \in {"up", "held", "down", "gone"}
<1>1. workloads \in {"up", "held", "down", "gone"} /\ \A c : Unquiesce(c) \in {"up", "down", "gone"}
  BY UnquiesceType DEF TypeOK
<1>2. ASSUME NEW p \in Procs, NEW o \in Ops, ScaleDown(p, o) \/ DropWorkloads(p, o)
      PROVE  workloads' \in {workloads, "held", "gone"}
  BY <1>2 DEF ScaleDown, DropWorkloads
<1>3. ASSUME NEW p \in Procs, NEW o \in Ops, StartWorkloads(p, o) \/ Recover(p, o) \/ Settle(p, o)
      PROVE  UNCHANGED workloads \/ \E c : workloads' = Unquiesce(c)
  BY <1>3 DEF StartWorkloads, Recover, Settle, StartAgain
<1>4. ASSUME NEW p \in Procs, CancelStart(p) \/ CancelClear(p) \/ ResetStart(p) \/ SweepStart(p)
      PROVE  UNCHANGED workloads \/ workloads' = "down" \/ \E c : workloads' = Unquiesce(c)
  <2>1. CancelStart(p) => UNCHANGED workloads \/ workloads' = Unquiesce(Counts(valve[p].op))
    BY DEF CancelStart
  <2>2. ResetStart(p) \/ SweepStart(p) => UNCHANGED workloads \/ workloads' = Unquiesce(Counts(valve[p].op))
    BY DEF ResetStart, SweepStart, BestEffort
  <2>3. CancelClear(p) => UNCHANGED workloads \/ workloads' = "down"
    BY DEF CancelClear
  <2> QED
    BY <1>4, <2>1, <2>2, <2>3
<1> QED
  BY <1>1, <1>2, <1>3, <1>4, WorkloadWriters

\* Troubles only run out.
Spends(lft) == lft \in [Troubles -> Nat] /\ \A t \in Troubles : lft[t] <= left[t]

LEMMA SpendOne ==
  ASSUME TypeOK, NEW lft, Spends(lft), NEW t \in Troubles, lft[t] > 0
  PROVE  Spends([lft EXCEPT ![t] = @ - 1])
  BY DEF TypeOK, Spends

LEMMA SpendStall ==
  ASSUME TypeOK, NEW lft, Spends(lft), NEW o, StalledIfHot(o, lft)
  PROVE  Spends(left')
<1>1. "stall" \in Troubles
  BY DEF Troubles
<1>2. CASE Hot(o)
  BY <1>1, <1>2, SpendOne DEF StalledIfHot
<1>3. CASE ~Hot(o)
  BY <1>3 DEF StalledIfHot
<1> QED
  BY <1>2, <1>3

LEMMA LeftStep ==
  ASSUME TypeOK, [Next]_vars
  PROVE  Spends(left')
<1>1. Spends(left) /\ \A t \in Troubles : left[t] \in Nat
  BY DEF TypeOK, Spends
<1>2. ASSUME NEW t \in Troubles, Spend(t) PROVE Spends(left')
  BY <1>1, <1>2, SpendOne DEF Spend
<1>3. /\ "crash" \in Troubles /\ "fault" \in Troubles /\ "refuse" \in Troubles /\ "lapse" \in Troubles
      /\ "retake" \in Troubles /\ "cancel" \in Troubles /\ "reset" \in Troubles
  BY DEF Troubles
<1>4. ASSUME NEW p \in Procs, NEW o \in Ops,
             \/ Moving(p, o) \/ Stopping(p, o) \/ StartRun(p, o) \/ Progress(p, o) \/ FreeTenant(p, o)
             \/ GiveBack(p, o) \/ \E k \in Kinds : Begin(p, o, k)
      PROVE  UNCHANGED left \/ Spend("fault")
  BY <1>4 DEF Moving, Stopping, Ask, Catch, StartRun, Progress, FreeTenant, GiveBack, Begin,
              Top, WriteCounts, ScaleDown, Capture, NoteBundle, DropWorkloads, DeleteClaim, CreateClaim,
              RestoreFiles, WriteSize, StartWorkloads, ReapBundle, Throw, Recover, StartAgain
<1>5. ASSUME NEW p \in Procs, NEW o \in Ops,
             \/ StartRefused(p, o) \/ Finish(p, o) \/ MarkFailed(p, o) \/ Settle(p, o)
             \/ PickUp(p, o) \/ EndStale(p, o)
      PROVE  UNCHANGED left \/ Spend("fault") \/ Spend("refuse") \/ StalledIfHot(o, left)
  BY <1>5 DEF StartRefused, Finish, MarkFailed, Settle, StartAgain, PickUp, EndStale
<1>6. ASSUME NEW p \in Procs, NEW o \in Ops, Renew(p, o) PROVE Spends(left')
  <2> DEFINE lft == [left EXCEPT !["retake"] = @ - 1]
  <2>1. UNCHANGED left \/ (left["retake"] > 0 /\ StalledIfHot(o, lft))
    BY <1>6 DEF Renew
  <2>2. left["retake"] > 0 => Spends(lft)
    BY <1>1, <1>3, SpendOne
  <2> HIDE DEF lft
  <2> QED
    BY <1>1, <2>1, <2>2, SpendStall
<1>7. ASSUME NEW p \in Procs, CancelEnd(p) PROVE UNCHANGED left \/ \E o : StalledIfHot(o, left)
  BY <1>7 DEF CancelEnd
<1>8. ASSUME NEW p \in Procs, Crash(p) PROVE Spend("crash")
  BY <1>8 DEF Crash
<1>9. ASSUME NEW o \in Ops, Lapse(o) PROVE UNCHANGED left \/ Spend("lapse")
  BY <1>9 DEF Lapse
<1>10. ASSUME NEW p \in Procs, Looks(p) \/ ValveActs(p)
       PROVE  UNCHANGED left \/ Spend("cancel") \/ Spend("reset") \/ Spend("fault")
  BY <1>10 DEF Looks, CancelLook, ResetLook, SweepLook, ValveActs, CancelStart, CancelClear, ResetStart,
               SweepStart, BestEffort, ValveFree
<1>11. CASE UNCHANGED vars
  BY <1>1, <1>11 DEF vars
<1>12. \/ UNCHANGED left \/ Spends(left')
       \/ Spend("fault") \/ Spend("refuse") \/ Spend("crash") \/ Spend("lapse") \/ Spend("cancel") \/ Spend("reset")
       \/ \E o : StalledIfHot(o, left)
  BY <1>4, <1>5, <1>6, <1>7, <1>8, <1>9, <1>10, <1>11, StepKinds, ValvesLeave
<1>13. CASE \E o : StalledIfHot(o, left)
  BY <1>1, <1>13, SpendStall
<1>14. CASE UNCHANGED left
  BY <1>1, <1>14
<1> QED
  BY <1>2, <1>3, <1>12, <1>13, <1>14

Marks == {"noFiles", "notStarted", "late"}

\* What happened is never forgotten; processes only die.
LEMMA NotedStep ==
  ASSUME TypeOK, [Next]_vars
  PROVE  /\ decided \subseteq decided' /\ decided' \subseteq Marks
         /\ alive' \subseteq alive
<1>1. decided \subseteq Marks
  BY DEF TypeOK, Marks
<1>2. ASSUME NEW p \in Procs, NEW o \in Ops, NoteLate(p, o)
      PROVE  decided \subseteq decided' /\ decided' \subseteq Marks
  BY <1>1, <1>2 DEF NoteLate, Note, Marks
<1>3. ASSUME NEW p \in Procs, NEW o \in Ops,
             \/ Moving(p, o) \/ Stopping(p, o) \/ StartRun(p, o) \/ Progress(p, o) \/ FreeTenant(p, o)
             \/ MarkFailed(p, o) \/ \E k \in Kinds : Begin(p, o, k)
      PROVE  (UNCHANGED decided \/ NoteLate(p, o)) /\ UNCHANGED alive
  BY <1>3 DEF Moving, Stopping, Ask, Catch, StartRun, Progress, FreeTenant, MarkFailed, Begin,
              Top, WriteCounts, ScaleDown, Capture, NoteBundle, DropWorkloads, DeleteClaim, CreateClaim,
              RestoreFiles, WriteSize, StartWorkloads, ReapBundle, Throw, Recover
<1>4. ASSUME NEW p \in Procs, NEW o \in Ops,
             \/ StartRefused(p, o) \/ Finish(p, o) \/ Settle(p, o) \/ GiveBack(p, o) \/ PickUp(p, o)
             \/ EndStale(p, o) \/ Renew(p, o)
      PROVE  (UNCHANGED decided \/ NoteLate(p, o)) /\ UNCHANGED alive
  BY <1>4 DEF StartRefused, Finish, Settle, GiveBack, PickUp, EndStale, Renew
<1>5. ASSUME NEW p \in Procs, NEW a, NEW b, NoteValve(p, a, b)
      PROVE  decided \subseteq decided' /\ decided' \subseteq Marks
  BY <1>1, <1>5 DEF NoteValve, Marks
<1>6. ASSUME NEW p \in Procs, ValveActs(p) PROVE \E a, b : NoteValve(p, a, b)
  BY <1>6 DEF ValveActs, CancelStart, CancelClear, ResetStart, SweepStart, BestEffort, ValveFree
<1>7. ASSUME NEW p \in Procs, Looks(p) \/ CancelEnd(p) PROVE UNCHANGED <<decided, alive>>
  BY <1>7, ValvesLeave
<1>8. ASSUME NEW p \in Procs, ValveActs(p) PROVE UNCHANGED alive
  BY <1>8, ValvesLeave
<1>9. ASSUME NEW p \in Procs, Crash(p) PROVE UNCHANGED decided /\ alive' \subseteq alive
  BY <1>9 DEF Crash
<1>10. ASSUME NEW o \in Ops, Lapse(o) PROVE UNCHANGED decided /\ UNCHANGED alive
  BY <1>10 DEF Lapse
<1>11. CASE UNCHANGED vars
  BY <1>1, <1>11 DEF vars
<1> QED
  BY <1>1, <1>2, <1>3, <1>4, <1>5, <1>6, <1>7, <1>8, <1>9, <1>10, <1>11, StepKinds, ValvesLeave

LEMMA AliveStep ==
  ASSUME [Next]_vars
  PROVE  UNCHANGED alive \/ \E p \in Procs : Crash(p)
<1>1. ASSUME NEW p \in Procs, NEW o \in Ops,
             \/ Moving(p, o) \/ Stopping(p, o) \/ StartRun(p, o) \/ Progress(p, o) \/ FreeTenant(p, o)
             \/ MarkFailed(p, o) \/ \E k \in Kinds : Begin(p, o, k)
      PROVE  UNCHANGED alive
  BY <1>1 DEF Moving, Stopping, Ask, Catch, StartRun, Progress, FreeTenant, MarkFailed, Begin,
              Top, WriteCounts, ScaleDown, Capture, NoteBundle, DropWorkloads, DeleteClaim, CreateClaim,
              RestoreFiles, WriteSize, StartWorkloads, ReapBundle, Throw, Recover
<1>2. ASSUME NEW p \in Procs, NEW o \in Ops,
             \/ StartRefused(p, o) \/ Finish(p, o) \/ Settle(p, o) \/ GiveBack(p, o) \/ PickUp(p, o)
             \/ EndStale(p, o) \/ Renew(p, o)
      PROVE  UNCHANGED alive
  BY <1>2 DEF StartRefused, Finish, Settle, GiveBack, PickUp, EndStale, Renew
<1>3. ASSUME NEW p \in Procs, Looks(p) \/ ValveStep(p) PROVE UNCHANGED alive
  BY <1>3, ValvesLeave
<1>4. ASSUME NEW o \in Ops, Lapse(o) PROVE UNCHANGED alive
  BY <1>4 DEF Lapse
<1>5. CASE UNCHANGED vars
  BY <1>5 DEF vars
<1> QED
  BY <1>1, <1>2, <1>3, <1>4, <1>5, StepKinds

\* A valve is a request of a living process.
ValveShape == \A p \in Procs : valve[p].pc # "none" => p \in alive

\* The steps that only touch valves: what they do to them.
LEMMA ValveWriters ==
  ASSUME [Next]_vars
  PROVE  \/ UNCHANGED valve
         \/ \E p \in Procs, o \in Ops, k \in Kinds : Begin(p, o, k)
         \/ \E p \in Procs : Crash(p) \/ Looks(p) \/ ValveStep(p)
<1>1. ASSUME NEW p \in Procs, NEW o \in Ops,
             \/ Moving(p, o) \/ Stopping(p, o) \/ StartRun(p, o) \/ Progress(p, o) \/ FreeTenant(p, o)
             \/ MarkFailed(p, o)
      PROVE  UNCHANGED valve
  BY <1>1 DEF Moving, Stopping, Ask, Catch, StartRun, Progress, FreeTenant, MarkFailed,
              Top, WriteCounts, ScaleDown, Capture, NoteBundle, DropWorkloads, DeleteClaim, CreateClaim,
              RestoreFiles, WriteSize, StartWorkloads, ReapBundle, Throw, Recover
<1>2. ASSUME NEW p \in Procs, NEW o \in Ops,
             \/ StartRefused(p, o) \/ Finish(p, o) \/ Settle(p, o) \/ GiveBack(p, o) \/ PickUp(p, o)
             \/ EndStale(p, o) \/ Renew(p, o)
      PROVE  UNCHANGED valve
  BY <1>2 DEF StartRefused, Finish, Settle, GiveBack, PickUp, EndStale, Renew
<1>3. ASSUME NEW o \in Ops, Lapse(o) PROVE UNCHANGED valve
  BY <1>3 DEF Lapse
<1>4. CASE UNCHANGED vars
  BY <1>4 DEF vars
<1> QED
  BY <1>1, <1>2, <1>3, <1>4, StepKinds

LEMMA ValveFieldType ==
  ASSUME NEW v \in ValveType
  PROVE  /\ \A pc \in ValvePcs : [v EXCEPT !.pc = pc] \in ValveType
         /\ \A b \in BOOLEAN : [v EXCEPT !.late = b] \in ValveType
  BY DEF ValveType

\* A valve goes on, or ends.
ValveMoves(p) ==
  \/ \E pc \in {"start", "clear", "free"} : valve[p].pc # "none" /\ To(p, pc)
  \/ Done(p)

LEMMA ValvesMove ==
  ASSUME NEW p
  PROVE  ValveStep(p) => ValveMoves(p)
  BY DEF ValveStep, CancelEnd, CancelStart, CancelClear, ResetStart, SweepStart, ValveFree, ValveMoves

LEMMA ValveTypeStep ==
  ASSUME TypeOK, [Next]_vars
  PROVE  valve' \in [Procs -> ValveType] /\ ValveShape'
<1>1. valve \in [Procs -> ValveType] /\ ValveShape
  BY DEF TypeOK, ValveShape
<1>2. NoValve \in ValveType /\ NoValve.pc = "none"
  BY StorageAssumption DEF NoValve, ValveType, ValvePcs
<1>3. ASSUME NEW p \in Procs, NEW o \in Ops, NEW k \in Kinds, Begin(p, o, k)
      PROVE  valve' \in [Procs -> ValveType] /\ ValveShape'
  <2>1. /\ valve' = [q \in Procs |-> [valve[q] EXCEPT !.late = valve[q].pc # "none"]]
        /\ UNCHANGED alive
    BY <1>3 DEF Begin
  <2>2. ASSUME NEW q \in Procs
        PROVE  /\ [valve[q] EXCEPT !.late = valve[q].pc # "none"] \in ValveType
               /\ [valve[q] EXCEPT !.late = valve[q].pc # "none"].pc = valve[q].pc
    <3>1. (valve[q].pc # "none") \in BOOLEAN /\ valve[q] \in ValveType
      BY <1>1
    <3> QED
      BY <3>1 DEF ValveType
  <2> QED
    BY <1>1, <2>1, <2>2 DEF ValveShape
<1>4. ASSUME NEW p \in Procs, Looks(p) PROVE valve' \in [Procs -> ValveType] /\ ValveShape'
  <2>1. PICK pc \in {"end", "restart", "sweep"}, o \in 0..MaxOps : Look(p, pc, o)
    <3>1. tenant.active \in 0..MaxOps
      BY DEF TypeOK
    <3>2. \A o \in Ops : o \in 0..MaxOps
      BY DEF Ops
    <3> QED
      BY <1>4, <3>1, <3>2 DEF Looks, CancelLook, ResetLook, SweepLook
  <2> DEFINE v == [pc |-> pc, op |-> o, late |-> FALSE]
  <2>2. v \in ValveType
    BY <2>1 DEF ValveType, ValvePcs
  <2>3. p \in alive /\ valve' = [valve EXCEPT ![p] = v]
    BY <2>1 DEF Look
  <2>4. UNCHANGED alive
    BY <1>4, ValvesLeave
  <2> HIDE DEF v
  <2> QED
    BY <1>1, <2>2, <2>3, <2>4 DEF ValveShape
<1>5. ASSUME NEW p \in Procs, ValveStep(p) PROVE valve' \in [Procs -> ValveType] /\ ValveShape'
  <2>1. UNCHANGED alive /\ ValveMoves(p)
    BY <1>5, ValvesLeave, ValvesMove
  <2>2. ASSUME NEW pc \in {"start", "clear", "free"}, valve[p].pc # "none", To(p, pc)
        PROVE  valve' \in [Procs -> ValveType] /\ ValveShape'
    <3> DEFINE v == [valve[p] EXCEPT !.pc = pc]
    <3>1. v \in ValveType
      BY <1>1, ValveFieldType DEF ValvePcs
    <3>2. valve' = [valve EXCEPT ![p] = v]
      BY <2>2 DEF To, TypeOK
    <3> HIDE DEF v
    <3> QED
      BY <1>1, <2>1, <2>2, <3>1, <3>2 DEF ValveShape
  <2>3. CASE Done(p)
    BY <1>1, <1>2, <2>1, <2>3 DEF Done, ValveShape
  <2> QED
    BY <2>1, <2>2, <2>3 DEF ValveMoves
<1>6. ASSUME NEW p \in Procs, Crash(p) PROVE valve' \in [Procs -> ValveType] /\ ValveShape'
  BY <1>1, <1>2, <1>6 DEF Crash, ValveShape
<1>7. CASE UNCHANGED valve
  <2>1. UNCHANGED alive \/ \E p \in Procs : Crash(p)
    BY AliveStep
  <2> QED
    BY <1>1, <1>6, <1>7, <2>1 DEF ValveShape
<1> QED
  BY <1>3, <1>4, <1>5, <1>6, <1>7, ValveWriters

LEMMA TypesInit ==
  ASSUME Init
  PROVE  TypeOK /\ PathShape /\ RowShape
<1>1. Unstarted \in OpType /\ NotRunning \in RunType /\ NoLock \in LockType /\ NoValve \in ValveType
  BY StorageAssumption DEF OpType, Unstarted, NotRunning, RunType, Pcs, NoLock, LockType,
                           NoValve, ValveType, ValvePcs
<1>2. \A o \in Ops : op[o] = Unstarted /\ \A p \in Procs : run[p][o] = NotRunning
  BY DEF Init
<1>3. NotRunning.pc = "none" /\ NotRunning.hot = FALSE /\ NoValve.pc = "none"
  BY DEF NotRunning, NoValve
<1>4. TypeOK
  BY <1>1, <1>2, <1>3, StorageAssumption DEF Init, TypeOK, LockType
<1>5. PathShape
  BY <1>2, <1>3 DEF PathShape, RunShape, OffPath, Sure, AtOnce, Ending, Counted, Working
<1>6. RowShape
  BY <1>2 DEF RowShape
<1> QED
  BY <1>4, <1>5, <1>6

LEMMA TypesStep ==
  ASSUME TypeOK, PathShape, RowShape, [Next]_vars
  PROVE  TypeOK' /\ PathShape' /\ RowShape'
<1>1. RowsGrow /\ RunsGrow
  BY RowsStep, RunsStep
<1>2. RowShape'
  BY <1>1, StorageAssumption DEF RowsGrow, RowGrows, RowShape
<1>3. ASSUME NEW p \in Procs, NEW o \in Ops
      PROVE  /\ run'[p][o].hot => run'[p][o].pc # "none"
             /\ run'[p][o].pc # "none" => p \in alive' /\ op'[o].kind \in Kinds
             /\ RunShape(p, o)'
  <2>1. RunGrows(p, o) /\ RowGrows(o) /\ RunShape(p, o)
    BY <1>1 DEF RunsGrow, RowsGrow, PathShape
  <2>2. CASE run'[p][o] = run[p][o] /\ (p \in alive => p \in alive') /\ run[p][o].pc # "none"
    <3>1. op'[o].kind = op[o].kind /\ op'[o].kind \in Kinds /\ p \in alive
      BY <1>1, <2>2, RunKept
    <3>2. op[o].counts # "none" => op'[o].counts # "none"
      BY <1>1, <2>1, <3>1, StorageAssumption DEF RowGrows, Unstarted
    <3>3. RunShape(p, o)'
      BY <2>1, <2>2, <3>1, <3>2 DEF RunShape, OffPath, Sure, AtOnce, Ending
    <3> QED
      BY <2>2, <3>1, <3>3
  <2>3. CASE run'[p][o].pc = "none"
    <3>1. ~run'[p][o].hot
      BY <2>1, <2>3 DEF RunGrows, TypeOK
    <3>2. RunShape(p, o)'
      BY <2>3 DEF RunShape, OffPath, Sure, AtOnce, Ending, Counted, Working
    <3> QED
      BY <2>3, <3>1, <3>2
  <2>4. CASE run'[p][o].pc # "none" /\ p \in alive' /\ op'[o].kind \in Kinds /\ RunShape(p, o)'
    BY <2>4
  <2> QED
    BY <2>1, <2>2, <2>3, <2>4 DEF RunGrows
<1>4. PathShape'
  BY <1>3 DEF PathShape
<1>5. /\ tenant' \in TenantType /\ lock' \in [Ops -> LockType]
      /\ claim' \in ClaimType /\ (claim'.by = -1 => ~claim'.files)
      /\ workloads' \in {"up", "held", "down", "gone"}
      /\ left' \in [Troubles -> Nat] /\ decided' \subseteq {"noFiles", "notStarted", "late"}
      /\ alive' \subseteq alive
      /\ valve' \in [Procs -> ValveType] /\ \A p \in Procs : valve'[p].pc # "none" => p \in alive'
  BY TenantStep, LockStep, ClaimStep, WorkloadStep, LeftStep, NotedStep, ValveTypeStep
     DEF Spends, Marks, ValveShape
<1>6. op' \in [Ops -> OpType] /\ run' \in [Procs -> [Ops -> RunType]] /\ alive' \subseteq Procs
  BY <1>1, <1>5 DEF RowsGrow, RunsGrow, TypeOK
<1>7. TypeOK'
  BY <1>3, <1>5, <1>6 DEF TypeOK, TenantType, LockType, ClaimType, OpType, ValveType
<1> QED
  BY <1>2, <1>4, <1>7

(* Every reachable state has its type: in particular a run is only ever at *)
(* a step of its own runner, of an operation that was started, in a        *)
(* process that is alive.                                                  *)
THEOREM TypeCorrect == Spec => []TypeOK
<1>1. Init => TypeOK /\ PathShape /\ RowShape
  BY TypesInit
<1>2. TypeOK /\ PathShape /\ RowShape /\ [Next]_vars => (TypeOK /\ PathShape /\ RowShape)'
  BY TypesStep
<1> QED
  BY <1>1, <1>2, PTL DEF Spec

-----------------------------------------------------------------------------
(* Ownership.                                                              *)

Busy(o) == [state |-> "busy", active |-> o]

\* An operation that is being started has no lock, and no other run.
StartShape ==
  /\ \A o \in Ops : op[o].kind = "none" => lock[o] = NoLock
  /\ \A p \in Procs, o \in Ops :
       run[p][o].pc = "starting" => lock[o] = NoLock /\ \A q \in Procs : q # p => run[q][o].pc = "none"

\* A run about to take a step it asked for holds the lock of an operation in flight; one that has
\* ended its operation finds it ended.
HoldAt(p, o) ==
  /\ run[p][o].hot => lock[o].holder = p /\ InFlight(o)
  /\ run[p][o].pc \in Ending => ~InFlight(o)

HoldShape == \A p \in Procs, o \in Ops : HoldAt(p, o)

Locked == StartShape /\ HoldShape

(* No process stops between a question and its step: the window that       *)
(* op-lock.ts leaves open on purpose.                                      *)
Calm == Budget["stall"] = 0

NoStall == left["stall"] = 0

Typed == TypeOK /\ PathShape /\ RowShape

LEMMA LockedGoes ==
  ASSUME Typed, Locked, NEW p \in Procs, NEW o \in Ops, Goes(p, o)
  PROVE  Locked'
<1>1. PICK pc \in Pcs \ ({"none", "starting", "top", "end"} \cup Ending), hot \in BOOLEAN,
           counts \in {"none", "up", "zero"} :
           /\ Moved(p, o, pc, hot, counts)
           /\ hot => run[p][o].hot \/ Mine(p, o)
  BY DEF Goes
<1>2. /\ UNCHANGED lock /\ run[p][o].pc \notin {"none", "starting"} \cup Ending
      /\ \A x \in Ops : op'[x].kind = op[x].kind /\ op'[x].state = op[x].state
  BY DEF Goes, KeepsOps
<1>3. /\ \A q \in Procs, x \in Ops : q # p \/ x # o => run'[q][x] = run[q][x]
      /\ run'[p][o].pc = pc /\ run'[p][o].hot = hot
  BY <1>1 DEF Moved
<1>4. StartShape'
  BY <1>1, <1>2, <1>3 DEF Locked, StartShape
<1>5. hot => lock[o].holder = p /\ InFlight(o)
  BY <1>1, <1>2 DEF Locked, HoldShape, HoldAt, Mine
<1>6. HoldShape'
  BY <1>1, <1>2, <1>3, <1>5 DEF Locked, HoldShape, HoldAt, InFlight
<1> QED
  BY <1>4, <1>6 DEF Locked

\* What it takes to return: the lock goes only if it was one's own.
LEMMA LockedLeaves ==
  ASSUME Typed, Locked, NEW p \in Procs, NEW o \in Ops, Leave(p, o), UNCHANGED op,
         run[p][o].pc \notin {"none", "starting"}
  PROVE  Locked'
<1>1. /\ \A q \in Procs, x \in Ops : q # p \/ x # o => run'[q][x] = run[q][x]
      /\ run'[p][o].pc = "none" /\ run'[p][o].hot = FALSE
  BY MoveLeave DEF Leave, Moved, Typed
<1>2. /\ \A x \in Ops : x # o => lock'[x] = lock[x]
      /\ lock'[o] = lock[o] \/ (lock[o].holder = p /\ lock'[o] = NoLock)
  BY DEF Leave, Typed, TypeOK
<1>3. StartShape'
  BY <1>1, <1>2, Started DEF Locked, StartShape, Typed
<1>4. HoldShape'
  BY <1>1, <1>2 DEF Locked, HoldShape, HoldAt, InFlight, Ending
<1> QED
  BY <1>3, <1>4 DEF Locked

LEMMA LockedBegin ==
  ASSUME Typed, Locked, NEW p \in Procs, NEW o \in Ops, NEW k \in Kinds, Begin(p, o, k)
  PROVE  Locked'
<1>1. /\ \A q \in Procs, x \in Ops : q # p \/ x # o => run'[q][x] = run[q][x]
      /\ run'[p][o].pc = "starting" /\ run'[p][o].hot = run[p][o].hot
      /\ \A q \in Procs : run[q][o].pc = "none" /\ ~run[q][o].hot
  BY BeginRun DEF Moved, Typed, TypeOK
<1>2. /\ \A x \in Ops : x # o => op'[x] = op[x]
      /\ op'[o].kind = k
  BY BeginRow DEF Typed
<1>3. UNCHANGED lock /\ op[o].kind = "none"
  BY DEF Begin, Unstarted
<1>4. StartShape'
  BY <1>1, <1>2, <1>3, StorageAssumption DEF Locked, StartShape
<1>5. HoldShape'
  BY <1>1, <1>2, <1>3 DEF Locked, HoldShape, HoldAt, InFlight, Ending
<1> QED
  BY <1>4, <1>5 DEF Locked

LEMMA LockedStartRun ==
  ASSUME Typed, Locked, NEW p \in Procs, NEW o \in Ops, StartRun(p, o)
  PROVE  Locked'
<1>1. "top" \in Pcs
  BY DEF Pcs
<1>2. /\ \A q \in Procs, x \in Ops : q # p \/ x # o => run'[q][x] = run[q][x]
      /\ run'[p][o].pc = "top" /\ run'[p][o].hot = run[p][o].hot
  BY <1>1, MovePc DEF StartRun, Moved, Typed
<1>3. \A x \in Ops : op'[x].kind = op[x].kind /\ op'[x].state = op[x].state
  BY WriteStarted DEF StartRun, Wrote, Typed
<1>4. /\ run[p][o].pc = "starting"
      /\ \A x \in Ops : x # o => lock'[x] = lock[x]
      /\ lock'[o].holder = p
  BY DEF StartRun, Typed, TypeOK
<1>5. /\ lock[o].holder = NoProc
      /\ \A q \in Procs : ~run[q][o].hot /\ (q # p => run[q][o].pc = "none")
  BY <1>4, StorageAssumption DEF Locked, StartShape, HoldShape, HoldAt, NoLock
<1>6. op[o].kind # "none"
  BY <1>4, Started DEF Typed
<1>7. StartShape'
  BY <1>2, <1>3, <1>4, <1>5, <1>6 DEF Locked, StartShape
<1>8. HoldShape'
  BY <1>2, <1>3, <1>4, <1>5 DEF Locked, HoldShape, HoldAt, InFlight, Ending
<1> QED
  BY <1>7, <1>8 DEF Locked

\* The run of p of operation o is as it was, or has returned.
Returned(p, o) ==
  /\ \A q \in Procs, x \in Ops : q # p \/ x # o => run'[q][x] = run[q][x]
  /\ run'[p][o] = run[p][o] \/ (run'[p][o].pc = "none" /\ run'[p][o].hot = FALSE)

\* An operation is ended by another while no run is about to take a step for it.
LEMMA LockedEnded ==
  ASSUME Typed, Locked, NEW p \in Procs, NEW o \in Ops, UNCHANGED lock, ~Hot(o), Returned(p, o),
         \A x \in Ops : op'[x].kind = op[x].kind /\ (x # o => op'[x] = op[x]),
         op'[o].state = "failed"
  PROVE  Locked'
<1> USE DEF Returned, Hot
<1>1. StartShape'
  BY DEF Locked, StartShape
<1>2. HoldShape'
  BY DEF Locked, HoldShape, HoldAt, InFlight, Ending
<1> QED
  BY <1>1, <1>2 DEF Locked

LEMMA LockedWithdraw ==
  ASSUME Typed, Locked, NEW p \in Procs, NEW o \in Ops, Withdraw(o), UNCHANGED lock, ~Hot(o),
         Returned(p, o)
  PROVE  Locked'
<1>1. /\ \A x \in Ops : op'[x].kind = op[x].kind /\ (x # o => op'[x] = op[x])
      /\ op'[o].state = "failed"
  BY WriteWithdrawn DEF Wrote, Typed
<1> QED
  BY <1>1, LockedEnded

LEMMA LockedRefused ==
  ASSUME Typed, Locked, NEW p \in Procs, NEW o \in Ops, StartRefused(p, o)
  PROVE  Locked'
<1>1. /\ \A q \in Procs, x \in Ops : q # p \/ x # o => run'[q][x] = run[q][x]
      /\ run'[p][o].pc = "none" /\ run'[p][o].hot = FALSE
  BY MoveLeave DEF StartRefused, Moved, Typed
<1>2. run[p][o].pc = "starting" /\ UNCHANGED lock
  BY DEF StartRefused
<1>3. ~Hot(o)
  BY <1>2, StorageAssumption DEF Locked, StartShape, HoldShape, HoldAt, NoLock, Hot
<1>4. CASE Withdraw(o)
  <2>1. Returned(p, o)
    BY <1>1 DEF Returned
  <2> QED
    BY <1>2, <1>3, <1>4, <2>1, LockedWithdraw
<1>5. CASE UNCHANGED <<op, tenant>>
  <2>1. StartShape'
    BY <1>1, <1>2, <1>5 DEF Locked, StartShape
  <2>2. HoldShape'
    BY <1>1, <1>2, <1>5 DEF Locked, HoldShape, HoldAt, InFlight, Ending
  <2> QED
    BY <2>1, <2>2 DEF Locked
<1> QED
  BY <1>4, <1>5 DEF StartRefused

LEMMA LockedProgress ==
  ASSUME Typed, Locked, NEW p \in Procs, NEW o \in Ops, Progress(p, o)
  PROVE  Locked'
<1>1. /\ run[p][o].pc \in ProgressSteps /\ run[p][o].hot
      /\ Wrote(o, run[p][o].pc, op[o].awaiting, op[o].counts)
  BY GoesProgress DEF Typed
<1>2. PICK pc \in {"counts", "capture", "delete", "drop", "restoring", "restore", "replacing",
                   "unquiescing", "start", "finish"} :
             Moved(p, o, pc, pc \in AtOnce(op[o].kind), run[p][o].counts)
  BY GoesProgress DEF Typed
<1>3. /\ \A q \in Procs, x \in Ops : q # p \/ x # o => run'[q][x] = run[q][x]
      /\ run'[p][o].pc = pc /\ pc \notin Ending \cup {"starting", "none"}
  BY <1>2 DEF Moved, Ending
<1>4. run[p][o].pc \notin {"starting", "none", "idle", "failed"} /\ UNCHANGED lock
  BY <1>1 DEF ProgressSteps, Progress
<1>5. InFlight(o) /\ lock[o].holder = p
  BY <1>1 DEF Locked, HoldShape, HoldAt
<1>6. \A x \in Ops : op'[x].kind = op[x].kind /\ (InFlight(x)' <=> InFlight(x))
  BY <1>1, <1>4, <1>5 DEF Wrote, InFlight
<1>7. StartShape'
  BY <1>3, <1>4, <1>6 DEF Locked, StartShape
<1>8. HoldShape'
  <2>1. lock'[o].holder = p /\ InFlight(o)' /\ run'[p][o].pc \notin Ending
    BY <1>3, <1>4, <1>5, <1>6
  <2>2. ASSUME NEW q \in Procs, NEW x \in Ops, q # p \/ x # o
        PROVE  run'[q][x] = run[q][x] /\ lock'[x] = lock[x] /\ (InFlight(x)' <=> InFlight(x))
    BY <1>3, <1>4, <1>6, <2>2
  <2> QED
    BY <2>1, <2>2 DEF Locked, HoldShape, HoldAt
<1> QED
  BY <1>7, <1>8 DEF Locked

\* Without a stall nobody comes in between a question and its step.
LEMMA NotHot ==
  ASSUME NoStall, NEW o, NEW lft, lft["stall"] = 0, StalledIfHot(o, lft)
  PROVE  ~Hot(o)
  BY DEF NoStall, StalledIfHot

\* A run ends its operation: as the one that asked, or while nobody has.
LEMMA LockedEnds ==
  ASSUME Typed, Locked, NEW p \in Procs, NEW o \in Ops, run[p][o].hot \/ ~Hot(o),
         run[p][o].pc \in {"finish", "mark", "end"},
         NEW state \in {"idle", "failed"}, Wrote(o, state, op[o].awaiting, op[o].counts),
         NEW pc \in Ending, Moved(p, o, pc, FALSE, run[p][o].counts), UNCHANGED lock
  PROVE  Locked'
<1>1. /\ \A q \in Procs, x \in Ops : q # p \/ x # o => run'[q][x] = run[q][x]
      /\ run'[p][o].pc = pc /\ run'[p][o].hot = FALSE
  BY DEF Moved
<1>2. \A q \in Procs : q # p => ~run[q][o].hot
  BY DEF Locked, HoldShape, HoldAt, Hot
<1>3. /\ \A x \in Ops : op'[x].kind = op[x].kind /\ (x # o => op'[x] = op[x])
      /\ op'[o].state = state
  BY DEF Wrote
<1>4. StartShape'
  BY <1>1, <1>3 DEF Locked, StartShape, Ending
<1>5. HoldShape'
  <2>1. ~InFlight(o)'
    BY <1>3 DEF InFlight
  <2>2. \A q \in Procs : HoldAt(q, o)'
    BY <1>1, <1>2, <2>1 DEF HoldAt
  <2>3. \A q \in Procs, x \in Ops : x # o => HoldAt(q, x)'
    BY <1>1, <1>3 DEF Locked, HoldShape, HoldAt, InFlight
  <2> QED
    BY <2>2, <2>3 DEF HoldShape
<1> QED
  BY <1>4, <1>5 DEF Locked

LEMMA LockedFinish ==
  ASSUME Typed, Locked, NoStall, NEW p \in Procs, NEW o \in Ops, Finish(p, o)
  PROVE  Locked'
<1>1. /\ run[p][o].pc = "finish" /\ UNCHANGED lock /\ Goto(p, o, "free")
      /\ run[p][o].hot \/ StalledIfHot(o, left)
  BY DEF Finish, At
<1>2. run[p][o].hot \/ ~Hot(o)
  BY <1>1, NotHot DEF NoStall
<1>3. Wrote(o, "idle", op[o].awaiting, op[o].counts)
  BY WriteFinished DEF Typed
<1> DEFINE hot == "free" \in AtOnce(op[o].kind)
<1>4. "free" \in Pcs /\ "free" \in Ending /\ hot = FALSE
  BY DEF Pcs, Ending, AtOnce
<1>5. Moved(p, o, "free", hot, run[p][o].counts)
  BY <1>1, <1>4, MoveGoto DEF Typed
<1> HIDE DEF hot
<1> QED
  BY <1>1, <1>2, <1>3, <1>4, <1>5, LockedEnds

LEMMA LockedMark ==
  ASSUME Typed, Locked, NoStall, NEW p \in Procs, NEW o \in Ops, MarkFailed(p, o)
  PROVE  Locked'
<1>1. /\ run[p][o].pc \in {"mark", "end"} /\ UNCHANGED lock
      /\ run[p][o].hot \/ StalledIfHot(o, left)
  BY DEF MarkFailed
<1>2. run[p][o].hot \/ ~Hot(o)
  BY <1>1, NotHot DEF NoStall
<1>3. Wrote(o, "failed", op[o].awaiting, op[o].counts)
  BY WriteFailed DEF Typed
<1>4. PICK pc \in {"settle", "give", "endSettle"} : Moved(p, o, pc, FALSE, run[p][o].counts)
  BY MoveMark DEF Typed
<1>5. pc \in Ending
  BY DEF Ending
<1> QED
  BY <1>1, <1>2, <1>3, <1>4, <1>5, LockedEnds

LEMMA LockedSettle ==
  ASSUME Typed, Locked, NEW p \in Procs, NEW o \in Ops, Settle(p, o)
  PROVE  Locked'
<1> DEFINE pc == IF run[p][o].pc = "settle" THEN "give" ELSE "endGive"
<1>1. /\ run[p][o].pc \in {"settle", "endSettle"} /\ UNCHANGED <<op, lock>>
      /\ run' = [run EXCEPT ![p][o].pc = pc]
  BY DEF Settle
<1>2. pc \in Pcs /\ pc \in Ending /\ pc # "starting" /\ run[p][o].pc \in Ending
  BY <1>1 DEF Pcs, Ending
<1> HIDE DEF pc
<1>3. Moved(p, o, pc, run[p][o].hot, run[p][o].counts)
  BY <1>1, <1>2, MovePc DEF Typed
<1>4. /\ \A q \in Procs, x \in Ops : q # p \/ x # o => run'[q][x] = run[q][x]
      /\ run'[p][o].pc = pc /\ run'[p][o].hot = run[p][o].hot
  BY <1>3 DEF Moved
<1>5. StartShape'
  BY <1>1, <1>2, <1>4 DEF Locked, StartShape
<1>6. HoldShape'
  BY <1>1, <1>2, <1>4 DEF Locked, HoldShape, HoldAt, InFlight
<1> QED
  BY <1>5, <1>6 DEF Locked

\* A process takes the lock of an operation in flight that nobody is about to act for.
LEMMA LockedTakes ==
  ASSUME Typed, Locked, NEW p \in Procs, NEW o \in Ops, Take(p, o), InFlight(o), ~Hot(o),
         \A q \in Procs : run[q][o].pc # "starting",
         NEW pc \in {"top", "end"}, NEW hot, NEW counts, Moved(p, o, pc, hot, counts),
         \A x \in Ops : op'[x].kind = op[x].kind /\ op'[x].state = op[x].state
  PROVE  Locked'
<1>1. /\ \A q \in Procs, x \in Ops : q # p \/ x # o => run'[q][x] = run[q][x]
      /\ run'[p][o].pc = pc
  BY DEF Moved
<1>2. lock'[o].holder = p /\ \A x \in Ops : x # o => lock'[x] = lock[x]
  BY DEF Take, Typed, TypeOK
<1>3. op[o].kind # "none"
  BY Started DEF Typed
<1>4. StartShape'
  BY <1>1, <1>2, <1>3 DEF Locked, StartShape
<1>5. HoldShape'
  <2>1. lock'[o].holder = p /\ InFlight(o)' /\ run'[p][o].pc \notin Ending
    BY <1>1, <1>2 DEF InFlight, Ending
  <2>2. ASSUME NEW q \in Procs, q # p
        PROVE  ~run'[q][o].hot /\ run'[q][o].pc \notin Ending
    BY <1>1, <2>2 DEF Locked, HoldShape, HoldAt, Hot
  <2>3. HoldAt(p, o)'
    BY <2>1 DEF HoldAt
  <2>4. \A q \in Procs : q # p => HoldAt(q, o)'
    BY <2>2 DEF HoldAt
  <2>5. \A q \in Procs, x \in Ops : x # o => HoldAt(q, x)'
    BY <1>1, <1>2 DEF Locked, HoldShape, HoldAt, InFlight
  <2> QED
    BY <2>3, <2>4, <2>5 DEF HoldShape
<1> QED
  BY <1>4, <1>5 DEF Locked

LEMMA LockedPickUp ==
  ASSUME Typed, Locked, NoStall, NEW p \in Procs, NEW o \in Ops, PickUp(p, o)
  PROVE  Locked'
<1>1. /\ p \in alive /\ InFlight(o) /\ run[p][o].pc = "none" /\ StalledIfHot(o, left)
      /\ lock[o] = NoLock => \A q \in alive : run[q][o].pc # "starting"
  BY DEF PickUp, Interrupted
<1>2. ~Hot(o)
  BY <1>1, NotHot DEF NoStall
<1>3. \A q \in Procs : run[q][o].pc # "starting"
  BY <1>1 DEF Typed, TypeOK, Locked, StartShape
<1>4. CASE Withdraw(o) /\ UNCHANGED <<run, lock>>
  <2>1. Returned(p, o)
    BY <1>4 DEF Returned
  <2> QED
    BY <1>1, <1>2, <1>4, <2>1, LockedWithdraw
<1>5. CASE /\ Take(p, o) /\ run' = [run EXCEPT ![p][o].pc = "end", ![p][o].hot = TRUE]
           /\ UNCHANGED <<op, tenant>>
  <2>1. "end" \in Pcs
    BY DEF Pcs
  <2>2. Moved(p, o, "end", TRUE, run[p][o].counts)
    BY <1>5, <2>1, MovePcHot DEF Typed
  <2> QED
    BY <1>1, <1>2, <1>3, <1>5, <2>2, LockedTakes
<1>6. CASE /\ Take(p, o) /\ ~Spent(o) /\ op' = [op EXCEPT ![o].resumes = @ + 1]
           /\ run' = [run EXCEPT ![p][o].pc = "top", ![p][o].resumed = TRUE]
  <2>1. Wrote(o, op[o].state, op[o].awaiting, op[o].counts)
    BY <1>6, WriteResumes DEF Typed
  <2>2. \A x \in Ops : op'[x].kind = op[x].kind /\ op'[x].state = op[x].state
    BY <2>1 DEF Wrote
  <2>3. Moved(p, o, "top", run[p][o].hot, run[p][o].counts)
    BY <1>6, MoveResumed DEF Typed
  <2>4. Take(p, o)
    BY <1>6
  <2> QED
    BY <1>1, <1>2, <1>3, <2>2, <2>3, <2>4, LockedTakes
<1> QED
  BY <1>4, <1>5, <1>6 DEF PickUp

LEMMA LockedEndStale ==
  ASSUME Typed, Locked, NoStall, NEW p \in Procs, NEW o \in Ops, EndStale(p, o)
  PROVE  Locked'
<1>1. /\ InFlight(o) /\ Take(p, o) /\ StalledIfHot(o, left) /\ UNCHANGED <<op, tenant>>
      /\ run' = [run EXCEPT ![p][o].pc = "end", ![p][o].hot = TRUE]
      /\ \A q \in alive : run[q][o].pc # "starting"
  BY DEF EndStale
<1>2. ~Hot(o)
  BY <1>1, NotHot DEF NoStall
<1>3. \A q \in Procs : run[q][o].pc # "starting"
  BY <1>1 DEF Typed, TypeOK
<1>4. "end" \in Pcs
  BY DEF Pcs
<1>5. Moved(p, o, "end", TRUE, run[p][o].counts)
  BY <1>1, <1>4, MovePcHot DEF Typed
<1> QED
  BY <1>1, <1>2, <1>3, <1>5, LockedTakes

\* The holders of the locks, and who is being started, stay the same.
LEMMA LockedSame ==
  ASSUME Typed, Locked, UNCHANGED <<op, run>>,
         \A o \in Ops : /\ lock'[o].holder = lock[o].holder
                        /\ lock[o] = NoLock => lock'[o] = lock[o]
  PROVE  Locked'
<1>1. StartShape'
  BY DEF Locked, StartShape
<1>2. HoldShape'
  BY DEF Locked, HoldShape, HoldAt, InFlight, Ending
<1> QED
  BY <1>1, <1>2 DEF Locked

\* A run takes back a lock that went to another and lapsed: nobody is about
\* to act under it, and the operation has been started.
LEMMA LockedRetakes ==
  ASSUME Typed, Locked, NoStall, NEW p \in Procs, NEW o \in Ops, Renew(p, o), lock[o].holder # p
  PROVE  Locked'
<1>1. /\ run[p][o].pc \notin {"none", "starting"} /\ Take(p, o) /\ UNCHANGED <<op, run>>
      /\ StalledIfHot(o, [left EXCEPT !["retake"] = @ - 1])
  BY DEF Renew
<1>2. [left EXCEPT !["retake"] = @ - 1]["stall"] = 0
  BY DEF NoStall, Typed, TypeOK, Troubles
<1>3. ~Hot(o)
  BY <1>1, <1>2, NotHot
<1>4. op[o].kind # "none"
  BY <1>1, Started DEF Typed
<1>5. lock'[o].holder = p /\ \A x \in Ops : x # o => lock'[x] = lock[x]
  BY <1>1 DEF Take, Typed, TypeOK
<1>6. StartShape'
  BY <1>1, <1>4, <1>5 DEF Locked, StartShape
<1>7. HoldShape'
  <2>1. \A q \in Procs : ~run[q][o].hot
    BY <1>3 DEF Hot
  <2>2. \A q \in Procs : HoldAt(q, o)'
    BY <1>1, <2>1 DEF Locked, HoldShape, HoldAt, InFlight
  <2>3. \A q \in Procs, x \in Ops : x # o => HoldAt(q, x)'
    BY <1>1, <1>5 DEF Locked, HoldShape, HoldAt, InFlight
  <2> QED
    BY <2>2, <2>3 DEF HoldShape
<1> QED
  BY <1>6, <1>7 DEF Locked

LEMMA LockedLock ==
  ASSUME Typed, Locked, NoStall, NEW o \in Ops, Lapse(o) \/ \E p \in Procs : Renew(p, o)
  PROVE  Locked'
<1>1. UNCHANGED <<op, run>>
  BY DEF Lapse, Renew
<1>2. CASE Lapse(o)
  <2>1. \A x \in Ops : lock'[x].holder = lock[x].holder /\ (lock[x] = NoLock => lock'[x] = lock[x])
    BY <1>2 DEF Lapse, Typed, TypeOK, NoLock
  <2> QED
    BY <1>1, <2>1, LockedSame
<1>3. ASSUME NEW p \in Procs, Renew(p, o), lock[o].holder # p PROVE Locked'
  BY <1>3, LockedRetakes
<1>4. ASSUME NEW p \in Procs, Renew(p, o), lock[o].holder = p PROVE Locked'
  <2>1. lock[o].holder = p /\ Take(p, o)
    BY <1>4 DEF Renew
  <2>2. \A x \in Ops : lock'[x].holder = lock[x].holder /\ (lock[x] = NoLock => lock'[x] = lock[x])
    BY <2>1, StorageAssumption DEF Take, Typed, TypeOK, NoLock
  <2> QED
    BY <1>1, <2>2, LockedSame
<1> QED
  BY <1>2, <1>3, <1>4

LEMMA LockedCrash ==
  ASSUME Typed, Locked, NEW p \in Procs, Crash(p)
  PROVE  Locked'
<1>1. /\ \A o \in Ops : run'[p][o].pc = "none" /\ run'[p][o].hot = FALSE
      /\ \A q \in Procs : q # p => run'[q] = run[q]
      /\ UNCHANGED <<op, lock>>
  BY DEF Crash, NotRunning, Typed, TypeOK
<1>2. StartShape'
  BY <1>1 DEF Locked, StartShape
<1>3. HoldShape'
  BY <1>1 DEF Locked, HoldShape, HoldAt, InFlight, Ending
<1> QED
  BY <1>2, <1>3 DEF Locked

\* What a cancel does first.
LEMMA CancelEnds ==
  ASSUME Typed, NoStall, NEW p \in Procs, CancelEnd(p)
  PROVE  \/ UNCHANGED op /\ (valve[p].op # 0 => ~InFlight(valve[p].op))
         \/ /\ valve[p].op \in Ops /\ InFlight(valve[p].op) /\ ~Hot(valve[p].op)
            /\ Wrote(valve[p].op, "failed", op[valve[p].op].awaiting, op[valve[p].op].counts)
<1> DEFINE o == valve[p].op
<1>1. CASE o # 0 /\ InFlight(o)
  <2>1. o \in Ops
    BY <1>1 DEF Typed, TypeOK, ValveType, Ops
  <2>2. op' = [op EXCEPT ![o].state = "failed"] /\ "failed" \in OpStates /\ StalledIfHot(o, left)
    BY <1>1 DEF CancelEnd, OpStates
  <2>3. InFlight(o)
    BY <1>1
  <2> HIDE DEF o
  <2>4. Wrote(o, "failed", op[o].awaiting, op[o].counts)
    BY <2>1, <2>2, WriteState DEF Typed
  <2>5. ~Hot(o)
    BY <2>2, NotHot DEF NoStall
  <2> QED
    BY <2>1, <2>3, <2>4, <2>5 DEF o
<1>2. CASE ~(o # 0 /\ InFlight(o))
  BY <1>2 DEF CancelEnd
<1> QED
  BY <1>1, <1>2

LEMMA LockedCancel ==
  ASSUME Typed, Locked, NoStall, NEW p \in Procs, CancelEnd(p)
  PROVE  Locked'
<1>1. UNCHANGED <<run, lock>>
  BY DEF CancelEnd
<1>2. CASE UNCHANGED op
  BY <1>1, <1>2, LockedSame
<1>3. ASSUME NEW o \in Ops, ~Hot(o), Wrote(o, "failed", op[o].awaiting, op[o].counts)
      PROVE  Locked'
  <2>1. Returned(p, o)
    BY <1>1 DEF Returned
  <2>2. /\ \A x \in Ops : op'[x].kind = op[x].kind /\ (x # o => op'[x] = op[x])
        /\ op'[o].state = "failed"
    BY <1>3 DEF Wrote
  <2> QED
    BY <1>1, <1>3, <2>1, <2>2, LockedEnded
<1> QED
  BY <1>2, <1>3, CancelEnds

LEMMA LockedStep ==
  ASSUME Typed, Locked, NoStall, [Next]_vars
  PROVE  Locked'
<1>1. ASSUME NEW p \in Procs, NEW o \in Ops, Moving(p, o) PROVE Locked'
  BY <1>1, GoesMoving, LockedGoes DEF Typed
<1>2. ASSUME NEW p \in Procs, NEW o \in Ops, Stopping(p, o) \/ FreeTenant(p, o) \/ GiveBack(p, o)
      PROVE  Locked'
  <2>1. Leave(p, o) /\ UNCHANGED op
    BY <1>2 DEF Stopping, Ask, Catch, FreeTenant, GiveBack
  <2>2. run[p][o].pc \in Asked(op[o].kind) \cup {"catch", "free", "give", "endGive"}
    BY <1>2 DEF Stopping, Ask, Catch, FreeTenant, GiveBack, At
  <2>3. run[p][o].pc \notin {"none", "starting"}
    BY <2>2 DEF Asked, ProgressSteps
  <2> QED
    BY <2>1, <2>3, LockedLeaves
<1>3. ASSUME NEW p \in Procs, Looks(p) \/ ValveActs(p) PROVE Locked'
  <2>1. UNCHANGED <<op, run>> /\ lock' = lock
    BY <1>3, ValvesLeave
  <2> QED
    BY <2>1, LockedSame
<1>4. CASE UNCHANGED vars
  <2>1. UNCHANGED <<op, run>> /\ lock' = lock
    BY <1>4 DEF vars
  <2> QED
    BY <2>1, LockedSame
<1> QED
  BY <1>1, <1>2, <1>3, <1>4, StepKinds, ValvesLeave, LockedBegin, LockedStartRun, LockedRefused,
     LockedProgress, LockedFinish, LockedMark, LockedSettle, LockedPickUp, LockedEndStale, LockedLock,
     LockedCrash, LockedCancel

\* A new operation is begun.
Begins == \E p \in Procs, o \in Ops, k \in Kinds : Begin(p, o, k)

\* Rows are begun in order.
OrderShape == \A o \in Ops, q \in Ops : o < q /\ op[o].kind = "none" => op[q].kind = "none"

\* An operation in flight is the latest one, and the one that the tenant points at.
OwnShape == Late \/ \A o \in Ops : InFlight(o) => tenant = Busy(o) /\ ~Overtaken(o)

\* A cancel that is not late is about to end the only operation in flight; after that, and in a
\* reset, none is in flight until another is begun, which makes the valve late.
ValveAt(p) ==
  ~valve[p].late =>
    /\ valve[p].pc = "end" => \A o \in Ops : InFlight(o) => o = valve[p].op
    /\ valve[p].pc \in {"start", "clear", "restart", "free"} => \A o \in Ops : ~InFlight(o)

ValveOwn == Late \/ \A p \in Procs : ValveAt(p)

Owner == Locked /\ OrderShape /\ OwnShape /\ ValveOwn

OwnerInv == Typed /\ NoStall /\ Owner

LEMMA Unbegun ==
  ASSUME RowShape, NEW o \in Ops
  PROVE  op[o] = Unstarted <=> op[o].kind = "none"
  BY DEF RowShape, Unstarted

LEMMA OvertakenIs ==
  ASSUME RowShape, NEW o \in Ops
  PROVE  Overtaken(o) <=> \E q \in Ops : q > o /\ op[q].kind # "none"
  BY Unbegun DEF Overtaken

\* Only a begin puts an operation in flight, or overtakes one.
LEMMA KindsKept ==
  ASSUME Typed, [Next]_vars, ~Begins
  PROVE  \A x \in Ops : op'[x].kind = op[x].kind /\ (Overtaken(x)' <=> Overtaken(x))
<1>1. RowsGrow /\ RowShape'
  BY RowsStep, TypesStep DEF Typed
<1>2. \A x \in Ops : op'[x].kind = op[x].kind
  BY <1>1 DEF RowsGrow, RowGrows, Begins
<1>3. ASSUME NEW x \in Ops PROVE Overtaken(x)' <=> Overtaken(x)
  <2>1. Overtaken(x) <=> \E q \in Ops : q > x /\ op[q].kind # "none"
    BY OvertakenIs DEF Typed
  <2>2. Overtaken(x)' <=> \E q \in Ops : q > x /\ op'[q].kind # "none"
    BY <1>1, Unbegun DEF Overtaken, RowShape, Unstarted
  <2> QED
    BY <1>2, <2>1, <2>2
<1> QED
  BY <1>2, <1>3

FlightShrinks == \A x \in Ops : InFlight(x)' => InFlight(x)

LEMMA FlightWrote ==
  ASSUME NEW o \in Ops, NEW state, NEW awaiting, NEW counts, Wrote(o, state, awaiting, counts),
         state \in {op[o].state, "idle", "failed"} \/ InFlight(o)
  PROVE  FlightShrinks
  BY DEF Wrote, FlightShrinks, InFlight

LEMMA FlightStep ==
  ASSUME Typed, Locked, NoStall, [Next]_vars, ~Begins
  PROVE  FlightShrinks
<1>1. ASSUME NEW p \in Procs, NEW o \in Ops, Moving(p, o) PROVE FlightShrinks
  <2>1. KeepsOps
    BY <1>1, GoesMoving DEF Goes, Typed
  <2> QED
    BY <2>1 DEF KeepsOps, FlightShrinks, InFlight
<1>2. ASSUME NEW p \in Procs, NEW o \in Ops, StartRun(p, o) PROVE FlightShrinks
  BY <1>2, WriteStarted, FlightWrote DEF StartRun, Typed
<1>3. CASE UNCHANGED op
  BY <1>3 DEF FlightShrinks, InFlight
<1>4. ASSUME NEW o \in Ops, Withdraw(o) PROVE FlightShrinks
  BY <1>4, WriteWithdrawn, FlightWrote DEF Typed
<1>5. ASSUME NEW p \in Procs, NEW o \in Ops, Progress(p, o) PROVE FlightShrinks
  <2>1. run[p][o].hot /\ Wrote(o, run[p][o].pc, op[o].awaiting, op[o].counts)
    BY <1>5, GoesProgress DEF Typed
  <2>2. InFlight(o)
    BY <2>1 DEF Locked, HoldShape, HoldAt
  <2> QED
    BY <2>1, <2>2, FlightWrote
<1>6. ASSUME NEW p \in Procs, NEW o \in Ops, Finish(p, o) PROVE FlightShrinks
  BY <1>6, WriteFinished, FlightWrote DEF Typed
<1>7. ASSUME NEW p \in Procs, NEW o \in Ops, MarkFailed(p, o) PROVE FlightShrinks
  BY <1>7, WriteFailed, FlightWrote DEF Typed
<1>8. ASSUME NEW p \in Procs, NEW o \in Ops, PickUp(p, o) PROVE FlightShrinks
  <2>1. CASE ~Spent(o) /\ op' = [op EXCEPT ![o].resumes = @ + 1]
    <3>1. Wrote(o, op[o].state, op[o].awaiting, op[o].counts)
      BY <2>1, WriteResumes DEF Typed
    <3> QED
      BY <3>1, FlightWrote
  <2>2. \/ Withdraw(o) \/ UNCHANGED op
        \/ ~Spent(o) /\ op' = [op EXCEPT ![o].resumes = @ + 1]
    BY <1>8 DEF PickUp
  <2> QED
    BY <1>3, <1>4, <2>1, <2>2
<1>9. ASSUME NEW p \in Procs, CancelEnd(p) PROVE FlightShrinks
  <2>1. CASE UNCHANGED op
    BY <1>3, <2>1
  <2>2. ASSUME NEW o \in Ops, Wrote(o, "failed", op[o].awaiting, op[o].counts) PROVE FlightShrinks
    BY <2>2, FlightWrote
  <2> QED
    BY <1>9, <2>1, <2>2, CancelEnds
<1>10. ASSUME NEW p \in Procs, NEW o \in Ops, \/ Stopping(p, o) \/ FreeTenant(p, o) \/ Settle(p, o)
                                              \/ GiveBack(p, o) \/ EndStale(p, o) \/ Renew(p, o)
      PROVE UNCHANGED op
  BY <1>10 DEF Stopping, Ask, Catch, FreeTenant, Settle, GiveBack, EndStale, Renew
<1>11. ASSUME NEW o \in Ops, Lapse(o) PROVE UNCHANGED op
  BY <1>11 DEF Lapse
<1>12. ASSUME NEW p \in Procs, Crash(p) PROVE UNCHANGED op
  BY <1>12 DEF Crash
<1>13. ASSUME NEW p \in Procs, Looks(p) \/ ValveActs(p) PROVE UNCHANGED op
  BY <1>13, ValvesLeave
<1>14. CASE UNCHANGED vars
  BY <1>3, <1>14 DEF vars
<1>15. ASSUME NEW p \in Procs, NEW o \in Ops, StartRefused(p, o) PROVE FlightShrinks
  BY <1>3, <1>4, <1>15 DEF StartRefused
<1> QED
  BY <1>1, <1>2, <1>3, <1>5, <1>6, <1>7, <1>8, <1>9, <1>10, <1>11, <1>12, <1>13, <1>14, <1>15,
     StepKinds, ValvesLeave DEF Begins

Nobody == \A x \in Ops : ~InFlight(x)

\* What a run that is not late gives back: nothing is in flight.
LEMMA NotLateNobody ==
  ASSUME OwnerInv, NEW p \in Procs, NEW o \in Ops, run[p][o].pc \in Ending,
         NoteLate(p, o), ~Late'
  PROVE  Nobody
<1>1. ~Late /\ ~Overtaken(o) /\ lock[o].holder = p
  BY DEF NoteLate, Note, Late
<1>2. ~InFlight(o)
  BY DEF OwnerInv, Owner, Locked, HoldShape, HoldAt
<1>3. op[o].kind # "none"
  BY Started DEF OwnerInv, Typed, Ending
<1>4. ASSUME NEW x \in Ops, InFlight(x) PROVE FALSE
  <2>1. ~Overtaken(x)
    BY <1>1, <1>4 DEF OwnerInv, Owner, OwnShape
  <2>2. op[x].kind # "none" /\ x # o
    BY <1>2, <1>4, Started DEF OwnerInv, Typed
  <2>3. ~(x > o) /\ ~(o > x)
    BY <1>1, <1>3, <2>1, <2>2, OvertakenIs DEF OwnerInv, Typed
  <2> QED
    BY <2>2, <2>3 DEF Ops
<1> QED
  BY <1>4 DEF Nobody

\* What a step other than a begin writes to the tenant's row: nothing, that its operation goes on,
\* or something while no operation is in flight or the only one ends.

LEMMA TenantWriters ==
  ASSUME OwnerInv, [Next]_vars, ~Begins, ~Late, ~Late'
  PROVE  \/ UNCHANGED tenant \/ Nobody
         \/ tenant' = [tenant EXCEPT !.state = "busy"]
         \/ \E o \in Ops : Withdraw(o)
<1>1. ASSUME NEW p \in Procs, NEW o \in Ops, FreeTenant(p, o) PROVE Nobody
  BY <1>1, NotLateNobody DEF FreeTenant, At, Ending
<1>2. ASSUME NEW p \in Procs, NEW o \in Ops, GiveBack(p, o) PROVE UNCHANGED tenant \/ Nobody
  <2>1. run[p][o].pc \in Ending
    BY <1>2 DEF GiveBack, Ending
  <2>2. CASE NoteLate(p, o)
    BY <2>1, <2>2, NotLateNobody
  <2>3. CASE tenant.active = o
    <3>1. ~InFlight(o)
      BY <2>1 DEF OwnerInv, Owner, Locked, HoldShape, HoldAt
    <3>2. \A x \in Ops : InFlight(x) => x = o
      BY <2>3 DEF OwnerInv, Owner, OwnShape, Busy
    <3> QED
      BY <3>1, <3>2 DEF Nobody
  <2> QED
    BY <1>2, <2>2, <2>3 DEF GiveBack
<1>3. ASSUME NEW p \in Procs, NEW o \in Ops, StartRefused(p, o) \/ PickUp(p, o)
      PROVE  UNCHANGED tenant \/ Withdraw(o)
  BY <1>3 DEF StartRefused, PickUp
<1>4. ASSUME NEW p \in Procs, NEW o \in Ops, Progress(p, o)
      PROVE  UNCHANGED tenant \/ tenant' = [tenant EXCEPT !.state = "busy"]
  BY <1>4 DEF Progress
<1>5. ASSUME NEW p \in Procs, ValveFree(p) PROVE Nobody
  <2>1. ~valve[p].late /\ valve[p].pc = "free"
    BY <1>5 DEF ValveFree, NoteValve, Late
  <2> QED
    BY <2>1 DEF OwnerInv, Owner, ValveOwn, ValveAt, Nobody
<1>6. ASSUME NEW p \in Procs, NEW o \in Ops,
             \/ Moving(p, o) \/ Stopping(p, o) \/ StartRun(p, o) \/ Finish(p, o) \/ MarkFailed(p, o)
             \/ Settle(p, o) \/ EndStale(p, o) \/ Renew(p, o)
      PROVE  UNCHANGED tenant
  BY <1>6 DEF Moving, Stopping, Ask, Catch, StartRun, Finish, MarkFailed, Settle, EndStale, Renew,
              Top, WriteCounts, ScaleDown, Capture, NoteBundle, DropWorkloads, DeleteClaim, CreateClaim,
              RestoreFiles, WriteSize, StartWorkloads, ReapBundle, Throw, Recover
<1>7. ASSUME NEW p \in Procs, Crash(p) PROVE UNCHANGED tenant
  BY <1>7 DEF Crash
<1>8. ASSUME NEW o \in Ops, Lapse(o) PROVE UNCHANGED tenant
  BY <1>8 DEF Lapse
<1>9. ASSUME NEW p \in Procs, Looks(p) \/ (ValveStep(p) /\ ~ValveFree(p)) PROVE UNCHANGED tenant
  BY <1>9, ValvesLeave
<1>10. CASE UNCHANGED vars
  BY <1>10 DEF vars
<1> QED
  BY <1>1, <1>2, <1>3, <1>4, <1>5, <1>6, <1>7, <1>8, <1>9, <1>10, StepKinds DEF Begins

LEMMA OrderStep ==
  ASSUME Typed, OrderShape, [Next]_vars
  PROVE  OrderShape'
<1>1. CASE ~Begins
  BY <1>1, KindsKept DEF OrderShape
<1>2. ASSUME NEW p \in Procs, NEW o \in Ops, NEW k \in Kinds, Begin(p, o, k) PROVE OrderShape'
  <2>1. op'[o].kind = k /\ k # "none" /\ \A x \in Ops : x # o => op'[x] = op[x]
    BY <1>2, BeginRow, StorageAssumption DEF Typed
  <2>2. \A q \in Ops : q < o => op[q].kind # "none"
    BY <1>2, Unbegun DEF Begin, Typed
  <2> QED
    BY <2>1, <2>2 DEF OrderShape
<1> QED
  BY <1>1, <1>2 DEF Begins

\* The latest operation is the one just begun, and the only one in flight.
LEMMA OwnBegin ==
  ASSUME OwnerInv, NEW p \in Procs, NEW o \in Ops, NEW k \in Kinds, Begin(p, o, k), [Next]_vars, ~Late
  PROVE  \A x \in Ops : InFlight(x)' => tenant' = Busy(x) /\ ~Overtaken(x)'
<1>1. tenant.state = "idle" /\ tenant' = Busy(o) /\ op[o].kind = "none"
  BY Unbegun DEF Begin, Busy, OwnerInv, Typed
<1>2. \A x \in Ops : ~InFlight(x)
  BY <1>1 DEF OwnerInv, Owner, OwnShape, Busy
<1>3. \A x \in Ops : x # o => op'[x] = op[x]
  BY BeginRow DEF OwnerInv, Typed
<1>4. \A x \in Ops : InFlight(x)' => x = o
  BY <1>2, <1>3 DEF InFlight
<1>5. ~Overtaken(o)'
  <2>1. \A q \in Ops : o < q => op[q].kind = "none"
    BY <1>1 DEF OwnerInv, Owner, OrderShape
  <2>2. \A q \in Ops : q > o => op'[q] = Unstarted
    BY <1>3, <2>1, Unbegun DEF OwnerInv, Typed, Ops
  <2> QED
    BY <2>2 DEF Overtaken
<1> QED
  BY <1>1, <1>4, <1>5

LEMMA OwnStep ==
  ASSUME OwnerInv, [Next]_vars
  PROVE  OwnShape'
<1>1. SUFFICES ASSUME ~Late' PROVE \A x \in Ops : InFlight(x)' => tenant' = Busy(x) /\ ~Overtaken(x)'
  BY DEF OwnShape
<1>2. ~Late
  BY <1>1, NotedStep DEF Late, OwnerInv, Typed
<1>3. CASE Begins
  BY <1>2, <1>3, OwnBegin DEF Begins
<1>4. CASE ~Begins
  <2> SUFFICES ASSUME NEW x \in Ops, InFlight(x)' PROVE tenant' = Busy(x) /\ ~Overtaken(x)'
    OBVIOUS
  <2>1. InFlight(x)
    BY <1>4, FlightStep DEF FlightShrinks, OwnerInv, Owner
  <2>2. tenant = Busy(x) /\ ~Overtaken(x)
    BY <1>2, <2>1 DEF OwnerInv, Owner, OwnShape
  <2>3. ~Overtaken(x)'
    BY <1>4, <2>2, KindsKept DEF OwnerInv
  <2>4. tenant' = Busy(x)
    <3>1. CASE UNCHANGED tenant
      BY <2>2, <3>1
    <3>2. CASE tenant' = [tenant EXCEPT !.state = "busy"]
      BY <2>2, <3>2 DEF Busy
    <3>3. ASSUME NEW o \in Ops, Withdraw(o) PROVE tenant' = Busy(x)
      <4>1. op'[o].state = "failed"
        BY <3>3, WriteWithdrawn DEF Wrote, OwnerInv, Typed
      <4>2. x # o
        BY <4>1 DEF InFlight
      <4> QED
        BY <2>2, <3>3, <4>2 DEF Withdraw, Busy
    <3>4. ~Nobody
      BY <2>1 DEF Nobody
    <3> QED
      BY <1>1, <1>2, <1>4, <3>1, <3>2, <3>3, <3>4, TenantWriters
  <2> QED
    BY <2>3, <2>4
<1> QED
  BY <1>3, <1>4

LEMMA ValveLooks ==
  ASSUME OwnerInv, ~Late, NEW p \in Procs, Looks(p)
  PROVE  \A q \in Procs : ValveAt(q)'
<1>1. UNCHANGED op
  BY ValvesLeave
<1>2. \A q \in Procs : ValveAt(q)
  BY DEF OwnerInv, Owner, ValveOwn
<1>3. PICK pc, o : /\ valve' = [valve EXCEPT ![p] = [pc |-> pc, op |-> o, late |-> FALSE]]
                   /\ \/ pc = "end" /\ o = tenant.active
                      \/ pc = "restart" /\ tenant.state = "failed"
                      \/ pc = "sweep"
  BY DEF Looks, Look, CancelLook, ResetLook, SweepLook
<1>4. valve'[p].pc = pc /\ valve'[p].op = o /\ \A q \in Procs : q # p => valve'[q] = valve[q]
  BY <1>3 DEF OwnerInv, Typed, TypeOK
<1>5. \A x \in Ops : (InFlight(x)' <=> InFlight(x)) /\ (InFlight(x) => tenant.active = x /\ tenant.state # "failed")
  BY <1>1 DEF OwnerInv, Owner, OwnShape, Busy, InFlight
<1>6. ValveAt(p)'
  BY <1>3, <1>4, <1>5 DEF ValveAt
<1>7. \A q \in Procs : q # p => ValveAt(q)'
  BY <1>2, <1>4, <1>5 DEF ValveAt
<1> QED
  BY <1>6, <1>7

\* A valve that goes on is the same valve.
LEMMA ValveIs ==
  ASSUME TypeOK, NEW p \in Procs
  PROVE  /\ \A pc : To(p, pc) => /\ valve'[p].pc = pc /\ valve'[p].op = valve[p].op
                                 /\ valve'[p].late = valve[p].late
                                 /\ \A q \in Procs : q # p => valve'[q] = valve[q]
         /\ Done(p) => valve'[p].pc = "none" /\ \A q \in Procs : q # p => valve'[q] = valve[q]
<1>1. valve \in [Procs -> ValveType] /\ valve[p] \in ValveType
  BY DEF TypeOK
<1>2. ASSUME NEW pc, To(p, pc)
      PROVE  /\ valve'[p].pc = pc /\ valve'[p].op = valve[p].op /\ valve'[p].late = valve[p].late
             /\ \A q \in Procs : q # p => valve'[q] = valve[q]
  <2>1. valve'[p] = [valve[p] EXCEPT !.pc = pc] /\ \A q \in Procs : q # p => valve'[q] = valve[q]
    BY <1>1, <1>2 DEF To
  <2> QED
    BY <1>1, <2>1 DEF ValveType
<1>3. Done(p) => valve'[p].pc = "none" /\ \A q \in Procs : q # p => valve'[q] = valve[q]
  BY <1>1 DEF Done, NoValve
<1> QED
  BY <1>2, <1>3

LEMMA ValveGoes ==
  ASSUME OwnerInv, ~Late, NEW p \in Procs, ValveStep(p), FlightShrinks
  PROVE  \A q \in Procs : ValveAt(q)'
<1>1. \A q \in Procs : ValveAt(q)
  BY DEF OwnerInv, Owner, ValveOwn
<1>2. /\ \A q \in Procs : q # p => valve'[q] = valve[q]
      /\ \/ valve'[p].op = valve[p].op /\ valve'[p].late = valve[p].late
         \/ valve'[p].pc = "none"
  BY ValvesMove, ValveIs DEF ValveMoves, OwnerInv, Typed
<1>3. \A q \in Procs : q # p => ValveAt(q)'
  BY <1>1, <1>2 DEF ValveAt, FlightShrinks
<1>4. CASE CancelEnd(p)
  <2>1. valve[p].pc = "end" /\ valve'[p].pc = "start" /\ valve'[p].late = valve[p].late
    BY <1>4, ValveIs DEF CancelEnd, OwnerInv, Typed
  <2>2. ASSUME ~valve[p].late, NEW x \in Ops, InFlight(x)' PROVE FALSE
    <3>1. InFlight(x) /\ x = valve[p].op
      BY <1>1, <2>1, <2>2 DEF ValveAt, FlightShrinks
    <3>2. x # 0
      BY DEF Ops
    <3>3. Wrote(x, "failed", op[x].awaiting, op[x].counts)
      BY <1>4, <3>1, <3>2, CancelEnds DEF OwnerInv
    <3> QED
      BY <2>2, <3>3 DEF Wrote, InFlight
  <2>3. ValveAt(p)'
    BY <2>1, <2>2 DEF ValveAt
  <2> QED
    BY <1>3, <2>3
<1>5. CASE ValveActs(p)
  <2>1. \/ /\ valve[p].pc \in {"start", "clear", "restart"}
           /\ To(p, "clear") \/ To(p, "free")
        \/ Done(p)
    BY <1>5 DEF ValveActs, CancelStart, CancelClear, ResetStart, SweepStart, ValveFree
  <2>2. UNCHANGED op
    BY <1>5, ValvesLeave
  <2>3. \/ /\ valve[p].pc \in {"start", "clear", "restart"}
           /\ valve'[p].late = valve[p].late /\ valve'[p].pc \in {"clear", "free"}
        \/ valve'[p].pc = "none"
    BY <2>1, ValveIs DEF OwnerInv, Typed
  <2>4. ValveAt(p)'
    BY <1>1, <2>2, <2>3 DEF ValveAt, InFlight
  <2> QED
    BY <1>3, <2>4
<1> QED
  BY <1>4, <1>5, ValvesLeave

LEMMA ValveOwnStep ==
  ASSUME OwnerInv, [Next]_vars
  PROVE  ValveOwn'
<1>1. SUFFICES ASSUME ~Late' PROVE \A q \in Procs : ValveAt(q)'
  BY DEF ValveOwn
<1>2. ~Late
  BY <1>1, NotedStep DEF Late, OwnerInv, Typed
<1>3. \A q \in Procs : ValveAt(q)
  BY <1>2 DEF OwnerInv, Owner, ValveOwn
<1>4. ASSUME NEW p \in Procs, NEW o \in Ops, NEW k \in Kinds, Begin(p, o, k) PROVE \A q \in Procs : ValveAt(q)'
  <2>1. \A q \in Procs : valve'[q].late = (valve[q].pc # "none") /\ valve'[q].pc = valve[q].pc
    <3>1. valve' = [q \in Procs |-> [valve[q] EXCEPT !.late = valve[q].pc # "none"]]
      BY <1>4 DEF Begin
    <3>2. \A q \in Procs : valve[q] \in ValveType
      BY DEF OwnerInv, Typed, TypeOK
    <3> QED
      BY <3>1, <3>2 DEF ValveType
  <2> QED
    BY <2>1 DEF ValveAt
<1>5. CASE ~Begins
  <2>1. FlightShrinks
    BY <1>5, FlightStep DEF OwnerInv, Owner
  <2>2. CASE UNCHANGED valve
    BY <1>3, <2>1, <2>2 DEF ValveAt, FlightShrinks
  <2>3. ASSUME NEW p \in Procs, Crash(p) PROVE \A q \in Procs : ValveAt(q)'
    <3>1. valve'[p].pc = "none" /\ \A q \in Procs : q # p => valve'[q] = valve[q]
      BY <2>3 DEF Crash, NoValve, OwnerInv, Typed, TypeOK
    <3> QED
      BY <1>3, <2>1, <3>1 DEF ValveAt, FlightShrinks
  <2> QED
    BY <1>2, <1>5, <2>1, <2>2, <2>3, ValveWriters, ValveLooks, ValveGoes DEF Begins
<1> QED
  BY <1>4, <1>5 DEF Begins

LEMMA OwnerInit ==
  ASSUME Init, Calm
  PROVE  OwnerInv
<1>1. Typed
  BY TypesInit DEF Typed
<1>2. NoStall
  BY DEF Init, Calm, NoStall
<1>3. /\ \A o \in Ops : op[o].kind = "none" /\ ~InFlight(o) /\ lock[o] = NoLock
      /\ \A p \in Procs, o \in Ops : run[p][o].pc = "none" /\ ~run[p][o].hot
      /\ \A p \in Procs : valve[p].pc = "none"
  BY DEF Init, Unstarted, InFlight, NotRunning, NoValve
<1>4. Owner
  BY <1>3 DEF Owner, Locked, StartShape, HoldShape, HoldAt, Ending, OrderShape, OwnShape, ValveOwn, ValveAt
<1> QED
  BY <1>1, <1>2, <1>4 DEF OwnerInv

LEMMA OwnerStep ==
  ASSUME OwnerInv, [Next]_vars
  PROVE  OwnerInv'
<1>1. Typed'
  BY TypesStep DEF OwnerInv, Typed
<1>2. NoStall'
  <2>1. left'["stall"] \in Nat /\ left'["stall"] <= left["stall"]
    BY LeftStep DEF Spends, Troubles, OwnerInv, Typed
  <2> QED
    BY <2>1 DEF NoStall, OwnerInv
<1>3. Locked'
  BY LockedStep DEF OwnerInv, Owner
<1>4. OrderShape'
  BY OrderStep DEF OwnerInv, Owner
<1>5. OwnShape' /\ ValveOwn'
  BY OwnStep, ValveOwnStep
<1> QED
  BY <1>1, <1>2, <1>3, <1>4, <1>5 DEF OwnerInv, Owner

(* Two operations are never in flight on one tenant: as long as nobody has *)
(* written late, an operation in flight is the one the tenant points at,   *)
(* for any number of processes, operations, valves, deaths, lapses and     *)
(* take-backs, when no process stops between a question and its step.      *)
THEOREM OneOperationInFlight == ASSUME Calm PROVE Spec => []OneOperation
<1>1. Init => OwnerInv
  BY OwnerInit
<1>2. OwnerInv /\ [Next]_vars => OwnerInv'
  BY OwnerStep
<1>3. OwnerInv => OneOperation
  BY DEF OwnerInv, Owner, OwnShape, OneOperation, Busy
<1> QED
  BY <1>1, <1>2, <1>3, PTL DEF Spec
=============================================================================
