--------------------------- MODULE RecoveryProofs ---------------------------
(***************************************************************************)
(* Proofs about Recovery for any number of tenants, recoveries, batches,   *)
(* items and troubles: its types, one recovery at a time, and that what a  *)
(* recovery and a batch report succeeded is.                               *)
(***************************************************************************)
EXTENDS Recovery, WellFoundedInduction, TLAPS

\* The types, by variable.
TaskOK   == task \in [Rows -> RowType]
PcOK     == pc \in [Rows \cup {Op} -> Pcs]
ExecOK   == exec \in [Carts -> ExecType]
ResultOK == result \in [Recs -> {"none", "done", "failed"}]
BatchOK  == batch \in [Batches -> BatchType]
CartOK   == cart \in [Carts -> CartType]
LeftOK   == left \in Nat
Types    == TaskOK /\ PcOK /\ ExecOK /\ ResultOK /\ BatchOK /\ CartOK /\ LeftOK

\* The numbers of the rows, the carts and the processes.
LEMMA Numbers ==
  /\ Recs \subseteq Rows /\ Batches \subseteq Rows /\ Recs \cap Batches = {}
  /\ Op \notin Rows /\ Recs \subseteq Carts /\ Op \in Carts /\ Carts \subseteq Rows \cup {Op}
  /\ \A r \in Rows : r \in Recs \/ r \in Batches
  /\ \A x \in Carts : x = Op \/ x \in Recs
  /\ NItems \in Nat /\ StaleAfter \in Nat /\ StaleAfter > 0 /\ MaxMisses \in Nat
  BY RecoveryAssumption DEF Recs, Batches, Rows, Op, Carts

LEMMA Zero == 0 \in 0..StaleAfter
  BY Numbers

\* A set of numbers that is not empty has a least one.
LEMMA Least ==
  ASSUME NEW T, T \subseteq Nat, T # {}
  PROVE  \E k \in T : \A l \in T : k <= l
<1>1. PICK k \in T : \A l \in T : <<l, k>> \notin OpToRel(<, Nat)
  BY WFMin, NatLessThanWellFounded, Zenon
<1>2. \A l \in T : ~(l < k)
  BY <1>1, Zenon DEF OpToRel
<1> QED
  BY <1>2

-----------------------------------------------------------------------------
(* Types.                                                                  *)

LEMMA NothingType ==
  /\ NoRow \in RowType /\ NoExec \in ExecType /\ NoBatch \in BatchType /\ NoCart \in CartType
  /\ [NoCart EXCEPT !.status = "draft"] \in CartType
<1>1. Len(Targets) \in Nat
  BY RecoveryAssumption
<1>2. 1 \in 1..(Len(Targets) + 1)
  BY <1>1
<1> QED
  BY <1>2, Numbers DEF NoRow, RowType, NoExec, ExecType, NoBatch, BatchType, NoCart, CartType, Carts, Op

\* What the enrolment does to the table: rows not refreshed are failed, the others left alone.
LEMMA ReapIs ==
  ASSUME TaskOK, NEW rows, task' = Reap(rows)
  PROVE  /\ TaskOK'
         /\ \A r \in Rows : \/ task'[r] = task[r]
                            \/ /\ task[r].status = "running" /\ task[r].age >= StaleAfter
                               /\ task'[r] = [task[r] EXCEPT !.status = "failed", !.age = 0]
<1>1. ASSUME NEW r \in Rows PROVE [task[r] EXCEPT !.status = "failed", !.age = 0] \in RowType
  <2>1. task[r] \in RowType
    BY DEF TaskOK
  <2> QED
    BY <2>1, Zero DEF RowType
<1> QED
  BY <1>1 DEF TaskOK, Reap, Reaped

LEMMA ReapThenBegin ==
  ASSUME TaskOK, NEW rows, NEW i \in Rows, NEW row \in RowType, task[i] = NoRow,
         task' = [Reap(rows) EXCEPT ![i] = row]
  PROVE  /\ TaskOK'
         /\ task'[i] = row
         /\ \A r \in Rows \ {i} :
              \/ task'[r] = task[r]
              \/ /\ task[r].status = "running" /\ task[r].age >= StaleAfter
                 /\ task'[r] = [task[r] EXCEPT !.status = "failed", !.age = 0]
<1>1. ASSUME NEW r \in Rows PROVE [task[r] EXCEPT !.status = "failed", !.age = 0] \in RowType
  <2>1. task[r] \in RowType
    BY DEF TaskOK
  <2> QED
    BY <2>1, Zero DEF RowType
<1> QED
  BY <1>1 DEF TaskOK, Reap, Reaped

\* Writing a status or noting the cart keeps a row in its type.
LEMMA WriteRowType ==
  ASSUME TaskOK, NEW r \in Rows, NEW s \in {"succeeded", "failed", "gone"},
         \/ task' = [task EXCEPT ![r].status = s, ![r].age = 0]
         \/ task' = [task EXCEPT ![r].status = s]
         \/ task' = [task EXCEPT ![r].known = TRUE, ![r].age = 0]
  PROVE  TaskOK'
<1>1. task[r] \in RowType
  BY DEF TaskOK
<1>2. /\ [task[r] EXCEPT !.status = s, !.age = 0] \in RowType
      /\ [task[r] EXCEPT !.status = s] \in RowType
      /\ [task[r] EXCEPT !.known = TRUE, !.age = 0] \in RowType
  BY <1>1, Zero DEF RowType
<1> QED
  BY <1>2 DEF TaskOK

\* The rows a recovery and a batch are enrolled with.
LEMMA NewRowType ==
  /\ \A t \in Tenants, parent \in {0} \cup Batches :
       [NoRow EXCEPT !.status = "running", !.tenant = t, !.parent = parent] \in RowType
  /\ [NoRow EXCEPT !.status = "running"] \in RowType
  /\ \A t \in Tenants : [NoRow EXCEPT !.status = "sync", !.tenant = t] \in RowType
  BY Zero DEF NoRow, RowType

\* A recovery at once: the next entry remembers its tenant, and nothing else is touched.
LEMMA NowIs ==
  ASSUME Types, NEW t \in Tenants, RecoverNow(t)
  PROVE  \E i \in Recs :
           /\ task[i] = NoRow /\ task'[i].status = "sync" /\ task'[i].age = 0
           /\ task' = [task EXCEPT ![i] = [NoRow EXCEPT !.status = "sync", !.tenant = t]]
           /\ pc'[i] = "steps" /\ \A s \in (Rows \cup {Op}) \ {i} : pc'[s] = pc[s]
           /\ PcOK' /\ TaskOK' /\ UNCHANGED <<exec, result, batch, cart, left>>
<1>1. PICK i \in Recs : /\ task[i] = NoRow
                       /\ task' = [task EXCEPT ![i] = [NoRow EXCEPT !.status = "sync", !.tenant = t]]
                       /\ pc' = [pc EXCEPT ![i] = "steps"]
                       /\ UNCHANGED <<exec, result, batch, cart, left>>
  BY DEF RecoverNow, NextRec, Goto
<1> i \in Rows /\ task \in [Rows -> RowType] /\ pc \in [Rows \cup {Op} -> Pcs]
  BY Numbers DEF Types, TaskOK, PcOK
<1>2. [NoRow EXCEPT !.status = "sync", !.tenant = t] \in RowType
  BY NewRowType
<1>3. task'[i] = [NoRow EXCEPT !.status = "sync", !.tenant = t]
  BY <1>1
<1>4. task'[i].status = "sync" /\ task'[i].age = 0
  BY <1>3 DEF NoRow
<1>5. TaskOK'
  BY <1>1, <1>2 DEF TaskOK
<1>6. PcOK' /\ pc'[i] = "steps" /\ \A s \in (Rows \cup {Op}) \ {i} : pc'[s] = pc[s]
  BY <1>1 DEF PcOK, Pcs
<1> QED
  BY <1>1, <1>4, <1>5, <1>6

LEMMA BatchTarget ==
  ASSUME BatchOK, NEW b \in Batches, batch[b].next <= Len(Targets)
  PROVE  Targets[batch[b].next] \in Tenants
<1>1. batch[b].next \in 1..(Len(Targets) + 1) /\ Targets \in Seq(Tenants)
  BY RecoveryAssumption DEF BatchOK, BatchType
<1> QED
  BY <1>1

LEMMA StepTaskOK ==
  ASSUME Types, [Next]_vars
  PROVE  TaskOK'
<1> USE DEF Types
<1>1. CASE UNCHANGED task
  BY <1>1 DEF TaskOK
<1>2. ASSUME NEW t \in Tenants, Refuse(t) PROVE TaskOK'
  BY <1>2, ReapIs DEF Refuse
<1>3. ASSUME NEW t \in Tenants, NEW i \in Recs, NEW parent \in {0} \cup Batches, Begin(t, i, parent)
      PROVE  TaskOK'
  BY <1>3, ReapThenBegin, NewRowType, Numbers DEF Begin, NextRec
<1>4. ASSUME NEW t \in Tenants, Ask(t) PROVE TaskOK'
  BY <1>2, <1>3, <1>4, ReapIs DEF Ask
<1>5. CASE AskAll
  BY <1>5, ReapIs, ReapThenBegin, NewRowType, Numbers DEF AskAll
<1>6. ASSUME NEW i \in Recs, Context(i) PROVE TaskOK'
  BY <1>1, <1>6, WriteRowType, Numbers DEF Context
<1>7. ASSUME NEW i \in Recs, Finish(i) PROVE TaskOK'
  BY <1>1, <1>7, WriteRowType, Numbers DEF Finish
<1>8. ASSUME NEW x \in Carts, Execution(x) PROVE TaskOK'
  BY <1>1, <1>8 DEF Execution, Claim, ReadItems, StartItem, EndItem, CloseCart
<1>9. ASSUME NEW i \in Recs, RecStep(i) PROVE TaskOK'
  BY <1>1, <1>6, <1>7, <1>8, <1>9, Numbers DEF RecStep, StepFails, CreateCart, Answer
<1>10. ASSUME NEW b \in Batches, BatchStep(b) PROVE TaskOK'
  <2>1. CASE Skip(b)
    BY <1>2, <2>1, BatchTarget DEF Skip
  <2>2. ASSUME NEW i \in Recs, StartChild(b, i) PROVE TaskOK'
    BY <1>3, <2>2, BatchTarget DEF StartChild
  <2>3. CASE ChildEnds(b)
    BY <1>1, <2>3 DEF ChildEnds
  <2>4. CASE EndBatch(b)
    BY <1>1, <2>4, WriteRowType, Numbers DEF EndBatch
  <2> QED
    BY <1>10, <2>1, <2>2, <2>3, <2>4 DEF BatchStep
<1>11. ASSUME NEW lost, Beat(lost) PROVE TaskOK'
  <2>1. ASSUME NEW r \in Rows
        PROVE  \A age \in 0..StaleAfter : [task[r] EXCEPT !.age = age] \in RowType
    BY <2>1 DEF TaskOK, RowType
  <2>2. ASSUME NEW r \in Rows
        PROVE  /\ 0 \in 0..StaleAfter
               /\ (IF task[r].age < StaleAfter THEN task[r].age + 1 ELSE task[r].age) \in 0..StaleAfter
    BY Numbers DEF TaskOK, RowType
  <2> QED
    BY <1>11, <2>1, <2>2 DEF Beat, TaskOK
<1>12. ASSUME NEW r \in Rows, Expire(r) \/ ReapOrphan(r) PROVE TaskOK'
  BY <1>12, WriteRowType DEF Expire, ReapOrphan
<1>13. ASSUME NEW c \in Carts, OperatorExecutes(c) PROVE TaskOK'
  BY <1>1, <1>13 DEF OperatorExecutes
<1>14. ASSUME NEW r \in Rows \cup {Op}, Crash(r) PROVE TaskOK'
  BY <1>1, <1>14 DEF Crash
<1>15. CASE UNCHANGED vars
  BY <1>1, <1>15 DEF vars
<1>16. ASSUME NEW t \in Tenants, RecoverNow(t) PROVE TaskOK'
  BY <1>16, NowIs
<1> QED
  BY <1>4, <1>5, <1>8, <1>9, <1>10, <1>11, <1>12, <1>13, <1>14, <1>15, <1>16, Numbers DEF Next, Time

LEMMA StepPcOK ==
  ASSUME Types, [Next]_vars
  PROVE  PcOK'
<1> USE DEF Types
<1>1. CASE UNCHANGED pc
  BY <1>1 DEF PcOK
<1>2. ASSUME NEW r, NEW l \in Pcs, Goto(r, l) PROVE PcOK'
  BY <1>2 DEF Goto, PcOK
<1> "none" \in Pcs /\ "steps" \in Pcs /\ "context" \in Pcs /\ "execute" \in Pcs /\ "read" \in Pcs
    /\ "apply" \in Pcs /\ "item" \in Pcs /\ "stop" \in Pcs /\ "answer" \in Pcs /\ "finish" \in Pcs
    /\ "next" \in Pcs /\ "child" \in Pcs /\ "over" \in Pcs /\ "dead" \in Pcs
  BY DEF Pcs
<1>3. ASSUME NEW t \in Tenants, Ask(t) PROVE PcOK'
  BY <1>1, <1>2, <1>3 DEF Ask
<1>4. CASE AskAll
  BY <1>1, <1>2, <1>4 DEF AskAll
<1>5. ASSUME NEW x \in Carts, Execution(x) PROVE PcOK'
  BY <1>2, <1>5 DEF Execution, Claim, ReadItems, StartItem, EndItem, CloseCart, Return
<1>6. ASSUME NEW i \in Recs, RecStep(i) PROVE PcOK'
  BY <1>2, <1>5, <1>6, Numbers DEF RecStep, StepFails, CreateCart, Context, Answer, Finish, Return
<1>7. ASSUME NEW b \in Batches, BatchStep(b) PROVE PcOK'
  <2>1. ASSUME NEW i \in Recs, StartChild(b, i) PROVE PcOK'
    BY <2>1 DEF StartChild, PcOK
  <2> QED
    BY <1>1, <1>2, <1>7, <2>1 DEF BatchStep, Skip, ChildEnds, EndBatch
<1>8. ASSUME NEW c \in Carts, OperatorExecutes(c) PROVE PcOK'
  BY <1>2, <1>8 DEF OperatorExecutes
<1>9. ASSUME NEW lost, Beat(lost) PROVE PcOK'
  BY <1>1, <1>9 DEF Beat
<1>10. ASSUME NEW r \in Rows \cup {Op}, Crash(r) PROVE PcOK'
  BY <1>10 DEF Crash, PcOK
<1>11. ASSUME NEW r \in Rows, Expire(r) \/ ReapOrphan(r) PROVE PcOK'
  BY <1>1, <1>11 DEF Expire, ReapOrphan
<1>12. CASE UNCHANGED vars
  BY <1>1, <1>12 DEF vars
<1>13. ASSUME NEW t \in Tenants, RecoverNow(t) PROVE PcOK'
  BY <1>13, NowIs
<1> QED
  BY <1>3, <1>4, <1>5, <1>6, <1>7, <1>8, <1>9, <1>10, <1>11, <1>12, <1>13, Numbers DEF Next, Time

\* The item an execution starts is one it still has to do.
LEMMA NextItem ==
  ASSUME ExecOK, NEW x \in Carts, exec[x].todo # {}, NEW k,
         k = CHOOSE j \in exec[x].todo : \A l \in exec[x].todo : j <= l
  PROVE  k \in exec[x].todo /\ k \in Items
<1>1. exec[x].todo \subseteq Items
  BY DEF ExecOK, ExecType
<1>2. exec[x].todo \subseteq Nat
  BY <1>1, Numbers DEF Items
<1>3. \E j \in exec[x].todo : \A l \in exec[x].todo : j <= l
  BY <1>2, Least
<1> QED
  BY <1>1, <1>3

LEMMA StepExecOK ==
  ASSUME Types, [Next]_vars
  PROVE  ExecOK'
<1> USE DEF Types
<1>1. CASE UNCHANGED exec
  BY <1>1 DEF ExecOK
<1>2. ASSUME NEW x, exec' = [exec EXCEPT ![x] = NoExec] PROVE ExecOK'
  BY <1>2, NothingType DEF ExecOK
<1>3. ASSUME NEW x \in Carts, NEW c \in Carts, exec' = [exec EXCEPT ![x] = [NoExec EXCEPT !.cart = c]]
      PROVE  ExecOK'
  <2>1. [NoExec EXCEPT !.cart = c] \in ExecType
    BY NothingType DEF ExecType
  <2> QED
    BY <1>3, <2>1 DEF ExecOK
<1>4. ASSUME NEW x \in Carts, Claim(x) PROVE ExecOK'
  BY <1>1, <1>2, <1>4 DEF Claim, Return
<1>5. ASSUME NEW x \in Carts, ReadItems(x) PROVE ExecOK'
  <2>1. ASSUME NEW todo \in SUBSET Items PROVE [exec[x] EXCEPT !.todo = todo] \in ExecType
    <3>1. exec[x] \in ExecType
      BY DEF ExecOK
    <3> QED
      BY <3>1 DEF ExecType
  <2>2. {k \in Items : cart[exec[x].cart].item[k] # "done"} \in SUBSET Items
    OBVIOUS
  <2>3. ASSUME NEW todo \in SUBSET Items, exec' = [exec EXCEPT ![x].todo = todo] PROVE ExecOK'
    BY <2>1, <2>3 DEF ExecOK
  <2> QED
    BY <1>1, <1>2, <1>5, <2>2, <2>3 DEF ReadItems, Return
<1>6. ASSUME NEW x \in Carts, StartItem(x) PROVE ExecOK'
  <2> DEFINE k == CHOOSE j \in exec[x].todo : \A l \in exec[x].todo : j <= l
  <2>1. k \in Items
    BY <1>6, NextItem DEF StartItem
  <2>2. exec' = [exec EXCEPT ![x].item = k, ![x].todo = @ \ {k}]
    BY <1>6 DEF StartItem
  <2>3. exec[x] \in ExecType
    BY DEF ExecOK
  <2> HIDE DEF k
  <2>4. [exec[x] EXCEPT !.item = k, !.todo = @ \ {k}] \in ExecType
    BY <2>1, <2>3 DEF ExecType
  <2> QED
    BY <2>2, <2>4 DEF ExecOK
<1>7. ASSUME NEW x \in Carts, EndItem(x) PROVE ExecOK'
  <2>1. exec[x] \in ExecType
    BY DEF ExecOK
  <2>2. [exec[x] EXCEPT !.item = 0] \in ExecType
    BY <2>1 DEF ExecType
  <2> QED
    BY <1>1, <1>7, <2>2 DEF EndItem, ExecOK
<1>8. ASSUME NEW x \in Carts, CloseCart(x) PROVE ExecOK'
  BY <1>1, <1>2, <1>8 DEF CloseCart, Return
<1>9. ASSUME NEW i \in Recs, RecStep(i) PROVE ExecOK'
  BY <1>1, <1>2, <1>3, <1>4, <1>5, <1>6, <1>7, <1>8, <1>9, Numbers
     DEF RecStep, Execution, StepFails, CreateCart, Context, Answer, Finish, Return
<1>10. CASE Execution(Op)
  BY <1>4, <1>5, <1>6, <1>7, <1>8, <1>10, Numbers DEF Execution
<1>11. ASSUME NEW c \in Carts, OperatorExecutes(c) PROVE ExecOK'
  BY <1>3, <1>11, Numbers DEF OperatorExecutes
<1>12. ASSUME NEW r \in Rows \cup {Op}, Crash(r) PROVE ExecOK'
  BY <1>12, NothingType DEF Crash, ExecOK
<1>13. ASSUME NEW b \in Batches, BatchStep(b) PROVE ExecOK'
  BY <1>1, <1>13 DEF BatchStep, Skip, StartChild, ChildEnds, EndBatch
<1>14. CASE (\E t \in Tenants : Ask(t) \/ RecoverNow(t)) \/ AskAll \/ Time \/ (\E r \in Rows : Expire(r) \/ ReapOrphan(r))
  BY <1>1, <1>14 DEF Ask, RecoverNow, AskAll, Time, Beat, Expire, ReapOrphan
<1>15. CASE UNCHANGED vars
  BY <1>1, <1>15 DEF vars
<1> QED
  BY <1>9, <1>10, <1>11, <1>12, <1>13, <1>14, <1>15 DEF Next

LEMMA StepResultOK ==
  ASSUME Types, [Next]_vars
  PROVE  ResultOK'
<1> USE DEF Types
<1>1. CASE UNCHANGED result
  BY <1>1 DEF ResultOK
<1>2. ASSUME NEW i, NEW v \in {"none", "done", "failed"}, result' = [result EXCEPT ![i] = v] PROVE ResultOK'
  BY <1>2 DEF ResultOK
<1>3. ASSUME NEW x \in Carts, Execution(x) PROVE ResultOK'
  BY <1>1, <1>2, <1>3 DEF Execution, Claim, ReadItems, StartItem, EndItem, CloseCart, Return
<1>4. ASSUME NEW i \in Recs, Answer(i) PROVE ResultOK'
  <2>1. (IF cart[i].status = "done" THEN "done" ELSE "failed") \in {"none", "done", "failed"}
    OBVIOUS
  <2> QED
    BY <1>2, <1>4, <2>1 DEF Answer
<1>5. ASSUME NEW i \in Recs, Finish(i) PROVE ResultOK'
  BY <1>5 DEF Finish, ResultOK
<1>6. ASSUME NEW i \in Recs, RecStep(i) PROVE ResultOK'
  BY <1>1, <1>2, <1>3, <1>4, <1>5, <1>6, Numbers DEF RecStep, StepFails, CreateCart, Context, Return
<1>7. ASSUME NEW b \in Batches, BatchStep(b) PROVE ResultOK'
  BY <1>1, <1>2, <1>7 DEF BatchStep, Skip, StartChild, ChildEnds, EndBatch
<1>8. ASSUME NEW r \in Rows \cup {Op}, Crash(r) PROVE ResultOK'
  BY <1>8 DEF Crash, ResultOK
<1>9. CASE \/ (\E t \in Tenants : Ask(t) \/ RecoverNow(t)) \/ AskAll \/ Time \/ (\E r \in Rows : Expire(r) \/ ReapOrphan(r))
           \/ \E c \in Carts : OperatorExecutes(c)
  BY <1>1, <1>9 DEF Ask, RecoverNow, AskAll, Time, Beat, Expire, ReapOrphan, OperatorExecutes
<1>10. CASE UNCHANGED vars
  BY <1>1, <1>10 DEF vars
<1> QED
  BY <1>3, <1>6, <1>7, <1>8, <1>9, <1>10, Numbers DEF Next

LEMMA StepBatchOK ==
  ASSUME Types, [Next]_vars
  PROVE  BatchOK'
<1> USE DEF Types
<1>1. CASE UNCHANGED batch
  BY <1>1 DEF BatchOK
<1>2. ASSUME NEW b \in Batches PROVE batch[b] \in BatchType
  BY DEF BatchOK
<1>3. ASSUME NEW b \in Batches, batch[b].next <= Len(Targets)
      PROVE  batch[b].next + 1 \in 1..(Len(Targets) + 1)
  BY <1>2, <1>3, RecoveryAssumption DEF BatchType
<1>4. ASSUME NEW b \in Batches, Skip(b) PROVE BatchOK'
  <2>1. [batch[b] EXCEPT !.next = @ + 1, !.failed = TRUE] \in BatchType
    BY <1>2, <1>3, <1>4 DEF Skip, BatchType
  <2> QED
    BY <1>4, <2>1 DEF Skip, BatchOK
<1>5. ASSUME NEW b \in Batches, NEW i \in Recs, StartChild(b, i) PROVE BatchOK'
  <2>1. [batch[b] EXCEPT !.next = @ + 1, !.child = i] \in BatchType
    BY <1>2, <1>3, <1>5 DEF StartChild, BatchType
  <2> QED
    BY <1>5, <2>1 DEF StartChild, BatchOK
<1>6. ASSUME NEW b \in Batches, ChildEnds(b) PROVE BatchOK'
  <2>1. ASSUME NEW f \in BOOLEAN PROVE [batch[b] EXCEPT !.child = 0, !.failed = f] \in BatchType
    BY <1>2 DEF BatchType
  <2>2. (batch[b].failed \/ result[batch[b].child] # "done") \in BOOLEAN
    OBVIOUS
  <2> QED
    BY <1>6, <2>1, <2>2 DEF ChildEnds, BatchOK
<1>7. ASSUME NEW b \in Batches, EndBatch(b) PROVE BatchOK'
  BY <1>7, NothingType DEF EndBatch, BatchOK
<1>8. ASSUME NEW r \in Rows \cup {Op}, Crash(r) PROVE BatchOK'
  BY <1>8, NothingType DEF Crash, BatchOK
<1>9. ASSUME NEW x \in Carts, Execution(x) PROVE BatchOK'
  BY <1>1, <1>9 DEF Execution, Claim, ReadItems, StartItem, EndItem, CloseCart
<1>10. ASSUME NEW i \in Recs, RecStep(i) PROVE BatchOK'
  BY <1>1, <1>9, <1>10, Numbers DEF RecStep, StepFails, CreateCart, Context, Answer, Finish
<1>11. CASE \/ (\E t \in Tenants : Ask(t) \/ RecoverNow(t)) \/ AskAll \/ Time \/ (\E r \in Rows : Expire(r) \/ ReapOrphan(r))
            \/ \E c \in Carts : OperatorExecutes(c)
  BY <1>1, <1>11 DEF Ask, RecoverNow, AskAll, Time, Beat, Expire, ReapOrphan, OperatorExecutes
<1>12. CASE UNCHANGED vars
  BY <1>1, <1>12 DEF vars
<1> QED
  BY <1>4, <1>5, <1>6, <1>7, <1>8, <1>9, <1>10, <1>11, <1>12, Numbers DEF Next, BatchStep

\* Failing carts keeps them in their type, and keeps the items that were done.
LEMMA FailAbandonedIs ==
  ASSUME CartOK, NEW carts, FailAbandoned(carts)
  PROVE  /\ CartOK'
         /\ \A c \in Carts \ carts : cart'[c] = cart[c]
         /\ \A c \in Carts \cap carts :
              /\ cart'[c].status = "failed"
              /\ \A k \in Items : cart[c].item[k] = "done" => cart'[c].item[k] = "done"
<1> DEFINE After(c) == [k \in Items |-> IF cart[c].item[k] = "applying" THEN "failed" ELSE cart[c].item[k]]
<1>1. ASSUME NEW c \in Carts
      PROVE  /\ After(c) \in [Items -> {"pending", "applying", "done", "failed"}]
             /\ cart[c] \in CartType
             /\ \A k \in Items : cart[c].item[k] = "done" => After(c)[k] = "done"
  BY DEF CartOK, CartType
<1>2. cart' = [c \in Carts |-> IF c \notin carts THEN cart[c] ELSE [status |-> "failed", item |-> After(c)]]
  BY DEF FailAbandoned
<1> HIDE DEF After
<1>3. ASSUME NEW c \in Carts PROVE [status |-> "failed", item |-> After(c)] \in CartType
  BY <1>1 DEF CartType
<1>4. CartOK'
  BY <1>1, <1>2, <1>3 DEF CartOK
<1>5. \A c \in Carts \ carts : cart'[c] = cart[c]
  BY <1>2
<1>6. ASSUME NEW c \in Carts \cap carts PROVE cart'[c].status = "failed" /\ cart'[c].item = After(c)
  BY <1>2
<1> QED
  BY <1>1, <1>4, <1>5, <1>6

\* What becomes of a cart taken for abandoned.
Given(c) ==
  /\ cart[c].status = "executing"
  /\ \E t \in Tenants : OwnerEnded(c, Reaped(RecsOf(t)))
  /\ cart'[c].status = "failed"
  /\ \A k \in Items : cart[c].item[k] = "done" => cart'[c].item[k] = "done"

LEMMA RefuseCarts ==
  ASSUME Types, NEW t \in Tenants, Refuse(t)
  PROVE  CartOK' /\ \A c \in Carts : cart'[c] = cart[c] \/ Given(c)
<1> CartOK
  BY DEF Types
<1>1. CASE UNCHANGED cart
  BY <1>1 DEF CartOK
<1>2. ASSUME NEW carts \in SUBSET Abandoned(t), FailAbandoned(carts)
      PROVE  CartOK' /\ \A c \in Carts : cart'[c] = cart[c] \/ Given(c)
  <2>1. \A c \in carts : cart[c].status = "executing" /\ OwnerEnded(c, Reaped(RecsOf(t)))
    BY <1>2 DEF Abandoned, Executing
  <2> QED
    BY <1>2, <2>1, FailAbandonedIs DEF Given
<1> QED
  BY <1>1, <1>2 DEF Refuse

\* An execution writes the cart it holds, and no other.
LEMMA ExecutionCarts ==
  ASSUME Types, NEW x \in Carts, Execution(x)
  PROVE  CartOK' /\ \A c \in Carts \ {exec[x].cart} : cart'[c] = cart[c]
<1> DEFINE d == exec[x].cart
<1>1. d \in Carts
  BY DEF Types, ExecOK, ExecType
<1>2. cart[d] \in CartType /\ cart \in [Carts -> CartType]
  BY <1>1 DEF Types, CartOK
<1>3. CASE UNCHANGED cart
  BY <1>3 DEF Types, CartOK
<1> HIDE DEF d
<1>4. ASSUME NEW s \in {"executing", "done", "failed"}, cart' = [cart EXCEPT ![d].status = s]
      PROVE  CartOK' /\ \A c \in Carts \ {d} : cart'[c] = cart[c]
  <2>1. [cart[d] EXCEPT !.status = s] \in CartType
    BY <1>2 DEF CartType
  <2> QED
    BY <1>2, <1>4, <2>1 DEF CartOK
<1>5. ASSUME NEW k, NEW s \in {"applying", "done", "failed"}, cart' = [cart EXCEPT ![d].item[k] = s]
      PROVE  CartOK' /\ \A c \in Carts \ {d} : cart'[c] = cart[c]
  <2>1. [cart[d].item EXCEPT ![k] = s] \in [Items -> {"pending", "applying", "done", "failed"}]
    BY <1>2 DEF CartType
  <2>2. [cart[d] EXCEPT !.item = [cart[d].item EXCEPT ![k] = s]] \in CartType
    BY <1>2, <2>1 DEF CartType
  <2>3. cart' = [cart EXCEPT ![d] = [cart[d] EXCEPT !.item = [cart[d].item EXCEPT ![k] = s]]]
    BY <1>5
  <2> QED
    BY <1>2, <2>2, <2>3 DEF CartOK
<1>6. CASE Claim(x) \/ ReadItems(x) \/ CloseCart(x)
  BY <1>3, <1>4, <1>6 DEF Claim, ReadItems, CloseCart, d
<1>7. CASE StartItem(x) \/ EndItem(x)
  BY <1>5, <1>7 DEF StartItem, EndItem, d
<1> QED
  BY <1>6, <1>7 DEF Execution, d

\* Who writes a cart: the recovery that creates it, the process that executes it, and an enrolment
\* that takes it for abandoned.
LEMMA CartSteps ==
  ASSUME Types, [Next]_vars
  PROVE  /\ CartOK'
         /\ \A c \in Carts : \/ cart'[c] = cart[c]
                             \/ Given(c)
                             \/ c \in Recs /\ CreateCart(c)
                             \/ \E x \in Carts : Execution(x) /\ exec[x].cart = c
<1> DEFINE Goal == /\ CartOK'
                   /\ \A c \in Carts : \/ cart'[c] = cart[c]
                                       \/ Given(c)
                                       \/ c \in Recs /\ CreateCart(c)
                                       \/ \E x \in Carts : Execution(x) /\ exec[x].cart = c
<1>1. CASE UNCHANGED cart
  BY <1>1 DEF Types, CartOK
<1>2. ASSUME NEW t \in Tenants, Ask(t) PROVE Goal
  BY <1>1, <1>2, RefuseCarts DEF Ask, Begin
<1>3. ASSUME NEW x \in Carts, Execution(x) PROVE Goal
  BY <1>3, ExecutionCarts
<1>4. ASSUME NEW i \in Recs, CreateCart(i) PROVE Goal
  <2>1. CartOK' /\ \A c \in Carts \ {i} : cart'[c] = cart[c]
    BY <1>4, NothingType DEF CreateCart, Types, CartOK
  <2> QED
    BY <1>4, <2>1
<1>5. ASSUME NEW i \in Recs, RecStep(i) PROVE Goal
  BY <1>1, <1>3, <1>4, <1>5, Numbers DEF RecStep, StepFails, Context, Answer, Finish
<1>6. ASSUME NEW b \in Batches, BatchStep(b) PROVE Goal
  <2>1. CASE Skip(b)
    <3>1. Targets[batch[b].next] \in Tenants
      BY <2>1, BatchTarget DEF Skip, Types
    <3> QED
      BY <2>1, <3>1, RefuseCarts DEF Skip
  <2> QED
    BY <1>1, <1>6, <2>1 DEF BatchStep, StartChild, Begin, ChildEnds, EndBatch
<1>7. CASE \/ (\E t \in Tenants : RecoverNow(t)) \/ AskAll \/ Time \/ (\E r \in Rows : Expire(r) \/ ReapOrphan(r))
           \/ (\E c \in Carts : OperatorExecutes(c)) \/ (\E r \in Rows \cup {Op} : Crash(r))
  BY <1>1, <1>7 DEF RecoverNow, AskAll, Time, Beat, Expire, ReapOrphan, OperatorExecutes, Crash
<1>8. CASE UNCHANGED vars
  BY <1>1, <1>8 DEF vars
<1> QED
  BY <1>2, <1>3, <1>5, <1>6, <1>7, <1>8, Numbers DEF Next

LEMMA StepLeftOK ==
  ASSUME Types, [Next]_vars
  PROVE  LeftOK'
<1>1. CASE UNCHANGED left
  BY <1>1 DEF Types, LeftOK
<1>2. CASE Trouble
  BY <1>2 DEF Trouble, Types, LeftOK
<1>3. ASSUME NEW x \in Carts, Execution(x) PROVE UNCHANGED left
  BY <1>3 DEF Execution, Claim, ReadItems, StartItem, EndItem, CloseCart
<1>4. ASSUME NEW i \in Recs, RecStep(i) PROVE UNCHANGED left \/ Trouble
  BY <1>3, <1>4, Numbers DEF RecStep, StepFails, CreateCart, Context, Answer, Finish
<1>5. ASSUME NEW b \in Batches, BatchStep(b) PROVE UNCHANGED left \/ Trouble
  BY <1>5 DEF BatchStep, Skip, StartChild, ChildEnds, EndBatch
<1>6. CASE \/ (\E t \in Tenants : Ask(t) \/ RecoverNow(t)) \/ AskAll \/ Time \/ (\E r \in Rows : Expire(r) \/ ReapOrphan(r))
           \/ (\E c \in Carts : OperatorExecutes(c)) \/ (\E r \in Rows \cup {Op} : Crash(r))
  BY <1>1, <1>2, <1>6 DEF Ask, RecoverNow, AskAll, Time, Beat, Expire, ReapOrphan, OperatorExecutes, Crash
<1>7. CASE UNCHANGED vars
  BY <1>1, <1>7 DEF vars
<1> QED
  BY <1>1, <1>2, <1>3, <1>4, <1>5, <1>6, <1>7, Numbers DEF Next

LEMMA StepTypes ==
  ASSUME Types, [Next]_vars
  PROVE  Types'
  BY StepTaskOK, StepPcOK, StepExecOK, StepResultOK, StepBatchOK, CartSteps, StepLeftOK DEF Types

-----------------------------------------------------------------------------
(* The rows of living runs.                                                *)

\* A run has an entry.
LiveRow(r) ==
  /\ pc[r] # "none" => task[r].status # "none"
  /\ task[r].status = "none" => task[r] = NoRow

\* The row of a living run says so and was refreshed lately.
FreshRow(r) ==
  Living(r) => \/ task[r].status = "sync"
               \/ task[r].status = "running" /\ task[r].age < StaleAfter

\* Where a recovery, a batch and the operator's execution can be.
Executions == {"execute", "read", "apply", "item", "stop"}
PcShape ==
  /\ \A i \in Recs : pc[i] \notin {"next", "child"}
  /\ \A b \in Batches : pc[b] \in {"none", "next", "child", "over", "dead"}
  /\ pc[Op] \in {"none", "dead"} \cup Executions
  /\ \A b \in Batches : batch[b].child # 0 => task[batch[b].child].status # "none"
  /\ \A b \in Batches : task[b].status # "sync"

\* At most one recovery of a tenant, and one batch, is recorded as running.
RunningOnce ==
  /\ \A i, j \in Recs : /\ task[i].status = "running" /\ task[j].status = "running"
                         /\ task[i].tenant = task[j].tenant => i = j
  /\ \A a, b \in Batches : task[a].status = "running" /\ task[b].status = "running" => a = b

LiveShape == \A r \in Rows : LiveRow(r)
FreshShape == \A r \in Rows : FreshRow(r)

\* What a step may do to a row: nothing, fail it because nobody refreshed it, enrol it, take it for a recovery
\* at once, note the cart, write the outcome of the run that ends, refresh or age it, expire it.
RowStep(r) ==
  \/ task'[r] = task[r]
  \/ /\ task[r].status = "running" /\ task[r].age >= StaleAfter /\ pc'[r] = pc[r]
     /\ task'[r] = [task[r] EXCEPT !.status = "failed", !.age = 0]
  \/ /\ task[r] = NoRow
     /\ \/ \E t \in Tenants, parent \in {0} \cup Batches :
             /\ r \in Recs /\ pc'[r] = "steps" /\ ~Active(RecsOf(t)) /\ Executing(t) = {}
             /\ task' = [Reap(RecsOf(t)) EXCEPT ![r] =
                           [NoRow EXCEPT !.status = "running", !.tenant = t, !.parent = parent]]
        \/ /\ r \in Batches /\ pc'[r] = "next" /\ ~Active(Batches)
           /\ task' = [Reap(Batches) EXCEPT ![r] = [NoRow EXCEPT !.status = "running"]]
        \/ r \in Recs /\ pc'[r] = "steps" /\ task'[r].status = "sync" /\ task'[r].age = 0
  \/ Living(r) /\ r \in Recs /\ task[r].status # "sync"
     /\ task'[r] = [task[r] EXCEPT !.known = TRUE, !.age = 0]
  \/ /\ Living(r) /\ pc'[r] = "over" /\ task[r].status \notin {"gone", "sync"}
     /\ \/ task'[r] = [task[r] EXCEPT !.status = "failed", !.age = 0]
        \/ task'[r] = [task[r] EXCEPT !.status = "succeeded", !.age = 0] /\ r \in Recs /\ result[r] = "done"
        \/ /\ task'[r] = [task[r] EXCEPT !.status = "succeeded", !.age = 0]
           /\ r \in Batches /\ EndBatch(r) /\ batch[r].next > Len(Targets) /\ ~batch[r].failed
  \/ /\ task[r].status = "running" /\ pc'[r] = pc[r]
     /\ \E age \in 0..StaleAfter : /\ task'[r] = [task[r] EXCEPT !.age = age]
                                   /\ Living(r) => age <= MaxMisses
  \/ ~Living(r) /\ pc'[r] = pc[r] /\ task'[r] = [task[r] EXCEPT !.status = "gone"]
     /\ task[r].status \in {"succeeded", "failed"}

LEMMA ReapRows ==
  ASSUME TaskOK, NEW rows, task' = Reap(rows), UNCHANGED pc
  PROVE  \A r \in Rows : RowStep(r)
  BY ReapIs DEF RowStep

LEMMA RefuseRows ==
  ASSUME TaskOK, NEW t, Refuse(t), UNCHANGED pc
  PROVE  \A r \in Rows : RowStep(r)
  BY ReapRows DEF Refuse

LEMMA BeginRows ==
  ASSUME Types, LiveShape, NEW t \in Tenants, NEW i \in Recs, NEW parent \in {0} \cup Batches,
         Begin(t, i, parent), pc'[i] = "steps",
         NEW r \in Rows, r = i \/ pc'[r] = pc[r] \/ r \in Batches
  PROVE  RowStep(r)
<1> TaskOK
  BY DEF Types
<1>1. CASE r = i
  BY <1>1 DEF Begin, NextRec, RowStep
<1>2. CASE r # i /\ task'[r] # task[r]
  <2>1. /\ task[r].status = "running" /\ task[r].age >= StaleAfter
        /\ task'[r] = [task[r] EXCEPT !.status = "failed", !.age = 0]
    BY <1>2, ReapThenBegin, NewRowType, Numbers DEF Begin, NextRec
  <2>2. r \in Recs
    BY <1>2, <2>1, Numbers DEF Begin, Reap, Reaped, RecsOf
  <2>3. pc'[r] = pc[r]
    BY <1>2, <2>2, Numbers
  <2> QED
    BY <2>1, <2>3 DEF RowStep
<1> QED
  BY <1>1, <1>2 DEF RowStep

LEMMA RowSteps ==
  ASSUME Types, LiveShape, PcShape, [Next]_vars, NEW r \in Rows
  PROVE  RowStep(r)
<1> USE DEF Types
<1> TaskOK /\ PcOK
  OBVIOUS
<1>1. CASE UNCHANGED task
  BY <1>1 DEF RowStep
<1>3. ASSUME NEW t \in Tenants, Ask(t) PROVE RowStep(r)
  <2>1. ASSUME NEW i \in Recs, Begin(t, i, 0), Goto(i, "steps") PROVE RowStep(r)
    <3>1. pc'[i] = "steps" /\ (r = i \/ pc'[r] = pc[r])
      BY <2>1, Numbers DEF Goto, PcOK
    <3>2. 0 \in {0} \cup Batches
      OBVIOUS
    <3> QED
      BY <2>1, <3>1, <3>2, BeginRows
  <2> QED
    BY <1>3, <2>1, RefuseRows, ReapRows DEF Ask
<1>4. CASE AskAll
  <2>1. ASSUME NEW b \in Batches, task[b] = NoRow, ~Active(Batches),
               task' = [Reap(Batches) EXCEPT ![b] = [NoRow EXCEPT !.status = "running"]], Goto(b, "next")
        PROVE  RowStep(r)
    <3>1. CASE r = b
      BY <2>1, <3>1 DEF RowStep, Goto, PcOK
    <3>2. CASE r # b
      <4>1. pc'[r] = pc[r]
        BY <2>1, <3>2 DEF Goto, PcOK
      <4> QED
        <5>1. \/ task'[r] = task[r]
              \/ /\ task[r].status = "running" /\ task[r].age >= StaleAfter
                 /\ task'[r] = [task[r] EXCEPT !.status = "failed", !.age = 0]
          BY <2>1, <3>2, ReapThenBegin, NewRowType, Numbers
        <5> QED
          BY <4>1, <5>1 DEF RowStep
    <3> QED
      BY <3>1, <3>2
  <2> QED
    BY <1>4, <2>1, ReapRows DEF AskAll
<1>5. ASSUME NEW i \in Recs, Context(i) PROVE RowStep(r)
  BY <1>5, Numbers DEF Context, RowStep, TaskOK, Living
<1>6. ASSUME NEW i \in Recs, Finish(i) PROVE RowStep(r)
  <2>1. CASE r = i /\ task'[r] # task[r]
    <3>1. Living(r) /\ pc'[r] = "over" /\ task[r].status \notin {"gone", "sync"}
      BY <1>6, <2>1 DEF Finish, Living, Goto, PcOK
    <3>2. task'[r] = [task[r] EXCEPT !.status = IF result[r] = "done" THEN "succeeded" ELSE "failed", !.age = 0]
      BY <1>6, <2>1 DEF Finish, TaskOK
    <3> QED
      BY <2>1, <3>1, <3>2 DEF RowStep
  <2> QED
    BY <1>6, <2>1 DEF Finish, RowStep, TaskOK
<1>7. ASSUME NEW x \in Carts, Execution(x) PROVE RowStep(r)
  BY <1>1, <1>7 DEF Execution, Claim, ReadItems, StartItem, EndItem, CloseCart
<1>8. ASSUME NEW i \in Recs, RecStep(i) PROVE RowStep(r)
  BY <1>1, <1>5, <1>6, <1>7, <1>8, Numbers DEF RecStep, StepFails, CreateCart, Answer
<1>9. ASSUME NEW b \in Batches, Skip(b) PROVE RowStep(r)
  BY <1>9, RefuseRows DEF Skip
<1>10. ASSUME NEW b \in Batches, NEW i \in Recs, StartChild(b, i) PROVE RowStep(r)
  <2>1. Targets[batch[b].next] \in Tenants
    BY <1>10, BatchTarget DEF StartChild
  <2>2. PICK t \in Tenants : t = Targets[batch[b].next]
    BY <2>1
  <2>3. Begin(t, i, b)
    BY <1>10, <2>2 DEF StartChild, Begin
  <2>4. pc'[i] = "steps" /\ (r = i \/ pc'[r] = pc[r] \/ r \in Batches)
    BY <1>10, Numbers DEF StartChild, PcOK
  <2>5. b \in {0} \cup Batches
    OBVIOUS
  <2> QED
    BY <2>3, <2>4, <2>5, BeginRows
<1>11. ASSUME NEW b \in Batches, EndBatch(b) PROVE RowStep(r)
  <2>1. CASE r = b /\ task'[r] # task[r]
    <3>1. Living(r) /\ pc'[r] = "over" /\ task[r].status \notin {"gone", "sync"}
      BY <1>11, <2>1, Numbers DEF EndBatch, Living, Goto, PcOK, PcShape
    <3>2. \/ task'[r] = [task[r] EXCEPT !.status = "failed", !.age = 0]
          \/ /\ task'[r] = [task[r] EXCEPT !.status = "succeeded", !.age = 0]
             /\ batch[r].next > Len(Targets) /\ ~batch[r].failed
      BY <1>11, <2>1 DEF EndBatch, TaskOK
    <3> QED
      BY <1>11, <2>1, <3>1, <3>2 DEF RowStep
  <2> QED
    BY <1>11, <2>1 DEF EndBatch, RowStep, TaskOK
<1>12. ASSUME NEW b \in Batches, BatchStep(b) PROVE RowStep(r)
  BY <1>1, <1>9, <1>10, <1>11, <1>12 DEF BatchStep, ChildEnds
<1>13. ASSUME NEW lost, Beat(lost) PROVE RowStep(r)
  <2>1. CASE task[r].status = "running"
    <3> DEFINE age == IF Living(r) /\ r \notin lost THEN 0
                      ELSE IF task[r].age < StaleAfter THEN task[r].age + 1 ELSE task[r].age
    <3>1. task[r].age \in 0..StaleAfter
      BY DEF TaskOK, RowType
    <3>2. age \in 0..StaleAfter
      BY <3>1, Numbers
    <3>3. Living(r) => age <= MaxMisses
      BY <1>13, <3>1, Numbers DEF Beat
    <3>4. task'[r] = [task[r] EXCEPT !.age = age] /\ pc'[r] = pc[r]
      BY <1>13, <2>1 DEF Beat
    <3> HIDE DEF age
    <3> QED
      BY <2>1, <3>2, <3>3, <3>4 DEF RowStep
  <2> QED
    BY <1>13, <2>1 DEF Beat, RowStep
<1>14. ASSUME NEW s \in Rows, Expire(s) \/ ReapOrphan(s) PROVE RowStep(r)
  BY <1>14 DEF Expire, ReapOrphan, RowStep, TaskOK
<1>15. CASE (\E c \in Carts : OperatorExecutes(c)) \/ (\E s \in Rows \cup {Op} : Crash(s)) \/ UNCHANGED vars
  BY <1>1, <1>15 DEF OperatorExecutes, Crash, vars
<1>16. ASSUME NEW t \in Tenants, RecoverNow(t) PROVE RowStep(r)
  <2>1. PICK i \in Recs : /\ task[i] = NoRow /\ task'[i].status = "sync" /\ task'[i].age = 0
                         /\ task' = [task EXCEPT ![i] = [NoRow EXCEPT !.status = "sync", !.tenant = t]]
                         /\ pc'[i] = "steps"
    BY <1>16, NowIs
  <2> QED
    BY <2>1, Numbers DEF RowStep, TaskOK
<1> QED
  BY <1>3, <1>4, <1>7, <1>8, <1>12, <1>13, <1>14, <1>15, <1>16, Numbers DEF Next, Time

\* Where a run goes: on, to its end, or from its enrolment to its first step.
PcStep(r) ==
  \/ pc'[r] = pc[r]
  \/ Living(r) /\ pc'[r] # "none"
  \/ pc'[r] = "dead" /\ task[r].status # "none"
  \/ task[r] = NoRow /\ task'[r].status \in {"running", "sync"} /\ task'[r].age = 0 /\ pc'[r] # "none"

LEMMA BeginRow ==
  ASSUME Types, NEW t \in Tenants, NEW i \in Recs, NEW parent \in {0} \cup Batches, Begin(t, i, parent)
  PROVE  /\ task[i] = NoRow /\ task'[i].status = "running" /\ task'[i].age = 0
         /\ task'[i].tenant = t /\ task'[i].parent = parent /\ ~task'[i].known
  <1>1. task'[i] = [NoRow EXCEPT !.status = "running", !.tenant = t, !.parent = parent]
    BY ReapThenBegin, NewRowType, Numbers DEF Begin, NextRec, Types
  <1> QED
    BY <1>1 DEF Begin, NextRec, NoRow

LEMMA PcSteps ==
  ASSUME Types, PcShape, [Next]_vars, NEW r \in Rows
  PROVE  PcStep(r)
<1> pc \in [Rows \cup {Op} -> Pcs]
  BY DEF Types, PcOK
<1>1. CASE UNCHANGED pc
  BY <1>1 DEF PcStep
<1>2. ASSUME NEW s \in Rows, NEW l, Goto(s, l), Living(s), l # "none" PROVE PcStep(r)
  BY <1>2 DEF Goto, PcStep
<1>3. ASSUME NEW l, Goto(Op, l) PROVE PcStep(r)
  BY <1>3, Numbers DEF Goto, PcStep
<1>4. ASSUME NEW t \in Tenants, Ask(t) PROVE PcStep(r)
  <2>1. ASSUME NEW i \in Recs, Begin(t, i, 0), Goto(i, "steps") PROVE PcStep(r)
    <3>1. task[i] = NoRow /\ task'[i].status = "running" /\ task'[i].age = 0
      BY <2>1, BeginRow
    <3> QED
      BY <2>1, <3>1, Numbers DEF Goto, PcStep
  <2> QED
    BY <1>1, <1>4, <2>1 DEF Ask
<1>5. CASE AskAll
  <2>1. ASSUME NEW b \in Batches, task[b] = NoRow,
               task' = [Reap(Batches) EXCEPT ![b] = [NoRow EXCEPT !.status = "running"]], Goto(b, "next")
        PROVE  PcStep(r)
    <3>1. task'[b] = [NoRow EXCEPT !.status = "running"]
      BY <2>1, ReapThenBegin, NewRowType, Numbers DEF Types
    <3>2. task'[b].status = "running" /\ task'[b].age = 0
      BY <3>1 DEF NoRow
    <3> QED
      BY <2>1, <3>2, Numbers DEF Goto, PcStep
  <2> QED
    BY <1>1, <1>5, <2>1 DEF AskAll
<1>6. ASSUME NEW x \in Carts, Execution(x) PROVE PcStep(r)
  <2>1. CASE x = Op
    BY <1>3, <1>6, <2>1 DEF Execution, Claim, ReadItems, StartItem, EndItem, CloseCart, Return
  <2>2. CASE x \in Recs
    <3>1. Living(x) /\ x \in Rows /\ x # Op
      BY <1>6, <2>2, Numbers DEF Execution, Claim, ReadItems, StartItem, EndItem, CloseCart, Living
    <3> QED
      BY <1>2, <1>6, <3>1 DEF Execution, Claim, ReadItems, StartItem, EndItem, CloseCart, Return
  <2> QED
    BY <2>1, <2>2, Numbers
<1>7. ASSUME NEW i \in Recs, RecStep(i) PROVE PcStep(r)
  <2>1. CASE Execution(i)
    BY <1>6, <2>1, Numbers
  <2>2. CASE ~Execution(i)
    <3>1. Living(i) /\ i \in Rows /\ i # Op
      BY <1>7, <2>2, Numbers DEF RecStep, StepFails, CreateCart, Context, Answer, Finish, Living
    <3> QED
      BY <1>2, <1>7, <2>2, <3>1 DEF RecStep, StepFails, CreateCart, Context, Answer, Finish, Return
  <2> QED
    BY <2>1, <2>2
<1>8. ASSUME NEW b \in Batches, BatchStep(b) PROVE PcStep(r)
  <2>1. ASSUME NEW i \in Recs, StartChild(b, i) PROVE PcStep(r)
    <3>1. task[i] = NoRow /\ task'[i].status = "running" /\ task'[i].age = 0
      <4>1. PICK t \in Tenants : t = Targets[batch[b].next]
        BY <2>1, BatchTarget DEF StartChild, Types
      <4>2. Begin(t, i, b)
        BY <2>1, <4>1 DEF StartChild, Begin
      <4> QED
        BY <4>2, BeginRow
    <3> QED
      BY <2>1, <3>1, Numbers DEF StartChild, PcStep, Living
  <2>2. CASE ChildEnds(b) \/ EndBatch(b)
    BY <1>2, <2>2, Numbers DEF ChildEnds, EndBatch, Living
  <2> QED
    BY <1>1, <1>8, <2>1, <2>2 DEF BatchStep, Skip
<1>9. ASSUME NEW s \in Rows \cup {Op}, Crash(s) PROVE PcStep(r)
  <2>1. CASE r = s
    BY <1>9, <2>1 DEF Crash, PcStep
  <2>2. CASE r # s /\ s \in Batches /\ batch[s].child # 0 /\ r = batch[s].child
    BY <1>9, <2>2 DEF Crash, PcStep, PcShape
  <2>3. CASE r # s /\ ~(s \in Batches /\ batch[s].child # 0 /\ r = batch[s].child)
    BY <1>9, <2>3 DEF Crash, PcStep
  <2> QED
    BY <2>1, <2>2, <2>3
<1>10. ASSUME NEW c \in Carts, OperatorExecutes(c) PROVE PcStep(r)
  BY <1>3, <1>10 DEF OperatorExecutes
<1>11. CASE Time \/ (\E s \in Rows : Expire(s) \/ ReapOrphan(s)) \/ UNCHANGED vars
  BY <1>1, <1>11 DEF Time, Beat, Expire, ReapOrphan, vars
<1>12. ASSUME NEW t \in Tenants, RecoverNow(t) PROVE PcStep(r)
  BY <1>12, NowIs DEF PcStep
<1> QED
  BY <1>4, <1>5, <1>6, <1>7, <1>8, <1>9, <1>10, <1>11, <1>12, Numbers DEF Next

\* What is enrolled stays so, with its tenant and its parent.
LEMMA RowKept ==
  ASSUME Types, LiveShape, PcShape, [Next]_vars, NEW r \in Rows, task[r].status # "none"
  PROVE  /\ task'[r].status # "none"
         /\ task'[r].tenant = task[r].tenant /\ task'[r].parent = task[r].parent
<1>1. task[r] \in RowType /\ RowStep(r)
  BY RowSteps DEF Types, TaskOK
<1>2. task[r] # NoRow
  BY DEF NoRow
<1> QED
  BY <1>1, <1>2 DEF RowStep, RowType

\* A row not enrolled stays so, begins as a running one just refreshed, or is taken by a recovery at once.
LEMMA EnrolledRow ==
  ASSUME Types, LiveShape, PcShape, [Next]_vars, NEW r \in Rows, task[r] = NoRow
  PROVE  \/ task'[r] = task[r]
         \/ task'[r].status = "running" /\ task'[r].age = 0
         \/ r \in Recs /\ task'[r].status = "sync" /\ task'[r].age = 0
<1>1. RowStep(r) /\ ~Living(r) /\ task[r].status = "none"
  <2>1. task[r].status = "none"
    BY DEF NoRow
  <2> QED
    BY <2>1, RowSteps DEF LiveShape, LiveRow, Living
<1>2. ASSUME NEW t \in Tenants, NEW parent \in {0} \cup Batches,
             task' = [Reap(RecsOf(t)) EXCEPT ![r] =
                       [NoRow EXCEPT !.status = "running", !.tenant = t, !.parent = parent]]
      PROVE  task'[r].status = "running" /\ task'[r].age = 0
  <2>1. task'[r] = [NoRow EXCEPT !.status = "running", !.tenant = t, !.parent = parent]
    BY <1>2, ReapThenBegin, NewRowType DEF Types
  <2> QED
    BY <2>1 DEF NoRow
<1>3. ASSUME task' = [Reap(Batches) EXCEPT ![r] = [NoRow EXCEPT !.status = "running"]]
      PROVE  task'[r].status = "running" /\ task'[r].age = 0
  <2>1. task'[r] = [NoRow EXCEPT !.status = "running"]
    BY <1>3, ReapThenBegin, NewRowType DEF Types
  <2> QED
    BY <2>1 DEF NoRow
<1>4. \/ task'[r] = task[r]
      \/ \E t \in Tenants, parent \in {0} \cup Batches :
           task' = [Reap(RecsOf(t)) EXCEPT ![r] =
                      [NoRow EXCEPT !.status = "running", !.tenant = t, !.parent = parent]]
      \/ task' = [Reap(Batches) EXCEPT ![r] = [NoRow EXCEPT !.status = "running"]]
      \/ r \in Recs /\ task'[r].status = "sync" /\ task'[r].age = 0
  BY <1>1, Zenon DEF RowStep
<1> QED
  BY <1>2, <1>3, <1>4, Zenon

LEMMA StepLive ==
  ASSUME Types, LiveShape, PcShape, [Next]_vars
  PROVE  LiveShape'
<1> SUFFICES ASSUME NEW r \in Rows PROVE LiveRow(r)'
  BY DEF LiveShape
<1>1. PcStep(r) /\ LiveRow(r)
  BY PcSteps DEF LiveShape
<1>2. CASE task[r].status # "none"
  <2>1. task'[r].status # "none"
    BY <1>2, RowKept
  <2> QED
    BY <2>1 DEF LiveRow
<1>3. CASE task[r].status = "none" /\ task'[r] # task[r]
  <2>1. task[r] = NoRow
    BY <1>1, <1>3 DEF LiveRow
  <2>2. task'[r].status \in {"running", "sync"}
    BY <1>3, <2>1, EnrolledRow
  <2> QED
    BY <2>2 DEF LiveRow
<1>4. CASE task[r].status = "none" /\ task'[r] = task[r]
  <2>1. pc[r] = "none" /\ task[r] = NoRow
    BY <1>1, <1>4 DEF LiveRow
  <2>2. pc'[r] = "none"
    BY <1>1, <1>4, <2>1 DEF PcStep, Living
  <2> QED
    BY <1>4, <2>1, <2>2 DEF LiveRow
<1> QED
  BY <1>2, <1>3, <1>4

\* While fewer heartbeats are lost than make a row stale, the rows of living runs stay fresh.
LEMMA StepFresh ==
  ASSUME BeatsArrive, Types, LiveShape, FreshShape, PcShape, [Next]_vars
  PROVE  FreshShape'
<1> SUFFICES ASSUME NEW r \in Rows, Living(r)' PROVE FreshRow(r)'
  BY DEF FreshShape, FreshRow
<1>1. task[r] \in RowType /\ RowStep(r) /\ PcStep(r) /\ FreshRow(r) /\ LiveRow(r)
  BY RowSteps, PcSteps DEF Types, TaskOK, LiveShape, FreshShape
<1>2. CASE task'[r] = task[r]
  <2>1. Living(r)
    <3>1. task[r] # NoRow \/ task'[r].status = "none"
      BY <1>2 DEF NoRow
    <3> QED
      BY <1>1, <1>2, <3>1 DEF PcStep, Living
  <2> QED
    BY <1>1, <1>2, <2>1 DEF FreshRow
<1>3. CASE /\ task[r].status = "running" /\ task[r].age >= StaleAfter /\ pc'[r] = pc[r]
           /\ task'[r] = [task[r] EXCEPT !.status = "failed", !.age = 0]
  <2>1. ~Living(r)
    BY <1>1, <1>3, Numbers DEF FreshRow, RowType
  <2> QED
    BY <1>3, <2>1 DEF Living
<1>4. CASE task[r] = NoRow /\ task'[r] # task[r]
  <2>1. task'[r].status = "sync" \/ (task'[r].status = "running" /\ task'[r].age = 0)
    BY <1>4, EnrolledRow
  <2> QED
    BY <2>1, Numbers DEF FreshRow
<1>5. CASE Living(r) /\ task[r].status # "sync" /\ task'[r] = [task[r] EXCEPT !.known = TRUE, !.age = 0]
  <2>1. task'[r].status = "running" /\ task'[r].age = 0
    BY <1>1, <1>5 DEF FreshRow, RowType
  <2> QED
    BY <2>1, Numbers DEF FreshRow
<1>6. CASE pc'[r] = "over"
  BY <1>6 DEF Living
<1>7. CASE /\ task[r].status = "running" /\ pc'[r] = pc[r]
           /\ \E age \in 0..StaleAfter : /\ task'[r] = [task[r] EXCEPT !.age = age]
                                         /\ Living(r) => age <= MaxMisses
  <2>1. task'[r].status = "running" /\ task'[r].age <= MaxMisses /\ task'[r].age \in 0..StaleAfter
    BY <1>1, <1>7 DEF RowType, Living
  <2> QED
    BY <2>1, Numbers DEF FreshRow, BeatsArrive
<1>8. CASE ~Living(r) /\ pc'[r] = pc[r]
  BY <1>8 DEF Living
<1> QED
  BY <1>1, <1>2, <1>3, <1>4, <1>5, <1>6, <1>7, <1>8 DEF RowStep

-----------------------------------------------------------------------------
(* Who moves a recovery, a batch and the operator's execution.             *)

\* A recovery that somebody else's step touches: its batch may clear its result.
RecMoves(i) ==
  \/ pc'[i] = pc[i] /\ exec'[i] = exec[i] /\ result'[i] \in {result[i], "none"}
  \/ RecStep(i)
  \/ pc'[i] = "steps" /\ task[i] = NoRow /\ UNCHANGED <<exec, result, cart>>
  \/ pc'[i] = "dead" /\ task[i].status # "none" /\ exec'[i] = NoExec /\ result'[i] = "none" /\ UNCHANGED cart

OpMoves ==
  \/ pc'[Op] = pc[Op] /\ exec'[Op] = exec[Op]
  \/ Execution(Op)
  \/ \E c \in Carts : OperatorExecutes(c)
  \/ pc'[Op] = "dead"

BatchMoves(b) ==
  \/ pc'[b] = pc[b] /\ batch'[b] = batch[b]
  \/ BatchStep(b)
  \/ task[b] = NoRow /\ pc'[b] = "next" /\ batch'[b] = batch[b]
  \/ pc'[b] = "dead" /\ batch'[b] = NoBatch

LEMMA ExecutionOf ==
  ASSUME Types, NEW x \in Carts, Execution(x)
  PROVE  /\ \A s \in (Rows \cup {Op}) \ {x} : pc'[s] = pc[s]
         /\ \A y \in Carts \ {x} : exec'[y] = exec[y]
         /\ \A i \in Recs \ {x} : result'[i] = result[i]
         /\ UNCHANGED <<task, batch, left>>
<1> pc \in [Rows \cup {Op} -> Pcs] /\ exec \in [Carts -> ExecType]
    /\ result \in [Recs -> {"none", "done", "failed"}]
  BY DEF Types, PcOK, ExecOK, ResultOK
<1>1. CASE Claim(x) \/ ReadItems(x) \/ CloseCart(x)
  BY <1>1 DEF Claim, ReadItems, CloseCart, Return, Goto
<1>2. CASE StartItem(x) \/ EndItem(x)
  BY <1>2 DEF StartItem, EndItem, Goto
<1> QED
  BY <1>1, <1>2 DEF Execution

LEMMA RecStepOf ==
  ASSUME Types, NEW j \in Recs, RecStep(j)
  PROVE  /\ \A s \in (Rows \cup {Op}) \ {j} : pc'[s] = pc[s]
         /\ \A y \in Carts \ {j} : exec'[y] = exec[y]
         /\ \A i \in Recs \ {j} : result'[i] = result[i]
         /\ UNCHANGED batch
<1> pc \in [Rows \cup {Op} -> Pcs] /\ exec \in [Carts -> ExecType]
    /\ result \in [Recs -> {"none", "done", "failed"}]
  BY DEF Types, PcOK, ExecOK, ResultOK
<1>1. CASE Execution(j)
  BY <1>1, ExecutionOf, Numbers
<1>2. CASE StepFails(j)
  BY <1>2 DEF StepFails, Return, Goto
<1>3. CASE CreateCart(j) \/ Context(j)
  BY <1>3 DEF CreateCart, Context, Goto
<1>4. CASE Answer(j) \/ Finish(j)
  BY <1>4 DEF Answer, Finish, Goto
<1> QED
  BY <1>1, <1>2, <1>3, <1>4 DEF RecStep

LEMMA BatchStepOf ==
  ASSUME Types, NEW b \in Batches, BatchStep(b)
  PROVE  /\ \A a \in Batches \ {b} : pc'[a] = pc[a] /\ batch'[a] = batch[a]
         /\ pc'[Op] = pc[Op] /\ UNCHANGED exec
         /\ \A i \in Recs : \/ pc'[i] = pc[i] /\ result'[i] \in {result[i], "none"}
                            \/ pc'[i] = "steps" /\ task[i] = NoRow /\ UNCHANGED <<result, cart>>
<1> pc \in [Rows \cup {Op} -> Pcs] /\ batch \in [Batches -> BatchType]
    /\ result \in [Recs -> {"none", "done", "failed"}]
  BY DEF Types, PcOK, BatchOK, ResultOK
<1>1. CASE Skip(b)
  BY <1>1, Numbers DEF Skip
<1>2. ASSUME NEW j \in Recs, StartChild(b, j)
      PROVE  /\ \A a \in Batches \ {b} : pc'[a] = pc[a] /\ batch'[a] = batch[a]
             /\ pc'[Op] = pc[Op] /\ UNCHANGED <<exec, result, cart>>
             /\ \A i \in Recs \ {j} : pc'[i] = pc[i]
             /\ pc'[j] = "steps" /\ task[j] = NoRow
  BY <1>2, Numbers DEF StartChild, Begin, NextRec
<1>3. CASE ChildEnds(b)
  BY <1>3, Numbers DEF ChildEnds, Goto
<1>4. CASE EndBatch(b)
  BY <1>4, Numbers DEF EndBatch, Goto
<1> QED
  BY <1>1, <1>2, <1>3, <1>4 DEF BatchStep

LEMMA CrashOf ==
  ASSUME Types, PcShape, NEW r \in Rows \cup {Op}, Crash(r)
  PROVE  /\ \A b \in Batches : \/ pc'[b] = pc[b] /\ batch'[b] = batch[b]
                               \/ pc'[b] = "dead" /\ batch'[b] = NoBatch
         /\ \A i \in Recs : \/ pc'[i] = pc[i] /\ exec'[i] = exec[i] /\ result'[i] = result[i]
                            \/ pc'[i] = "dead" /\ exec'[i] = NoExec /\ result'[i] = "none"
                               /\ (LiveShape => task[i].status # "none")
         /\ (pc'[Op] = pc[Op] /\ exec'[Op] = exec[Op]) \/ pc'[Op] = "dead"
         /\ UNCHANGED <<task, cart>>
<1> pc \in [Rows \cup {Op} -> Pcs] /\ exec \in [Carts -> ExecType] /\ batch \in [Batches -> BatchType]
    /\ result \in [Recs -> {"none", "done", "failed"}]
  BY DEF Types, PcOK, ExecOK, BatchOK, ResultOK
<1> DEFINE gone == IF r \in Batches /\ batch[r].child # 0 THEN {r, batch[r].child} ELSE {r}
<1>1. /\ pc' = [s \in Rows \cup {Op} |-> IF s \in gone THEN "dead" ELSE pc[s]]
      /\ exec' = [x \in Carts |-> IF x \in gone THEN NoExec ELSE exec[x]]
      /\ result' = [i \in Recs |-> IF i \in gone THEN "none" ELSE result[i]]
      /\ batch' = [b \in Batches |-> IF b \in gone THEN NoBatch ELSE batch[b]]
      /\ UNCHANGED <<task, cart>> /\ Living(r)
  BY DEF Crash
<1>2. ASSUME NEW i \in Recs, i \in gone, LiveShape PROVE task[i].status # "none"
  <2>1. CASE i = r
    BY <1>1, <1>2, <2>1, Numbers DEF LiveShape, LiveRow, Living
  <2>2. CASE i # r
    BY <1>2, <2>2 DEF PcShape
  <2> QED
    BY <2>1, <2>2
<1> HIDE DEF gone
<1> QED
  BY <1>1, <1>2, Numbers

LEMMA Moves ==
  ASSUME Types, LiveShape, PcShape, [Next]_vars
  PROVE  (\A i \in Recs : RecMoves(i)) /\ OpMoves /\ (\A b \in Batches : BatchMoves(b))
<1> pc \in [Rows \cup {Op} -> Pcs]
  BY DEF Types, PcOK
<1> DEFINE Goal == (\A i \in Recs : RecMoves(i)) /\ OpMoves /\ (\A b \in Batches : BatchMoves(b))
<1>1. CASE UNCHANGED <<pc, exec, result, batch>>
  BY <1>1 DEF RecMoves, OpMoves, BatchMoves
<1>2. ASSUME NEW t \in Tenants, Ask(t) PROVE Goal
  <2>1. ASSUME NEW j \in Recs, Begin(t, j, 0), Goto(j, "steps") PROVE Goal
    BY <1>2, <2>1, Numbers DEF Ask, Begin, NextRec, Goto, RecMoves, OpMoves, BatchMoves
  <2> QED
    BY <1>1, <1>2, <2>1 DEF Ask
<1>3. CASE AskAll
  <2>1. ASSUME NEW b \in Batches, task[b] = NoRow, Goto(b, "next") PROVE Goal
    BY <1>3, <2>1, Numbers DEF AskAll, Goto, RecMoves, OpMoves, BatchMoves
  <2> QED
    BY <1>1, <1>3, <2>1 DEF AskAll
<1>4. ASSUME NEW j \in Recs, RecStep(j) PROVE Goal
  <2>1. j \notin Batches /\ j # Op
    BY Numbers
  <2> QED
    BY <1>4, <2>1, RecStepOf, Numbers DEF RecMoves, OpMoves, BatchMoves
<1>5. ASSUME NEW b \in Batches, BatchStep(b) PROVE Goal
  BY <1>5, BatchStepOf, Numbers DEF RecMoves, OpMoves, BatchMoves
<1>6. ASSUME NEW c \in Carts, OperatorExecutes(c) PROVE Goal
  <2>1. \A i \in Recs : pc'[i] = pc[i] /\ exec'[i] = exec[i] /\ result'[i] = result[i]
    BY <1>6, Numbers DEF OperatorExecutes, Goto, Types, ExecOK
  <2>2. \A b \in Batches : pc'[b] = pc[b] /\ batch'[b] = batch[b]
    BY <1>6, Numbers DEF OperatorExecutes, Goto
  <2> QED
    BY <1>6, <2>1, <2>2 DEF RecMoves, OpMoves, BatchMoves
<1>7. CASE Execution(Op)
  <2>1. \A i \in Recs : pc'[i] = pc[i] /\ exec'[i] = exec[i] /\ result'[i] = result[i]
    BY <1>7, ExecutionOf, Numbers
  <2>2. \A b \in Batches : pc'[b] = pc[b] /\ batch'[b] = batch[b]
    BY <1>7, ExecutionOf, Numbers
  <2> QED
    BY <1>7, <2>1, <2>2 DEF RecMoves, OpMoves, BatchMoves
<1>8. ASSUME NEW r \in Rows \cup {Op}, Crash(r) PROVE Goal
  BY <1>8, CrashOf DEF RecMoves, OpMoves, BatchMoves
<1>9. CASE Time \/ (\E s \in Rows : Expire(s) \/ ReapOrphan(s)) \/ UNCHANGED vars
  BY <1>1, <1>9 DEF Time, Beat, Expire, ReapOrphan, vars
<1>10. ASSUME NEW t \in Tenants, RecoverNow(t) PROVE Goal
  <2>1. PICK j \in Recs : /\ task[j] = NoRow /\ pc'[j] = "steps"
                         /\ \A s \in (Rows \cup {Op}) \ {j} : pc'[s] = pc[s]
                         /\ UNCHANGED <<exec, result, batch, cart>>
    BY <1>10, NowIs
  <2> QED
    BY <2>1, Numbers DEF RecMoves, OpMoves, BatchMoves
<1> QED
  BY <1>2, <1>3, <1>4, <1>5, <1>6, <1>7, <1>8, <1>9, <1>10 DEF Next

-----------------------------------------------------------------------------
(* One run of a tenant's recovery, and one batch, at a time.               *)

LEMMA RecPcs ==
  ASSUME Types, PcShape, NEW i \in Recs, RecStep(i)
  PROVE  pc'[i] \notin {"none", "next", "child", "dead"}
<1> pc \in [Rows \cup {Op} -> Pcs] /\ i # Op /\ i \in Rows
  BY Numbers DEF Types, PcOK
<1>1. CASE Execution(i)
  <2>1. CASE Claim(i) \/ ReadItems(i) \/ CloseCart(i)
    BY <2>1 DEF Claim, ReadItems, CloseCart, Return, Goto
  <2>2. CASE StartItem(i) \/ EndItem(i)
    BY <2>2 DEF StartItem, EndItem, Goto
  <2> QED
    BY <1>1, <2>1, <2>2 DEF Execution
<1>2. CASE StepFails(i) \/ CreateCart(i) \/ Context(i)
  BY <1>2 DEF StepFails, CreateCart, Context, Return, Goto
<1>3. CASE Answer(i) \/ Finish(i)
  BY <1>3 DEF Answer, Finish, Goto
<1> QED
  BY <1>1, <1>2, <1>3 DEF RecStep

LEMMA OpPcs ==
  ASSUME Types, Execution(Op)
  PROVE  pc[Op] \in Executions /\ pc'[Op] \in Executions \cup {"none"}
<1> pc \in [Rows \cup {Op} -> Pcs]
  BY DEF Types, PcOK
<1>1. CASE Claim(Op) \/ ReadItems(Op) \/ CloseCart(Op)
  BY <1>1 DEF Claim, ReadItems, CloseCart, Return, Goto, Executions
<1>2. CASE StartItem(Op) \/ EndItem(Op)
  BY <1>2 DEF StartItem, EndItem, Goto, Executions
<1> QED
  BY <1>1, <1>2 DEF Execution

LEMMA BatchPcs ==
  ASSUME Types, LiveShape, NEW b \in Batches, BatchStep(b)
  PROVE  /\ pc'[b] \in {"next", "child", "over"}
         /\ \/ batch'[b].child \in {0, batch[b].child}
            \/ \E i \in Recs : StartChild(b, i) /\ batch'[b].child = i
<1> pc \in [Rows \cup {Op} -> Pcs] /\ b \in Rows /\ batch \in [Batches -> BatchType]
  BY Numbers DEF Types, PcOK, BatchOK
<1>1. CASE Skip(b)
  BY <1>1 DEF Skip, BatchType
<1>2. ASSUME NEW i \in Recs, StartChild(b, i)
      PROVE  pc'[b] = "child" /\ batch'[b].child = i
  BY <1>2, Numbers DEF StartChild, BatchType
<1>3. CASE ChildEnds(b)
  BY <1>3 DEF ChildEnds, Goto, BatchType
<1>4. CASE EndBatch(b)
  BY <1>4 DEF EndBatch, Goto, NoBatch
<1> QED
  BY <1>1, <1>2, <1>3, <1>4 DEF BatchStep

LEMMA StepPcShape ==
  ASSUME Types, LiveShape, PcShape, [Next]_vars
  PROVE  PcShape'
<1> pc \in [Rows \cup {Op} -> Pcs] /\ batch \in [Batches -> BatchType]
  BY DEF Types, PcOK, BatchOK
<1>1. ASSUME NEW i \in Recs PROVE pc'[i] \notin {"next", "child"}
  BY Moves, RecPcs DEF RecMoves, PcShape
<1>2. ASSUME NEW b \in Batches PROVE pc'[b] \in {"none", "next", "child", "over", "dead"}
  BY Moves, BatchPcs DEF BatchMoves, PcShape
<1>3. pc'[Op] \in {"none", "dead"} \cup Executions
  <2>1. ASSUME NEW c \in Carts, OperatorExecutes(c) PROVE pc'[Op] = "execute"
    BY <2>1 DEF OperatorExecutes, Goto
  <2> QED
    BY <2>1, Moves, OpPcs DEF OpMoves, PcShape, Executions
<1>4. ASSUME NEW b \in Batches, batch'[b].child # 0 PROVE task'[batch'[b].child].status # "none"
  <2>1. CASE batch'[b].child = batch[b].child
    <3>1. batch[b].child \in Recs /\ task[batch[b].child].status # "none"
      BY <1>4, <2>1 DEF PcShape, BatchType
    <3> QED
      BY <2>1, <3>1, RowKept, Numbers
  <2>2. ASSUME NEW i \in Recs, StartChild(b, i), batch'[b].child = i
        PROVE  task'[batch'[b].child].status # "none"
    <3>1. PICK t \in Tenants : t = Targets[batch[b].next]
      BY <2>2, BatchTarget DEF StartChild, Types
    <3>2. Begin(t, i, b)
      BY <2>2, <3>1 DEF StartChild, Begin
    <3> QED
      BY <2>2, <3>2, BeginRow
  <2>3. NoBatch.child = 0
    BY DEF NoBatch
  <2> QED
    BY <1>4, <2>1, <2>2, <2>3, Moves, BatchPcs DEF BatchMoves
<1>5. ASSUME NEW b \in Batches PROVE task'[b].status # "sync"
  <2> b \in Rows /\ b \notin Recs
    BY Numbers
  <2>1. RowStep(b) /\ task[b] \in RowType /\ task[b].status # "sync"
    BY RowSteps DEF Types, TaskOK, PcShape
  <2>2. CASE task[b] = NoRow
    BY <2>1, <2>2, EnrolledRow
  <2>3. CASE task[b] # NoRow
    BY <2>1, <2>3 DEF RowStep, RowType
  <2> QED
    BY <2>2, <2>3
<1> QED
  BY <1>1, <1>2, <1>3, <1>4, <1>5 DEF PcShape

\* A row that a step finds running was running before, unless the step enrolled it.
LEMMA RunningBefore ==
  ASSUME Types, LiveShape, PcShape, [Next]_vars, NEW r \in Rows, task'[r].status = "running"
  PROVE  \/ task[r].status = "running" /\ task'[r].tenant = task[r].tenant
         \/ /\ task[r] = NoRow /\ r \in Recs
            /\ \E t \in Tenants, parent \in {0} \cup Batches :
                 /\ ~Active(RecsOf(t)) /\ Executing(t) = {} /\ pc'[r] = "steps"
                 /\ task' = [Reap(RecsOf(t)) EXCEPT ![r] =
                               [NoRow EXCEPT !.status = "running", !.tenant = t, !.parent = parent]]
         \/ /\ task[r] = NoRow /\ r \in Batches /\ ~Active(Batches)
            /\ task' = [Reap(Batches) EXCEPT ![r] = [NoRow EXCEPT !.status = "running"]]
<1>1. task[r] \in RowType /\ RowStep(r)
  BY RowSteps DEF Types, TaskOK
<1>2. \A s \in {"failed", "succeeded", "gone"} :
        /\ [task[r] EXCEPT !.status = s, !.age = 0].status = s
        /\ [task[r] EXCEPT !.status = s].status = s
  BY <1>1 DEF RowType
<1>3. ASSUME task'[r] = [task[r] EXCEPT !.known = TRUE, !.age = 0]
      PROVE  task[r].status = "running" /\ task'[r].tenant = task[r].tenant
  BY <1>1, <1>3 DEF RowType
<1>4. ASSUME NEW age, task'[r] = [task[r] EXCEPT !.age = age]
      PROVE  task[r].status = "running" /\ task'[r].tenant = task[r].tenant
  BY <1>1, <1>4 DEF RowType
<1> QED
  BY <1>1, <1>2, <1>3, <1>4, Zenon DEF RowStep

\* A row that is failed for its silence stays its tenant's.
LEMMA FailedRow ==
  ASSUME NEW row \in RowType
  PROVE  /\ [row EXCEPT !.status = "failed", !.age = 0].status = "failed"
         /\ [row EXCEPT !.status = "failed", !.age = 0].tenant = row.tenant
  BY DEF RowType

\* Nothing of a set without an active row runs on after its reaping.
LEMMA ReapedAll ==
  ASSUME TaskOK, NEW rows, ~Active(rows), NEW i \in Rows, NEW row \in RowType, task[i] = NoRow,
         task' = [Reap(rows) EXCEPT ![i] = row], NEW r \in Rows \ {i}, r \in rows
  PROVE  task'[r].status # "running"
<1>1. task[r] \in RowType /\ task'[r] = Reap(rows)[r]
  BY DEF TaskOK, Reap
<1>2. CASE r \in Reaped(rows)
  <2>1. task'[r] = [task[r] EXCEPT !.status = "failed", !.age = 0]
    BY <1>1, <1>2 DEF Reap
  <2> QED
    BY <1>1, <2>1, FailedRow
<1>3. CASE r \notin Reaped(rows)
  BY <1>1, <1>3 DEF Reap, Active
<1> QED
  BY <1>2, <1>3

LEMMA StepRunningOnce ==
  ASSUME Types, LiveShape, PcShape, RunningOnce, [Next]_vars
  PROVE  RunningOnce'
<1> TaskOK
  BY DEF Types
<1>1. ASSUME NEW i \in Recs, NEW t \in Tenants, NEW parent \in {0} \cup Batches,
             task[i] = NoRow, ~Active(RecsOf(t)),
             task' = [Reap(RecsOf(t)) EXCEPT ![i] =
                        [NoRow EXCEPT !.status = "running", !.tenant = t, !.parent = parent]],
             NEW j \in Recs, task'[j].status = "running", task'[j].tenant = task'[i].tenant
      PROVE  i = j
  <2>1. SUFFICES ASSUME i # j PROVE FALSE
    OBVIOUS
  <2> i \in Rows /\ j \in Rows /\ j \in Rows \ {i}
    BY <2>1, Numbers
  <2>2. /\ task[i] = NoRow /\ ~Active(RecsOf(t))
        /\ task'[j].status = "running" /\ task'[j].tenant = task'[i].tenant
    BY <1>1, Zenon
  <2>3. PICK row \in RowType : row = [NoRow EXCEPT !.status = "running", !.tenant = t, !.parent = parent]
    BY NewRowType
  <2>4. task' = [Reap(RecsOf(t)) EXCEPT ![i] = row] /\ row.tenant = t
    BY <1>1, <2>3 DEF NoRow
  <2>5. task'[i] = row
    BY <2>2, <2>4, ReapThenBegin
  <2>6. task[j].tenant = t
    <3>1. \/ task'[j] = task[j]
          \/ task'[j] = [task[j] EXCEPT !.status = "failed", !.age = 0]
      BY <2>2, <2>4, ReapThenBegin
    <3>2. task[j] \in RowType /\ task'[j].tenant = t
      BY <2>2, <2>4, <2>5 DEF TaskOK
    <3> QED
      BY <3>1, <3>2, FailedRow
  <2>7. j \in RecsOf(t)
    BY <2>6 DEF RecsOf
  <2> QED
    BY <2>2, <2>4, <2>7, ReapedAll
<1>2. ASSUME NEW i \in Recs, NEW j \in Recs, task'[i].status = "running", task'[j].status = "running",
             task'[i].tenant = task'[j].tenant
      PROVE  i = j
  <2>1. i \in Rows /\ j \in Rows /\ i \notin Batches /\ j \notin Batches
    BY Numbers
  <2>2. CASE task[i] # NoRow /\ task[j] # NoRow
    BY <1>2, <2>1, <2>2, RunningBefore DEF RunningOnce
  <2>3. CASE task[i] = NoRow
    <3>1. task[i].status # "running"
      BY <2>3 DEF NoRow
    <3> QED
      BY <1>1, <1>2, <2>1, <3>1, RunningBefore
  <2>4. CASE task[j] = NoRow
    <3>1. task[j].status # "running"
      BY <2>4 DEF NoRow
    <3> QED
      BY <1>1, <1>2, <2>1, <3>1, RunningBefore
  <2> QED
    BY <2>2, <2>3, <2>4
<1>3. ASSUME NEW a \in Batches, task[a] = NoRow, ~Active(Batches),
             task' = [Reap(Batches) EXCEPT ![a] = [NoRow EXCEPT !.status = "running"]],
             NEW b \in Batches, task'[b].status = "running"
      PROVE  a = b
  BY <1>3, ReapedAll, NewRowType, Numbers
<1>4. ASSUME NEW a \in Batches, NEW b \in Batches, task'[a].status = "running", task'[b].status = "running"
      PROVE  a = b
  <2>1. a \in Rows /\ b \in Rows /\ a \notin Recs /\ b \notin Recs
    BY Numbers
  <2>2. CASE task[a].status = "running" /\ task[b].status = "running"
    BY <2>2 DEF RunningOnce
  <2> QED
    BY <1>3, <1>4, <2>1, <2>2, RunningBefore
<1> QED
  BY <1>2, <1>4 DEF RunningOnce

-----------------------------------------------------------------------------
(* Who works on a cart, and how far it is applied.                         *)

Applyings == {"read", "apply", "item", "stop"}

\* Process x applies cart c.
Works(x, c) == pc[x] \in Applyings /\ exec[x].cart = c

AllDone(c) == \A k \in Items : cart[c].item[k] = "done"

\* A recovery executes its own cart, and nobody one that is not there yet.
HolderShape ==
  /\ \A i \in Recs : pc[i] \in Executions \cup {"answer"} => exec[i].cart = i
  /\ \A i \in Recs : pc[i] \in {"none", "steps"} => cart[i].status = "none"
  /\ pc[Op] \in Executions => cart[exec[Op].cart].status # "none"

\* A cart that is applied is recorded as executing, and by nobody else applied; but one of a recovery that
\* ended may have been failed under the operator who executes it once more.
WorkShape ==
  /\ \A i \in Recs : pc[i] \in Applyings => cart[i].status = "executing" /\ ~Works(Op, i)
  /\ \A c \in Carts : Works(Op, c) =>
       \/ cart[c].status = "executing"
       \/ c \in Recs /\ cart[c].status = "failed" /\ ~Living(c) /\ task[c].known

\* What an execution has left behind is done.
LeftBehind(x) ==
  /\ pc[x] = "apply" => \A k \in Items \ exec[x].todo : cart[exec[x].cart].item[k] = "done"
  /\ pc[x] = "item" =>
       \A k \in Items \ (exec[x].todo \cup {exec[x].item}) : cart[exec[x].cart].item[k] = "done"

AppliedShape ==
  /\ \A x \in Carts : LeftBehind(x)
  /\ \A c \in Carts : cart[c].status = "done" => AllDone(c)

LEMMA ExecutionLives ==
  ASSUME NEW x, Execution(x)
  PROVE  pc[x] \in Executions
  BY DEF Execution, Claim, ReadItems, StartItem, EndItem, CloseCart, Executions

LEMMA RecLives ==
  ASSUME NEW i \in Recs, RecStep(i)
  PROVE  Living(i)
  BY ExecutionLives DEF RecStep, StepFails, CreateCart, Context, Answer, Finish, Living, Executions

\* A cart is given up only when its recovery, which recorded it, no longer lives.
LEMMA GivenIsOver ==
  ASSUME Types, FreshShape, NEW c \in Carts, Given(c)
  PROVE  c \in Recs /\ ~Living(c) /\ task[c].known
<1>1. c \in Recs
  BY Numbers DEF Given, OwnerEnded, Op
<1>2. task[c] \in RowType /\ FreshRow(c)
  BY <1>1, Numbers DEF Types, TaskOK, FreshShape
<1>3. /\ task[c].known
      /\ \/ task[c].status = "running" /\ task[c].age >= StaleAfter
         \/ task[c].status \in {"succeeded", "failed"}
  BY DEF Given, OwnerEnded, Reaped
<1> QED
  BY <1>1, <1>2, <1>3, Numbers DEF FreshRow, RowType

\* A recovery that ended does not live again, and a cart recorded stays so.
LEMMA EndedStays ==
  ASSUME Types, LiveShape, PcShape, [Next]_vars, NEW i \in Recs, task[i].known
  PROVE  task'[i].known /\ (~Living(i) => ~(Living(i)'))
<1>1. i \in Rows /\ task[i] \in RowType /\ RowStep(i) /\ PcStep(i) /\ task[i] # NoRow
  BY Numbers, RowSteps, PcSteps DEF Types, TaskOK, NoRow
<1>2. task'[i].known
  BY <1>1 DEF RowStep, RowType
<1>3. ~Living(i) => ~(Living(i)')
  BY <1>1 DEF PcStep, Living
<1> QED
  BY <1>2, <1>3

\* What an execution does to the cart it holds, step by step.
Refused(x) == pc[x] = "execute" /\ UNCHANGED cart /\ cart[exec[x].cart].status = "executing"
              /\ pc'[x] \in {"none", "finish"}
Claimed(x) == /\ pc[x] = "execute" /\ cart[exec[x].cart].status # "executing"
              /\ cart'[exec[x].cart].status = "executing" /\ cart'[exec[x].cart].item = cart[exec[x].cart].item
              /\ pc'[x] = "read" /\ exec'[x].cart = exec[x].cart
IsRead(x)  == /\ pc[x] = "read" /\ UNCHANGED cart /\ pc'[x] = "apply" /\ exec'[x].cart = exec[x].cart
              /\ exec'[x].todo = {k \in Items : cart[exec[x].cart].item[k] # "done"}
Unread(x)  == /\ pc[x] = "read" /\ cart'[exec[x].cart].status = "failed" /\ pc'[x] \in {"none", "finish"}
              /\ cart'[exec[x].cart].item = cart[exec[x].cart].item
Started(x) == /\ pc[x] = "apply" /\ exec[x].todo # {} /\ pc'[x] = "item" /\ exec'[x].cart = exec[x].cart
              /\ exec'[x].todo = exec[x].todo \ {exec'[x].item}
              /\ cart'[exec[x].cart].status = cart[exec[x].cart].status
              /\ \A k \in Items \ {exec'[x].item} :
                   cart'[exec[x].cart].item[k] = cart[exec[x].cart].item[k]
Applied(x) == /\ pc[x] = "item" /\ pc'[x] = "apply" /\ exec'[x].cart = exec[x].cart /\ exec'[x].todo = exec[x].todo
              /\ cart'[exec[x].cart].status = cart[exec[x].cart].status
              /\ \A k \in Items : cart'[exec[x].cart].item[k] =
                                    IF k = exec[x].item THEN "done" ELSE cart[exec[x].cart].item[k]
Stopped(x) == /\ pc[x] = "item" /\ pc'[x] = "stop" /\ exec'[x].cart = exec[x].cart
              /\ cart'[exec[x].cart].status = cart[exec[x].cart].status
Closed(x)  == /\ cart'[exec[x].cart].item = cart[exec[x].cart].item /\ pc'[x] \in {"none", "answer"}
              /\ \/ pc[x] = "stop" /\ cart'[exec[x].cart].status = "failed"
                 \/ pc[x] = "apply" /\ exec[x].todo = {} /\ cart'[exec[x].cart].status = "done"

LEMMA ExecutionDoes ==
  ASSUME Types, NEW x \in Carts, Execution(x)
  PROVE  \/ Refused(x) \/ Claimed(x) \/ IsRead(x) \/ Unread(x)
         \/ Started(x) \/ Applied(x) \/ Stopped(x) \/ Closed(x)
<1> DEFINE d == exec[x].cart
<1>0. /\ pc \in [Rows \cup {Op} -> Pcs] /\ exec \in [Carts -> ExecType] /\ cart \in [Carts -> CartType]
      /\ x \in Rows \cup {Op} /\ d \in Carts /\ exec[x] \in ExecType
  BY Numbers DEF Types, PcOK, ExecOK, ExecType, CartOK
<1>1. cart[d] \in CartType /\ (x = Op \/ x \in Recs)
  BY <1>0, Numbers
<1> HIDE DEF d
<1>2. ASSUME NEW s, cart' = [cart EXCEPT ![d].status = s]
      PROVE  cart'[d].status = s /\ cart'[d].item = cart[d].item
  BY <1>0, <1>1, <1>2 DEF CartType
<1>3. ASSUME NEW k, NEW s, cart' = [cart EXCEPT ![d].item[k] = s]
      PROVE  /\ cart'[d].status = cart[d].status
             /\ \A l \in Items : cart'[d].item[l] = IF l = k THEN s ELSE cart[d].item[l]
  BY <1>0, <1>1, <1>3 DEF CartType
<1>4. CASE Claim(x)
  BY <1>0, <1>2, <1>4 DEF Claim, Return, Goto, Refused, Claimed, d
<1>5. CASE ReadItems(x)
  <2>1. CASE /\ exec' = [exec EXCEPT ![x].todo = {k \in Items : cart[d].item[k] # "done"}]
             /\ pc'[x] = "apply" /\ UNCHANGED cart
    <3>1. exec'[x].cart = exec[x].cart /\ exec'[x].todo = {k \in Items : cart[d].item[k] # "done"}
      BY <1>0, <2>1 DEF ExecType
    <3> QED
      BY <1>5, <2>1, <3>1 DEF ReadItems, IsRead, d
  <2>2. CASE cart' = [cart EXCEPT ![d].status = "failed"] /\ pc'[x] \in {"none", "finish"}
    BY <1>2, <1>5, <2>2 DEF ReadItems, Unread, d
  <2> QED
    BY <1>0, <1>5, <2>1, <2>2 DEF ReadItems, Return, Goto, d
<1>6. CASE StartItem(x)
  <2>1. PICK k : /\ cart' = [cart EXCEPT ![d].item[k] = "applying"]
                 /\ exec' = [exec EXCEPT ![x].item = k, ![x].todo = exec[x].todo \ {k}]
                 /\ pc[x] = "apply" /\ exec[x].todo # {} /\ pc'[x] = "item"
    BY <1>0, <1>6 DEF StartItem, Goto, d
  <2>2. exec'[x].item = k /\ exec'[x].todo = exec[x].todo \ {k} /\ exec'[x].cart = exec[x].cart
    BY <1>0, <2>1 DEF ExecType
  <2>3. cart'[d].status = cart[d].status /\ \A l \in Items \ {k} : cart'[d].item[l] = cart[d].item[l]
    BY <1>3, <2>1
  <2> QED
    BY <2>1, <2>2, <2>3 DEF Started, d
<1>7. CASE EndItem(x)
  <2>1. CASE /\ cart' = [cart EXCEPT ![d].item[exec[x].item] = "done"]
             /\ exec' = [exec EXCEPT ![x].item = 0] /\ pc'[x] = "apply"
    <3>1. exec'[x].cart = exec[x].cart /\ exec'[x].todo = exec[x].todo
      BY <1>0, <2>1 DEF ExecType
    <3>2. /\ cart'[d].status = cart[d].status
          /\ \A l \in Items : cart'[d].item[l] = IF l = exec[x].item THEN "done" ELSE cart[d].item[l]
      <4>1. PICK k : k = exec[x].item
        OBVIOUS
      <4>2. cart' = [cart EXCEPT ![d].item[k] = "done"]
        BY <2>1, <4>1
      <4>3. /\ cart'[d].status = cart[d].status
            /\ \A l \in Items : cart'[d].item[l] = IF l = k THEN "done" ELSE cart[d].item[l]
        BY <1>0, <1>1, <4>2 DEF CartType
      <4> QED
        BY <4>1, <4>3
    <3> QED
      BY <1>7, <2>1, <3>1, <3>2 DEF EndItem, Applied, d
  <2>2. CASE cart' = [cart EXCEPT ![d].item[exec[x].item] = "failed"] /\ pc'[x] = "stop" /\ UNCHANGED exec
    BY <1>3, <1>7, <2>2 DEF EndItem, Stopped, d
  <2> QED
    BY <1>0, <1>7, <2>1, <2>2 DEF EndItem, Goto, d
<1>8. CASE CloseCart(x)
  <2>1. pc'[x] \in {"none", "answer"}
    BY <1>0, <1>8 DEF CloseCart, Return, Goto
  <2> QED
    BY <1>2, <1>8, <2>1 DEF CloseCart, Closed, d
<1> QED
  BY <1>4, <1>5, <1>6, <1>7, <1>8 DEF Execution

\* Who writes a cart.
LEMMA CartOf ==
  ASSUME Types, FreshShape, HolderShape, [Next]_vars, NEW c \in Carts
  PROVE  \/ cart'[c] = cart[c]
         \/ Given(c) /\ c \in Recs /\ ~Living(c) /\ task[c].known
         \/ c \in Recs /\ CreateCart(c) /\ cart[c].status = "none"
         \/ c \in Recs /\ Execution(c) /\ exec[c].cart = c
         \/ Execution(Op) /\ exec[Op].cart = c
<1>1. ASSUME NEW x \in Carts, Execution(x), exec[x].cart = c
      PROVE  (c \in Recs /\ Execution(c) /\ exec[c].cart = c) \/ (Execution(Op) /\ exec[Op].cart = c)
  BY <1>1, ExecutionLives, Numbers DEF HolderShape
<1>2. ASSUME c \in Recs, CreateCart(c) PROVE cart[c].status = "none"
  BY <1>2 DEF CreateCart, HolderShape
<1> QED
  BY <1>1, <1>2, CartSteps, GivenIsOver

LEMMA NewCart ==
  ASSUME Types, NEW i \in Recs, CreateCart(i)
  PROVE  cart'[i].status = "draft" /\ pc'[i] = "context" /\ pc[i] = "steps"
<1>1. cart'[i] = [NoCart EXCEPT !.status = "draft"] /\ pc'[i] = "context"
  BY Numbers DEF CreateCart, Goto, Types, CartOK, PcOK
<1> QED
  BY <1>1 DEF CreateCart, NoCart

\* A recovery's steps outside the execution of its cart.
LEMMA OtherSteps ==
  ASSUME Types, NEW i \in Recs, RecStep(i), ~Execution(i)
  PROVE  /\ pc'[i] \in {"context", "execute", "finish", "over"}
         /\ pc'[i] = "execute" => exec'[i].cart = i /\ UNCHANGED cart
<1> pc \in [Rows \cup {Op} -> Pcs] /\ exec \in [Carts -> ExecType] /\ i \in Rows /\ i \in Carts /\ i # Op
  BY Numbers DEF Types, PcOK, ExecOK
<1>1. CASE Context(i)
  BY <1>1 DEF Context, Goto, NoExec
<1>2. CASE StepFails(i) \/ CreateCart(i) \/ Answer(i) \/ Finish(i)
  BY <1>2 DEF StepFails, CreateCart, Answer, Finish, Return, Goto
<1> QED
  BY <1>1, <1>2 DEF RecStep

\* A cart stays there, and one that is written by nobody keeps its state.
LEMMA StepHolder ==
  ASSUME Types, LiveShape, FreshShape, PcShape, HolderShape, [Next]_vars
  PROVE  HolderShape'
<1>1. ASSUME NEW i \in Recs, pc'[i] \in Executions \cup {"answer"} PROVE exec'[i].cart = i
  <2> i \in Carts /\ i # Op
    BY Numbers
  <2>1. CASE Execution(i)
    <3>1. exec[i].cart = i
      BY <2>1, ExecutionLives DEF HolderShape
    <3>2. CASE Closed(i)
      BY <1>1, <2>1, <3>1, <3>2, Numbers DEF Closed, Execution, Claim, ReadItems, StartItem, EndItem, CloseCart, Return
    <3> QED
      BY <1>1, <2>1, <3>1, <3>2, ExecutionDoes
         DEF Refused, Claimed, IsRead, Unread, Started, Applied, Stopped, Executions
  <2>2. CASE RecStep(i) /\ ~Execution(i)
    BY <1>1, <2>2, OtherSteps DEF Executions
  <2>3. CASE ~RecStep(i)
    BY <1>1, <2>3, Moves DEF RecMoves, HolderShape, Executions
  <2> QED
    BY <2>1, <2>2, <2>3
<1>2. ASSUME NEW c \in Carts, cart[c].status # "none" PROVE cart'[c].status # "none"
  <2>1. CASE Given(c)
    BY <2>1 DEF Given
  <2>2. ASSUME NEW x \in Carts, Execution(x), exec[x].cart = c PROVE cart'[c].status # "none"
    BY <1>2, <2>2, ExecutionDoes
       DEF Refused, Claimed, IsRead, Unread, Started, Applied, Stopped, Closed
  <2> QED
    BY <1>2, <2>1, <2>2, CartOf, Numbers
<1>3. ASSUME pc'[Op] \in Executions PROVE cart'[exec'[Op].cart].status # "none"
  <2> exec[Op].cart \in Carts /\ Op \in Carts /\ Op \notin Recs
    BY Numbers DEF Types, ExecOK, ExecType
  <2>1. CASE Execution(Op)
    <3>1. exec'[Op].cart = exec[Op].cart /\ pc[Op] \in Executions
      BY <1>3, <2>1, ExecutionDoes, ExecutionLives
         DEF Refused, Claimed, IsRead, Unread, Started, Applied, Stopped, Closed, Executions
    <3> QED
      BY <1>2, <3>1 DEF HolderShape
  <2>2. ASSUME NEW c \in Carts, OperatorExecutes(c) PROVE cart'[exec'[Op].cart].status # "none"
    <3>1. exec'[Op].cart = c /\ cart[c].status # "none"
      BY <2>2 DEF OperatorExecutes, NoExec, Types, ExecOK
    <3> QED
      BY <1>2, <3>1
  <2>3. CASE pc'[Op] = pc[Op] /\ exec'[Op] = exec[Op]
    BY <1>2, <1>3, <2>3 DEF HolderShape
  <2> QED
    BY <1>3, <2>1, <2>2, <2>3, Moves DEF OpMoves, Executions
<1>4. ASSUME NEW i \in Recs, pc'[i] \in {"none", "steps"} PROVE cart'[i].status = "none"
  <2> i \in Carts /\ i \in Rows
    BY Numbers
  <2>1. ~RecStep(i)
    <3>1. CASE Execution(i)
      BY <1>4, <3>1, RecPcs, ExecutionDoes, Numbers
         DEF Refused, Claimed, IsRead, Unread, Started, Applied, Stopped, Closed, RecStep
    <3>2. CASE RecStep(i) /\ ~Execution(i)
      BY <1>4, <3>2, OtherSteps
    <3> QED
      BY <3>1, <3>2 DEF RecStep
  <2>2. pc[i] \in {"none", "steps"}
    <3>1. CASE pc'[i] = "steps" /\ task[i] = NoRow
      BY <3>1, Numbers DEF LiveShape, LiveRow, NoRow
    <3> QED
      BY <1>4, <2>1, <3>1, Moves DEF RecMoves
  <2>3. cart[i].status = "none"
    BY <2>2 DEF HolderShape
  <2>4. ~Given(i) /\ ~(Execution(Op) /\ exec[Op].cart = i)
    BY <2>3, ExecutionLives DEF Given, HolderShape
  <2> QED
    BY <2>1, <2>3, <2>4, CartOf DEF RecStep
<1> QED
  BY <1>1, <1>3, <1>4 DEF HolderShape

\* Nobody else writes the cart that a living recovery applies.
LEMMA RecKeepsCart ==
  ASSUME Types, LiveShape, FreshShape, PcShape, HolderShape, WorkShape, [Next]_vars,
         NEW i \in Recs, pc[i] \in Applyings, ~RecStep(i)
  PROVE  cart'[i] = cart[i]
<1>1. Living(i) /\ i \in Carts /\ Op \in Carts
  BY Numbers DEF Living, Applyings
<1>2. cart[i].status = "executing" /\ ~Works(Op, i)
  BY DEF WorkShape
<1>3. ASSUME Execution(Op), exec[Op].cart = i PROVE cart'[i] = cart[i]
  <2>1. pc[Op] = "execute"
    BY <1>2, <1>3, ExecutionLives DEF Works, Executions, Applyings
  <2> QED
    BY <1>1, <1>2, <1>3, <2>1, ExecutionDoes
       DEF Refused, Claimed, IsRead, Unread, Started, Applied, Stopped, Closed
<1> QED
  BY <1>1, <1>3, CartOf DEF RecStep

\* The operator's cart changes under the operator only when it is given up.
LEMMA OpKeepsCart ==
  ASSUME Types, LiveShape, FreshShape, PcShape, HolderShape, WorkShape, [Next]_vars,
         NEW c \in Carts, Works(Op, c), ~Execution(Op)
  PROVE  cart'[c] = cart[c] \/ (Given(c) /\ c \in Recs /\ ~Living(c) /\ task[c].known)
<1>1. pc[Op] \in Executions /\ cart[c].status # "none"
  BY DEF Works, WorkShape, Applyings, Executions
<1>2. ASSUME c \in Recs, Execution(c), exec[c].cart = c PROVE cart'[c] = cart[c]
  <2>1. pc[c] = "execute" /\ Living(c)
    BY <1>2, ExecutionLives DEF WorkShape, Executions, Applyings, Living
  <2>2. cart[c].status = "executing"
    BY <2>1 DEF WorkShape
  <2> QED
    BY <1>2, <2>1, <2>2, ExecutionDoes
       DEF Refused, Claimed, IsRead, Unread, Started, Applied, Stopped, Closed
<1> QED
  BY <1>1, <1>2, CartOf

LEMMA StepWork ==
  ASSUME Types, LiveShape, FreshShape, PcShape, HolderShape, WorkShape, [Next]_vars
  PROVE  WorkShape'
<1> Op \in Carts /\ Op \notin Recs /\ Op \in Rows \cup {Op}
  BY Numbers
<1>1. ASSUME Execution(Op), pc'[Op] \in Applyings
      PROVE  /\ exec'[Op].cart = exec[Op].cart
             /\ \/ pc[Op] = "execute" /\ cart[exec[Op].cart].status # "executing"
                   /\ cart'[exec[Op].cart].status = "executing"
                \/ pc[Op] \in Applyings /\ cart'[exec[Op].cart].status = cart[exec[Op].cart].status
  BY <1>1, ExecutionDoes
     DEF Refused, Claimed, IsRead, Unread, Started, Applied, Stopped, Closed, Applyings
<1>2. ASSUME NEW c \in Carts, OperatorExecutes(c) PROVE pc'[Op] = "execute"
  BY <1>2 DEF OperatorExecutes, Goto, Types, PcOK
<1>3. ASSUME NEW i \in Recs, pc'[i] \in Applyings PROVE cart'[i].status = "executing" /\ ~(Works(Op, i)')
  <2> i \in Carts /\ i # Op /\ i \in Rows
    BY Numbers
  <2>1. CASE Execution(i)
    <3>1. exec[i].cart = i /\ Living(i) /\ pc[i] \in Executions
      BY <2>1, ExecutionLives DEF HolderShape, Living, Executions
    <3>2. pc'[Op] = pc[Op] /\ exec'[Op] = exec[Op]
      BY <2>1, ExecutionOf
    <3>3. \/ pc[i] = "execute" /\ cart[i].status # "executing" /\ cart'[i].status = "executing"
          \/ pc[i] \in Applyings /\ cart'[i].status = cart[i].status
      BY <1>3, <2>1, <3>1, ExecutionDoes
         DEF Refused, Claimed, IsRead, Unread, Started, Applied, Stopped, Closed, Applyings
    <3> QED
      BY <3>1, <3>2, <3>3 DEF WorkShape, Works
  <2>2. CASE RecStep(i) /\ ~Execution(i)
    BY <1>3, <2>2, OtherSteps DEF Applyings
  <2>3. CASE ~RecStep(i)
    <3>1. pc'[i] = pc[i]
      BY <1>3, <2>3, Moves DEF RecMoves, Applyings
    <3>2. cart'[i] = cart[i] /\ cart[i].status = "executing" /\ ~Works(Op, i)
      BY <1>3, <2>3, <3>1, RecKeepsCart DEF WorkShape
    <3>3. ~(Works(Op, i)')
      BY <1>1, <1>2, <3>2, Moves DEF OpMoves, Works, Applyings
    <3> QED
      BY <3>2, <3>3
  <2> QED
    BY <2>1, <2>2, <2>3
<1>4. ASSUME NEW c \in Carts, Works(Op, c)'
      PROVE  \/ cart'[c].status = "executing"
             \/ c \in Recs /\ cart'[c].status = "failed" /\ ~(Living(c)') /\ task'[c].known
  <2>1. CASE Execution(Op)
    <3>1. exec[Op].cart = c
      BY <1>1, <1>4, <2>1 DEF Works
    <3>2. CASE cart'[c].status # "executing"
      <4>1. Works(Op, c) /\ cart'[c].status = cart[c].status
        BY <1>1, <1>4, <2>1, <3>1, <3>2 DEF Works
      <4>2. c \in Recs /\ cart[c].status = "failed" /\ ~Living(c) /\ task[c].known
        BY <3>2, <4>1 DEF WorkShape
      <4> QED
        BY <4>1, <4>2, EndedStays
    <3> QED
      BY <3>2
  <2>2. CASE ~Execution(Op)
    <3>1. Works(Op, c)
      BY <1>2, <1>4, <2>2, Moves DEF OpMoves, Works, Applyings
    <3>2. CASE cart'[c] = cart[c]
      <4>1. \/ cart[c].status = "executing"
            \/ c \in Recs /\ cart[c].status = "failed" /\ ~Living(c) /\ task[c].known
        BY <3>1 DEF WorkShape
      <4> QED
        BY <3>2, <4>1, EndedStays
    <3>3. CASE Given(c) /\ c \in Recs /\ ~Living(c) /\ task[c].known
      BY <3>3, EndedStays DEF Given
    <3> QED
      BY <2>2, <3>1, <3>2, <3>3, OpKeepsCart
  <2> QED
    BY <2>1, <2>2
<1> QED
  BY <1>3, <1>4 DEF WorkShape

\* What an execution leaves behind is done.
LEMMA ExecutionApplies ==
  ASSUME Types, NEW x \in Carts, LeftBehind(x), Execution(x)
  PROVE  LeftBehind(x)'
<1> DEFINE d == exec[x].cart
<1>1. CASE IsRead(x)
  <2>1. /\ pc'[x] = "apply" /\ exec'[x].cart = d /\ UNCHANGED cart
        /\ exec'[x].todo = {k \in Items : cart[d].item[k] # "done"}
    BY <1>1 DEF IsRead
  <2> QED
    BY <2>1 DEF LeftBehind
<1>2. CASE Started(x)
  <2>1. /\ pc[x] = "apply" /\ pc'[x] = "item" /\ exec'[x].cart = d
        /\ exec'[x].todo = exec[x].todo \ {exec'[x].item}
        /\ \A k \in Items \ {exec'[x].item} : cart'[d].item[k] = cart[d].item[k]
    BY <1>2 DEF Started
  <2>2. \A k \in Items \ exec[x].todo : cart[d].item[k] = "done"
    BY <2>1 DEF LeftBehind
  <2> QED
    BY <2>1, <2>2 DEF LeftBehind
<1>3. CASE Applied(x)
  <2>1. /\ pc[x] = "item" /\ pc'[x] = "apply" /\ exec'[x].cart = d /\ exec'[x].todo = exec[x].todo
        /\ \A k \in Items : cart'[d].item[k] = IF k = exec[x].item THEN "done" ELSE cart[d].item[k]
    BY <1>3 DEF Applied
  <2>2. \A k \in Items \ (exec[x].todo \cup {exec[x].item}) : cart[d].item[k] = "done"
    BY <2>1 DEF LeftBehind
  <2> QED
    BY <2>1, <2>2 DEF LeftBehind
<1>4. CASE Refused(x) \/ Claimed(x) \/ Unread(x) \/ Stopped(x) \/ Closed(x)
  <2>1. pc'[x] \notin {"apply", "item"}
    BY <1>4 DEF Refused, Claimed, Unread, Stopped, Closed
  <2> QED
    BY <2>1 DEF LeftBehind
<1> QED
  BY <1>1, <1>2, <1>3, <1>4, ExecutionDoes

\* Items done of a cart that x applies stay done, whatever others do.
LEMMA DoneStays ==
  ASSUME Types, LiveShape, FreshShape, PcShape, HolderShape, WorkShape, [Next]_vars,
         NEW x \in Carts, pc[x] \in Applyings, pc'[x] = pc[x], exec'[x] = exec[x], ~Execution(x),
         NEW k \in Items, cart[exec[x].cart].item[k] = "done"
  PROVE  cart'[exec[x].cart].item[k] = "done"
<1>1. CASE x \in Recs
  <2>1. exec[x].cart = x
    BY <1>1 DEF HolderShape, Applyings, Executions
  <2>2. CASE RecStep(x)
    BY <1>1, <2>2, OtherSteps DEF Applyings
  <2>3. CASE ~RecStep(x)
    BY <1>1, <2>1, <2>3, RecKeepsCart
  <2> QED
    BY <2>2, <2>3
<1>2. CASE x = Op
  <2>1. exec[Op].cart \in Carts
    BY Numbers DEF Types, ExecOK, ExecType
  <2>2. Works(Op, exec[Op].cart)
    BY <1>2 DEF Works
  <2> QED
    BY <1>2, <2>1, <2>2, OpKeepsCart DEF Given
<1> QED
  BY <1>1, <1>2, Numbers

LEMMA StepApplied ==
  ASSUME Types, LiveShape, FreshShape, PcShape, HolderShape, WorkShape, AppliedShape, [Next]_vars
  PROVE  AppliedShape'
<1>1. ASSUME NEW x \in Carts PROVE LeftBehind(x)'
  <2>1. LeftBehind(x)
    BY DEF AppliedShape
  <2>2. CASE Execution(x)
    BY <2>1, <2>2, ExecutionApplies
  <2>3. CASE pc'[x] \notin {"apply", "item"}
    BY <2>3 DEF LeftBehind
  <2>4. CASE ~Execution(x) /\ pc'[x] \in {"apply", "item"}
    <3>1. pc'[x] = pc[x] /\ exec'[x] = exec[x]
      <4>1. CASE x \in Recs
        BY <2>4, <4>1, Moves, OtherSteps DEF RecMoves
      <4>2. CASE x = Op
        <5>1. ASSUME NEW c \in Carts, OperatorExecutes(c) PROVE pc'[Op] = "execute"
          BY <5>1 DEF OperatorExecutes, Goto, Types, PcOK
        <5> QED
          BY <2>4, <4>2, <5>1, Moves DEF OpMoves
      <4> QED
        BY <4>1, <4>2, Numbers
    <3>2. \A k \in Items : cart[exec[x].cart].item[k] = "done" => cart'[exec[x].cart].item[k] = "done"
      BY <2>4, <3>1, DoneStays DEF Applyings
    <3> QED
      BY <2>1, <3>1, <3>2 DEF LeftBehind
  <2> QED
    BY <2>2, <2>3, <2>4
<1>2. ASSUME NEW c \in Carts, cart'[c].status = "done" PROVE AllDone(c)'
  <2>1. CASE cart'[c] = cart[c]
    BY <1>2, <2>1 DEF AppliedShape, AllDone
  <2>2. CASE Given(c)
    BY <1>2, <2>2 DEF Given
  <2>3. CASE c \in Recs /\ CreateCart(c)
    BY <1>2, <2>3, NewCart
  <2>4. ASSUME NEW x \in Carts, Execution(x), exec[x].cart = c, x = Op \/ (x \in Recs /\ x = c) PROVE AllDone(c)'
    <3>1. pc[x] \in Applyings => cart[c].status # "done"
      BY <2>4 DEF WorkShape, Works
    <3>2. CASE Closed(x)
      <4>1. pc[x] = "apply" /\ exec[x].todo = {} /\ cart'[c].item = cart[c].item
        BY <1>2, <2>4, <3>2 DEF Closed
      <4>2. \A k \in Items \ exec[x].todo : cart[exec[x].cart].item[k] = "done"
        BY <4>1 DEF AppliedShape, LeftBehind
      <4>3. \A k \in Items : cart'[c].item[k] = "done"
        BY <2>4, <4>1, <4>2
      <4> QED
        BY <4>3 DEF AllDone
    <3>3. CASE ~Closed(x)
      BY <1>2, <2>4, <3>1, <3>3, ExecutionDoes
         DEF Refused, Claimed, IsRead, Unread, Started, Applied, Stopped, Applyings
    <3> QED
      BY <3>2, <3>3
  <2> QED
    BY <2>1, <2>2, <2>3, <2>4, CartOf, Numbers
<1> QED
  BY <1>1, <1>2 DEF AppliedShape

-----------------------------------------------------------------------------
(* What is reported succeeded.                                             *)

\* The recovery is past its cart, every item of which is done, and an operator who works on it finds nothing
\* to do.
Sealed(i) ==
  /\ pc[i] \in {"finish", "over", "dead"} /\ AllDone(i)
  /\ Works(Op, i) => pc[Op] = "read" \/ (pc[Op] = "apply" /\ exec[Op].todo = {})

\* Only a recovery whose cart is sealed knows or reports success.
SealShape == \A i \in Recs : result[i] = "done" \/ task[i].status = "succeeded" => Sealed(i)

LEMMA SealStays ==
  ASSUME Types, LiveShape, FreshShape, PcShape, HolderShape, [Next]_vars, NEW i \in Recs, Sealed(i)
  PROVE  Sealed(i)'
<1> i \in Rows \cup {Op} /\ i \in Rows /\ i \in Carts /\ Op \in Carts /\ pc \in [Rows \cup {Op} -> Pcs]
  BY Numbers DEF Types, PcOK
<1>1. ASSUME RecStep(i) PROVE pc'[i] = "over" /\ cart'[i] = cart[i]
  <2>1. Finish(i)
    BY <1>1, ExecutionLives DEF Sealed, RecStep, StepFails, CreateCart, Context, Answer, Executions
  <2> QED
    BY <2>1 DEF Finish, Goto
<1>2. pc'[i] \in {"finish", "over", "dead"}
  <2>1. task[i] # NoRow
    BY DEF Sealed, LiveShape, LiveRow, NoRow
  <2> QED
    BY <1>1, <2>1, Moves DEF RecMoves, Sealed
<1>3. AllDone(i) /\ (Works(Op, i) => pc[Op] = "read" \/ (pc[Op] = "apply" /\ exec[Op].todo = {}))
  BY DEF Sealed
<1>4. ASSUME Execution(Op), exec[Op].cart = i
      PROVE  /\ cart'[i].item = cart[i].item
             /\ Works(Op, i)' => pc'[Op] = "read" \/ (pc'[Op] = "apply" /\ exec'[Op].todo = {})
  <2>1. pc[Op] \in {"execute", "read"} \/ (pc[Op] = "apply" /\ exec[Op].todo = {})
    BY <1>3, <1>4, ExecutionLives DEF Works, Executions, Applyings
  <2>2. \/ Refused(Op) \/ Claimed(Op) \/ IsRead(Op) \/ Unread(Op) \/ Closed(Op)
    BY <1>4, <2>1, ExecutionDoes DEF Started, Applied, Stopped
  <2>3. cart'[i].item = cart[i].item
    BY <1>4, <2>2 DEF Refused, Claimed, IsRead, Unread, Closed
  <2>4. CASE IsRead(Op)
    <3>1. exec'[Op].todo = {k \in Items : cart[i].item[k] # "done"} /\ pc'[Op] = "apply"
      BY <1>4, <2>4 DEF IsRead
    <3>2. exec'[Op].todo = {}
      BY <1>3, <3>1 DEF AllDone
    <3> QED
      BY <2>3, <3>1, <3>2
  <2>5. CASE ~IsRead(Op)
    BY <2>2, <2>3, <2>5 DEF Refused, Claimed, Unread, Closed, Works, Applyings
  <2> QED
    BY <2>4, <2>5
<1>5. AllDone(i)'
  <2>1. CASE Given(i)
    BY <1>3, <2>1 DEF Given, AllDone
  <2>2. CASE cart'[i].item = cart[i].item
    BY <1>3, <2>2 DEF AllDone
  <2> QED
    BY <1>1, <1>4, <2>1, <2>2, CartOf DEF RecStep
<1>6. Works(Op, i)' => pc'[Op] = "read" \/ (pc'[Op] = "apply" /\ exec'[Op].todo = {})
  <2>1. ASSUME NEW c \in Carts, OperatorExecutes(c) PROVE pc'[Op] = "execute"
    BY <2>1 DEF OperatorExecutes, Goto
  <2>2. CASE Execution(Op)
    <3>1. Works(Op, i)' => exec[Op].cart = i
      BY <2>2, ExecutionDoes
         DEF Refused, Claimed, IsRead, Unread, Started, Applied, Stopped, Closed, Works, Applyings
    <3> QED
      BY <1>4, <2>2, <3>1
  <2>3. CASE pc'[Op] = pc[Op] /\ exec'[Op] = exec[Op]
    BY <1>3, <2>3 DEF Works
  <2> QED
    BY <2>1, <2>2, <2>3, Moves DEF OpMoves, Works, Applyings
<1> QED
  BY <1>2, <1>5, <1>6 DEF Sealed

\* A row is reported succeeded by its own recovery, which knows that it is done, or by its batch, which
\* has counted no failure.
LEMMA SucceededNow ==
  ASSUME Types, LiveShape, PcShape, [Next]_vars, NEW r \in Rows,
         task[r].status # "succeeded", task'[r].status = "succeeded"
  PROVE  \/ r \in Recs /\ result[r] = "done"
         \/ r \in Batches /\ EndBatch(r) /\ batch[r].next > Len(Targets) /\ ~batch[r].failed
<1>1. task[r] \in RowType /\ RowStep(r)
  BY RowSteps DEF Types, TaskOK
<1>2. \A s \in {"failed", "gone"} :
        /\ [task[r] EXCEPT !.status = s, !.age = 0].status = s
        /\ [task[r] EXCEPT !.status = s].status = s
  BY <1>1 DEF RowType
<1>3. [task[r] EXCEPT !.known = TRUE, !.age = 0].status = task[r].status
  BY <1>1 DEF RowType
<1>4. \A age : [task[r] EXCEPT !.age = age].status = task[r].status
  BY <1>1 DEF RowType
<1>5. task[r] # NoRow
  BY EnrolledRow
<1> QED
  BY <1>1, <1>2, <1>3, <1>4, <1>5, Zenon DEF RowStep

LEMMA StepSeal ==
  ASSUME Types, LiveShape, FreshShape, PcShape, HolderShape, WorkShape, AppliedShape, SealShape, [Next]_vars
  PROVE  SealShape'
<1> SUFFICES ASSUME NEW i \in Recs, result'[i] = "done" \/ task'[i].status = "succeeded"
             PROVE  Sealed(i)'
  BY DEF SealShape
<1> /\ i \in Rows \cup {Op} /\ i \in Rows /\ i # Op /\ i \notin Batches
    /\ pc \in [Rows \cup {Op} -> Pcs] /\ result \in [Recs -> {"none", "done", "failed"}]
  BY Numbers DEF Types, PcOK, ResultOK
<1>1. CASE result[i] = "done" \/ task[i].status = "succeeded"
  BY <1>1, SealStays DEF SealShape
<1>2. CASE result[i] # "done" /\ result'[i] = "done"
  <2>1. RecStep(i)
    BY <1>2, Moves DEF RecMoves
  <2>2. CASE Answer(i)
    <3>1. pc[i] = "answer" /\ pc'[i] = "finish" /\ cart[i].status = "done" /\ UNCHANGED cart
      BY <1>2, <2>2 DEF Answer, Goto
    <3>2. i \in Carts /\ Living(i)
      BY <3>1, Numbers DEF Living
    <3>3. AllDone(i) /\ ~Works(Op, i)
      BY <3>1, <3>2 DEF AppliedShape, WorkShape
    <3>4. pc'[Op] = pc[Op] /\ exec'[Op] = exec[Op]
      BY <2>1, RecStepOf, Numbers
    <3> QED
      BY <3>1, <3>3, <3>4 DEF Sealed, AllDone, Works
  <2>3. CASE Execution(i)
    <3>1. result' = result \/ result' = [result EXCEPT ![i] = "failed"]
      BY <2>3 DEF Execution, Claim, ReadItems, StartItem, EndItem, CloseCart, Return
    <3> QED
      BY <1>2, <3>1
  <2>4. CASE StepFails(i) \/ CreateCart(i) \/ Context(i) \/ Finish(i)
    BY <1>2, <2>4 DEF StepFails, CreateCart, Context, Finish, Return
  <2> QED
    BY <2>1, <2>2, <2>3, <2>4 DEF RecStep
<1>3. CASE task[i].status # "succeeded" /\ task'[i].status = "succeeded"
  BY <1>3, SucceededNow, SealStays DEF SealShape
<1> QED
  BY <1>1, <1>2, <1>3

\* A recovery of batch b for its n-th target.
ChildOf(b, n, i) == task[i].parent = b /\ task[i].tenant = Targets[n]

\* A batch reported succeeded has sealed carts for all targets; one that counted no failure has them for
\* the targets behind it, but for the child it runs.
BatchShape ==
  \A b \in Batches :
    /\ task[b].status = "succeeded" => \A n \in 1..Len(Targets) : \E i \in Recs : ChildOf(b, n, i) /\ Sealed(i)
    /\ ~batch[b].failed =>
         \A n \in 1..(batch[b].next - 1) :
           \E i \in Recs : ChildOf(b, n, i) /\ (Sealed(i) \/ (pc[b] = "child" /\ batch[b].child = i))

LEMMA SealedChildStays ==
  ASSUME Types, LiveShape, FreshShape, PcShape, HolderShape, [Next]_vars, NEW b, NEW n, NEW i \in Recs,
         ChildOf(b, n, i), Sealed(i)
  PROVE  ChildOf(b, n, i)' /\ Sealed(i)'
<1>1. task[i].status # "none" /\ i \in Rows
  BY Numbers DEF Sealed, LiveShape, LiveRow
<1> QED
  BY <1>1, RowKept, SealStays DEF ChildOf

LEMMA StepBatch ==
  ASSUME Types, LiveShape, FreshShape, PcShape, HolderShape, SealShape, BatchShape, [Next]_vars
  PROVE  BatchShape'
<1> SUFFICES ASSUME NEW b \in Batches
             PROVE  /\ task'[b].status = "succeeded" =>
                         \A n \in 1..Len(Targets) : \E i \in Recs : ChildOf(b, n, i)' /\ Sealed(i)'
                    /\ ~batch'[b].failed =>
                         \A n \in 1..(batch'[b].next - 1) :
                           \E i \in Recs : ChildOf(b, n, i)' /\ (Sealed(i)' \/ (pc'[b] = "child" /\ batch'[b].child = i))
  BY DEF BatchShape
<1> /\ b \in Rows /\ b \in Rows \cup {Op} /\ b \notin Recs
    /\ pc \in [Rows \cup {Op} -> Pcs] /\ batch \in [Batches -> BatchType]
  BY Numbers DEF Types, PcOK, BatchOK
<1>0. batch[b] \in BatchType /\ batch[b].next \in 1..(Len(Targets) + 1) /\ Len(Targets) \in Nat
  BY RecoveryAssumption DEF BatchType
<1>1. ASSUME task'[b].status = "succeeded", NEW n \in 1..Len(Targets)
      PROVE  \E i \in Recs : ChildOf(b, n, i)' /\ Sealed(i)'
  <2>1. CASE task[b].status = "succeeded"
    BY <2>1, SealedChildStays DEF BatchShape
  <2>2. CASE task[b].status # "succeeded"
    <3>1. EndBatch(b) /\ batch[b].next > Len(Targets) /\ ~batch[b].failed
      BY <1>1, <2>2, SucceededNow
    <3>2. pc[b] = "next" /\ n \in 1..(batch[b].next - 1)
      BY <1>0, <3>1 DEF EndBatch
    <3> QED
      BY <3>1, <3>2, SealedChildStays DEF BatchShape
  <2> QED
    BY <2>1, <2>2
<1>2. ASSUME ~batch'[b].failed, NEW n \in 1..(batch'[b].next - 1)
      PROVE  \E i \in Recs : ChildOf(b, n, i)' /\ (Sealed(i)' \/ (pc'[b] = "child" /\ batch'[b].child = i))
  <2>1. CASE batch'[b] = NoBatch
    BY <1>2, <2>1 DEF NoBatch
  <2>2. CASE batch'[b] = batch[b] /\ (pc'[b] = pc[b] \/ pc[b] # "child")
    <3>1. PICK i \in Recs : ChildOf(b, n, i) /\ (Sealed(i) \/ (pc[b] = "child" /\ batch[b].child = i))
      BY <1>2, <2>2 DEF BatchShape
    <3>2. CASE Sealed(i)
      BY <3>1, <3>2, SealedChildStays
    <3>3. CASE pc[b] = "child" /\ batch[b].child = i
      <4>1. i # 0 /\ i \in Rows
        BY Numbers DEF Op
      <4>2. task[i].status # "none"
        BY <3>3, <4>1 DEF PcShape
      <4>3. ChildOf(b, n, i)'
        BY <3>1, <4>1, <4>2, RowKept DEF ChildOf
      <4> QED
        BY <2>2, <3>3, <4>3
    <3> QED
      BY <3>1, <3>2, <3>3
  <2>3. CASE Skip(b)
    <3>1. batch'[b].failed = TRUE
      BY <1>0, <2>3 DEF Skip, BatchType
    <3> QED
      BY <1>2, <3>1
  <2>4. ASSUME NEW j \in Recs, StartChild(b, j)
        PROVE  \E i \in Recs : ChildOf(b, n, i)' /\ (Sealed(i)' \/ (pc'[b] = "child" /\ batch'[b].child = i))
    <3>1. /\ batch'[b].next = batch[b].next + 1 /\ batch'[b].child = j /\ batch'[b].failed = batch[b].failed
          /\ pc[b] = "next" /\ pc'[b] = "child"
      BY <1>0, <2>4, Numbers DEF StartChild, BatchType
    <3>2. CASE n = batch[b].next
      <4>1. PICK t \in Tenants : t = Targets[batch[b].next]
        BY <2>4, BatchTarget DEF StartChild, Types
      <4>2. Begin(t, j, b)
        BY <2>4, <4>1 DEF StartChild, Begin
      <4>3. ChildOf(b, n, j)'
        BY <3>2, <4>1, <4>2, BeginRow DEF ChildOf
      <4> QED
        BY <3>1, <4>3
    <3>3. CASE n # batch[b].next
      <4>1. n \in 1..(batch[b].next - 1)
        BY <1>0, <1>2, <3>1, <3>3
      <4> QED
        BY <1>2, <3>1, <4>1, SealedChildStays DEF BatchShape
    <3> QED
      BY <3>2, <3>3
  <2>5. CASE ChildEnds(b)
    <3>1. /\ batch'[b].next = batch[b].next
          /\ batch'[b].failed = (batch[b].failed \/ result[batch[b].child] # "done")
      BY <1>0, <2>5 DEF ChildEnds, BatchType
    <3>2. ~batch[b].failed /\ result[batch[b].child] = "done"
      BY <1>2, <3>1
    <3>3. PICK i \in Recs : ChildOf(b, n, i) /\ (Sealed(i) \/ (pc[b] = "child" /\ batch[b].child = i))
      BY <1>2, <3>1, <3>2 DEF BatchShape
    <3>4. Sealed(i)
      BY <3>2, <3>3 DEF SealShape
    <3> QED
      BY <3>3, <3>4, SealedChildStays
  <2>6. CASE EndBatch(b)
    BY <2>1, <2>6 DEF EndBatch
  <2>7. CASE task[b] = NoRow /\ batch'[b] = batch[b]
    <3>1. pc[b] = "none"
      <4>1. task[b].status = "none"
        BY <2>7 DEF NoRow
      <4> QED
        BY <4>1 DEF LiveShape, LiveRow
    <3> QED
      BY <2>2, <2>7, <3>1
  <2> QED
    BY <2>1, <2>2, <2>3, <2>4, <2>5, <2>6, <2>7, Moves DEF BatchMoves, BatchStep
<1> QED
  BY <1>1, <1>2

-----------------------------------------------------------------------------
(* The invariant.                                                          *)

\* What holds whatever heartbeats are lost ...
Rows0 == Types /\ LiveShape /\ PcShape /\ RunningOnce
\* ... and what holds while living runs are heard of in time.
Shapes == Rows0 /\ FreshShape /\ HolderShape /\ WorkShape /\ AppliedShape /\ SealShape /\ BatchShape

LEMMA InitShapes == Init => Shapes
<1> SUFFICES ASSUME Init PROVE Shapes
  OBVIOUS
<1>1. /\ \A r \in Rows : task[r] = NoRow /\ task[r].status = "none"
      /\ \A r \in Rows \cup {Op} : pc[r] = "none"
      /\ \A i \in Recs : result[i] = "none"
      /\ \A b \in Batches : batch[b] = NoBatch /\ batch[b].next = 1 /\ batch[b].child = 0
  BY DEF Init, NoRow, NoBatch
<1>2. Types
  <2>1. TaskOK /\ PcOK /\ ResultOK
    BY NothingType DEF Init, TaskOK, PcOK, ResultOK, Pcs
  <2>2. ExecOK /\ BatchOK
    BY NothingType DEF Init, ExecOK, BatchOK
  <2>3. CartOK
    BY NothingType DEF Init, CartOK
  <2>4. LeftOK
    BY RecoveryAssumption DEF Init, LeftOK
  <2> QED
    BY <2>1, <2>2, <2>3, <2>4 DEF Types
<1>3. LiveShape /\ FreshShape /\ PcShape /\ RunningOnce
  BY <1>1, Numbers DEF LiveShape, LiveRow, FreshShape, FreshRow, PcShape, RunningOnce, Living
<1>4. \A c \in Carts : cart[c].status \in {"none", "draft"} /\ (c \in Recs => cart[c].status = "none")
  BY Numbers DEF Init, NoCart, Op
<1>5. HolderShape /\ WorkShape
  BY <1>1, <1>4, Numbers DEF HolderShape, WorkShape, Works, Executions, Applyings
<1>6. AppliedShape
  BY <1>1, <1>4, Numbers DEF AppliedShape, LeftBehind
<1>7. SealShape /\ BatchShape
  BY <1>1, Numbers DEF SealShape, BatchShape
<1> QED
  BY <1>2, <1>3, <1>5, <1>6, <1>7 DEF Shapes, Rows0

LEMMA StepRows0 == Rows0 /\ [Next]_vars => Rows0'
  BY StepTypes, StepLive, StepPcShape, StepRunningOnce DEF Rows0

LEMMA StepShapes ==
  ASSUME BeatsArrive
  PROVE  Shapes /\ [Next]_vars => Shapes'
<1> SUFFICES ASSUME Shapes, [Next]_vars PROVE Shapes'
  OBVIOUS
<1> USE DEF Shapes
<1>1. Rows0'
  BY StepRows0
<1>2. Types /\ LiveShape /\ PcShape
  BY DEF Rows0
<1>3. FreshShape' /\ HolderShape' /\ WorkShape'
  BY <1>2, StepFresh, StepHolder, StepWork
<1>4. AppliedShape' /\ SealShape' /\ BatchShape'
  BY <1>2, StepApplied, StepSeal, StepBatch
<1> QED
  BY <1>1, <1>3, <1>4

LEMMA Shaped ==
  ASSUME BeatsArrive
  PROVE  Spec => []Shapes
<1>1. Shapes /\ [Next]_vars => Shapes'
  BY StepShapes
<1> QED
  BY <1>1, InitShapes, PTL DEF Spec

-----------------------------------------------------------------------------
(* The theorems.                                                           *)

\* TypeOK for every number of tenants, recoveries, batches and troubles, and whatever heartbeats are lost:
\* every variable keeps its type, and enrollRecoveryExclusive leaves at most one active row of a tenant's
\* recoveries, and of the batches.
THEOREM TypeCorrect == Spec => []TypeOK
<1>1. ASSUME Rows0, NEW rows \in {RecsOf(t) : t \in Tenants} \cup {Batches},
             NEW r \in rows, NEW s \in rows, task[r].status = "running", task[s].status = "running"
      PROVE  r = s
  <2>1. CASE rows = Batches
    BY <1>1, <2>1 DEF Rows0, RunningOnce
  <2>2. CASE \E t \in Tenants : rows = RecsOf(t)
    BY <1>1, <2>2 DEF Rows0, RunningOnce, RecsOf
  <2> QED
    BY <1>1, <2>1, <2>2
<1>2. Rows0 => TypeOK
  BY <1>1 DEF TypeOK, Rows0, Types, TaskOK, PcOK, ExecOK, ResultOK, BatchOK, CartOK, LeftOK
<1>3. Init => Rows0
  BY InitShapes DEF Shapes
<1> QED
  BY <1>2, <1>3, StepRows0, PTL DEF Spec

\* OneAtATime for every instance in which a living run misses fewer heartbeats in a row than make its row
\* stale: whatever crashes and rows expired, and whatever recoveries run within requests, at most one living
\* enrolled recovery of a tenant and one living batch.
THEOREM OneRunAtATime ==
  ASSUME BeatsArrive
  PROVE  Spec => []OneAtATime
<1>1. Shapes => OneAtATime
  <2> SUFFICES ASSUME Shapes PROVE OneAtATime
    OBVIOUS
  <2>1. \A r \in Rows : Living(r) => task[r].status \in {"sync", "running"}
    BY DEF Shapes, FreshShape, FreshRow
  <2>2. RunningOnce /\ PcShape
    BY DEF Shapes, Rows0
  <2>3. \A b \in Batches : Living(b) => task[b].status = "running"
    BY <2>1, <2>2, Numbers DEF PcShape
  <2> QED
    BY <2>1, <2>2, <2>3, Numbers DEF RunningOnce, OneAtATime
<1> QED
  BY <1>1, Shaped, PTL

\* SucceededIsApplied for every instance with BeatsArrive: runDrRecoverTask reports a recovery succeeded only
\* with every item of its cart applied, and no operator who executes the cart, meanwhile or later, undoes one.
THEOREM SuccessIsApplied ==
  ASSUME BeatsArrive
  PROVE  Spec => []SucceededIsApplied
<1>1. Shapes => SucceededIsApplied
  BY DEF Shapes, SealShape, Sealed, AllDone, SucceededIsApplied
<1> QED
  BY <1>1, Shaped, PTL

\* BatchRecoveredAll for every list of targets, with BeatsArrive: runBatch reports a batch succeeded only when
\* every target has a recovery of this batch whose cart is applied.
THEOREM BatchSuccessIsAll ==
  ASSUME BeatsArrive
  PROVE  Spec => []BatchRecoveredAll
<1>1. Shapes => BatchRecoveredAll
  BY DEF Shapes, BatchShape, ChildOf, Sealed, AllDone, BatchRecoveredAll
<1> QED
  BY <1>1, Shaped, PTL

-----------------------------------------------------------------------------
(* No recovery is enrolled on top of a restore.                            *)

\* A recovery that is enrolled found no cart of its tenant executing.
LEMMA BeginsAlone ==
  ASSUME Shapes, [Next]_vars, NEW i \in Recs, Begins(i)
  PROVE  task'[i].tenant \in Tenants /\ Executing(task'[i].tenant) = {}
<1> Types /\ LiveShape /\ PcShape /\ i \in Rows /\ i \notin Batches
  BY Numbers DEF Shapes, Rows0
<1>0. pc[i] = "none" /\ pc'[i] = "steps" /\ task'[i].status = "running"
  BY DEF Begins
<1>1. task[i] = NoRow
  BY <1>0, PcSteps DEF PcStep, Living
<1>2. task[i].status = "none"
  BY <1>1 DEF NoRow
<1>3. PICK t \in Tenants, parent \in {0} \cup Batches :
        /\ Executing(t) = {}
        /\ task' = [Reap(RecsOf(t)) EXCEPT ![i] =
                      [NoRow EXCEPT !.status = "running", !.tenant = t, !.parent = parent]]
  BY <1>0, <1>1, <1>2, RunningBefore, Zenon
<1>4. PICK row \in RowType : row = [NoRow EXCEPT !.status = "running", !.tenant = t, !.parent = parent]
  BY NewRowType
<1>5. task' = [Reap(RecsOf(t)) EXCEPT ![i] = row] /\ row.tenant = t
  BY <1>3, <1>4 DEF NoRow
<1>6. task'[i] = row
  BY <1>1, <1>5, ReapThenBegin DEF Types
<1> QED
  BY <1>3, <1>5, <1>6

\* NotOnTopOfARestore for every instance with BeatsArrive: no recovery is enrolled while a living process
\* applies a cart to its tenant, unless an operator executes once more a cart a recovery recorded as its own.
THEOREM BeginsOffRestores ==
  ASSUME BeatsArrive
  PROVE  Spec => NotOnTopOfARestore
<1>1. ASSUME Shapes, [Next]_vars, NEW i \in Recs, Begins(i), NEW x \in Carts, Applying(x, task'[i].tenant)
      PROVE  Retrying(x)
  <2>1. exec[x].cart \in Carts /\ HolderShape /\ WorkShape
    BY <1>1 DEF Shapes, Rows0, Types, ExecOK, ExecType
  <2>2. pc[x] \in Applyings /\ cart[exec[x].cart].status # "executing"
    BY <1>1, <2>1, BeginsAlone DEF Applying, Applyings, Executing
  <2>3. CASE x \in Recs
    BY <2>1, <2>2, <2>3 DEF WorkShape, HolderShape, Applyings, Executions
  <2>4. CASE x = Op
    <3>1. Works(Op, exec[Op].cart)
      BY <2>2, <2>4 DEF Works
    <3>2. exec[Op].cart \in Recs /\ task[exec[Op].cart].known
      BY <2>1, <2>2, <2>4, <3>1 DEF WorkShape
    <3> QED
      BY <2>4, <3>2, Numbers DEF Retrying, Op
  <2> QED
    BY <2>3, <2>4, Numbers
<1>2. Shapes /\ [Next]_vars =>
        [\A i \in Recs : Begins(i) => \A x \in Carts : Applying(x, task'[i].tenant) => Retrying(x)]_vars
  BY <1>1
<1> QED
  BY <1>2, Shaped, PTL DEF Spec, NotOnTopOfARestore

=============================================================================
