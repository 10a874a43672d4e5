------------------------------ MODULE Recovery ------------------------------
(***************************************************************************)
(* Disaster recovery of tenants.  In the background: one recovery of a     *)
(* tenant at a time and one batch at a time, enrolled in the task table    *)
(* under an advisory lock and kept alive there by heartbeats.  Or at once, *)
(* within the request: without a row, a heartbeat or a question to anyone. *)
(* Both apply a restore cart, which operators may execute as well.         *)
(*                                                                         *)
(* A row of the task table is a recovery (Recs) or a batch (Batches); a    *)
(* recovery at once has none, and its entry ("sync") only remembers its    *)
(* tenant.  The cart of recovery i is cart i, and cart 0 is one an         *)
(* operator made.  The executor of carts outside a recovery is process 0.  *)
(* Time is counted in heartbeats.                                          *)
(***************************************************************************)
EXTENDS Integers, FiniteSets, Sequences

CONSTANTS
  Tenants,
  Targets,      \* the tenants of a batch, in its order
  Home,         \* the tenant of the operator's own cart
  NItems,       \* the items of a cart
  StaleAfter,   \* STALE_AFTER_SECONDS, in heartbeats
  MaxMisses,    \* bound: heartbeats of a living run lost in a row
  MaxRecs,      \* bound: recoveries, enrolled or at once
  MaxBatches,   \* bound: batches enrolled
  Troubles      \* bound: crashes, lost writes, expired rows and executions by an operator

ASSUME RecoveryAssumption ==
  /\ Targets \in Seq(Tenants) /\ Home \in Tenants
  /\ {NItems, StaleAfter, MaxMisses, MaxRecs, MaxBatches, Troubles} \subseteq Nat
  /\ StaleAfter > 0

VARIABLES
  task,    \* tasks: status, beats since updated_at, tenant, cartId recorded, parent
  pc,      \* where each run is: a recovery, a batch, or the operator's execution (0)
  exec,    \* what each executor of a cart holds: the cart, the items to do, the one it applies
  result,  \* what each recovery knows of its own outcome
  batch,   \* what each batch holds: the next target, a child, a failure
  cart,    \* restore_jobs and restore_items
  left     \* troubles still allowed

vars == <<task, pc, exec, result, batch, cart, left>>

Recs    == 1..MaxRecs
Batches == (MaxRecs + 1)..(MaxRecs + MaxBatches)
Rows    == Recs \cup Batches
Op      == 0
Carts   == {0} \cup Recs
Items   == 1..NItems
NoTenant == "none"

NoRow  == [status |-> "none", age |-> 0, tenant |-> NoTenant, known |-> FALSE, parent |-> 0]
NoExec == [cart |-> 0, todo |-> {}, item |-> 0]
NoBatch == [next |-> 1, child |-> 0, failed |-> FALSE]
NoCart == [status |-> "none", item |-> [k \in Items |-> "pending"]]

TenantOf(c) == IF c = 0 THEN Home ELSE task[c].tenant
Living(r)   == pc[r] \notin {"none", "over", "dead"}
RecsOf(t)   == {i \in Recs : task[i].tenant = t}
NextRec(i)  == task[i] = NoRow /\ \A j \in Recs : j < i => task[j] # NoRow

Init ==
  /\ task = [r \in Rows |-> NoRow]
  /\ pc = [r \in Rows \cup {Op} |-> "none"]
  /\ exec = [x \in Carts |-> NoExec]
  /\ result = [i \in Recs |-> "none"]
  /\ batch = [b \in Batches |-> NoBatch]
  /\ cart = [c \in Carts |-> IF c = 0 THEN [NoCart EXCEPT !.status = "draft"] ELSE NoCart]
  /\ left = Troubles

Trouble     == left > 0 /\ left' = left - 1
Goto(r, l)  == pc' = [pc EXCEPT ![r] = l]

-----------------------------------------------------------------------------
(* The enrolment: one transaction under the tenant's, or the batch's lock. *)

(* Mutant: only rows that have not begun are failed.                       *)
ReapedUnlessBegun(rows) == {r \in rows : task[r].status = "queued" /\ task[r].age >= StaleAfter}

(* failStaleActive: the active rows not refreshed for too long.            *)
Reaped(rows) == {r \in rows : task[r].status = "running" /\ task[r].age >= StaleAfter}

(* Mutant: rows in flight are not asked for.                               *)
ActiveNever(rows) == FALSE

(* hasActiveTask, after the reaping.                                       *)
Active(rows) == \E r \in rows \ Reaped(rows) : task[r].status = "running"

Reap(rows) == [r \in Rows |-> IF r \in Reaped(rows) THEN [task[r] EXCEPT !.status = "failed", !.age = 0]
                              ELSE task[r]]

Full(rows) == NoRow \notin {task[r] : r \in rows}

Executing(t) == {c \in Carts : cart[c].status = "executing" /\ TenantOf(c) = t}

(* Mutant: a cart no recovery owns counts as abandoned.                    *)
OwnerGoneOrEnded(c, reaped) ==
  c = 0 \/ ~task[c].known \/ c \in reaped \/ task[c].status \in {"succeeded", "failed", "gone"}

(* The recovery that recorded the cart as its own has ended.               *)
OwnerEnded(c, reaped) ==
  c # 0 /\ task[c].known /\ (c \in reaped \/ task[c].status \in {"succeeded", "failed"})

Abandoned(t) == {c \in Executing(t) : OwnerEnded(c, Reaped(RecsOf(t)))}

(* Mutant: the refusal is thrown, so the transaction is rolled back.       *)
FailThenRollBack(carts) == UNCHANGED cart

(* failAbandonedCart, for each of them.                                    *)
FailAbandoned(carts) ==
  cart' = [c \in Carts |->
             IF c \notin carts THEN cart[c]
             ELSE [status |-> "failed",
                   item |-> [k \in Items |-> IF cart[c].item[k] = "applying" THEN "failed"
                                             ELSE cart[c].item[k]]]]

(* enrollRecoveryExclusive refuses: one in flight, a restore executing, or *)
(* once for the carts it found abandoned; what it reaped and failed stays. *)
Refuse(t) ==
  /\ \/ Active(RecsOf(t)) /\ UNCHANGED cart
     \/ /\ ~Active(RecsOf(t))
        /\ Executing(t) \ Abandoned(t) # {}
        /\ \E some \in SUBSET Abandoned(t) : FailAbandoned(some)   \* the scan stops at the first
     \/ /\ ~Active(RecsOf(t))
        /\ Executing(t) # {} /\ Executing(t) = Abandoned(t)
        /\ FailAbandoned(Abandoned(t))
  /\ task' = Reap(RecsOf(t))

(* ... or enrols the next recovery.                                        *)
Begin(t, i, parent) ==
  /\ ~Active(RecsOf(t))
  /\ Executing(t) = {}
  /\ NextRec(i)
  /\ task' = [Reap(RecsOf(t)) EXCEPT ![i] = [NoRow EXCEPT !.status = "running", !.tenant = t,
                                                         !.parent = parent]]
  /\ UNCHANGED cart

(* startDrRecoverTask; past the bound, what a start would reap is reaped.  *)
Ask(t) ==
  /\ \/ Refuse(t) /\ UNCHANGED pc
     \/ \E i \in Recs : Begin(t, i, 0) /\ Goto(i, "steps")
     \/ /\ ~Active(RecsOf(t)) /\ Executing(t) = {} /\ Full(Recs)
        /\ task' = Reap(RecsOf(t))
        /\ UNCHANGED <<pc, cart>>
  /\ UNCHANGED <<exec, result, batch, left>>

(* POST /admin/dr/tenants/:id/recover without `background`: runDrRecover   *)
(* within the request.  recover-all without it, and the import of a        *)
(* migration, send this request for one tenant after the other.            *)
RecoverNow(t) ==
  /\ \E i \in Recs : /\ NextRec(i)
                     /\ task' = [task EXCEPT ![i] = [NoRow EXCEPT !.status = "sync", !.tenant = t]]
                     /\ Goto(i, "steps")
  /\ UNCHANGED <<exec, result, batch, cart, left>>

(* startDrRecoverAllTask                                                   *)
AskAll ==
  /\ \/ Active(Batches) /\ task' = Reap(Batches) /\ UNCHANGED pc
     \/ /\ ~Active(Batches)
        /\ \E b \in Batches :
             /\ task[b] = NoRow /\ \A a \in Batches : a < b => task[a] # NoRow
             /\ task' = [Reap(Batches) EXCEPT ![b] = [NoRow EXCEPT !.status = "running"]]
             /\ Goto(b, "next")
     \/ ~Active(Batches) /\ Full(Batches) /\ task' = Reap(Batches) /\ UNCHANGED pc
  /\ UNCHANGED <<exec, result, batch, cart, left>>

-----------------------------------------------------------------------------
(* A recovery: runDrRecoverTask over runDrRecover, or runDrRecover alone.  *)

(* The end of execute for the one who called it; a recovery that gets an   *)
(* error instead of an answer has failed.                                  *)
Return(x, answered) ==
  IF x = Op THEN Goto(x, "none") /\ exec' = [exec EXCEPT ![x] = NoExec] /\ UNCHANGED result
  ELSE IF answered THEN Goto(x, "answer") /\ UNCHANGED <<exec, result>>
  ELSE /\ Goto(x, "finish")
       /\ exec' = [exec EXCEPT ![x] = NoExec]
       /\ result' = [result EXCEPT ![x] = "failed"]

(* A step throws; the run goes on to record its failure.                   *)
StepFails(i) ==
  /\ pc[i] \in {"steps", "context", "execute"}
  /\ Return(i, FALSE)
  /\ UNCHANGED <<task, batch, cart, left>>

(* Tenant, bundle and provisioning are there: the cart is created ...      *)
CreateCart(i) ==
  /\ pc[i] = "steps"
  /\ cart' = [cart EXCEPT ![i] = [NoCart EXCEPT !.status = "draft"]]
  /\ Goto(i, "context")
  /\ UNCHANGED <<task, exec, result, batch, left>>

(* ... and noted on the row, if there is one, a write that may be lost; it *)
(* refreshes the row.  Then the items are added.                           *)
Context(i) ==
  /\ pc[i] = "context"
  /\ \/ /\ task' = IF task[i].status = "sync" THEN task
                   ELSE [task EXCEPT ![i].known = TRUE, ![i].age = 0]
        /\ UNCHANGED left
     \/ Trouble /\ UNCHANGED task
  /\ Goto(i, "execute")
  /\ exec' = [exec EXCEPT ![i] = [NoExec EXCEPT !.cart = i]]
  /\ UNCHANGED <<result, batch, cart>>

(* The answer of execute: the cart is read once more.                      *)
Answer(i) ==
  /\ pc[i] = "answer"
  /\ result' = [result EXCEPT ![i] = IF cart[i].status = "done" THEN "done" ELSE "failed"]
  /\ exec' = [exec EXCEPT ![i] = NoExec]
  /\ Goto(i, "finish")
  /\ UNCHANGED <<task, batch, cart, left>>

(* Mutant: whatever execute answered, the recovery is reported done.       *)
FinishWithoutStatus(i) ==
  /\ pc[i] = "finish"
  /\ task' = IF task[i].status \in {"gone", "sync"} THEN task
             ELSE [task EXCEPT ![i].status = "succeeded", ![i].age = 0]
  /\ Goto(i, "over")
  /\ UNCHANGED <<exec, result, batch, cart, left>>

(* The outcome is written over whatever the row says; a failed write is    *)
(* only logged.  A recovery at once answers its request instead.           *)
Finish(i) ==
  /\ pc[i] = "finish"
  /\ \/ /\ task' = IF task[i].status \in {"gone", "sync"} THEN task
                   ELSE [task EXCEPT ![i].status = IF result[i] = "done" THEN "succeeded" ELSE "failed",
                                     ![i].age = 0]
        /\ UNCHANGED left
     \/ Trouble /\ UNCHANGED task
  /\ Goto(i, "over")
  /\ result' = [result EXCEPT ![i] = IF task[i].parent = 0 THEN "none" ELSE @]
  /\ UNCHANGED <<exec, batch, cart>>

-----------------------------------------------------------------------------
(* Executing a cart, by a recovery or by an operator.                      *)

(* An operator executes a cart: one of their own, or any a recovery made,  *)
(* which may have ended or not.  (Not while its items are being added:     *)
(* that recovery fails, adding to a cart that is no draft.)                *)
OperatorExecutes(c) ==
  /\ pc[Op] = "none"
  /\ cart[c].status # "none"
  /\ c \in Recs => pc[c] # "context"
  /\ Trouble
  /\ Goto(Op, "execute")
  /\ exec' = [exec EXCEPT ![Op] = [NoExec EXCEPT !.cart = c]]
  /\ UNCHANGED <<task, result, batch, cart>>

(* The claim: a cart already executing is refused.                         *)
Claim(x) ==
  /\ pc[x] = "execute"
  /\ LET c == exec[x].cart IN
       IF cart[c].status = "executing"
       THEN Return(x, FALSE) /\ UNCHANGED cart
       ELSE /\ cart' = [cart EXCEPT ![c].status = "executing"]
            /\ Goto(x, "read")
            /\ UNCHANGED <<exec, result>>
  /\ UNCHANGED <<task, batch, left>>

(* The items are read once; without its pre-restore snapshot the cart is   *)
(* failed.                                                                 *)
ReadItems(x) ==
  /\ pc[x] = "read"
  /\ LET c == exec[x].cart IN
       \/ /\ exec' = [exec EXCEPT ![x].todo = {k \in Items : cart[c].item[k] # "done"}]
          /\ Goto(x, "apply")
          /\ UNCHANGED <<cart, result>>
       \/ /\ cart' = [cart EXCEPT ![c].status = "failed"]
          /\ Return(x, FALSE)
  /\ UNCHANGED <<task, batch, left>>

(* Items not done are applied in order, the first failure is the last.     *)
StartItem(x) ==
  /\ pc[x] = "apply"
  /\ exec[x].todo # {}
  /\ LET k == CHOOSE k \in exec[x].todo : \A l \in exec[x].todo : k <= l IN
       /\ cart' = [cart EXCEPT ![exec[x].cart].item[k] = "applying"]
       /\ exec' = [exec EXCEPT ![x].item = k, ![x].todo = @ \ {k}]
  /\ Goto(x, "item")
  /\ UNCHANGED <<task, result, batch, left>>

EndItem(x) ==
  /\ pc[x] = "item"
  /\ \/ /\ cart' = [cart EXCEPT ![exec[x].cart].item[exec[x].item] = "done"]
        /\ exec' = [exec EXCEPT ![x].item = 0]
        /\ Goto(x, "apply")
     \/ /\ cart' = [cart EXCEPT ![exec[x].cart].item[exec[x].item] = "failed"]
        /\ Goto(x, "stop")
        /\ UNCHANGED exec
  /\ UNCHANGED <<task, result, batch, left>>

(* The cart ends, whatever became of it meanwhile.                         *)
CloseCart(x) ==
  /\ \/ pc[x] = "stop" /\ cart' = [cart EXCEPT ![exec[x].cart].status = "failed"]
     \/ /\ pc[x] = "apply" /\ exec[x].todo = {}
        /\ cart' = [cart EXCEPT ![exec[x].cart].status = "done"]
  /\ Return(x, TRUE)
  /\ UNCHANGED <<task, batch, left>>

-----------------------------------------------------------------------------
(* A batch: runBatch over its targets, one after the other.                *)

(* Mutant: a tenant that was skipped does not count.                       *)
SkipUncounted(b) ==
  /\ pc[b] = "next" /\ batch[b].next <= Len(Targets)
  /\ Refuse(Targets[batch[b].next])
  /\ batch' = [batch EXCEPT ![b].next = @ + 1]
  /\ UNCHANGED <<pc, exec, result, left>>

(* A tenant being recovered or restored is skipped with the reason.        *)
Skip(b) ==
  /\ pc[b] = "next" /\ batch[b].next <= Len(Targets)
  /\ Refuse(Targets[batch[b].next])
  /\ batch' = [batch EXCEPT ![b].next = @ + 1, ![b].failed = TRUE]
  /\ UNCHANGED <<pc, exec, result, left>>

StartChild(b, i) ==
  /\ pc[b] = "next" /\ batch[b].next <= Len(Targets)
  /\ Begin(Targets[batch[b].next], i, b)
  /\ pc' = [pc EXCEPT ![b] = "child", ![i] = "steps"]
  /\ batch' = [batch EXCEPT ![b].next = @ + 1, ![b].child = i]
  /\ UNCHANGED <<exec, result, left>>

(* The child's own outcome counts, not what its row says.                  *)
ChildEnds(b) ==
  /\ pc[b] = "child" /\ pc[batch[b].child] = "over"
  /\ batch' = [batch EXCEPT ![b].child = 0, ![b].failed = @ \/ result[batch[b].child] # "done"]
  /\ result' = [result EXCEPT ![batch[b].child] = "none"]
  /\ Goto(b, "next")
  /\ UNCHANGED <<task, exec, cart, left>>

(* The verdict; when it cannot be written, or an enrolment throws, the     *)
(* batch is recorded as failed, if that can be written.                    *)
EndBatch(b) ==
  /\ pc[b] = "next"
  /\ \/ /\ batch[b].next > Len(Targets)
        /\ task' = IF task[b].status = "gone" THEN task
                   ELSE [task EXCEPT ![b].status = IF batch[b].failed THEN "failed" ELSE "succeeded",
                                     ![b].age = 0]
        /\ UNCHANGED left
     \/ /\ \/ Trouble
           \/ batch[b].next <= Len(Targets) /\ Full(Recs) /\ UNCHANGED left   \* at the bound
        /\ \/ UNCHANGED task
           \/ task' = IF task[b].status = "gone" THEN task
                      ELSE [task EXCEPT ![b].status = "failed", ![b].age = 0]
  /\ Goto(b, "over")
  /\ batch' = [batch EXCEPT ![b] = NoBatch]
  /\ UNCHANGED <<exec, result, cart>>

-----------------------------------------------------------------------------
(* Time, deaths and the retention of the task table.                       *)

(* Mutant: the heartbeat is started with the restore.                      *)
BeatOnceRestoring(lost) ==
  /\ \A r \in lost : Living(r) /\ task[r].age < MaxMisses
  /\ task' = [r \in Rows |->
               IF task[r].status # "running" THEN task[r]
               ELSE [task[r] EXCEPT !.age = IF Living(r) /\ r \notin lost /\ pc[r] # "steps" THEN 0
                                            ELSE IF @ < StaleAfter THEN @ + 1 ELSE @]]
  /\ UNCHANGED <<pc, exec, result, batch, cart, left>>

(* A heartbeat's time: living runs refresh their rows, but for the ones    *)
(* whose write is lost.                                                    *)
Beat(lost) ==
  /\ \A r \in lost : Living(r) /\ task[r].age < MaxMisses
  /\ task' = [r \in Rows |->
               IF task[r].status # "running" THEN task[r]
               ELSE [task[r] EXCEPT !.age = IF Living(r) /\ r \notin lost THEN 0
                                            ELSE IF @ < StaleAfter THEN @ + 1 ELSE @]]
  /\ UNCHANGED <<pc, exec, result, batch, cart, left>>

(* A process dies: a batch takes the recovery it runs along.               *)
Crash(r) ==
  /\ Living(r) /\ (r \in Recs => task[r].parent = 0)
  /\ Trouble
  /\ LET gone == IF r \in Batches /\ batch[r].child # 0 THEN {r, batch[r].child} ELSE {r} IN
       /\ pc' = [s \in DOMAIN pc |-> IF s \in gone THEN "dead" ELSE pc[s]]
       /\ exec' = [x \in Carts |-> IF x \in gone THEN NoExec ELSE exec[x]]
       /\ result' = [i \in Recs |-> IF i \in gone THEN "none" ELSE result[i]]
       /\ batch' = [b \in Batches |-> IF b \in gone THEN NoBatch ELSE batch[b]]
  /\ UNCHANGED <<task, cart>>

(* runRetention deletes rows long ended, and fails the ones it finds       *)
(* running without a sign of life.                                         *)
Expire(r) ==
  /\ ~Living(r)
  /\ task[r].status \in {"succeeded", "failed"}
  /\ Trouble
  /\ task' = [task EXCEPT ![r].status = "gone"]
  /\ UNCHANGED <<pc, exec, result, batch, cart>>

ReapOrphan(r) ==
  /\ ~Living(r)
  /\ task[r].status = "running" /\ task[r].age >= StaleAfter
  /\ Trouble
  /\ task' = [task EXCEPT ![r].status = "failed", ![r].age = 0]
  /\ UNCHANGED <<pc, exec, result, batch, cart>>

-----------------------------------------------------------------------------
Execution(x) == Claim(x) \/ ReadItems(x) \/ StartItem(x) \/ EndItem(x) \/ CloseCart(x)
RecStep(i)   == StepFails(i) \/ CreateCart(i) \/ Context(i) \/ Execution(i) \/ Answer(i) \/ Finish(i)
BatchStep(b) == Skip(b) \/ (\E i \in Recs : StartChild(b, i)) \/ ChildEnds(b) \/ EndBatch(b)
Time         == \E lost \in SUBSET {r \in Rows : Living(r) /\ task[r].status = "running"} : Beat(lost)

Next ==
  \/ \E t \in Tenants : Ask(t) \/ RecoverNow(t)
  \/ AskAll
  \/ \E i \in Recs : RecStep(i)
  \/ \E b \in Batches : BatchStep(b)
  \/ \E c \in Carts : OperatorExecutes(c)
  \/ Execution(Op)
  \/ Time
  \/ \E r \in Rows \cup {Op} : Crash(r)
  \/ \E r \in Rows : Expire(r) \/ ReapOrphan(r)

Spec == Init /\ [][Next]_vars

(* Living runs go on, time passes, and an operator keeps asking.           *)
Fairness ==
  /\ \A t \in Tenants : WF_vars(Ask(t))
  /\ WF_vars(AskAll)
  /\ \A i \in Recs : WF_vars(RecStep(i))
  /\ \A b \in Batches : WF_vars(BatchStep(b))
  /\ WF_vars(Execution(Op))
  /\ WF_vars(Beat({}))

FairSpec == Spec /\ Fairness

-----------------------------------------------------------------------------
(* Properties.                                                             *)

RowType   == [status : {"none", "sync", "running", "succeeded", "failed", "gone"}, age : 0..StaleAfter,
              tenant : Tenants \cup {NoTenant}, known : BOOLEAN, parent : {0} \cup Batches]
Pcs       == {"none", "steps", "context", "execute", "read", "apply", "item", "stop", "answer", "finish",
              "next", "child", "over", "dead"}
ExecType  == [cart : Carts, todo : SUBSET Items, item : {0} \cup Items]
BatchType == [next : 1..(Len(Targets) + 1), child : {0} \cup Recs, failed : BOOLEAN]
CartType  == [status : {"none", "draft", "executing", "done", "failed"},
              item : [Items -> {"pending", "applying", "done", "failed"}]]

(* Every variable has its type, and the table holds at most one active row *)
(* of a tenant's recoveries, and of the batches.                           *)
TypeOK ==
  /\ task \in [Rows -> RowType]
  /\ pc \in [Rows \cup {Op} -> Pcs]
  /\ exec \in [Carts -> ExecType]
  /\ result \in [Recs -> {"none", "done", "failed"}]
  /\ batch \in [Batches -> BatchType]
  /\ cart \in [Carts -> CartType]
  /\ left \in Nat
  /\ \A rows \in {RecsOf(t) : t \in Tenants} \cup {Batches} :
       \A r, s \in rows : task[r].status = "running" /\ task[s].status = "running" => r = s

(* A living run does not miss as many heartbeats as make its row stale.    *)
BeatsArrive == MaxMisses < StaleAfter

(* "Two at once would restore over each other": at most one living         *)
(* recovery of a tenant among the enrolled, and one living batch.          *)
OneAtATime ==
  /\ \A i, j \in Recs :
       /\ Living(i) /\ Living(j) /\ task[i].tenant = task[j].tenant
       /\ "sync" \notin {task[i].status, task[j].status}
       => i = j
  /\ \A a, b \in Batches : Living(a) /\ Living(b) => a = b

(* Process x applies a cart to tenant t.                                   *)
Applying(x, t) == pc[x] \in {"read", "apply", "item", "stop"} /\ TenantOf(exec[x].cart) = t

(* Recovery i is enrolled by this step.                                    *)
Begins(i) == pc[i] = "none" /\ pc'[i] = "steps" /\ task'[i].status = "running"

(* An operator works on a cart that a recovery has recorded as its own.    *)
Retrying(x) == x = Op /\ exec[Op].cart # 0 /\ task[exec[Op].cart].known

(* "A recovery would build a second restore on top of one in flight": none *)
(* is enrolled while a living process applies a cart to its tenant, a      *)
(* recovery at once included; except an operator who executes once more a  *)
(* cart that a recovery has recorded as its own.                           *)
NotOnTopOfARestore ==
  [][\A i \in Recs : Begins(i) =>
       \A x \in Carts : Applying(x, task'[i].tenant) => Retrying(x)]_vars

(* A recovery reported succeeded has applied every item of its cart.       *)
SucceededIsApplied ==
  \A i \in Recs : task[i].status = "succeeded" => \A k \in Items : cart[i].item[k] = "done"

(* A batch reported succeeded has recovered every one of its targets.      *)
BatchRecoveredAll ==
  \A b \in Batches : task[b].status = "succeeded" =>
    \A n \in 1..Len(Targets) :
      \E i \in Recs : /\ task[i].parent = b /\ task[i].tenant = Targets[n]
                      /\ \A k \in Items : cart[i].item[k] = "done"

(* The row of a run that ended without saying so does not block the next:  *)
(* a start that keeps being asked for clears it, so none says running from *)
(* some point on.                                                          *)
EveryRowEnds == \A r \in Rows : []<>(task[r].status # "running")

(* "Refused ONCE": the cart of a recovery that died while restoring stops  *)
(* refusing new ones, unless its owner's row was deleted first, or a cart  *)
(* that no recovery owns is stuck as well.                                 *)
RefusedOnce ==
  \A i \in Recs :
    []<>(\/ pc[i] # "dead" \/ ~task[i].known
         \/ cart[i].status # "executing"
         \/ task[i].status = "gone"
         \/ pc[Op] = "dead"
         \/ \E j \in Recs : pc[j] = "dead" /\ ~task[j].known)

-----------------------------------------------------------------------------
(* What the source says, and the code does not keep.                       *)

(* "One recovery per tenant": at most one living recovery of a tenant,     *)
(* enrolled or at once.                                                    *)
OneRecoveryPerTenant ==
  \A i, j \in Recs : Living(i) /\ Living(j) /\ task[i].tenant = task[j].tenant => i = j

(* "A restore cart of this tenant still `executing` refuses it too": no    *)
(* recovery is enrolled while a living process applies a cart to its       *)
(* tenant, whoever applies it.                                             *)
NeverOnTopOfARestore ==
  [][\A i \in Recs : Begins(i) => \A x \in Carts : ~Applying(x, task'[i].tenant)]_vars
=============================================================================
