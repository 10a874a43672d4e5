------------------------- MODULE TransitionsProofs -------------------------
(***************************************************************************)
(* Proofs about Transitions, for any number of transitions, hooks,         *)
(* attempts, pick-ups and faults.  The invariant TransitionsInv says who   *)
(* may touch what: which party is inside a transition, which holds the     *)
(* tenant's lock, and how the hooks' rows look from each point of a run.   *)
(***************************************************************************)
EXTENDS Transitions, TLAPS

\* The types, one variable each.
RowType     == row \in [Ts -> {"none", "running"} \cup Ended]
HookType    == hook \in [Ts -> [Hooks -> {"absent", "pending", "running", "ok"} \cup Failed]]
LeftType    == left \in [Ts -> [Hooks -> 0..MaxAttempts]]
ResumesType == resumes \in [Ts -> 0..MaxResumes]
PcType      == pc \in [Ts -> {"off", "dead", "insert", "loop", "hook", "drop", "dropOnly", "end"}]
AtType      == at \in [Ts -> 1..(H + 1)]
OutcomeType == outcome \in [Ts -> Ended]
TlockType   == tlock \in 0..N
TenantType  == tenant \in BOOLEAN
SchedType   == sched \in [pc : {"idle", "found", "resume", "resumed", "close", "closed",
                                "retry", "failed?", "pending?", "lift"},
                          t : Ts, h : Hooks, delete : BOOLEAN]
FaultsType  == faults \in 0..MaxFaults

\* Where a run can be.
RunShape ==
  \A t \in Ts :
    /\ pc[t] \in {"insert", "hook"} => at[t] <= H
    /\ pc[t] \in {"off", "dead"} => at[t] = 1 /\ outcome[t] = "completed"
    /\ row[t] = "none" => pc[t] = "off"
    /\ pc[t] = "insert" => row[t] # "completed" /\ outcome[t] = "completed"
    /\ pc[t] \in {"drop", "dropOnly", "end"} => Kind[t] = "delete"
    /\ pc[t] = "hook" => ~Halted(t)

\* Whoever works under the tenant's lock holds it.
LockShape ==
  \A t \in Ts : Alive(t) /\ UnderTenantLock(t) => tlock = t

\* What the tick found still stands.
TickShape ==
  /\ sched.pc # "idle" => row[sched.t] # "none"
  /\ sched.pc = "found" => pc[sched.t] \in {"off", "drop", "dropOnly", "end"}
  /\ sched.pc \in {"resume", "close", "closed"} => pc[sched.t] = "off" /\ tlock = sched.t
  /\ sched.pc \in {"resume", "close"} => row[sched.t] = "running"
  /\ sched.pc = "resume" => resumes[sched.t] < MaxResumes
  /\ sched.pc = "resumed" => pc[sched.t] \in {"loop", "hook", "drop", "end"}
  /\ sched.pc \in {"retry", "failed?", "pending?", "lift"} => pc[sched.t] # "insert"
  /\ sched.delete => Kind[sched.t] = "delete"

\* The rows of the hooks ahead of a first run are as the pre-insert left them.
AheadShape ==
  \A t \in Ts, h \in Hooks :
    /\ row[t] = "none" => hook[t][h] = "absent"
    /\ pc[t] = "insert" /\ h < at[t] => hook[t][h] = "pending"
    /\ pc[t] = "insert" /\ h >= at[t] => hook[t][h] = "absent"
    /\ pc[t] = "loop" /\ ~Resuming(t) /\ h >= at[t] => hook[t][h] = "pending"
    /\ pc[t] = "hook" /\ ~Resuming(t) /\ h > at[t] => hook[t][h] = "pending"

\* A hook inside which somebody is says running, and only one is inside it.
RunnerShape ==
  /\ \A t \in Ts : pc[t] = "hook" => hook[t][at[t]] = "running"
  /\ sched.pc = "retry" =>
       /\ hook[sched.t][sched.h] = "running"
       /\ ~(pc[sched.t] = "hook" /\ at[sched.t] = sched.h)

\* Missing rows are the last ones.
AbsentShape ==
  \A t \in Ts : \A h, j \in Hooks :
    hook[t][h] = "absent" /\ h < j => hook[t][j] = "absent"

\* Behind a run that was not halted every blocking hook is done, or missing.
BehindShape ==
  \A t \in Ts, h \in Abort :
    pc[t] \in {"loop", "hook"} /\ ~Halted(t) /\ h < at[t] => hook[t][h] \in {"ok", "absent"}

\* Nothing is pending behind a run that was not halted, under a row that reads
\* completed, or once the tick has asked.
PendingShape ==
  \A t \in Ts, h \in Hooks :
    /\ pc[t] \in {"loop", "hook"} /\ ~Halted(t) /\ h < at[t] => hook[t][h] # "pending"
    /\ pc[t] \in {"drop", "end"} /\ ~Halted(t) => hook[t][h] # "pending"
    /\ AtTransition(t, {"lift"}) => hook[t][h] # "pending"
    /\ row[t] = "completed" => hook[t][h] # "pending"

TransitionsInv ==
  /\ RowType /\ HookType /\ LeftType /\ ResumesType /\ PcType /\ AtType /\ OutcomeType
  /\ TlockType /\ TenantType /\ SchedType /\ FaultsType
  /\ RunShape /\ LockShape /\ TickShape /\ AheadShape
  /\ RunnerShape /\ AbsentShape /\ BehindShape /\ PendingShape

\* The tick's two ways on keep its type.
LEMMA TickGoesOn ==
  ASSUME SchedType, NEW where \in {"idle", "found", "resume", "resumed", "close", "closed",
                                   "retry", "failed?", "pending?", "lift"}, GoTo(where)
  PROVE  SchedType'
  BY DEF SchedType, GoTo, Tick

\* The tick is over.
LEMMA TickEnds ==
  ASSUME sched' = Idle
  PROVE  SchedType'
  BY TransitionAssumption DEF SchedType, Idle, Tick, Ts, Hooks

\* A request begins: no hook has a row yet, and a delete takes a lock that was free.
LEMMA BeginKeepsInv ==
  ASSUME TransitionsInv, NEW t \in Ts, Begin(t)
  PROVE  TransitionsInv'
<1>1. RowType' /\ PcType' /\ TlockType'
  BY DEF TransitionsInv, RowType, Begin, PcType, TlockType, Ts
<1>2. RunShape'
  BY TransitionAssumption
     DEF TransitionsInv, RunShape, RowType, PcType, AtType, Begin, Halted
<1>3. LockShape'
  BY DEF TransitionsInv, LockShape, PcType, SchedType, RunShape, TickShape, Begin,
         Alive, UnderTenantLock, Resuming, AtTransition, Ts
<1>4. TickShape'
  BY DEF TransitionsInv, TickShape, RowType, PcType, SchedType, Begin, Ts
<1>5. AheadShape'
  BY DEF TransitionsInv, AheadShape, RowType, HookType, PcType, AtType, SchedType,
         RunShape, Begin, Resuming, AtTransition, Ts, Hooks
<1>6. RunnerShape'
  BY DEF TransitionsInv, RunnerShape, HookType, PcType, Begin
<1>7. BehindShape'
  BY DEF TransitionsInv, BehindShape, HookType, PcType, AtType, Begin, Halted
<1>8. PendingShape'
  BY DEF TransitionsInv, PendingShape, RowType, HookType, PcType, AtType, OutcomeType,
         SchedType, Begin, AtTransition, Halted
<1>9. HookType' /\ LeftType' /\ ResumesType' /\ AtType' /\ OutcomeType' /\ TenantType'
      /\ SchedType' /\ FaultsType' /\ AbsentShape'
  BY DEF TransitionsInv, HookType, LeftType, ResumesType, AtType, OutcomeType,
         TenantType, SchedType, FaultsType, AbsentShape, Begin, Failed, Ended
<1> QED
  BY <1>1, <1>2, <1>3, <1>4, <1>5, <1>6, <1>7, <1>8, <1>9 DEF TransitionsInv

\* The rows appear in order, so the missing ones stay the last ones.
LEMMA InsertHookKeepsInv ==
  ASSUME TransitionsInv, NEW t \in Ts, InsertHook(t)
  PROVE  TransitionsInv'
<1>1. HookType'
  BY DEF TransitionsInv, HookType, PcType, AtType, RunShape, InsertHook, Failed, Halted
<1>2. PcType'
  BY DEF TransitionsInv, PcType, InsertHook
<1>3. AtType'
  BY TransitionAssumption DEF TransitionsInv, AtType, RunShape, InsertHook
<1>4. RunShape'
  BY TransitionAssumption
     DEF TransitionsInv, RunShape, RowType, PcType, AtType, InsertHook, Halted
<1>5. LockShape'
  BY DEF TransitionsInv, LockShape, PcType, SchedType, InsertHook, Alive,
         UnderTenantLock, Resuming, AtTransition
<1>6. TickShape'
  BY DEF TransitionsInv, TickShape, RowType, InsertHook
<1>7. AheadShape'
  BY TransitionAssumption
     DEF TransitionsInv, AheadShape, RowType, HookType, PcType, AtType, SchedType,
         RunShape, InsertHook, Resuming, AtTransition, Ts, Hooks
<1>8. RunnerShape'
  BY DEF TransitionsInv, RunnerShape, HookType, PcType, AtType, TickShape, InsertHook
<1>9. AbsentShape'
  <2> SUFFICES ASSUME NEW u \in Ts, NEW h \in Hooks, NEW j \in Hooks,
                      hook'[u][h] = "absent", h < j
               PROVE  hook'[u][j] = "absent"
    BY DEF AbsentShape
  <2>1. CASE u = t
    BY <2>1, TransitionAssumption
       DEF TransitionsInv, AheadShape, HookType, AtType, InsertHook, Hooks
  <2>2. CASE u # t
    BY <2>2 DEF TransitionsInv, AbsentShape, HookType, InsertHook
  <2> QED
    BY <2>1, <2>2
<1>10. BehindShape'
  BY TransitionAssumption
     DEF TransitionsInv, BehindShape, HookType, PcType, AtType, OutcomeType, InsertHook,
         Halted, Hooks
<1>11. PendingShape'
  BY DEF TransitionsInv, PendingShape, RowType, HookType, PcType, AtType, OutcomeType,
         SchedType, TickShape, RunShape, InsertHook, AtTransition, Halted, Hooks
<1>12. RowType' /\ LeftType' /\ ResumesType' /\ OutcomeType' /\ TlockType' /\ TenantType'
      /\ SchedType' /\ FaultsType'
  BY DEF TransitionsInv, RowType, LeftType, ResumesType, OutcomeType, TlockType,
         TenantType, SchedType, FaultsType, InsertHook, Ended
<1> QED
  BY <1>1, <1>2, <1>3, <1>4, <1>5, <1>6, <1>7, <1>8, <1>9, <1>10, <1>11, <1>12
     DEF TransitionsInv

\* What is passed over is missing or ended, or the run was halted already.
LEMMA PassHookKeepsInv ==
  ASSUME TransitionsInv, NEW t \in Ts, PassHook(t)
  PROVE  TransitionsInv'
<1>1. AtType' /\ OutcomeType'
  BY TransitionAssumption
     DEF TransitionsInv, AtType, PassHook, Stands, Worse, Failed, Resuming,
         AtTransition, OutcomeType, Ended
<1>2. RunShape'
  BY DEF TransitionsInv, RunShape, RowType, PcType, AtType, OutcomeType, PassHook,
         Stands, Worse, Failed, Resuming, AtTransition, rowVars, Halted
<1>3. AheadShape'
  BY DEF TransitionsInv, AheadShape, RowType, HookType, PcType, AtType, SchedType,
         RunShape, PassHook, Stands, Worse, Failed, Resuming, AtTransition, Ts, Hooks,
         rowVars
<1>4. RunnerShape'
  BY DEF TransitionsInv, RunnerShape, HookType, PcType, AtType, SchedType, PassHook,
         Stands, Worse, Failed, Resuming, rowVars
<1>5. BehindShape'
  BY TransitionAssumption
     DEF TransitionsInv, BehindShape, HookType, PcType, AtType, OutcomeType, AheadShape,
         PassHook, Stands, Worse, Failed, Resuming, AtTransition, Halted, Ts, Hooks,
         rowVars
<1>6. PendingShape'
  BY DEF TransitionsInv, PendingShape, RowType, HookType, PcType, AtType, OutcomeType,
         SchedType, AheadShape, PassHook, Stands, Worse, Failed, Resuming, AtTransition,
         Halted, Ts, Hooks, rowVars
<1>7. RowType' /\ HookType' /\ LeftType' /\ ResumesType' /\ PcType' /\ TlockType'
      /\ TenantType' /\ SchedType' /\ FaultsType' /\ LockShape' /\ TickShape'
      /\ AbsentShape'
  BY DEF TransitionsInv, RowType, HookType, LeftType, ResumesType, PcType, TlockType,
         TenantType, SchedType, FaultsType, LockShape, TickShape, AbsentShape, PassHook,
         rowVars, Ended, Failed, Alive, UnderTenantLock, Resuming, AtTransition
<1> QED
  BY <1>1, <1>2, <1>3, <1>4, <1>5, <1>6, <1>7 DEF TransitionsInv

\* In a first run the hook was pending, so no retry can be inside it.
LEMMA StartHookKeepsInv ==
  ASSUME TransitionsInv, NEW t \in Ts, StartHook(t)
  PROVE  TransitionsInv'
<1>1. HookType'
  BY DEF TransitionsInv, HookType, PcType, AtType, StartHook, Stands, Failed, Resuming,
         AtTransition
<1>2. LeftType'
  BY TransitionAssumption
     DEF TransitionsInv, LeftType, AtType, PcType, StartHook, Stands, Failed, Resuming,
         AtTransition, Hooks
<1>3. PcType'
  BY DEF TransitionsInv, PcType, StartHook, Stands, Failed
<1>4. RunShape'
  BY DEF TransitionsInv, RunShape, RowType, PcType, AtType, OutcomeType, StartHook,
         Stands, Failed, Resuming, Halted
<1>5. LockShape'
  BY DEF TransitionsInv, LockShape, PcType, SchedType, StartHook, Stands, Failed,
         Resuming, AtTransition, Alive, UnderTenantLock
<1>6. TickShape'
  BY DEF TransitionsInv, TickShape, RowType, PcType, SchedType, StartHook, Stands,
         Failed
<1>7. AheadShape'
  BY DEF TransitionsInv, AheadShape, RowType, HookType, PcType, AtType, SchedType,
         RunShape, StartHook, Stands, Failed, Resuming, AtTransition, Ts, Hooks
<1>8. RunnerShape'
  BY TransitionAssumption
     DEF TransitionsInv, RunnerShape, HookType, PcType, AtType, SchedType, AheadShape,
         StartHook, Stands, Failed, Resuming, AtTransition, Hooks
<1>9. AbsentShape'
  BY DEF TransitionsInv, AbsentShape, HookType, AtType, StartHook, Stands, Failed
<1>10. BehindShape'
  BY DEF TransitionsInv, BehindShape, HookType, PcType, AtType, OutcomeType, StartHook,
         Stands, Failed, Resuming, Halted
<1>11. PendingShape'
  BY DEF TransitionsInv, PendingShape, RowType, HookType, PcType, AtType, OutcomeType,
         SchedType, StartHook, Stands, Failed, Resuming, AtTransition, Halted
<1>12. RowType' /\ ResumesType' /\ AtType' /\ OutcomeType' /\ TlockType' /\ TenantType'
      /\ SchedType' /\ FaultsType'
  BY DEF TransitionsInv, RowType, ResumesType, AtType, OutcomeType, TlockType,
         TenantType, SchedType, FaultsType, StartHook, Ended
<1> QED
  BY <1>1, <1>2, <1>3, <1>4, <1>5, <1>6, <1>7, <1>8, <1>9, <1>10, <1>11, <1>12
     DEF TransitionsInv

\* A blocking hook that fails halts the run: what is behind it stays done.
LEMMA EndHookKeepsInv ==
  ASSUME TransitionsInv, NEW t \in Ts, EndHook(t)
  PROVE  TransitionsInv'
<1>1. HookType' /\ PcType' /\ AtType' /\ OutcomeType'
  BY TransitionAssumption
     DEF TransitionsInv, HookType, PcType, AtType, RunShape, EndHook, After, Results,
         Worse, Failed, Ts, Hooks, OutcomeType, Ended
<1>2. RunShape'
  BY DEF TransitionsInv, RunShape, RowType, PcType, AtType, OutcomeType, EndHook, After,
         Results, Halted
<1>3. LockShape'
  BY DEF TransitionsInv, LockShape, PcType, SchedType, EndHook, After, Results, Worse,
         Alive, UnderTenantLock, Resuming, AtTransition
<1>4. TickShape'
  BY DEF TransitionsInv, TickShape, RowType, PcType, SchedType, EndHook, After
<1>5. AheadShape'
  BY DEF TransitionsInv, AheadShape, RowType, HookType, PcType, AtType, SchedType,
         RunShape, EndHook, After, Results, Worse, Resuming, AtTransition, Ts, Hooks
<1>6. RunnerShape'
  BY DEF TransitionsInv, RunnerShape, HookType, PcType, AtType, SchedType, EndHook,
         After
<1>7. AbsentShape'
  BY DEF TransitionsInv, AbsentShape, HookType, RunnerShape, PcType, AtType, RunShape,
         EndHook, After, Results
<1>8. BehindShape'
  BY TransitionAssumption
     DEF TransitionsInv, BehindShape, HookType, PcType, AtType, OutcomeType, RunShape,
         EndHook, After, Results, Worse, Halted, Hooks
<1>9. PendingShape'
  BY TransitionAssumption
     DEF TransitionsInv, PendingShape, RowType, HookType, PcType, AtType, OutcomeType,
         SchedType, RunShape, EndHook, After, Results, Worse, AtTransition, Halted,
         Hooks
<1>10. RowType' /\ LeftType' /\ ResumesType' /\ TlockType' /\ TenantType' /\ SchedType'
      /\ FaultsType'
  BY DEF TransitionsInv, RowType, LeftType, ResumesType, TlockType, TenantType,
         SchedType, FaultsType, EndHook, Ended
<1> QED
  BY <1>1, <1>2, <1>3, <1>4, <1>5, <1>6, <1>7, <1>8, <1>9, <1>10 DEF TransitionsInv

\* A run that ends completed was not halted, and nothing is pending behind it.
LEMMA ResolveKeepsInv ==
  ASSUME TransitionsInv, NEW t \in Ts, Resolve(t)
  PROVE  TransitionsInv'
<1>1. RowType' /\ PcType' /\ AtType' /\ OutcomeType' /\ TlockType' /\ SchedType'
  BY TransitionAssumption
     DEF TransitionsInv, RowType, OutcomeType, Resolve, Leave, Stop, Idle, Tick,
         UnderTenantLock, Resuming, AtTransition, HoldOpen, Ended, PcType, AtType,
         TlockType, SchedType, Ts, Hooks
<1>2. RunShape'
  BY DEF TransitionsInv, RunShape, RowType, PcType, AtType, OutcomeType, Resolve, Leave,
         Stop, Idle, Tick, UnderTenantLock, Resuming, AtTransition, Halted
<1>3. LockShape'
  BY DEF TransitionsInv, LockShape, PcType, SchedType, Resolve, Leave, Stop, Idle, Tick,
         UnderTenantLock, Resuming, AtTransition, Alive
<1>4. TickShape'
  <2>1. CASE Resuming(t)
    BY <2>1 DEF Resolve, Leave, Idle, Tick, TickShape
  <2>2. CASE ~Resuming(t)
    <3>1. /\ sched' = sched
          /\ pc' = [pc EXCEPT ![t] = "off"]
          /\ row' = row \/ row' = [row EXCEPT ![t] = outcome[t]]
          /\ resumes' = resumes
          /\ tlock' = tlock \/ tlock = t
      BY <2>2 DEF Resolve, Leave, Stop, LockShape, Alive, TransitionsInv
    <3>2. sched.pc # "idle" => sched.t # t \/ sched.pc \in {"retry", "failed?", "pending?", "lift"} \/ (sched.pc = "found" /\ pc[t] = "end")
      BY <2>2 DEF TransitionsInv, TickShape, SchedType, Resolve, Resuming, AtTransition
    <3> QED
      BY <3>1, <3>2 DEF TransitionsInv, TickShape, SchedType, PcType, RowType, OutcomeType, Ended
  <2> QED
    BY <2>1, <2>2
<1>5. AheadShape'
  <2> SUFFICES ASSUME NEW u \in Ts, NEW h \in Hooks
               PROVE  /\ row'[u] = "none" => hook'[u][h] = "absent"
                      /\ pc'[u] = "insert" /\ h < at'[u] => hook'[u][h] = "pending"
                      /\ pc'[u] = "insert" /\ h >= at'[u] => hook'[u][h] = "absent"
                      /\ pc'[u] = "loop" /\ ~Resuming(u)' /\ h >= at'[u] => hook'[u][h] = "pending"
                      /\ pc'[u] = "hook" /\ ~Resuming(u)' /\ h > at'[u] => hook'[u][h] = "pending"
    BY DEF AheadShape
  <2>1. CASE u = t
    BY <2>1 DEF TransitionsInv, AheadShape, RunShape, PcType, RowType, OutcomeType, Ended, Resolve, Leave, Stop
  <2>2. CASE u # t
    BY <2>2 DEF TransitionsInv, AheadShape, PcType, RowType, AtType, Resolve, Leave, Stop,
           Resuming, AtTransition
  <2> QED
    BY <2>1, <2>2
<1>6. RunnerShape'
  BY DEF TransitionsInv, RunnerShape, HookType, PcType, AtType, SchedType, Resolve,
         Leave, Stop, Idle, Tick, UnderTenantLock, Resuming
<1>7. BehindShape'
  BY DEF TransitionsInv, BehindShape, HookType, PcType, AtType, OutcomeType, Resolve,
         Leave, Stop, Idle, Tick, UnderTenantLock, Resuming, AtTransition, Halted
<1>8. PendingShape'
  BY TransitionAssumption
     DEF TransitionsInv, PendingShape, RowType, HookType, PcType, AtType, OutcomeType,
         SchedType, Resolve, Leave, Stop, Idle, Tick, UnderTenantLock, Resuming,
         AtTransition, HoldOpen, Halted, Hooks
<1>9. HookType' /\ LeftType' /\ ResumesType' /\ TenantType' /\ FaultsType' /\ AbsentShape'
  BY DEF TransitionsInv, HookType, LeftType, ResumesType, TenantType, FaultsType,
         AbsentShape, Resolve, Failed, Leave, Stop, Idle, Tick, UnderTenantLock,
         Resuming, AtTransition
<1> QED
  BY <1>1, <1>2, <1>3, <1>4, <1>5, <1>6, <1>7, <1>8, <1>9 DEF TransitionsInv

\* A delete goes on past its last hook, with the tenant's lock in hand.
LEMMA LeaveOpenKeepsInv ==
  ASSUME TransitionsInv, NEW t \in Ts, LeaveOpen(t)
  PROVE  TransitionsInv'
<1>1. PcType'
  BY DEF TransitionsInv, PcType, LeaveOpen, HoldOpen, Resuming
<1>2. RunShape'
  BY DEF TransitionsInv, RunShape, RowType, PcType, AtType, OutcomeType, SchedType,
         TickShape, LeaveOpen, HoldOpen, Resuming, AtTransition, rowVars, Halted
<1>3. LockShape'
  BY DEF TransitionsInv, LockShape, PcType, SchedType, LeaveOpen, HoldOpen, Resuming,
         AtTransition, Alive, UnderTenantLock
<1>4. TickShape'
  BY DEF TransitionsInv, TickShape, RowType, PcType, SchedType, LeaveOpen, HoldOpen,
         Resuming, rowVars
<1>5. AheadShape'
  BY DEF TransitionsInv, AheadShape, RowType, HookType, PcType, AtType, SchedType,
         RunShape, LeaveOpen, HoldOpen, Resuming, AtTransition, rowVars
<1>6. RunnerShape'
  BY DEF TransitionsInv, RunnerShape, HookType, PcType, AtType, SchedType, LeaveOpen,
         HoldOpen, Resuming, rowVars
<1>7. BehindShape'
  BY DEF TransitionsInv, BehindShape, HookType, PcType, AtType, OutcomeType, LeaveOpen,
         HoldOpen, Resuming, AtTransition, Halted, rowVars
<1>8. PendingShape'
  BY TransitionAssumption
     DEF TransitionsInv, PendingShape, RowType, HookType, PcType, AtType, OutcomeType,
         SchedType, LeaveOpen, HoldOpen, Resuming, AtTransition, Halted, Ts, Hooks,
         rowVars
<1>9. RowType' /\ HookType' /\ LeftType' /\ ResumesType' /\ AtType' /\ OutcomeType'
      /\ TlockType' /\ TenantType' /\ SchedType' /\ FaultsType' /\ AbsentShape'
  BY DEF TransitionsInv, RowType, HookType, LeftType, ResumesType, AtType, OutcomeType,
         TlockType, TenantType, SchedType, FaultsType, AbsentShape, LeaveOpen, rowVars,
         Ended, Failed
<1> QED
  BY <1>1, <1>2, <1>3, <1>4, <1>5, <1>6, <1>7, <1>8, <1>9 DEF TransitionsInv

\* The drop touches the tenant alone.
LEMMA DropTenantKeepsInv ==
  ASSUME TransitionsInv, NEW t \in Ts, DropTenant(t)
  PROVE  TransitionsInv'
<1>1. PcType'
  BY DEF TransitionsInv, PcType, DropTenant
<1>2. TenantType'
  BY DEF TransitionsInv, TenantType, DropTenant, Drop, rowVars
<1>3. FaultsType'
  BY TransitionAssumption DEF TransitionsInv, FaultsType, DropTenant, Drop
<1>4. RunShape'
  BY DEF TransitionsInv, RunShape, RowType, PcType, AtType, OutcomeType, DropTenant,
         Drop, rowVars, Halted
<1>5. LockShape'
  BY DEF TransitionsInv, LockShape, PcType, SchedType, DropTenant, Drop, Alive,
         UnderTenantLock, Resuming, AtTransition
<1>6. TickShape'
  BY DEF TransitionsInv, TickShape, RowType, PcType, SchedType, DropTenant, rowVars
<1>7. AheadShape'
  BY DEF TransitionsInv, AheadShape, RowType, HookType, PcType, AtType, SchedType,
         RunShape, DropTenant, Drop, Resuming, AtTransition, rowVars
<1>8. RunnerShape'
  BY DEF TransitionsInv, RunnerShape, HookType, PcType, AtType, SchedType, DropTenant,
         rowVars
<1>9. BehindShape'
  BY DEF TransitionsInv, BehindShape, HookType, PcType, AtType, OutcomeType, DropTenant,
         Drop, Halted, rowVars
<1>10. PendingShape'
  BY DEF TransitionsInv, PendingShape, RowType, HookType, PcType, AtType, OutcomeType,
         SchedType, DropTenant, Drop, AtTransition, Halted, rowVars
<1>11. RowType' /\ HookType' /\ LeftType' /\ ResumesType' /\ AtType' /\ OutcomeType'
      /\ TlockType' /\ SchedType' /\ AbsentShape'
  BY DEF TransitionsInv, RowType, HookType, LeftType, ResumesType, AtType, OutcomeType,
         TlockType, SchedType, AbsentShape, DropTenant, rowVars, Ended, Failed
<1> QED
  BY <1>1, <1>2, <1>3, <1>4, <1>5, <1>6, <1>7, <1>8, <1>9, <1>10, <1>11
     DEF TransitionsInv

\* A delete's row takes the outcome only while it still says running.
LEMMA EndTransitionKeepsInv ==
  ASSUME TransitionsInv, NEW t \in Ts, EndTransition(t)
  PROVE  TransitionsInv'
<1>1. RowType' /\ PcType' /\ AtType' /\ OutcomeType' /\ TlockType' /\ SchedType'
  BY TransitionAssumption
     DEF TransitionsInv, RowType, OutcomeType, EndTransition, Leave, Stop, Idle, Tick,
         UnderTenantLock, Resuming, AtTransition, Ended, PcType, AtType, TlockType,
         SchedType, Ts, Hooks
<1>2. RunShape'
  BY DEF TransitionsInv, RunShape, RowType, PcType, AtType, OutcomeType, EndTransition,
         Leave, Stop, Idle, Tick, UnderTenantLock, Resuming, Halted
<1>3. LockShape'
  BY DEF TransitionsInv, LockShape, PcType, SchedType, EndTransition, Leave, Stop, Idle,
         Tick, UnderTenantLock, Resuming, AtTransition, Alive
<1>4. TickShape'
  <2>1. CASE Resuming(t)
    BY <2>1 DEF EndTransition, Leave, Idle, Tick, TickShape
  <2>2. CASE ~Resuming(t)
    <3>1. /\ sched' = sched
          /\ pc' = [pc EXCEPT ![t] = "off"]
          /\ row' = row \/ row' = [row EXCEPT ![t] = outcome[t]]
          /\ resumes' = resumes
          /\ tlock' = tlock \/ tlock = t
      BY <2>2 DEF EndTransition, Leave, Stop, LockShape, Alive, TransitionsInv
    <3>2. sched.pc # "idle" => sched.t # t \/ sched.pc \in {"retry", "failed?", "pending?", "lift"} \/ (sched.pc = "found" /\ pc[t] = "end")
      BY <2>2 DEF TransitionsInv, TickShape, SchedType, EndTransition, Resuming, AtTransition
    <3> QED
      BY <3>1, <3>2 DEF TransitionsInv, TickShape, SchedType, PcType, RowType, OutcomeType, Ended
  <2> QED
    BY <2>1, <2>2
<1>5. AheadShape'
  <2> SUFFICES ASSUME NEW u \in Ts, NEW h \in Hooks
               PROVE  /\ row'[u] = "none" => hook'[u][h] = "absent"
                      /\ pc'[u] = "insert" /\ h < at'[u] => hook'[u][h] = "pending"
                      /\ pc'[u] = "insert" /\ h >= at'[u] => hook'[u][h] = "absent"
                      /\ pc'[u] = "loop" /\ ~Resuming(u)' /\ h >= at'[u] => hook'[u][h] = "pending"
                      /\ pc'[u] = "hook" /\ ~Resuming(u)' /\ h > at'[u] => hook'[u][h] = "pending"
    BY DEF AheadShape
  <2>1. CASE u = t
    BY <2>1 DEF TransitionsInv, AheadShape, RunShape, PcType, RowType, OutcomeType, Ended, EndTransition, Leave, Stop
  <2>2. CASE u # t
    BY <2>2 DEF TransitionsInv, AheadShape, PcType, RowType, AtType, EndTransition, Leave, Stop,
           Resuming, AtTransition
  <2> QED
    BY <2>1, <2>2
<1>6. RunnerShape'
  BY DEF TransitionsInv, RunnerShape, HookType, PcType, AtType, SchedType,
         EndTransition, Leave, Stop, Idle, Tick, UnderTenantLock
<1>7. BehindShape'
  BY DEF TransitionsInv, BehindShape, HookType, PcType, AtType, OutcomeType,
         EndTransition, Leave, Stop, Idle, Tick, UnderTenantLock, Resuming, Halted
<1>8. PendingShape'
  BY DEF TransitionsInv, PendingShape, RowType, HookType, PcType, AtType, OutcomeType,
         SchedType, EndTransition, Leave, Stop, Idle, Tick, UnderTenantLock, Resuming,
         AtTransition, Halted
<1>9. HookType' /\ LeftType' /\ ResumesType' /\ TenantType' /\ FaultsType' /\ AbsentShape'
  BY DEF TransitionsInv, HookType, LeftType, ResumesType, TenantType, FaultsType,
         AbsentShape, EndTransition, Failed, Leave, Stop, Idle, Tick, UnderTenantLock,
         Resuming, AtTransition
<1> QED
  BY <1>1, <1>2, <1>3, <1>4, <1>5, <1>6, <1>7, <1>8, <1>9 DEF TransitionsInv

\* The delete leaves; its row says running, as before.
LEMMA EndFailsKeepsInv ==
  ASSUME TransitionsInv, NEW t \in Ts, EndFails(t)
  PROVE  TransitionsInv'
<1>1. PcType' /\ AtType' /\ OutcomeType' /\ TlockType' /\ SchedType' /\ FaultsType'
  BY TransitionAssumption
     DEF TransitionsInv, PcType, EndFails, Leave, Stop, Idle, Tick, UnderTenantLock,
         Resuming, AtTransition, rowVars, AtType, OutcomeType, Ended, TlockType,
         SchedType, Ts, Hooks, FaultsType
<1>2. RunShape'
  BY DEF TransitionsInv, RunShape, RowType, PcType, AtType, OutcomeType, EndFails,
         Leave, Stop, Idle, Tick, UnderTenantLock, Resuming, AtTransition, rowVars,
         Halted
<1>3. LockShape'
  BY DEF TransitionsInv, LockShape, PcType, SchedType, EndFails, Leave, Stop, Idle,
         Tick, UnderTenantLock, Resuming, AtTransition, Alive
<1>4. TickShape'
  BY DEF TransitionsInv, TickShape, RowType, PcType, SchedType, LockShape, EndFails,
         Leave, Stop, Idle, Tick, UnderTenantLock, Resuming, AtTransition, Alive,
         rowVars
<1>5. AheadShape'
  BY DEF TransitionsInv, AheadShape, RowType, HookType, PcType, AtType, SchedType,
         RunShape, EndFails, Leave, Stop, Idle, Tick, UnderTenantLock, Resuming,
         AtTransition, rowVars
<1>6. RunnerShape'
  BY DEF TransitionsInv, RunnerShape, HookType, PcType, AtType, SchedType, EndFails,
         Leave, Stop, Idle, Tick, UnderTenantLock, Resuming, rowVars
<1>7. BehindShape'
  BY DEF TransitionsInv, BehindShape, HookType, PcType, AtType, OutcomeType, EndFails,
         Leave, Stop, Idle, Tick, UnderTenantLock, Resuming, AtTransition, Halted,
         rowVars
<1>8. PendingShape'
  BY DEF TransitionsInv, PendingShape, RowType, HookType, PcType, AtType, OutcomeType,
         SchedType, EndFails, Leave, Stop, Idle, Tick, UnderTenantLock, Resuming,
         AtTransition, Halted, rowVars
<1>9. RowType' /\ HookType' /\ LeftType' /\ ResumesType' /\ TenantType' /\ AbsentShape'
  BY DEF TransitionsInv, RowType, HookType, LeftType, ResumesType, TenantType,
         AbsentShape, EndFails, rowVars, Ended, Failed, Leave, Stop, Idle, Tick,
         UnderTenantLock, Resuming, AtTransition
<1> QED
  BY <1>1, <1>2, <1>3, <1>4, <1>5, <1>6, <1>7, <1>8, <1>9 DEF TransitionsInv

\* A run that throws leaves; its hooks' rows stay as they are.
LEMMA DispatchThrowsKeepsInv ==
  ASSUME TransitionsInv, NEW t \in Ts, DispatchThrows(t)
  PROVE  TransitionsInv'
<1>1. PcType' /\ AtType' /\ OutcomeType' /\ TlockType' /\ SchedType' /\ FaultsType'
  BY TransitionAssumption
     DEF TransitionsInv, PcType, DispatchThrows, Leave, Stop, Idle, Tick,
         UnderTenantLock, Resuming, AtTransition, rowVars, AtType, OutcomeType, Ended,
         TlockType, SchedType, Ts, Hooks, FaultsType
<1>2. RunShape'
  BY DEF TransitionsInv, RunShape, RowType, PcType, AtType, OutcomeType, DispatchThrows,
         Leave, Stop, Idle, Tick, UnderTenantLock, Resuming, AtTransition, rowVars,
         Halted
<1>3. LockShape'
  BY DEF TransitionsInv, LockShape, PcType, SchedType, DispatchThrows, Leave, Stop,
         Idle, Tick, UnderTenantLock, Resuming, AtTransition, Alive
<1>4. TickShape'
  BY DEF TransitionsInv, TickShape, RowType, PcType, SchedType, LockShape,
         DispatchThrows, Leave, Stop, Idle, Tick, UnderTenantLock, Resuming,
         AtTransition, Alive, rowVars
<1>5. AheadShape'
  BY DEF TransitionsInv, AheadShape, RowType, HookType, PcType, AtType, SchedType,
         RunShape, DispatchThrows, Leave, Stop, Idle, Tick, UnderTenantLock, Resuming,
         AtTransition, rowVars
<1>6. RunnerShape'
  BY DEF TransitionsInv, RunnerShape, HookType, PcType, AtType, SchedType,
         DispatchThrows, Leave, Stop, Idle, Tick, UnderTenantLock, Resuming, rowVars
<1>7. BehindShape'
  BY DEF TransitionsInv, BehindShape, HookType, PcType, AtType, OutcomeType,
         DispatchThrows, Leave, Stop, Idle, Tick, UnderTenantLock, Resuming,
         AtTransition, Halted, rowVars
<1>8. PendingShape'
  BY DEF TransitionsInv, PendingShape, RowType, HookType, PcType, AtType, OutcomeType,
         SchedType, DispatchThrows, Leave, Stop, Idle, Tick, UnderTenantLock, Resuming,
         AtTransition, Halted, rowVars
<1>9. RowType' /\ HookType' /\ LeftType' /\ ResumesType' /\ TenantType' /\ AbsentShape'
  BY DEF TransitionsInv, RowType, HookType, LeftType, ResumesType, TenantType,
         AbsentShape, DispatchThrows, rowVars, Ended, Failed, Leave, Stop, Idle, Tick,
         UnderTenantLock, Resuming, AtTransition
<1> QED
  BY <1>1, <1>2, <1>3, <1>4, <1>5, <1>6, <1>7, <1>8, <1>9 DEF TransitionsInv

\* A delete that throws keeps the tenant's lock.
LEMMA DeleteThrowsKeepsInv ==
  ASSUME TransitionsInv, NEW t \in Ts, DeleteThrows(t)
  PROVE  TransitionsInv'
<1>1. PcType' /\ FaultsType'
  BY TransitionAssumption
     DEF TransitionsInv, PcType, DeleteThrows, HoldOpen, Resuming, FaultsType
<1>2. RunShape'
  BY DEF TransitionsInv, RunShape, RowType, PcType, AtType, OutcomeType, DeleteThrows,
         HoldOpen, Resuming, AtTransition, rowVars, Halted
<1>3. LockShape'
  BY DEF TransitionsInv, LockShape, PcType, SchedType, DeleteThrows, HoldOpen, Resuming,
         AtTransition, Alive, UnderTenantLock
<1>4. TickShape'
  BY DEF TransitionsInv, TickShape, RowType, PcType, SchedType, DeleteThrows, HoldOpen,
         Resuming, AtTransition, rowVars
<1>5. AheadShape'
  BY DEF TransitionsInv, AheadShape, RowType, HookType, PcType, AtType, SchedType,
         RunShape, DeleteThrows, HoldOpen, Resuming, AtTransition, rowVars
<1>6. RunnerShape'
  BY DEF TransitionsInv, RunnerShape, HookType, PcType, AtType, SchedType, DeleteThrows,
         HoldOpen, Resuming, rowVars
<1>7. BehindShape'
  BY DEF TransitionsInv, BehindShape, HookType, PcType, AtType, OutcomeType,
         DeleteThrows, HoldOpen, Resuming, AtTransition, Halted, rowVars
<1>8. PendingShape'
  BY DEF TransitionsInv, PendingShape, RowType, HookType, PcType, AtType, OutcomeType,
         SchedType, DeleteThrows, HoldOpen, Resuming, AtTransition, Halted, rowVars
<1>9. RowType' /\ HookType' /\ LeftType' /\ ResumesType' /\ AtType' /\ OutcomeType'
      /\ TlockType' /\ TenantType' /\ SchedType' /\ AbsentShape'
  BY DEF TransitionsInv, RowType, HookType, LeftType, ResumesType, AtType, OutcomeType,
         TlockType, TenantType, SchedType, AbsentShape, DeleteThrows, rowVars, Ended,
         Failed
<1> QED
  BY <1>1, <1>2, <1>3, <1>4, <1>5, <1>6, <1>7, <1>8, <1>9 DEF TransitionsInv

\* It leaves after the drop, with no row to end.
LEMMA DropOnlyKeepsInv ==
  ASSUME TransitionsInv, NEW t \in Ts, DropOnly(t)
  PROVE  TransitionsInv'
<1>1. PcType'
  BY DEF TransitionsInv, PcType, DropOnly, Leave, Stop, Idle, Tick, UnderTenantLock,
         Resuming, AtTransition
<1>2. AtType'
  BY TransitionAssumption
     DEF TransitionsInv, AtType, DropOnly, Leave, Stop, Idle, Tick, UnderTenantLock,
         Resuming, AtTransition
<1>3. OutcomeType'
  BY DEF TransitionsInv, OutcomeType, DropOnly, Leave, Stop, Idle, Tick,
         UnderTenantLock, Resuming, AtTransition, Drop, Ended
<1>4. TlockType'
  BY TransitionAssumption
     DEF TransitionsInv, TlockType, DropOnly, Leave, Stop, Idle, Tick, UnderTenantLock,
         Resuming, AtTransition
<1>5. TenantType'
  BY DEF TransitionsInv, TenantType, DropOnly, Leave, Stop, Idle, Tick, UnderTenantLock,
         Resuming, AtTransition, Drop, rowVars
<1>6. SchedType'
  BY TransitionAssumption
     DEF TransitionsInv, SchedType, DropOnly, Leave, Stop, Idle, Tick, UnderTenantLock,
         Resuming, AtTransition, Drop, Ts, Hooks
<1>7. FaultsType'
  BY TransitionAssumption
     DEF TransitionsInv, FaultsType, DropOnly, Leave, Stop, Idle, Tick, UnderTenantLock,
         Resuming, AtTransition, Drop
<1>8. RunShape'
  BY DEF TransitionsInv, RunShape, RowType, PcType, AtType, OutcomeType, DropOnly,
         Leave, Stop, Idle, Tick, UnderTenantLock, Resuming, AtTransition, Drop,
         rowVars, Halted
<1>9. LockShape'
  BY DEF TransitionsInv, LockShape, PcType, SchedType, DropOnly, Leave, Stop, Idle,
         Tick, UnderTenantLock, Resuming, AtTransition, Drop, Alive
<1>10. TickShape'
  BY DEF TransitionsInv, TickShape, RowType, PcType, SchedType, LockShape, DropOnly,
         Leave, Stop, Idle, Tick, UnderTenantLock, Resuming, AtTransition, Drop, Alive,
         rowVars
<1>11. AheadShape'
  BY DEF TransitionsInv, AheadShape, RowType, HookType, PcType, AtType, SchedType,
         RunShape, DropOnly, Leave, Stop, Idle, Tick, UnderTenantLock, Resuming,
         AtTransition, Drop, rowVars
<1>12. RunnerShape'
  BY DEF TransitionsInv, RunnerShape, HookType, PcType, AtType, SchedType, DropOnly,
         Leave, Stop, Idle, Tick, UnderTenantLock, Resuming, AtTransition, rowVars
<1>13. BehindShape'
  BY DEF TransitionsInv, BehindShape, HookType, PcType, AtType, OutcomeType, DropOnly,
         Leave, Stop, Idle, Tick, UnderTenantLock, Resuming, AtTransition, Drop, Halted,
         rowVars
<1>14. PendingShape'
  BY DEF TransitionsInv, PendingShape, RowType, HookType, PcType, AtType, OutcomeType,
         SchedType, DropOnly, Leave, Stop, Idle, Tick, UnderTenantLock, Resuming,
         AtTransition, Drop, Halted, rowVars
<1>15. RowType' /\ HookType' /\ LeftType' /\ ResumesType' /\ AbsentShape'
  BY DEF TransitionsInv, RowType, HookType, LeftType, ResumesType, AbsentShape,
         DropOnly, rowVars, Ended, Failed, Leave, Stop, Idle, Tick, UnderTenantLock,
         Resuming, AtTransition
<1> QED
  BY <1>1, <1>2, <1>3, <1>4, <1>5, <1>6, <1>7, <1>8, <1>9, <1>10, <1>11, <1>12, <1>13,
     <1>14, <1>15 DEF TransitionsInv

\* What the tick finds is off, or a delete past its hooks.
LEMMA FindInterruptedKeepsInv ==
  ASSUME TransitionsInv, NEW t \in Ts, FindInterrupted(t)
  PROVE  TransitionsInv'
<1>1. SchedType'
  BY TransitionAssumption
     DEF TransitionsInv, SchedType, FindInterrupted, Gone, Held, Tick, Ts, Hooks
<1>2. LockShape'
  BY DEF TransitionsInv, LockShape, PcType, SchedType, FindInterrupted, Gone, Held,
         Tick, Alive, UnderTenantLock, Resuming, AtTransition, runVars
<1>3. TickShape'
  BY DEF TransitionsInv, TickShape, RowType, PcType, SchedType, FindInterrupted, Gone,
         Held, Tick, rowVars, runVars
<1>4. AheadShape'
  BY DEF TransitionsInv, AheadShape, RowType, HookType, PcType, AtType, SchedType,
         FindInterrupted, Gone, Held, Tick, Resuming, AtTransition, rowVars, runVars
<1>5. RunnerShape'
  BY DEF TransitionsInv, RunnerShape, HookType, PcType, AtType, SchedType,
         FindInterrupted, Gone, Held, Tick, rowVars, runVars
<1>6. PendingShape'
  BY DEF TransitionsInv, PendingShape, RowType, HookType, PcType, AtType, OutcomeType,
         SchedType, FindInterrupted, Gone, Held, Tick, AtTransition, Halted, rowVars,
         runVars
<1>7. RowType' /\ HookType' /\ LeftType' /\ ResumesType' /\ PcType' /\ AtType'
      /\ OutcomeType' /\ TlockType' /\ TenantType' /\ FaultsType' /\ RunShape'
      /\ AbsentShape' /\ BehindShape'
  BY DEF TransitionsInv, RowType, HookType, LeftType, ResumesType, PcType, AtType,
         OutcomeType, TlockType, TenantType, FaultsType, RunShape, AbsentShape,
         BehindShape, FindInterrupted, rowVars, runVars, Ended, Failed, Halted
<1> QED
  BY <1>1, <1>2, <1>3, <1>4, <1>5, <1>6, <1>7 DEF TransitionsInv

\* The tenant's lock was free, so no delete is still at work on what was found.
LEMMA LookCloseKeepsInv ==
  ASSUME TransitionsInv, NEW t \in Ts, LookClose(t)
  PROVE  TransitionsInv'
<1>1. TlockType' /\ SchedType'
  BY DEF TransitionsInv, TlockType, LookClose, AtTransition, GoTo, Tick, TenantFree, Ts,
         SchedType
<1>2. LockShape'
  BY DEF TransitionsInv, LockShape, PcType, SchedType, LookClose, AtTransition, GoTo,
         Tick, TenantFree, Alive, UnderTenantLock, Resuming, Ts, runVars
<1>3. TickShape'
  BY DEF TransitionsInv, TickShape, RowType, PcType, SchedType, LockShape, RunShape,
         LookClose, AtTransition, GoTo, Tick, TenantFree, Alive, UnderTenantLock,
         Resuming, Ts, rowVars, runVars
<1>4. AheadShape'
  BY DEF TransitionsInv, AheadShape, RowType, HookType, PcType, AtType, SchedType,
         LookClose, AtTransition, GoTo, Tick, TenantFree, Resuming, rowVars, runVars
<1>5. RunnerShape'
  BY DEF TransitionsInv, RunnerShape, HookType, PcType, AtType, SchedType, LookClose,
         AtTransition, GoTo, Tick, TenantFree, rowVars, runVars
<1>6. PendingShape'
  BY DEF TransitionsInv, PendingShape, RowType, HookType, PcType, AtType, OutcomeType,
         SchedType, LookClose, AtTransition, GoTo, Tick, TenantFree, Halted, rowVars,
         runVars
<1>7. RowType' /\ HookType' /\ LeftType' /\ ResumesType' /\ PcType' /\ AtType'
      /\ OutcomeType' /\ TenantType' /\ FaultsType' /\ RunShape' /\ AbsentShape'
      /\ BehindShape'
  BY DEF TransitionsInv, RowType, HookType, LeftType, ResumesType, PcType, AtType,
         OutcomeType, TenantType, FaultsType, RunShape, AbsentShape, BehindShape,
         LookClose, rowVars, runVars, Ended, Failed, Halted
<1> QED
  BY <1>1, <1>2, <1>3, <1>4, <1>5, <1>6, <1>7 DEF TransitionsInv

\* The tenant's lock was free, so no delete is still at work on what was found.
LEMMA LookResumeKeepsInv ==
  ASSUME TransitionsInv, NEW t \in Ts, LookResume(t)
  PROVE  TransitionsInv'
<1>1. TlockType' /\ SchedType'
  BY DEF TransitionsInv, TlockType, LookResume, AtTransition, GoTo, Tick, TenantFree,
         NotFinished, Ts, SchedType
<1>2. LockShape'
  BY DEF TransitionsInv, LockShape, PcType, SchedType, LookResume, AtTransition, GoTo,
         Tick, TenantFree, NotFinished, Alive, UnderTenantLock, Resuming, Ts, runVars
<1>3. TickShape'
  BY TransitionAssumption
     DEF TransitionsInv, TickShape, RowType, PcType, SchedType, LockShape, RunShape,
         ResumesType, LookResume, AtTransition, GoTo, Tick, TenantFree, NotFinished,
         Alive, UnderTenantLock, Resuming, Ts, rowVars, runVars
<1>4. AheadShape'
  BY DEF TransitionsInv, AheadShape, RowType, HookType, PcType, AtType, SchedType,
         LookResume, AtTransition, GoTo, Tick, TenantFree, NotFinished, Resuming,
         rowVars, runVars
<1>5. RunnerShape'
  BY DEF TransitionsInv, RunnerShape, HookType, PcType, AtType, SchedType, LookResume,
         AtTransition, GoTo, Tick, TenantFree, NotFinished, rowVars, runVars
<1>6. PendingShape'
  BY DEF TransitionsInv, PendingShape, RowType, HookType, PcType, AtType, OutcomeType,
         SchedType, LookResume, AtTransition, GoTo, Tick, TenantFree, NotFinished,
         Halted, rowVars, runVars
<1>7. RowType' /\ HookType' /\ LeftType' /\ ResumesType' /\ PcType' /\ AtType'
      /\ OutcomeType' /\ TenantType' /\ FaultsType' /\ RunShape' /\ AbsentShape'
      /\ BehindShape'
  BY DEF TransitionsInv, RowType, HookType, LeftType, ResumesType, PcType, AtType,
         OutcomeType, TenantType, FaultsType, RunShape, AbsentShape, BehindShape,
         LookResume, rowVars, runVars, Ended, Failed, Halted
<1> QED
  BY <1>1, <1>2, <1>3, <1>4, <1>5, <1>6, <1>7 DEF TransitionsInv

\* The tick lets go of what it found.
LEMMA LeaveAloneKeepsInv ==
  ASSUME TransitionsInv, NEW t \in Ts, LeaveAlone(t)
  PROVE  TransitionsInv'
<1>1. SchedType'
  BY TransitionAssumption
     DEF TransitionsInv, SchedType, LeaveAlone, AtTransition, Idle, Tick, Ts, Hooks
<1>2. LockShape'
  BY DEF TransitionsInv, LockShape, PcType, SchedType, LeaveAlone, AtTransition, Idle,
         Tick, Alive, UnderTenantLock, Resuming, runVars
<1>3. TickShape'
  BY DEF TransitionsInv, TickShape, RowType, PcType, SchedType, LeaveAlone,
         AtTransition, Idle, Tick
<1>4. AheadShape'
  BY DEF TransitionsInv, AheadShape, RowType, HookType, PcType, AtType, SchedType,
         LeaveAlone, AtTransition, Idle, Tick, Resuming, rowVars, runVars
<1>5. RunnerShape'
  BY DEF TransitionsInv, RunnerShape, HookType, PcType, AtType, SchedType, LeaveAlone,
         AtTransition, Idle, Tick, rowVars, runVars
<1>6. PendingShape'
  BY DEF TransitionsInv, PendingShape, RowType, HookType, PcType, AtType, OutcomeType,
         SchedType, LeaveAlone, AtTransition, Idle, Tick, Halted, rowVars, runVars
<1>7. RowType' /\ HookType' /\ LeftType' /\ ResumesType' /\ PcType' /\ AtType'
      /\ OutcomeType' /\ TlockType' /\ TenantType' /\ FaultsType' /\ RunShape'
      /\ AbsentShape' /\ BehindShape'
  BY DEF TransitionsInv, RowType, HookType, LeftType, ResumesType, PcType, AtType,
         OutcomeType, TlockType, TenantType, FaultsType, RunShape, AbsentShape,
         BehindShape, LeaveAlone, rowVars, runVars, Ended, Failed, Halted
<1> QED
  BY <1>1, <1>2, <1>3, <1>4, <1>5, <1>6, <1>7 DEF TransitionsInv

\* The run begins at the first hook, with nothing behind it.
LEMMA ResumeKeepsInv ==
  ASSUME TransitionsInv, NEW t \in Ts, Resume(t)
  PROVE  TransitionsInv'
<1>1. ResumesType' /\ PcType' /\ SchedType'
  BY TransitionAssumption
     DEF TransitionsInv, ResumesType, TickShape, Resume, AtTransition, GoTo, Tick,
         PcType, SchedType
<1>2. RunShape'
  BY DEF TransitionsInv, RunShape, RowType, PcType, AtType, OutcomeType, TickShape,
         SchedType, Resume, AtTransition, GoTo, Halted
<1>3. LockShape'
  BY DEF TransitionsInv, LockShape, PcType, SchedType, TickShape, Resume, AtTransition,
         GoTo, Tick, Alive, UnderTenantLock, Resuming
<1>4. TickShape'
  BY DEF TransitionsInv, TickShape, RowType, PcType, SchedType, Resume, AtTransition,
         GoTo, Tick
<1>5. AheadShape'
  BY DEF TransitionsInv, AheadShape, RowType, HookType, PcType, AtType, SchedType,
         TickShape, Resume, AtTransition, GoTo, Tick, Resuming
<1>6. RunnerShape'
  BY DEF TransitionsInv, RunnerShape, HookType, PcType, AtType, SchedType, Resume,
         AtTransition, GoTo, Tick
<1>7. BehindShape'
  BY TransitionAssumption
     DEF TransitionsInv, BehindShape, HookType, PcType, AtType, OutcomeType, TickShape,
         RunShape, SchedType, Resume, AtTransition, GoTo, Tick, Halted, Hooks
<1>8. PendingShape'
  BY DEF TransitionsInv, PendingShape, RowType, HookType, PcType, AtType, OutcomeType,
         SchedType, TickShape, RunShape, Resume, AtTransition, GoTo, Tick, Halted, Hooks
<1>9. RowType' /\ HookType' /\ LeftType' /\ AtType' /\ OutcomeType' /\ TlockType'
      /\ TenantType' /\ FaultsType' /\ AbsentShape'
  BY DEF TransitionsInv, RowType, HookType, LeftType, AtType, OutcomeType, TlockType,
         TenantType, FaultsType, AbsentShape, Resume, Ended, Failed
<1> QED
  BY <1>1, <1>2, <1>3, <1>4, <1>5, <1>6, <1>7, <1>8, <1>9 DEF TransitionsInv

\* The row is closed as failed, never as completed.
LEMMA CloseRowKeepsInv ==
  ASSUME TransitionsInv, NEW t \in Ts, CloseRow(t)
  PROVE  TransitionsInv'
<1>1. RowType' /\ SchedType'
  BY DEF TransitionsInv, RowType, CloseRow, AtTransition, GoTo, Tick, Ended, SchedType
<1>2. RunShape'
  BY DEF TransitionsInv, RunShape, RowType, PcType, AtType, OutcomeType, CloseRow,
         AtTransition, GoTo, Tick, runVars, Halted
<1>3. LockShape'
  BY DEF TransitionsInv, LockShape, PcType, SchedType, CloseRow, AtTransition, GoTo,
         Tick, Alive, UnderTenantLock, Resuming, runVars
<1>4. TickShape'
  BY DEF TransitionsInv, TickShape, RowType, PcType, SchedType, CloseRow, AtTransition,
         GoTo, Tick, runVars
<1>5. AheadShape'
  BY DEF TransitionsInv, AheadShape, RowType, HookType, PcType, AtType, SchedType,
         CloseRow, AtTransition, GoTo, Tick, Resuming, runVars
<1>6. RunnerShape'
  BY DEF TransitionsInv, RunnerShape, HookType, PcType, AtType, SchedType, CloseRow,
         AtTransition, GoTo, Tick, runVars
<1>7. PendingShape'
  BY DEF TransitionsInv, PendingShape, RowType, HookType, PcType, AtType, OutcomeType,
         SchedType, CloseRow, AtTransition, GoTo, Tick, Halted, runVars
<1>8. HookType' /\ LeftType' /\ ResumesType' /\ PcType' /\ AtType' /\ OutcomeType'
      /\ TlockType' /\ TenantType' /\ FaultsType' /\ AbsentShape' /\ BehindShape'
  BY DEF TransitionsInv, HookType, LeftType, ResumesType, PcType, AtType, OutcomeType,
         TlockType, TenantType, FaultsType, AbsentShape, BehindShape, CloseRow, runVars,
         Failed, Ended, Halted
<1> QED
  BY <1>1, <1>2, <1>3, <1>4, <1>5, <1>6, <1>7, <1>8 DEF TransitionsInv

\* Nobody is inside a hook of a transition that is off.
LEMMA CloseHooksKeepsInv ==
  ASSUME TransitionsInv, NEW t \in Ts, CloseHooks(t)
  PROVE  TransitionsInv'
<1>1. HookType' /\ TlockType' /\ SchedType'
  BY TransitionAssumption
     DEF TransitionsInv, HookType, CloseHooks, AtTransition, Idle, Tick, Failed,
         runVars, TlockType, SchedType, Ts, Hooks
<1>2. LockShape'
  BY DEF TransitionsInv, LockShape, PcType, SchedType, TickShape, CloseHooks,
         AtTransition, Idle, Tick, Alive, UnderTenantLock, Resuming, runVars
<1>3. TickShape'
  BY DEF TransitionsInv, TickShape, RowType, PcType, SchedType, CloseHooks,
         AtTransition, Idle, Tick
<1>4. AheadShape'
  BY DEF TransitionsInv, AheadShape, RowType, HookType, PcType, AtType, SchedType,
         TickShape, RunShape, CloseHooks, AtTransition, Idle, Tick, Resuming, runVars
<1>5. RunnerShape'
  BY DEF TransitionsInv, RunnerShape, HookType, PcType, AtType, SchedType, TickShape,
         CloseHooks, AtTransition, Idle, Tick, runVars
<1>6. AbsentShape'
  BY DEF TransitionsInv, AbsentShape, HookType, CloseHooks, AtTransition, Idle
<1>7. BehindShape'
  BY DEF TransitionsInv, BehindShape, HookType, PcType, AtType, OutcomeType, TickShape,
         SchedType, CloseHooks, AtTransition, Idle, Tick, Halted, runVars
<1>8. PendingShape'
  BY DEF TransitionsInv, PendingShape, RowType, HookType, PcType, AtType, OutcomeType,
         SchedType, TickShape, CloseHooks, AtTransition, Idle, Tick, Halted, runVars
<1>9. RowType' /\ LeftType' /\ ResumesType' /\ PcType' /\ AtType' /\ OutcomeType'
      /\ TenantType' /\ FaultsType' /\ RunShape'
  BY DEF TransitionsInv, RowType, LeftType, ResumesType, PcType, AtType, OutcomeType,
         TenantType, FaultsType, RunShape, CloseHooks, runVars, Ended, Halted
<1> QED
  BY <1>1, <1>2, <1>3, <1>4, <1>5, <1>6, <1>7, <1>8, <1>9 DEF TransitionsInv

\* The hook handed back is one that nobody is inside.
LEMMA RequeueKeepsInv ==
  ASSUME TransitionsInv, NEW t \in Ts, NEW h \in Hooks, Requeue(t, h)
  PROVE  TransitionsInv'
<1>1. HookType'
  BY DEF TransitionsInv, HookType, Requeue, HandBack, Failed
<1>2. AheadShape'
  BY DEF TransitionsInv, AheadShape, RowType, HookType, PcType, AtType, SchedType,
         RunShape, Requeue, HandBack, Resuming, AtTransition, runVars
<1>3. RunnerShape'
  BY DEF TransitionsInv, RunnerShape, HookType, PcType, AtType, SchedType, Requeue,
         runVars
<1>4. AbsentShape'
  BY DEF TransitionsInv, AbsentShape, HookType, Requeue
<1>5. BehindShape'
  BY DEF TransitionsInv, BehindShape, HookType, PcType, AtType, OutcomeType, Requeue,
         HandBack, Halted, runVars
<1>6. PendingShape'
  BY DEF TransitionsInv, PendingShape, RowType, HookType, PcType, AtType, OutcomeType,
         SchedType, Requeue, HandBack, AtTransition, Halted, runVars
<1>7. RowType' /\ LeftType' /\ ResumesType' /\ PcType' /\ AtType' /\ OutcomeType'
      /\ TlockType' /\ TenantType' /\ SchedType' /\ FaultsType' /\ RunShape'
      /\ LockShape' /\ TickShape'
  BY DEF TransitionsInv, RowType, LeftType, ResumesType, PcType, AtType, OutcomeType,
         TlockType, TenantType, SchedType, FaultsType, RunShape, LockShape, TickShape,
         Requeue, runVars, Ended, Alive, UnderTenantLock, Resuming, AtTransition, Halted
<1> QED
  BY <1>1, <1>2, <1>3, <1>4, <1>5, <1>6, <1>7 DEF TransitionsInv

\* The hook was queued, so no run is inside it.
LEMMA RetryKeepsInv ==
  ASSUME TransitionsInv, NEW t \in Ts, NEW h \in Hooks, Retry(t, h)
  PROVE  TransitionsInv'
<1>1. HookType' /\ LeftType' /\ SchedType'
  BY TransitionAssumption DEF TransitionsInv, HookType, Retry, Tick, LeftType, SchedType
<1>2. LockShape'
  BY DEF TransitionsInv, LockShape, PcType, SchedType, Retry, Tick, Alive,
         UnderTenantLock, Resuming, AtTransition, runVars
<1>3. TickShape'
  BY DEF TransitionsInv, TickShape, RowType, PcType, SchedType, AheadShape, HookType,
         AtType, Retry, Tick, Resuming, AtTransition, Failed, Ts, Hooks, runVars
<1>4. AheadShape'
  BY DEF TransitionsInv, AheadShape, RowType, HookType, PcType, AtType, SchedType,
         Retry, Tick, Resuming, AtTransition, runVars
<1>5. RunnerShape'
  BY DEF TransitionsInv, RunnerShape, HookType, PcType, AtType, SchedType, Retry, Tick,
         runVars
<1>6. AbsentShape'
  BY DEF TransitionsInv, AbsentShape, HookType, Retry
<1>7. BehindShape'
  BY DEF TransitionsInv, BehindShape, HookType, PcType, AtType, OutcomeType, AheadShape,
         Retry, Tick, Halted, Resuming, runVars
<1>8. PendingShape'
  BY DEF TransitionsInv, PendingShape, RowType, HookType, PcType, AtType, OutcomeType,
         SchedType, Retry, Tick, AtTransition, Halted, runVars
<1>9. RowType' /\ ResumesType' /\ PcType' /\ AtType' /\ OutcomeType' /\ TlockType'
      /\ TenantType' /\ FaultsType' /\ RunShape'
  BY DEF TransitionsInv, RowType, ResumesType, PcType, AtType, OutcomeType, TlockType,
         TenantType, FaultsType, RunShape, Retry, runVars, Ended, Halted
<1> QED
  BY <1>1, <1>2, <1>3, <1>4, <1>5, <1>6, <1>7, <1>8, <1>9 DEF TransitionsInv

\* A result is never pending.
LEMMA EndRetryKeepsInv ==
  ASSUME TransitionsInv, NEW t \in Ts, NEW h \in Hooks, EndRetry(t, h)
  PROVE  TransitionsInv'
<1>1. HookType'
  BY DEF TransitionsInv, HookType, EndRetry, AtTransition, GoTo, Tick, After, Results,
         Idle, Failed
<1>2. SchedType'
  <2>1. CASE GoTo("failed?")
    BY <2>1, TickGoesOn DEF TransitionsInv
  <2>2. CASE sched' = Idle
    BY <2>2, TickEnds
  <2> QED
    BY <2>1, <2>2 DEF EndRetry
<1>3. LockShape'
  BY DEF TransitionsInv, LockShape, PcType, SchedType, EndRetry, AtTransition, GoTo,
         Tick, After, Results, Idle, Alive, UnderTenantLock, Resuming, runVars
<1>4. TickShape'
  BY DEF TransitionsInv, TickShape, RowType, PcType, SchedType, EndRetry, AtTransition,
         GoTo, Tick, After, Results, Idle, runVars
<1>5. AheadShape'
  BY DEF TransitionsInv, AheadShape, RowType, HookType, PcType, AtType, SchedType,
         RunnerShape, EndRetry, AtTransition, GoTo, Tick, After, Results, Idle,
         Resuming, runVars
<1>6. RunnerShape'
  BY DEF TransitionsInv, RunnerShape, HookType, PcType, AtType, SchedType, EndRetry,
         AtTransition, GoTo, Tick, After, Results, Idle, runVars
<1>7. AbsentShape'
  BY DEF TransitionsInv, AbsentShape, HookType, RunnerShape, SchedType, EndRetry,
         AtTransition, GoTo, Tick, After, Results
<1>8. BehindShape'
  BY DEF TransitionsInv, BehindShape, HookType, PcType, AtType, OutcomeType,
         RunnerShape, SchedType, EndRetry, AtTransition, GoTo, Tick, After, Results,
         Idle, Halted, runVars
<1>9. PendingShape'
  BY DEF TransitionsInv, PendingShape, RowType, HookType, PcType, AtType, OutcomeType,
         SchedType, RunnerShape, EndRetry, AtTransition, GoTo, Tick, After, Results,
         Idle, Halted, runVars
<1>10. RowType' /\ LeftType' /\ ResumesType' /\ PcType' /\ AtType' /\ OutcomeType'
      /\ TlockType' /\ TenantType' /\ FaultsType' /\ RunShape'
  BY DEF TransitionsInv, RowType, LeftType, ResumesType, PcType, AtType, OutcomeType,
         TlockType, TenantType, FaultsType, RunShape, EndRetry, runVars, Ended, Halted
<1> QED
  BY <1>1, <1>2, <1>3, <1>4, <1>5, <1>6, <1>7, <1>8, <1>9, <1>10 DEF TransitionsInv

\* The tick asks, and goes on or lets go.
LEMMA AnyFailedKeepsInv ==
  ASSUME TransitionsInv, NEW t \in Ts, AnyFailed(t)
  PROVE  TransitionsInv'
<1>1. SchedType'
  <2>1. CASE GoTo("pending?")
    BY <2>1, TickGoesOn DEF TransitionsInv
  <2>2. CASE sched' = Idle
    BY <2>2, TickEnds
  <2> QED
    BY <2>1, <2>2 DEF AnyFailed
<1>2. LockShape'
  BY DEF TransitionsInv, LockShape, PcType, SchedType, AnyFailed, AtTransition, GoTo,
         Tick, Idle, Alive, UnderTenantLock, Resuming, runVars
<1>3. TickShape'
  BY DEF TransitionsInv, TickShape, RowType, PcType, SchedType, AnyFailed, AtTransition,
         GoTo, Tick, Idle, rowVars, runVars
<1>4. AheadShape'
  BY DEF TransitionsInv, AheadShape, RowType, HookType, PcType, AtType, SchedType,
         AnyFailed, AtTransition, GoTo, Tick, Idle, Resuming, rowVars, runVars
<1>5. RunnerShape'
  BY DEF TransitionsInv, RunnerShape, HookType, PcType, AtType, SchedType, AnyFailed,
         AtTransition, GoTo, Tick, Idle, rowVars, runVars
<1>6. PendingShape'
  BY DEF TransitionsInv, PendingShape, RowType, HookType, PcType, AtType, OutcomeType,
         SchedType, AnyFailed, AtTransition, GoTo, Tick, Idle, Halted, rowVars, runVars
<1>7. RowType' /\ HookType' /\ LeftType' /\ ResumesType' /\ PcType' /\ AtType'
      /\ OutcomeType' /\ TlockType' /\ TenantType' /\ FaultsType' /\ RunShape'
      /\ AbsentShape' /\ BehindShape'
  BY DEF TransitionsInv, RowType, HookType, LeftType, ResumesType, PcType, AtType,
         OutcomeType, TlockType, TenantType, FaultsType, RunShape, AbsentShape,
         BehindShape, AnyFailed, rowVars, runVars, Ended, Failed, Halted
<1> QED
  BY <1>1, <1>2, <1>3, <1>4, <1>5, <1>6, <1>7 DEF TransitionsInv

\* The tick goes on to lift the row only with nothing pending.
LEMMA AnyPendingKeepsInv ==
  ASSUME TransitionsInv, NEW t \in Ts, AnyPending(t)
  PROVE  TransitionsInv'
<1>1. SchedType'
  <2>1. CASE GoTo("lift")
    BY <2>1, TickGoesOn DEF TransitionsInv
  <2>2. CASE sched' = Idle
    BY <2>2, TickEnds
  <2> QED
    BY <2>1, <2>2 DEF AnyPending
<1>2. LockShape'
  BY DEF TransitionsInv, LockShape, PcType, SchedType, AnyPending, AtTransition, GoTo,
         Tick, NoneLeft, Idle, Alive, UnderTenantLock, Resuming, runVars
<1>3. TickShape'
  BY DEF TransitionsInv, TickShape, RowType, PcType, SchedType, AnyPending,
         AtTransition, GoTo, Tick, NoneLeft, Idle, rowVars, runVars
<1>4. AheadShape'
  BY DEF TransitionsInv, AheadShape, RowType, HookType, PcType, AtType, SchedType,
         AnyPending, AtTransition, GoTo, Tick, NoneLeft, Idle, Resuming, rowVars,
         runVars
<1>5. RunnerShape'
  BY DEF TransitionsInv, RunnerShape, HookType, PcType, AtType, SchedType, AnyPending,
         AtTransition, GoTo, Tick, NoneLeft, Idle, rowVars, runVars
<1>6. PendingShape'
  BY DEF TransitionsInv, PendingShape, RowType, HookType, PcType, AtType, OutcomeType,
         SchedType, AnyPending, AtTransition, GoTo, Tick, NoneLeft, Idle, Halted,
         rowVars, runVars
<1>7. RowType' /\ HookType' /\ LeftType' /\ ResumesType' /\ PcType' /\ AtType'
      /\ OutcomeType' /\ TlockType' /\ TenantType' /\ FaultsType' /\ RunShape'
      /\ AbsentShape' /\ BehindShape'
  BY DEF TransitionsInv, RowType, HookType, LeftType, ResumesType, PcType, AtType,
         OutcomeType, TlockType, TenantType, FaultsType, RunShape, AbsentShape,
         BehindShape, AnyPending, rowVars, runVars, Ended, Failed, Halted
<1> QED
  BY <1>1, <1>2, <1>3, <1>4, <1>5, <1>6, <1>7 DEF TransitionsInv

\* The row reads completed; nothing was pending when the tick asked, nor since.
LEMMA LiftKeepsInv ==
  ASSUME TransitionsInv, NEW t \in Ts, Lift(t)
  PROVE  TransitionsInv'
<1>1. RowType' /\ SchedType'
  BY TransitionAssumption
     DEF TransitionsInv, RowType, Lift, AtTransition, Idle, Tick, Ended, runVars,
         SchedType, Ts, Hooks
<1>2. RunShape'
  BY DEF TransitionsInv, RunShape, RowType, PcType, AtType, OutcomeType, TickShape,
         SchedType, Lift, AtTransition, Idle, Tick, runVars, Halted
<1>3. LockShape'
  BY DEF TransitionsInv, LockShape, PcType, SchedType, Lift, AtTransition, Idle, Tick,
         Alive, UnderTenantLock, Resuming, runVars
<1>4. TickShape'
  BY DEF TransitionsInv, TickShape, RowType, PcType, SchedType, Lift, AtTransition,
         Idle, Tick
<1>5. AheadShape'
  BY DEF TransitionsInv, AheadShape, RowType, HookType, PcType, AtType, SchedType, Lift,
         AtTransition, Idle, Tick, Resuming, runVars
<1>6. RunnerShape'
  BY DEF TransitionsInv, RunnerShape, HookType, PcType, AtType, SchedType, Lift,
         AtTransition, Idle, Tick, runVars
<1>7. PendingShape'
  BY DEF TransitionsInv, PendingShape, RowType, HookType, PcType, AtType, OutcomeType,
         SchedType, Lift, AtTransition, Idle, Tick, Halted, runVars
<1>8. HookType' /\ LeftType' /\ ResumesType' /\ PcType' /\ AtType' /\ OutcomeType'
      /\ TlockType' /\ TenantType' /\ FaultsType' /\ AbsentShape' /\ BehindShape'
  BY DEF TransitionsInv, HookType, LeftType, ResumesType, PcType, AtType, OutcomeType,
         TlockType, TenantType, FaultsType, AbsentShape, BehindShape, Lift, runVars,
         Failed, Ended, Halted
<1> QED
  BY <1>1, <1>2, <1>3, <1>4, <1>5, <1>6, <1>7, <1>8 DEF TransitionsInv

\* The hook is handed to the tick: it was failed, so nobody is inside it.
LEMMA OperatorRetryKeepsInv ==
  ASSUME TransitionsInv, NEW t \in Ts, NEW h \in Hooks, OperatorRetry(t, h)
  PROVE  TransitionsInv'
<1>1. HookType' /\ LeftType'
  BY TransitionAssumption DEF TransitionsInv, HookType, OperatorRetry, Failed, LeftType
<1>2. AheadShape'
  BY DEF TransitionsInv, AheadShape, RowType, HookType, PcType, AtType, SchedType,
         OperatorRetry, Failed, Resuming, AtTransition, runVars
<1>3. RunnerShape'
  BY DEF TransitionsInv, RunnerShape, HookType, PcType, AtType, SchedType,
         OperatorRetry, Failed, runVars
<1>4. AbsentShape'
  BY DEF TransitionsInv, AbsentShape, HookType, OperatorRetry, Failed
<1>5. BehindShape'
  BY DEF TransitionsInv, BehindShape, HookType, PcType, AtType, OutcomeType,
         OperatorRetry, Failed, Halted, runVars
<1>6. PendingShape'
  BY DEF TransitionsInv, PendingShape, RowType, HookType, PcType, AtType, OutcomeType,
         SchedType, OperatorRetry, Failed, AtTransition, Halted, runVars
<1>7. RowType' /\ ResumesType' /\ PcType' /\ AtType' /\ OutcomeType' /\ TlockType'
      /\ TenantType' /\ SchedType' /\ FaultsType' /\ RunShape' /\ LockShape'
      /\ TickShape'
  BY DEF TransitionsInv, RowType, ResumesType, PcType, AtType, OutcomeType, TlockType,
         TenantType, SchedType, FaultsType, RunShape, LockShape, TickShape,
         OperatorRetry, runVars, Ended, Alive, UnderTenantLock, Resuming, AtTransition,
         Halted
<1> QED
  BY <1>1, <1>2, <1>3, <1>4, <1>5, <1>6, <1>7 DEF TransitionsInv

\* The run is gone; its hooks' rows stay as they are.
LEMMA CrashRequestKeepsInv ==
  ASSUME TransitionsInv, NEW t \in Ts, CrashRequest(t)
  PROVE  TransitionsInv'
<1>1. PcType' /\ AtType' /\ OutcomeType' /\ FaultsType'
  BY TransitionAssumption
     DEF TransitionsInv, PcType, CrashRequest, Alive, Dies, Stop, Held, Resuming,
         AtTransition, AtType, OutcomeType, Ended, FaultsType
<1>2. RunShape'
  BY DEF TransitionsInv, RunShape, RowType, PcType, AtType, OutcomeType, CrashRequest,
         Alive, Dies, Stop, Held, Resuming, AtTransition, rowVars, Halted
<1>3. LockShape'
  BY DEF TransitionsInv, LockShape, PcType, SchedType, CrashRequest, Alive, Dies, Stop,
         Held, Resuming, AtTransition, UnderTenantLock
<1>4. TickShape'
  BY DEF TransitionsInv, TickShape, RowType, PcType, SchedType, CrashRequest, Alive,
         Dies, Stop, Held, Resuming, AtTransition, rowVars
<1>5. AheadShape'
  BY DEF TransitionsInv, AheadShape, RowType, HookType, PcType, AtType, SchedType,
         RunShape, CrashRequest, Alive, Dies, Stop, Held, Resuming, AtTransition,
         rowVars
<1>6. RunnerShape'
  BY DEF TransitionsInv, RunnerShape, HookType, PcType, AtType, SchedType, CrashRequest,
         Alive, Dies, Stop, Held, Resuming, rowVars
<1>7. BehindShape'
  BY DEF TransitionsInv, BehindShape, HookType, PcType, AtType, OutcomeType,
         CrashRequest, Alive, Dies, Stop, Held, Resuming, AtTransition, Halted, rowVars
<1>8. PendingShape'
  BY DEF TransitionsInv, PendingShape, RowType, HookType, PcType, AtType, OutcomeType,
         SchedType, CrashRequest, Alive, Dies, Stop, Held, Resuming, AtTransition,
         Halted, rowVars
<1>9. RowType' /\ HookType' /\ LeftType' /\ ResumesType' /\ TlockType' /\ TenantType'
      /\ SchedType' /\ AbsentShape'
  BY DEF TransitionsInv, RowType, HookType, LeftType, ResumesType, TlockType,
         TenantType, SchedType, AbsentShape, CrashRequest, rowVars, Ended, Failed, Dies,
         Stop
<1> QED
  BY <1>1, <1>2, <1>3, <1>4, <1>5, <1>6, <1>7, <1>8, <1>9 DEF TransitionsInv

\* The tick is gone, and the run it was finishing with it.
LEMMA CrashSchedulerKeepsInv ==
  ASSUME TransitionsInv, CrashScheduler
  PROVE  TransitionsInv'
<1>1. PcType'
  BY DEF TransitionsInv, PcType, CrashScheduler, Dies, Stop, Held, Idle, Tick, runVars
<1>2. AtType'
  BY TransitionAssumption
     DEF TransitionsInv, AtType, CrashScheduler, Dies, Stop, Held, Idle, Tick, runVars
<1>3. OutcomeType'
  BY DEF TransitionsInv, OutcomeType, CrashScheduler, Dies, Stop, Held, Idle, Tick,
         Ended, runVars
<1>4. SchedType'
  BY TransitionAssumption
     DEF TransitionsInv, SchedType, CrashScheduler, Dies, Stop, Held, Idle, Tick, Ts,
         Hooks
<1>5. FaultsType'
  BY TransitionAssumption
     DEF TransitionsInv, FaultsType, CrashScheduler, Dies, Stop, Held, Idle, Tick
<1>6. RunShape'
  BY DEF TransitionsInv, RunShape, RowType, PcType, AtType, OutcomeType, TickShape,
         SchedType, CrashScheduler, Dies, Stop, Held, Idle, Tick, rowVars, runVars,
         Halted
<1>7. LockShape'
  BY DEF TransitionsInv, LockShape, PcType, SchedType, TickShape, CrashScheduler, Dies,
         Stop, Held, Idle, Tick, Alive, UnderTenantLock, Resuming, AtTransition, runVars
<1>8. TickShape'
  BY DEF TransitionsInv, TickShape, RowType, PcType, SchedType, CrashScheduler, Dies,
         Stop, Held, Idle, Tick
<1>9. AheadShape'
  <2>1. CASE sched.pc = "resumed"
    <3>1. \A u \in Ts : u # sched.t => ~Resuming(u)
      BY DEF Resuming, AtTransition
    <3> QED
      BY <2>1, <3>1 DEF TransitionsInv, AheadShape, PcType, AtType, SchedType, CrashScheduler,
             Dies, Stop, rowVars
  <2>2. CASE sched.pc # "resumed"
    BY <2>2 DEF TransitionsInv, AheadShape, CrashScheduler, rowVars, runVars, Resuming, AtTransition
  <2> QED
    BY <2>1, <2>2
<1>10. RunnerShape'
  BY DEF TransitionsInv, RunnerShape, HookType, PcType, AtType, SchedType,
         CrashScheduler, Dies, Stop, Held, Idle, Tick, rowVars, runVars
<1>11. BehindShape'
  BY DEF TransitionsInv, BehindShape, HookType, PcType, AtType, OutcomeType, SchedType,
         CrashScheduler, Dies, Stop, Held, Idle, Tick, Halted, rowVars, runVars
<1>12. PendingShape'
  <2>1. CASE sched.pc = "resumed"
    BY <2>1 DEF TransitionsInv, PendingShape, PcType, AtType, OutcomeType, SchedType,
           CrashScheduler, Dies, Stop, Idle, Tick, rowVars, Halted, AtTransition
  <2>2. CASE sched.pc # "resumed"
    BY <2>2 DEF TransitionsInv, PendingShape, CrashScheduler, Idle, Tick, rowVars, runVars,
           Halted, AtTransition
  <2> QED
    BY <2>1, <2>2
<1>13. RowType' /\ HookType' /\ LeftType' /\ ResumesType' /\ TlockType' /\ TenantType'
      /\ AbsentShape'
  BY DEF TransitionsInv, RowType, HookType, LeftType, ResumesType, TlockType,
         TenantType, AbsentShape, CrashScheduler, rowVars, runVars, Ended, Failed, Dies,
         Stop
<1> QED
  BY <1>1, <1>2, <1>3, <1>4, <1>5, <1>6, <1>7, <1>8, <1>9, <1>10, <1>11, <1>12, <1>13
     DEF TransitionsInv

\* A dead run's lock goes; nobody was working under it.
LEMMA LockLapsesKeepsInv ==
  ASSUME TransitionsInv, NEW t \in Ts, LockLapses(t)
  PROVE  TransitionsInv'
<1>1. PcType'
  BY DEF TransitionsInv, PcType, LockLapses
<1>2. RunShape'
  BY DEF TransitionsInv, RunShape, RowType, PcType, AtType, OutcomeType, LockLapses,
         rowVars, Halted
<1>3. LockShape'
  BY DEF TransitionsInv, LockShape, PcType, SchedType, LockLapses, Alive,
         UnderTenantLock, Resuming, AtTransition
<1>4. TickShape'
  BY DEF TransitionsInv, TickShape, RowType, PcType, LockLapses, rowVars
<1>5. AheadShape'
  BY DEF TransitionsInv, AheadShape, RowType, HookType, PcType, AtType, SchedType,
         RunShape, LockLapses, Resuming, AtTransition, rowVars
<1>6. RunnerShape'
  BY DEF TransitionsInv, RunnerShape, HookType, PcType, AtType, LockLapses, rowVars
<1>7. BehindShape'
  BY DEF TransitionsInv, BehindShape, HookType, PcType, AtType, OutcomeType, LockLapses,
         Halted, rowVars
<1>8. PendingShape'
  BY DEF TransitionsInv, PendingShape, RowType, HookType, PcType, AtType, OutcomeType,
         SchedType, LockLapses, AtTransition, Halted, rowVars
<1>9. RowType' /\ HookType' /\ LeftType' /\ ResumesType' /\ AtType' /\ OutcomeType'
      /\ TlockType' /\ TenantType' /\ SchedType' /\ FaultsType' /\ AbsentShape'
  BY DEF TransitionsInv, RowType, HookType, LeftType, ResumesType, AtType, OutcomeType,
         TlockType, TenantType, SchedType, FaultsType, AbsentShape, LockLapses, rowVars,
         Ended, Failed
<1> QED
  BY <1>1, <1>2, <1>3, <1>4, <1>5, <1>6, <1>7, <1>8, <1>9 DEF TransitionsInv

\* The tenant's lock goes only when nobody alive holds it.
LEMMA TenantLockLapsesKeepsInv ==
  ASSUME TransitionsInv, TenantLockLapses
  PROVE  TransitionsInv'
<1>1. TlockType'
  BY TransitionAssumption
     DEF TransitionsInv, TlockType, TenantLockLapses, AtTransition, Alive
<1>2. LockShape'
  BY DEF TransitionsInv, LockShape, PcType, SchedType, TenantLockLapses, AtTransition,
         Alive, UnderTenantLock, Resuming, runVars
<1>3. TickShape'
  BY DEF TransitionsInv, TickShape, RowType, PcType, SchedType, TenantLockLapses,
         AtTransition, Alive, rowVars, runVars
<1>4. RowType' /\ HookType' /\ LeftType' /\ ResumesType' /\ PcType' /\ AtType'
      /\ OutcomeType' /\ TenantType' /\ SchedType' /\ FaultsType' /\ RunShape'
      /\ AheadShape' /\ RunnerShape' /\ AbsentShape' /\ BehindShape' /\ PendingShape'
  BY DEF TransitionsInv, RowType, HookType, LeftType, ResumesType, PcType, AtType,
         OutcomeType, TenantType, SchedType, FaultsType, RunShape, AheadShape,
         RunnerShape, AbsentShape, BehindShape, PendingShape, TenantLockLapses, rowVars,
         runVars, Ended, Failed, Resuming, AtTransition, Halted
<1> QED
  BY <1>1, <1>2, <1>3, <1>4 DEF TransitionsInv

-----------------------------------------------------------------------------
\* Before any transition has begun.
LEMMA InitInv == Init => TransitionsInv
<1> SUFFICES ASSUME Init PROVE TransitionsInv
  OBVIOUS
<1> USE TransitionAssumption DEF Init, Idle, Tick
<1>1. RowType /\ HookType /\ LeftType /\ ResumesType
  BY DEF RowType, HookType, LeftType, ResumesType, Ended, Failed
<1>2. PcType /\ AtType /\ OutcomeType
  BY DEF PcType, AtType, OutcomeType, Ended
<1>3. TlockType /\ TenantType /\ FaultsType
  BY DEF TlockType, TenantType, FaultsType
<1>4. SchedType
  BY DEF SchedType, Ts, Hooks
<1>5. RunShape /\ LockShape
  BY DEF RunShape, LockShape, Alive, Halted
<1>6. TickShape /\ RunnerShape
  BY DEF TickShape, RunnerShape
<1>7. AheadShape /\ AbsentShape
  BY DEF AheadShape, AbsentShape
<1>8. BehindShape /\ PendingShape
  BY DEF BehindShape, PendingShape, AtTransition
<1> QED
  BY <1>1, <1>2, <1>3, <1>4, <1>5, <1>6, <1>7, <1>8 DEF TransitionsInv

\* Every step, of whichever party, keeps the invariant.
LEMMA StepInv == TransitionsInv /\ [Next]_vars => TransitionsInv'
<1> SUFFICES ASSUME TransitionsInv, [Next]_vars PROVE TransitionsInv'
  OBVIOUS
<1>1. CASE UNCHANGED vars
  <2>1. /\ RowType' /\ HookType' /\ LeftType' /\ ResumesType' /\ PcType' /\ AtType'
        /\ OutcomeType' /\ TlockType' /\ TenantType' /\ SchedType' /\ FaultsType'
    BY <1>1 DEF vars, TransitionsInv, RowType, HookType, LeftType, ResumesType, PcType, AtType,
           OutcomeType, TlockType, TenantType, SchedType, FaultsType
  <2>2. RunShape' /\ LockShape' /\ TickShape'
    BY <1>1 DEF vars, TransitionsInv, RunShape, LockShape, TickShape, Alive, UnderTenantLock,
           Resuming, AtTransition, Halted
  <2>3. AheadShape' /\ RunnerShape' /\ AbsentShape'
    BY <1>1 DEF vars, TransitionsInv, AheadShape, RunnerShape, AbsentShape, Resuming, AtTransition
  <2>4. BehindShape' /\ PendingShape'
    BY <1>1 DEF vars, TransitionsInv, BehindShape, PendingShape, Halted, AtTransition
  <2> QED
    BY <2>1, <2>2, <2>3, <2>4 DEF TransitionsInv
<1>2. ASSUME NEW t \in Ts, Begin(t) \/ Dispatch(t) \/ DispatchThrows(t) \/ DeleteThrows(t) \/ EndFails(t)
      PROVE  TransitionsInv'
  BY <1>2, BeginKeepsInv, InsertHookKeepsInv, PassHookKeepsInv, StartHookKeepsInv, EndHookKeepsInv,
     ResolveKeepsInv, LeaveOpenKeepsInv, DropTenantKeepsInv, DropOnlyKeepsInv,
     EndTransitionKeepsInv, DispatchThrowsKeepsInv, DeleteThrowsKeepsInv, EndFailsKeepsInv
     DEF Dispatch
<1>3. ASSUME NEW t \in Ts, FindInterrupted(t) \/ PickUp(t) \/ AfterRetry(t)
      PROVE  TransitionsInv'
  BY <1>3, FindInterruptedKeepsInv, LookCloseKeepsInv, LookResumeKeepsInv, LeaveAloneKeepsInv,
     ResumeKeepsInv, CloseRowKeepsInv, CloseHooksKeepsInv, EndRetryKeepsInv, AnyFailedKeepsInv,
     AnyPendingKeepsInv, LiftKeepsInv
     DEF PickUp, AfterRetry
<1>4. ASSUME NEW t \in Ts, CrashRequest(t) \/ LockLapses(t)
      PROVE  TransitionsInv'
  BY <1>4, CrashRequestKeepsInv, LockLapsesKeepsInv
<1>5. ASSUME NEW t \in Ts, NEW h \in Hooks, Requeue(t, h) \/ Retry(t, h) \/ OperatorRetry(t, h)
      PROVE  TransitionsInv'
  BY <1>5, RequeueKeepsInv, RetryKeepsInv, OperatorRetryKeepsInv
<1>6. CASE CrashScheduler \/ TenantLockLapses
  BY <1>6, CrashSchedulerKeepsInv, TenantLockLapsesKeepsInv
<1> QED
  BY <1>1, <1>2, <1>3, <1>4, <1>5, <1>6 DEF Next

\* The invariant holds in every behaviour of the three parties.
THEOREM InvariantHolds == Spec => []TransitionsInv
  BY InitInv, StepInv, PTL DEF Spec

\* Every variable keeps its type: no counter leaves its range, no run its list
\* of hooks.
THEOREM TransitionsTypeCorrect == Spec => []TypeOK
<1>1. TransitionsInv => TypeOK
  BY DEF TransitionsInv, TypeOK, RowType, HookType, LeftType, ResumesType, PcType,
         AtType, OutcomeType, TlockType, TenantType, SchedType, FaultsType
<1> QED
  BY <1>1, InvariantHolds, PTL

\* The dispatcher runs no hook before every blocking hook ahead of it has
\* succeeded (the loop of runLocked): blocking hooks behind the run are done or
\* missing, and none ahead of a hook that is there is missing.
THEOREM BlockingHooksComeFirst == Spec => []BlockedUntilDone
<1>1. TransitionsInv => BlockedUntilDone
  <2> SUFFICES ASSUME TransitionsInv, NEW t \in Ts, pc[t] = "hook", NEW h \in Abort, h < at[t]
               PROVE  hook[t][h] = "ok"
    BY DEF BlockedUntilDone
  <2>1. h \in Hooks /\ at[t] \in Hooks
    BY TransitionAssumption DEF TransitionsInv, RunShape, AtType, Hooks
  <2>2. hook[t][h] \in {"ok", "absent"}
    BY DEF TransitionsInv, BehindShape, RunShape
  <2>3. hook[t][at[t]] = "running"
    BY DEF TransitionsInv, RunnerShape
  <2>4. hook[t][h] # "absent"
    BY <2>1, <2>3 DEF TransitionsInv, AbsentShape
  <2> QED
    BY <2>2, <2>4
<1> QED
  BY <1>1, InvariantHolds, PTL

\* The dispatcher and the retry tick are never inside the same hook of the same
\* transition, although the tick takes neither lock (scheduler.ts).
THEOREM HooksHaveOneRunner == Spec => []OneRunnerPerHook
<1>1. TransitionsInv => OneRunnerPerHook
  BY DEF TransitionsInv, RunnerShape, OneRunnerPerHook, AtTransition
<1> QED
  BY <1>1, InvariantHolds, PTL

\* What the pick-up saw under the tenant's lock is still so when it acts on it
\* (claim in finishTransition).
THEOREM PickUpIsNotStale == Spec => []PickUpActsOnTheTruth
<1>1. TransitionsInv => PickUpActsOnTheTruth
  BY DEF TransitionsInv, TickShape, PickUpActsOnTheTruth, AtTransition, Held
<1> QED
  BY <1>1, InvariantHolds, PTL

\* A transition that reads completed has no hook waiting for its turn, whichever
\* of the dispatcher and the retry tick wrote the word (runRetryTick).
THEOREM CompletedMeansNonePending == Spec => []CompletedLeavesNothingPending
<1>1. TransitionsInv => CompletedLeavesNothingPending
  BY DEF TransitionsInv, PendingShape, CompletedLeavesNothingPending, NoneLeft
<1> QED
  BY <1>1, InvariantHolds, PTL

\* No step of any party touches a hook that ended well.
LEMMA StepKeepsDone ==
  ASSUME TransitionsInv, [Next]_vars, NEW u \in Ts, NEW j \in Hooks, hook[u][j] = "ok"
  PROVE  hook'[u][j] = "ok"
<1> USE DEF TransitionsInv, HookType
<1>1. ASSUME NEW t \in Ts, InsertHook(t) PROVE hook'[u][j] = "ok"
  BY <1>1 DEF InsertHook, AheadShape, RunShape, AtType, Hooks
<1>2. ASSUME NEW t \in Ts, StartHook(t) PROVE hook'[u][j] = "ok"
  BY <1>2 DEF StartHook, Stands, AheadShape, AtType, Hooks
<1>3. ASSUME NEW t \in Ts, EndHook(t) PROVE hook'[u][j] = "ok"
  BY <1>3 DEF EndHook, RunnerShape
<1>4. ASSUME NEW t \in Ts, CloseHooks(t) PROVE hook'[u][j] = "ok"
  BY <1>4 DEF CloseHooks
<1>5. ASSUME NEW t \in Ts, NEW h \in Hooks, Requeue(t, h) PROVE hook'[u][j] = "ok"
  BY <1>5 DEF Requeue
<1>6. ASSUME NEW t \in Ts, NEW h \in Hooks, Retry(t, h) PROVE hook'[u][j] = "ok"
  BY <1>6 DEF Retry
<1>7. ASSUME NEW t \in Ts, EndRetry(t, sched.h) PROVE hook'[u][j] = "ok"
  BY <1>7 DEF EndRetry, RunnerShape, AtTransition
<1>8. ASSUME NEW t \in Ts, NEW h \in Hooks, OperatorRetry(t, h) PROVE hook'[u][j] = "ok"
  BY <1>8 DEF OperatorRetry, Failed
<1>9. CASE UNCHANGED hook
  BY <1>9
<1>10. ASSUME NEW t \in Ts, Dispatch(t) PROVE hook'[u][j] = "ok"
  BY <1>1, <1>2, <1>3, <1>9, <1>10
     DEF Dispatch, PassHook, Resolve, LeaveOpen, DropTenant, DropOnly, EndTransition, rowVars
<1>11. ASSUME NEW t \in Ts, PickUp(t) \/ AfterRetry(t) PROVE hook'[u][j] = "ok"
  BY <1>4, <1>7, <1>9, <1>11
     DEF PickUp, AfterRetry, LookClose, LookResume, LeaveAlone, Resume, CloseRow, EndRetry,
         AnyFailed, AnyPending, Lift, rowVars
<1>12. ASSUME NEW t \in Ts, \/ Begin(t) \/ DispatchThrows(t) \/ DeleteThrows(t) \/ EndFails(t)
                            \/ FindInterrupted(t) \/ CrashRequest(t) \/ LockLapses(t)
       PROVE  hook'[u][j] = "ok"
  BY <1>9, <1>12 DEF Begin, DispatchThrows, DeleteThrows, EndFails, FindInterrupted, CrashRequest,
                     LockLapses, rowVars
<1> QED
  BY <1>5, <1>6, <1>8, <1>9, <1>10, <1>11, <1>12
     DEF Next, vars, CrashScheduler, TenantLockLapses, rowVars

\* A hook that ended is never run again: the run that finishes a transition for
\* a dead process passes over it, and a retry takes only what failed
\* (resumeTransitionId in dispatcher.ts).
THEOREM FinishedHooksStand == Spec => DoneStaysDone
<1>1. TransitionsInv /\ [Next]_vars =>
        [\A t \in Ts, h \in Hooks : hook[t][h] = "ok" => hook'[t][h] = "ok"]_vars
  BY StepKeepsDone
<1> QED
  BY <1>1, InvariantHolds, PTL DEF Spec, DoneStaysDone

-----------------------------------------------------------------------------
(* The pick-up and the transitions that come after.                        *)

\* Every later transition is a delete, which waits for the tenant's lock.
LaterWait == \A t, u \in Ts : t < u => Kind[u] = "delete"

\* The transition the pick-up has decided to finish, or finishes, is the tenant's last.
LatestShape ==
  \A t \in Ts : AtTransition(t, {"resume", "resumed"}) => \A u \in Ts : u > t => row[u] = "none"

\* A row appears only when its transition begins.
LEMMA OnlyBeginInserts ==
  ASSUME TransitionsInv, [Next]_vars, NEW u \in Ts, row[u] = "none", ~Begin(u)
  PROVE  row'[u] = "none"
<1> USE DEF TransitionsInv, RowType
<1>1. pc[u] = "off" /\ (sched.pc # "idle" => sched.t # u)
  BY DEF RunShape, TickShape
<1>2. CASE UNCHANGED row
  BY <1>2
<1>3. ASSUME NEW t \in Ts, Begin(t) PROVE row'[u] = "none"
  BY <1>3 DEF Begin
<1>4. ASSUME NEW t \in Ts, Dispatch(t) PROVE row'[u] = "none"
  BY <1>1, <1>2, <1>4
     DEF Dispatch, InsertHook, PassHook, StartHook, EndHook, Resolve, LeaveOpen, DropTenant, DropOnly,
         EndTransition, rowVars
<1>5. ASSUME NEW t \in Ts, PickUp(t) \/ AfterRetry(t) PROVE row'[u] = "none"
  BY <1>1, <1>2, <1>5
     DEF PickUp, AfterRetry, LookClose, LookResume, LeaveAlone, Resume, CloseRow, CloseHooks, EndRetry,
         AnyFailed, AnyPending, Lift, AtTransition, rowVars
<1>6. ASSUME NEW t \in Ts, \/ DispatchThrows(t) \/ DeleteThrows(t) \/ EndFails(t)
                           \/ FindInterrupted(t) \/ CrashRequest(t) \/ LockLapses(t)
      PROVE  row'[u] = "none"
  BY <1>2, <1>6 DEF DispatchThrows, DeleteThrows, EndFails, FindInterrupted, CrashRequest, LockLapses, rowVars
<1> QED
  BY <1>2, <1>3, <1>4, <1>5, <1>6
     DEF Next, vars, CrashScheduler, TenantLockLapses, Requeue, Retry, OperatorRetry, rowVars

\* The tick comes to finishing a transition by its look under the tenant's lock, and only so.
LEMMA OnlyLookDecides ==
  ASSUME TransitionsInv, [Next]_vars, NEW t \in Ts, AtTransition(t, {"resume", "resumed"})'
  PROVE  AtTransition(t, {"resume", "resumed"}) \/ LookResume(t)
<1> USE DEF TransitionsInv
<1>1. CASE UNCHANGED sched \/ sched' = Idle
  BY <1>1 DEF AtTransition, Idle, Tick
<1>2. ASSUME NEW u \in Ts, Dispatch(u) PROVE UNCHANGED sched \/ sched' = Idle
  BY <1>2 DEF Dispatch, InsertHook, PassHook, StartHook, EndHook, Resolve, LeaveOpen, DropTenant, DropOnly,
              EndTransition, Leave, Stop
<1>3. ASSUME NEW u \in Ts, PickUp(u)
      PROVE  AtTransition(t, {"resume", "resumed"}) \/ LookResume(t)
  <2>1. CASE LookResume(u)
    <3>1. u = t
      BY <2>1 DEF LookResume, AtTransition, GoTo, Tick
    <3> QED
      BY <2>1, <3>1
  <2>2. CASE Resume(u)
    BY <2>2 DEF Resume, AtTransition, GoTo, Tick
  <2>3. CASE LookClose(u) \/ LeaveAlone(u) \/ CloseRow(u) \/ CloseHooks(u)
    BY <2>3 DEF LookClose, LeaveAlone, CloseRow, CloseHooks, AtTransition, GoTo, Tick, Idle
  <2> QED
    BY <1>3, <2>1, <2>2, <2>3 DEF PickUp
<1>4. ASSUME NEW u \in Ts, AfterRetry(u) PROVE FALSE
  BY <1>4 DEF AfterRetry, EndRetry, AnyFailed, AnyPending, Lift, AtTransition, GoTo, Tick, Idle
<1>5. ASSUME NEW u \in Ts, \/ Begin(u) \/ DispatchThrows(u) \/ DeleteThrows(u) \/ EndFails(u)
                           \/ CrashRequest(u) \/ LockLapses(u)
      PROVE  UNCHANGED sched \/ sched' = Idle
  BY <1>5 DEF Begin, DispatchThrows, DeleteThrows, EndFails, CrashRequest, LockLapses, Leave, Stop
<1>6. ASSUME NEW u \in Ts, FindInterrupted(u) \/ (\E h \in Hooks : Retry(u, h)) PROVE FALSE
  BY <1>6 DEF FindInterrupted, Retry, AtTransition, Tick
<1> QED
  BY <1>1, <1>2, <1>3, <1>4, <1>5, <1>6 DEF Next, vars, CrashScheduler, TenantLockLapses, Requeue, OperatorRetry

LEMMA StepLatest ==
  ASSUME LaterWait, TransitionsInv, LatestShape, [Next]_vars
  PROVE  LatestShape'
<1> SUFFICES ASSUME NEW t \in Ts, AtTransition(t, {"resume", "resumed"})', NEW u \in Ts, u > t
             PROVE  row'[u] = "none"
  BY DEF LatestShape
<1>1. CASE LookResume(t)
  BY <1>1 DEF LookResume, NotFinished, rowVars
<1>2. CASE AtTransition(t, {"resume", "resumed"})
  <2>1. row[u] = "none"
    BY <1>2 DEF LatestShape
  <2>2. tlock = t
    <3>1. CASE sched.pc = "resume"
      BY <1>2, <3>1 DEF AtTransition, TransitionsInv, TickShape
    <3>2. CASE sched.pc = "resumed"
      BY <1>2, <3>2
         DEF AtTransition, TransitionsInv, TickShape, LockShape, Alive, UnderTenantLock, Resuming
    <3> QED
      BY <1>2, <3>1, <3>2 DEF AtTransition
  <2>3. ~Begin(u)
    <3>1. Kind[u] = "delete" /\ t # 0
      BY DEF LaterWait, Ts
    <3> QED
      BY <2>2, <3>1 DEF Begin
  <2> QED
    BY <2>1, <2>3, OnlyBeginInserts
<1> QED
  BY <1>1, <1>2, OnlyLookDecides

\* PickUpRunsTheLatest for a tenant whose later transitions wait for the tenant's lock, as a delete does: the
\* pick-up (finishTransition) never runs a transition's hooks once a later transition has begun.
THEOREM PickUpIsTheLatest ==
  ASSUME LaterWait
  PROVE  Spec => []PickUpRunsTheLatest
<1>1. Init => LatestShape
  BY DEF Init, LatestShape, AtTransition, Idle, Tick
<1>2. TransitionsInv /\ LatestShape /\ [Next]_vars => LatestShape'
  BY StepLatest
<1>3. LatestShape => PickUpRunsTheLatest
  BY DEF LatestShape, PickUpRunsTheLatest, Resuming, AtTransition
<1> QED
  BY <1>1, <1>2, <1>3, InvariantHolds, PTL DEF Spec
=============================================================================
