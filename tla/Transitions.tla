---------------------------- MODULE Transitions ----------------------------
(***************************************************************************)
(* The lifecycle transitions of one tenant (backend/src/modules/           *)
(* tenant-lifecycle).  A transition is a row and one row per hook.  Three  *)
(* parties work on these rows and no transaction spans two statements:     *)
(*                                                                         *)
(*  - the dispatcher (registry/dispatcher.ts) runs the hooks one after the *)
(*    other in the process of the request, under the transition's lock;    *)
(*  - the pick-up (interrupted-transitions.ts) finishes, or closes, a      *)
(*    transition whose process is gone, under the tenant's lock;           *)
(*  - the retry tick (scheduler.ts) runs failed hooks again, under neither *)
(*    lock.  It and the pick-up are one job of one replica and take turns. *)
(*                                                                         *)
(* Transitions are numbered in the order they begin.  Both locks are run   *)
(* locks (SchedulerLease with Release = TRUE): while its holder lives      *)
(* nobody else gets the lock, and a dead holder's lapses by itself.  A     *)
(* holder that outlives its own lock is not modelled here.  A transition   *)
(* that a storage operation runs inside itself is that operation's to      *)
(* finish and is not modelled either.                                      *)
(***************************************************************************)
EXTENDS Naturals

CONSTANTS
  N,            \* how many transitions the tenant goes through
  H,            \* how many hooks each has, in topological order
  Abort,        \* the hooks whose failure halts the dispatcher
  Kind,         \* what each transition is
  MaxAttempts,  \* maxAttempts of a hook
  MaxResumes,   \* TRANSITION_MAX_RESUMES
  MaxFaults,    \* bound: crashes and failed statements in a behaviour
  MayBeLate     \* whether a transition may be found after the age rule

Ts    == 1..N
Hooks == 1..H

\* "status":       suspend or reactivate, by bulk action or expired subscription
\* "delete":       the tenant is deleted; its row goes after the hooks
\* "decommission": a delete's hooks, and the tenant's row is kept
Kinds == {"status", "delete", "decommission"}

ASSUME TransitionAssumption ==
  /\ N \in Nat \ {0}
  /\ H \in Nat \ {0}
  /\ Abort \subseteq Hooks
  /\ Kind \in [Ts -> Kinds]
  /\ MaxAttempts \in Nat \ {0}
  /\ MaxResumes \in Nat
  /\ MaxFaults \in Nat
  /\ MayBeLate \in BOOLEAN

VARIABLES
  row,      \* state of each transition's row, "none" before it begins
  hook,     \* state of each hook's row; "queued" is failed with a next attempt
  left,     \* attempts each hook has left
  resumes,  \* how often the transition was finished for a dead process
  pc,       \* where the dispatcher's run of each transition is
  at,       \* the hook the run is at
  outcome,  \* what the run would end the transition as
  tlock,    \* the transition whose run holds the tenant's lock, 0 for none
  tenant,   \* the tenant's row is there
  sched,    \* what the retry scheduler's tick is at
  faults    \* faults so far

rowVars == <<row, hook, left, resumes>>
runVars == <<pc, at, outcome>>
vars == <<row, hook, left, resumes, pc, at, outcome, tlock, tenant, sched, faults>>

Ended   == {"completed", "failed_partial", "failed_blocking"}
Failed  == {"failed", "queued"}
Results == {"ok", "retry", "failed"}

\* delete: the tick found a delete whose tenant is still there.
Tick(where, t, h, delete) == [pc |-> where, t |-> t, h |-> h, delete |-> delete]
Idle == Tick("idle", 1, 1, FALSE)

AtTransition(t, pcs) == sched.pc \in pcs /\ sched.t = t

\* The tick goes on, at the same transition.
GoTo(where) == sched' = Tick(where, sched.t, sched.h, sched.delete)

\* The run of t finishes it for a dead process, inside the tick.
Resuming(t) == AtTransition(t, {"resumed"})

\* The transition's lock has a row: a run is under way, or died there.
Held(t) == pc[t] \in {"insert", "loop", "hook", "dead"}

Alive(t) == pc[t] \notin {"off", "dead"}

\* The run holds the tenant's lock: every pick-up, and every delete.
\* Bulk actions, the expiry check and a decommission do not take it.
UnderTenantLock(t) == Resuming(t) \/ Kind[t] = "delete"

\* The caller ends the transition itself, after it has dropped the tenant.
HoldOpen(t) == IF Resuming(t) THEN sched.delete ELSE Kind[t] = "delete"

\* No run of t goes on: what is left says "off", or "dead" while its lock stands.
Stop(t, where) ==
  /\ pc' = [pc EXCEPT ![t] = where]
  /\ at' = [at EXCEPT ![t] = 1]
  /\ outcome' = [outcome EXCEPT ![t] = "completed"]

\* The run is over: its locks are released and the tick it was part of goes on.
Leave(t) ==
  /\ Stop(t, "off")
  /\ tlock' = IF UnderTenantLock(t) THEN 0 ELSE tlock
  /\ sched' = IF Resuming(t) THEN Idle ELSE sched

-----------------------------------------------------------------------------
(* The dispatcher.                                                         *)

Init ==
  /\ row = [t \in Ts |-> "none"]
  /\ hook = [t \in Ts |-> [h \in Hooks |-> "absent"]]
  /\ left = [t \in Ts |-> [h \in Hooks |-> MaxAttempts]]
  /\ resumes = [t \in Ts |-> 0]
  /\ pc = [t \in Ts |-> "off"]
  /\ at = [t \in Ts |-> 1]
  /\ outcome = [t \in Ts |-> "completed"]
  /\ tlock = 0
  /\ tenant = TRUE
  /\ sched = Idle
  /\ faults = 0

\* A request begins its transition: a delete waits for the tenant's lock and
\* finds the tenant there, the row is inserted under the transition's lock.
Begin(t) ==
  /\ row[t] = "none"
  /\ \A u \in Ts : u < t => row[u] # "none"
  /\ tenant
  /\ Kind[t] = "delete" => tlock = 0
  /\ tlock' = IF Kind[t] = "delete" THEN t ELSE tlock
  /\ row' = [row EXCEPT ![t] = "running"]
  /\ pc' = [pc EXCEPT ![t] = "insert"]
  /\ UNCHANGED <<hook, left, resumes, at, outcome, tenant, sched, faults>>

\* The hooks' rows are inserted one statement at a time.
InsertHook(t) ==
  /\ pc[t] = "insert"
  /\ hook' = [hook EXCEPT ![t][at[t]] = "pending"]
  /\ pc' = IF at[t] < H THEN pc ELSE [pc EXCEPT ![t] = "loop"]
  /\ at' = [at EXCEPT ![t] = IF at[t] < H THEN at[t] + 1 ELSE 1]
  /\ UNCHANGED <<row, left, resumes, outcome, tlock, tenant, sched, faults>>

\* Mutant: a resumed run leaves only the hooks that failed.
StandsFailed(t, h) == Resuming(t) /\ hook[t][h] \in Failed

\* A resumed run leaves the hooks that ended as they ended.
Stands(t, h) == Resuming(t) /\ hook[t][h] \in Failed \cup {"ok"}

\* Mutant: a blocking hook that failed does not halt the run.
WorseUnblocked(t, h) == "failed_partial"

\* What the run's outcome becomes with hook h failed: a blocking one halts it.
Worse(t, h) ==
  IF h \in Abort \/ outcome[t] = "failed_blocking" THEN "failed_blocking" ELSE "failed_partial"

Halted(t) == outcome[t] = "failed_blocking"

\* The loop passes over a hook: its row is missing, it ended before the run
\* was cut off, or a blocking hook has failed.
PassHook(t) ==
  /\ pc[t] = "loop"
  /\ at[t] <= H
  /\ hook[t][at[t]] = "absent" \/ Stands(t, at[t]) \/ Halted(t)
  /\ at' = [at EXCEPT ![t] = at[t] + 1]
  /\ outcome' = IF Resuming(t) /\ hook[t][at[t]] \in Failed
                  THEN [outcome EXCEPT ![t] = Worse(t, at[t])] ELSE outcome
  /\ UNCHANGED <<rowVars, pc, tlock, tenant, sched, faults>>

\* One attempt is counted and the hook is marked running before it is run.
StartHook(t) ==
  /\ pc[t] = "loop"
  /\ at[t] <= H
  /\ hook[t][at[t]] # "absent"
  /\ ~Stands(t, at[t])
  /\ ~Halted(t)
  /\ hook' = [hook EXCEPT ![t][at[t]] = "running"]
  /\ left' = [left EXCEPT ![t][at[t]] = IF left[t][at[t]] > 0 THEN left[t][at[t]] - 1 ELSE 0]
  /\ pc' = [pc EXCEPT ![t] = "hook"]
  /\ UNCHANGED <<row, resumes, at, outcome, tlock, tenant, sched, faults>>

\* How a hook's row reads after an attempt: only "retry" is tried again.
After(t, h, result) ==
  IF result = "ok" THEN "ok"
  ELSE IF result = "retry" /\ left[t][h] > 0 THEN "queued" ELSE "failed"

EndHook(t) ==
  /\ pc[t] = "hook"
  /\ \E result \in Results :
       /\ hook' = [hook EXCEPT ![t][at[t]] = After(t, at[t], result)]
       /\ outcome' = IF result = "ok" THEN outcome
                     ELSE [outcome EXCEPT ![t] = Worse(t, at[t])]
  /\ pc' = [pc EXCEPT ![t] = "loop"]
  /\ at' = [at EXCEPT ![t] = at[t] + 1]
  /\ UNCHANGED <<row, left, resumes, tlock, tenant, sched, faults>>

\* After the last hook the row is ended, whatever it says by then.
Resolve(t) ==
  /\ pc[t] = "loop"
  /\ at[t] = H + 1
  /\ ~HoldOpen(t)
  /\ row' = [row EXCEPT ![t] = outcome[t]]
  /\ Leave(t)
  /\ UNCHANGED <<hook, left, resumes, tenant, faults>>

\* A delete's row is left running, and the transition's lock is released.
LeaveOpen(t) ==
  /\ pc[t] = "loop"
  /\ at[t] = H + 1
  /\ HoldOpen(t)
  /\ pc' = [pc EXCEPT ![t] = "drop"]
  /\ UNCHANGED <<rowVars, at, outcome, tlock, tenant, sched, faults>>

\* The namespace and the tenant's row are dropped, or the drop fails.
Drop ==
  \/ /\ tenant' = FALSE
     /\ UNCHANGED faults
  \/ /\ faults < MaxFaults
     /\ faults' = faults + 1
     /\ UNCHANGED tenant

\* A delete's second half.  Its transition is ended next, either way.
DropTenant(t) ==
  /\ pc[t] = "drop"
  /\ Drop
  /\ pc' = [pc EXCEPT ![t] = "end"]
  /\ UNCHANGED <<rowVars, at, outcome, tlock, sched>>

\* Only a row still running is ended: the retry tick's word stands.
EndTransition(t) ==
  /\ pc[t] = "end"
  /\ row' = IF row[t] = "running" THEN [row EXCEPT ![t] = outcome[t]] ELSE row
  /\ Leave(t)
  /\ UNCHANGED <<hook, left, resumes, tenant, faults>>

\* The statement that ends it fails: the delete is over, its row still running.
EndFails(t) ==
  /\ pc[t] = "end"
  /\ faults < MaxFaults
  /\ faults' = faults + 1
  /\ Leave(t)
  /\ UNCHANGED <<rowVars, tenant>>

\* A statement of the dispatcher fails and the run throws: it is over, with its
\* row still running and its lock released.
DispatchThrows(t) ==
  /\ pc[t] \in {"insert", "loop", "hook"}
  /\ ~HoldOpen(t) \/ Resuming(t)
  /\ faults < MaxFaults
  /\ faults' = faults + 1
  /\ Leave(t)
  /\ UNCHANGED <<rowVars, tenant>>

\* A first delete goes on without its transition ...
DeleteThrows(t) ==
  /\ pc[t] \in {"insert", "loop", "hook"}
  /\ HoldOpen(t) /\ ~Resuming(t)
  /\ faults < MaxFaults
  /\ faults' = faults + 1
  /\ pc' = [pc EXCEPT ![t] = "dropOnly"]
  /\ UNCHANGED <<rowVars, at, outcome, tlock, tenant, sched>>

\* ... and drops the tenant with no transition to end.
DropOnly(t) ==
  /\ pc[t] = "dropOnly"
  /\ Drop
  /\ Leave(t)
  /\ UNCHANGED rowVars
-----------------------------------------------------------------------------
(* The pick-up of transitions whose process is gone.                       *)

\* Mutant: only transitions of a tenant that is still there are looked for.
GoneOfTenant(t) == row[t] = "running" /\ ~Held(t) /\ tenant

\* Mutant: the row alone is looked at.
GoneByRow(t) == row[t] = "running"

\* The row says running and no lock says that somebody runs it.  A delete past
\* its hooks looks the same while it lives; the tenant's lock protects it.
Gone(t) == row[t] = "running" /\ ~Held(t)

FindInterrupted(t) ==
  /\ sched.pc = "idle"
  /\ Gone(t)
  /\ sched' = Tick("found", t, 1, Kind[t] = "delete" /\ tenant)
  /\ UNCHANGED <<rowVars, runVars, tlock, tenant, faults>>

\* Mutant: a later transition is no reason.
NotFinishedUnlessWorn(t) ==
  \/ Kind[t] = "decommission"
  \/ resumes[t] >= MaxResumes
  \/ ~tenant /\ Kind[t] = "status"

\* Mutant: one pick-up more than allowed.
NotFinishedOneMore(t) ==
  \/ \E u \in Ts : u > t /\ row[u] # "none"
  \/ Kind[t] = "decommission"
  \/ resumes[t] > MaxResumes
  \/ ~tenant /\ Kind[t] = "status"

\* whyNotFinished, but for the age: the tenant has moved on, the transition is
\* a decommission's, it was cut off too often, or its tenant is gone.
NotFinished(t) ==
  \/ \E u \in Ts : u > t /\ row[u] # "none"
  \/ Kind[t] = "decommission"
  \/ resumes[t] >= MaxResumes
  \/ ~tenant /\ Kind[t] = "status"

\* Mutant: the pick-up does not wait for the tenant's lock.
TenantFreeAlways == TRUE

\* Nobody holds the tenant's lock.
TenantFree == tlock = 0

\* Under the tenant's lock the pick-up looks again, and closes or finishes a
\* transition that still says running.
LookClose(t) ==
  /\ AtTransition(t, {"found"})
  /\ TenantFree
  /\ row[t] = "running"
  /\ NotFinished(t) \/ MayBeLate
  /\ GoTo("close")
  /\ tlock' = t
  /\ UNCHANGED <<rowVars, runVars, tenant, faults>>

LookResume(t) ==
  /\ AtTransition(t, {"found"})
  /\ TenantFree
  /\ row[t] = "running"
  /\ ~NotFinished(t)
  /\ sched.delete => tenant
  /\ GoTo("resume")
  /\ tlock' = t
  /\ UNCHANGED <<rowVars, runVars, tenant, faults>>

\* The transition is left alone: another change to the tenant is under way, it
\* ended meanwhile, or it was to drop a tenant that is gone by now.
LeaveAlone(t) ==
  /\ AtTransition(t, {"found"})
  /\ ~TenantFree \/ row[t] # "running" \/ (sched.delete /\ ~tenant /\ ~NotFinished(t))
  /\ sched' = Idle
  /\ UNCHANGED <<rowVars, runVars, tlock, tenant, faults>>

\* The rest of the transition is run under its lock, after it was counted.  A
\* lock taken, or a row ended, since the look would leave nothing to run;
\* PickUpActsOnTheTruth says that neither happens.
Resume(t) ==
  /\ AtTransition(t, {"resume"})
  /\ resumes' = [resumes EXCEPT ![t] = resumes[t] + 1]
  /\ pc' = [pc EXCEPT ![t] = "loop"]
  /\ GoTo("resumed")
  /\ UNCHANGED <<row, hook, left, at, outcome, tlock, tenant, faults>>

\* A transition is closed in two statements: its row, then its hooks' rows.
CloseRow(t) ==
  /\ AtTransition(t, {"close"})
  /\ row' = [row EXCEPT ![t] = "failed_partial"]
  /\ GoTo("closed")
  /\ UNCHANGED <<hook, left, resumes, runVars, tlock, tenant, faults>>

CloseHooks(t) ==
  /\ AtTransition(t, {"closed"})
  /\ hook' = [hook EXCEPT ![t] = [h \in Hooks |->
                IF hook[t][h] \in {"pending", "running"} THEN "failed" ELSE hook[t][h]]]
  /\ sched' = Idle
  /\ tlock' = 0
  /\ UNCHANGED <<row, left, resumes, runVars, tenant, faults>>

\* Mutant: a hook is handed back only while its transition is running.
HandBackRunning(t) == row[t] = "running"

\* The retries that may be handed back: their transition has ended.
HandBack(t) == row[t] \in Ended

\* requeueInterruptedRetries: a retry that was started half an hour ago is
\* queued again.  The code goes by that time alone; that nobody is inside the
\* hook any more is an assumption on hooks, that none lives longer than that.
Requeue(t, h) ==
  /\ sched.pc = "idle"
  /\ HandBack(t)
  /\ hook[t][h] = "running"
  /\ ~(pc[t] = "hook" /\ at[t] = h)
  /\ hook' = [hook EXCEPT ![t][h] = IF left[t][h] > 0 THEN "queued" ELSE "failed"]
  /\ UNCHANGED <<row, left, resumes, runVars, tlock, tenant, sched, faults>>
-----------------------------------------------------------------------------
(* The retries.                                                            *)

\* One failed hook that is due is marked running and run.
Retry(t, h) ==
  /\ sched.pc = "idle"
  /\ hook[t][h] = "queued"
  /\ left[t][h] > 0
  /\ hook' = [hook EXCEPT ![t][h] = "running"]
  /\ left' = [left EXCEPT ![t][h] = left[t][h] - 1]
  /\ sched' = Tick("retry", t, h, FALSE)
  /\ UNCHANGED <<row, resumes, runVars, tlock, tenant, faults>>

EndRetry(t, h) ==
  /\ AtTransition(t, {"retry"})
  /\ sched.h = h
  /\ \E result \in Results :
       /\ hook' = [hook EXCEPT ![t][h] = After(t, h, result)]
       /\ IF result = "ok" THEN GoTo("failed?") ELSE sched' = Idle
  /\ UNCHANGED <<row, left, resumes, runVars, tlock, tenant, faults>>

NoneLeft(t, states) == \A h \in Hooks : hook[t][h] \notin states

\* After a retry that succeeded the transition is looked at again: is a hook
\* failed, is one pending, and if not the row says completed.
AnyFailed(t) ==
  /\ AtTransition(t, {"failed?"})
  /\ IF NoneLeft(t, Failed) THEN GoTo("pending?") ELSE sched' = Idle
  /\ UNCHANGED <<rowVars, runVars, tlock, tenant, faults>>

\* Mutant: pending hooks are not asked about.
AnyPendingUnasked(t) ==
  /\ AtTransition(t, {"pending?"})
  /\ GoTo("lift")
  /\ UNCHANGED <<rowVars, runVars, tlock, tenant, faults>>

AnyPending(t) ==
  /\ AtTransition(t, {"pending?"})
  /\ IF NoneLeft(t, {"pending"}) THEN GoTo("lift") ELSE sched' = Idle
  /\ UNCHANGED <<rowVars, runVars, tlock, tenant, faults>>

Lift(t) ==
  /\ AtTransition(t, {"lift"})
  /\ row' = [row EXCEPT ![t] = "completed"]
  /\ sched' = Idle
  /\ UNCHANGED <<hook, left, resumes, runVars, tlock, tenant, faults>>

\* The operator queues a failed hook for one more try.
OperatorRetry(t, h) ==
  /\ hook[t][h] \in Failed
  /\ hook' = [hook EXCEPT ![t][h] = "queued"]
  /\ left' = [left EXCEPT ![t][h] = IF left[t][h] > 0 THEN left[t][h] ELSE 1]
  /\ UNCHANGED <<row, resumes, runVars, tlock, tenant, sched, faults>>
-----------------------------------------------------------------------------
(* Faults.                                                                 *)

\* A process dies inside a run of t.  The transition's lock stays if it was held.
Dies(t) == Stop(t, IF Held(t) THEN "dead" ELSE "off")

CrashRequest(t) ==
  /\ Alive(t)
  /\ ~Resuming(t)
  /\ faults < MaxFaults
  /\ Dies(t)
  /\ faults' = faults + 1
  /\ UNCHANGED <<rowVars, tlock, tenant, sched>>

CrashScheduler ==
  /\ sched.pc # "idle"
  /\ faults < MaxFaults
  /\ IF sched.pc = "resumed" THEN Dies(sched.t) ELSE UNCHANGED runVars
  /\ sched' = Idle
  /\ faults' = faults + 1
  /\ UNCHANGED <<rowVars, tlock, tenant>>

LockLapses(t) ==
  /\ pc[t] = "dead"
  /\ pc' = [pc EXCEPT ![t] = "off"]
  /\ UNCHANGED <<rowVars, at, outcome, tlock, tenant, sched, faults>>

\* The tenant's lock outlives its holder until it lapses.
TenantLockLapses ==
  /\ tlock # 0
  /\ ~Alive(tlock)
  /\ ~AtTransition(tlock, {"resume", "close", "closed"})
  /\ tlock' = 0
  /\ UNCHANGED <<rowVars, runVars, tenant, sched, faults>>
-----------------------------------------------------------------------------
Dispatch(t) ==
  \/ InsertHook(t) \/ PassHook(t) \/ StartHook(t) \/ EndHook(t)
  \/ Resolve(t) \/ LeaveOpen(t) \/ DropTenant(t) \/ DropOnly(t) \/ EndTransition(t)

PickUp(t) ==
  \/ LookClose(t) \/ LookResume(t) \/ LeaveAlone(t)
  \/ Resume(t) \/ CloseRow(t) \/ CloseHooks(t)

AfterRetry(t) ==
  (\E h \in Hooks : EndRetry(t, h)) \/ AnyFailed(t) \/ AnyPending(t) \/ Lift(t)

Next ==
  \/ \E t \in Ts :
       \/ Begin(t) \/ Dispatch(t) \/ DispatchThrows(t) \/ DeleteThrows(t) \/ EndFails(t)
       \/ FindInterrupted(t) \/ PickUp(t) \/ AfterRetry(t)
       \/ CrashRequest(t) \/ LockLapses(t)
       \/ \E h \in Hooks : Requeue(t, h) \/ Retry(t, h) \/ OperatorRetry(t, h)
  \/ CrashScheduler
  \/ TenantLockLapses

Spec == Init /\ [][Next]_vars

\* A live process goes on, hooks end, locks lapse.  The scheduler comes round:
\* every tick looks at all that is interrupted, whatever the tick before did.
Fairness ==
  /\ \A t \in Ts :
       /\ WF_vars(Dispatch(t))
       /\ WF_vars(PickUp(t))
       /\ WF_vars(AfterRetry(t))
       /\ WF_vars(LockLapses(t))
       /\ SF_vars(FindInterrupted(t))
  /\ SF_vars(\E t \in Ts, h \in Hooks : Requeue(t, h))
  /\ WF_vars(TenantLockLapses)

FairSpec == Spec /\ Fairness
-----------------------------------------------------------------------------
(* Properties.                                                             *)

TypeOK ==
  /\ row \in [Ts -> {"none", "running"} \cup Ended]
  /\ hook \in [Ts -> [Hooks -> {"absent", "pending", "running", "ok"} \cup Failed]]
  /\ left \in [Ts -> [Hooks -> 0..MaxAttempts]]
  /\ resumes \in [Ts -> 0..MaxResumes]
  /\ pc \in [Ts -> {"off", "dead", "insert", "loop", "hook", "drop", "dropOnly", "end"}]
  /\ at \in [Ts -> 1..(H + 1)]
  /\ outcome \in [Ts -> Ended]
  /\ tlock \in 0..N
  /\ tenant \in BOOLEAN
  /\ sched \in [pc : {"idle", "found", "resume", "resumed", "close", "closed",
                      "retry", "failed?", "pending?", "lift"},
                t : Ts, h : Hooks, delete : BOOLEAN]
  /\ faults \in 0..MaxFaults

\* A hook that ended is never run again: not by the run that finishes a
\* transition for a dead process, not by a retry, and no closing of the
\* transition rewrites it (resumeTransitionId in dispatcher.ts).
DoneStaysDone ==
  [][\A t \in Ts, h \in Hooks : hook[t][h] = "ok" => hook'[t][h] = "ok"]_vars

\* The dispatcher runs no hook before every blocking hook ahead of it has
\* succeeded, across crashes, retries and resumed runs (the loop of runLocked).
BlockedUntilDone ==
  \A t \in Ts : pc[t] = "hook" =>
    \A h \in Abort : h < at[t] => hook[t][h] = "ok"

\* A hook that runs is run by one party: the dispatcher and the retry tick are
\* never inside the same hook of the same transition (scheduler.ts, dispatcher.ts).
OneRunnerPerHook ==
  \A t \in Ts : pc[t] = "hook" =>
    /\ hook[t][at[t]] = "running"
    /\ ~(AtTransition(t, {"retry"}) /\ sched.h = at[t])

\* A transition that reads completed has no hook still waiting for its turn.
CompletedLeavesNothingPending ==
  \A t \in Ts : row[t] = "completed" => NoneLeft(t, {"pending"})

\* While the pick-up runs a transition's hooks the tenant has been through no
\* later one (finishTransition in interrupted-transitions.ts).
PickUpRunsTheLatest ==
  \A t \in Ts : Resuming(t) => \A u \in Ts : u > t => row[u] = "none"

\* What the pick-up saw under the tenant's lock is still so when it acts on it:
\* the row says running and nobody runs it (claim in finishTransition).
PickUpActsOnTheTruth ==
  \A t \in Ts : AtTransition(t, {"resume", "close"}) => row[t] = "running" /\ ~Held(t)

\* Every transition ends, whichever processes die on the way
\* (interrupted-transitions.ts): none says running from some point on.
EveryTransitionEnds ==
  \A t \in Ts : []<>(row[t] # "running")

\* No hook says running for ever: a live run ends it, and one cut off is run
\* again, closed, or handed back to the retries (requeueInterruptedRetries).
NoHookRunsForEver ==
  \A t \in Ts, h \in Hooks : []<>(hook[t][h] # "running")

(* What the repository says and the code does not do; see the findings.    *)

\* Hooks left pending by a blocking hook that failed are run once a retry of
\* it succeeded (blocking in registry/types.ts, the aborted branch of runLocked).
BlockedHooksResume ==
  \A t \in Ts, b \in Abort, h \in Hooks :
    (row[t] \in Ended /\ b < h /\ hook[t][b] = "ok" /\ hook[t][h] = "pending")
      ~> hook[t][h] # "pending"

\* A transition that ended completed had a row for each of its hooks (the
\* pre-insert of runLocked).
CompletedHadEveryHook ==
  \A t \in Ts, h \in Hooks : row[t] = "completed" => hook[t][h] # "absent"

\* A delete's transition is held open until the tenant's row is gone or the
\* drop has failed (applyDeleted in cascades.ts).
HeldOpenUntilDropped ==
  [][\A t \in Ts : (Kind[t] = "delete" /\ row[t] = "running" /\ row'[t] = "completed")
                    => (~tenant \/ pc[t] = "end")]_vars
=============================================================================
