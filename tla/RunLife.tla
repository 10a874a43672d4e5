------------------------------ MODULE RunLife ------------------------------
(***************************************************************************)
(* What a platform upgrade run promises, whatever happens to the processes *)
(* that drive it: one run at a time, its steps in their order, an end that *)
(* is final, a cancel only while the nodes are prepared, and the services  *)
(* moved only for a run that has left that step.                           *)
(***************************************************************************)
CONSTANT Runs

VARIABLES
  status,   \* how each run stands
  step,     \* the step each run is in
  moved     \* the runs that moved the services

vars == <<status, step, moved>>

After == [prepare |-> {"services"}, services |-> {"finish"}, finish |-> {"kubernetes"},
          kubernetes |-> {}, done |-> {}]

Init ==
  /\ status = [r \in Runs |-> "none"]
  /\ step = [r \in Runs |-> "prepare"]
  /\ moved = {}

Running(r) == status[r] = "running"

Begin(r) ==
  /\ status[r] = "none"
  /\ \A q \in Runs : ~Running(q)
  /\ status' = [status EXCEPT ![r] = "running"]
  /\ UNCHANGED <<step, moved>>

Advance(r) ==
  /\ Running(r)
  /\ \E s \in After[step[r]] : step' = [step EXCEPT ![r] = s]
  /\ UNCHANGED <<status, moved>>

(* A pass under way when its run ends may still move the services; one of  *)
(* a run that was cancelled never does.                                    *)
Move(r) ==
  /\ status[r] # "none"
  /\ step[r] # "prepare"
  /\ moved' = moved \cup {r}
  /\ UNCHANGED <<status, step>>

Succeed(r) ==
  /\ Running(r)
  /\ step[r] \in {"finish", "kubernetes"}
  /\ status' = [status EXCEPT ![r] = "succeeded"]
  /\ step' = [step EXCEPT ![r] = "done"]
  /\ UNCHANGED moved

Cancel(r) ==
  /\ Running(r)
  /\ step[r] = "prepare"
  /\ status' = [status EXCEPT ![r] = "cancelled"]
  /\ UNCHANGED <<step, moved>>

Stop(r) ==
  /\ Running(r)
  /\ \E end \in {"failed", "rolledBack"} : status' = [status EXCEPT ![r] = end]
  /\ UNCHANGED <<step, moved>>

Next == \E r \in Runs : Begin(r) \/ Advance(r) \/ Move(r) \/ Succeed(r) \/ Cancel(r) \/ Stop(r)

Spec == Init /\ [][Next]_vars
=============================================================================
