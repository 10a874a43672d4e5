---------------------------- MODULE ClusterGate ----------------------------
(***************************************************************************)
(* The cluster-wide gate of bundle captures: a row per capture in a gauge  *)
(* table, counted by every caller against its own cap, kept fresh by a     *)
(* heartbeat and not counted once it is stale.  Time is counted in steps   *)
(* of the database's clock; a caller is one capture of one bundle's        *)
(* component, begun as often as it is retried.                             *)
(***************************************************************************)
EXTENDS Integers, FiniteSets

CONSTANTS
  Callers,     \* the captures and restores that go through the gate
  Keys,        \* the (bundle, component) pairs
  Key,         \* the row of each caller
  Caps,        \* the values the caps may have; 0 disables the gate
  Beat,        \* HEARTBEAT_INTERVAL_MS
  Stale,       \* STALE_AFTER_MS
  MaxMisses    \* bound: heartbeats of one capture lost in a row

ASSUME GateAssumption ==
  /\ IsFiniteSet(Keys)
  /\ Key \in [Callers -> Keys]
  /\ Caps \subseteq Nat
  /\ Beat \in Nat \ {0}
  /\ Stale \in Nat
  /\ MaxMisses \in Nat
  /\ (MaxMisses + 1) * Beat < Stale

VARIABLES
  age,     \* time since each row was refreshed, NoRow when there is none
  pc,      \* out, wait, in (captures under a row), free (no gate), leave
  cap,     \* the cap each waiting caller was given
  timer,   \* time since the heartbeat timer last fired, Off when cleared
  misses   \* heartbeats lost since the last one that was written

vars == <<age, pc, cap, timer, misses>>

NoRow == -1
Off   == -1
Old   == 2 * Stale + 1     \* ages past the reaper's threshold are not told apart

Init ==
  /\ age = [k \in Keys |-> NoRow]
  /\ pc = [c \in Callers |-> "out"]
  /\ cap = [c \in Callers |-> 0]
  /\ timer = [c \in Callers |-> Off]
  /\ misses = [c \in Callers |-> 0]

(* Mutant: a row counts for one heartbeat interval only.                   *)
FreshForABeat == {k \in Keys : age[k] # NoRow /\ age[k] < Beat}

(* The rows that count: refreshed_at > NOW() - STALE_AFTER_MS.             *)
Fresh == {k \in Keys : age[k] # NoRow /\ age[k] < Stale}

Refresh(k) == age' = [age EXCEPT ![k] = 0]

(* Mutant: one slot of the cap is kept in reserve.                         *)
AskInReserve(c) ==
  /\ pc[c] = "out"
  /\ \E n \in Caps : cap' = [cap EXCEPT ![c] = n - 1]
  /\ pc' = [pc EXCEPT ![c] = "wait"]
  /\ UNCHANGED <<age, timer, misses>>

(* acquireGlobalSlot is called, with the cap its settings have by now.     *)
Ask(c) ==
  /\ pc[c] = "out"
  /\ \E n \in Caps : /\ cap' = [cap EXCEPT ![c] = n]
                     /\ pc' = [pc EXCEPT ![c] = IF n = 0 THEN "free" ELSE "wait"]
  /\ UNCHANGED <<age, timer, misses>>

(* tryAcquireOnce, one transaction under the advisory lock, and the        *)
(* heartbeat timer that follows it.                                        *)
Acquire(c) ==
  /\ pc[c] = "wait"
  /\ Cardinality(Fresh) < cap[c]
  /\ Refresh(Key[c])
  /\ pc' = [pc EXCEPT ![c] = "in"]
  /\ timer' = [timer EXCEPT ![c] = 0]
  /\ cap' = [cap EXCEPT ![c] = 0]
  /\ UNCHANGED misses

(* The gate is full at the deadline, or the caller went away.              *)
GiveUp(c) ==
  /\ pc[c] = "wait"
  /\ pc' = [pc EXCEPT ![c] = "out"]
  /\ cap' = [cap EXCEPT ![c] = 0]
  /\ UNCHANGED <<age, timer, misses>>

(* The heartbeat: an update of the row, if there is one; a failed one is   *)
(* swallowed.                                                              *)
Heartbeat(c) ==
  /\ timer[c] = Beat
  /\ timer' = [timer EXCEPT ![c] = 0]
  /\ \/ /\ age' = [age EXCEPT ![Key[c]] = IF @ = NoRow THEN NoRow ELSE 0]
        /\ misses' = [misses EXCEPT ![c] = 0]
     \/ /\ misses[c] < MaxMisses
        /\ misses' = [misses EXCEPT ![c] = @ + 1]
        /\ UNCHANGED age
  /\ UNCHANGED <<pc, cap>>

(* Mutant: the heartbeat timer is not cleared.                             *)
EndStillBeating(c) ==
  /\ pc[c] = "in"
  /\ pc' = [pc EXCEPT ![c] = "leave"]
  /\ UNCHANGED <<age, cap, timer, misses>>

(* The capture is over: release stops the heartbeat ...                    *)
End(c) ==
  /\ pc[c] = "in"
  /\ pc' = [pc EXCEPT ![c] = "leave"]
  /\ timer' = [timer EXCEPT ![c] = Off]
  /\ misses' = [misses EXCEPT ![c] = 0]
  /\ UNCHANGED <<age, cap>>

(* ... and deletes the row, or leaves it to go stale.                      *)
Release(c) ==
  /\ pc[c] = "leave"
  /\ pc' = [pc EXCEPT ![c] = "out"]
  /\ age' \in {age, [age EXCEPT ![Key[c]] = NoRow]}
  /\ UNCHANGED <<cap, timer, misses>>

(* The gate was disabled: nothing was taken, nothing is given back.        *)
EndFree(c) ==
  /\ pc[c] = "free"
  /\ pc' = [pc EXCEPT ![c] = "out"]
  /\ UNCHANGED <<age, cap, timer, misses>>

(* The process dies; its row stays, its bundle may be captured again.      *)
Crash(c) ==
  /\ pc[c] # "out"
  /\ pc' = [pc EXCEPT ![c] = "out"]
  /\ timer' = [timer EXCEPT ![c] = Off]
  /\ cap' = [cap EXCEPT ![c] = 0]
  /\ misses' = [misses EXCEPT ![c] = 0]
  /\ UNCHANGED age

(* reapStaleInFlight                                                       *)
Reap ==
  /\ age' = [k \in Keys |-> IF age[k] > 2 * Stale THEN NoRow ELSE age[k]]
  /\ UNCHANGED <<pc, cap, timer, misses>>

(* Time passes, at most up to the next timer that is due.                  *)
Time ==
  /\ \A c \in Callers : timer[c] < Beat
  /\ timer' = [c \in Callers |-> IF timer[c] = Off THEN Off ELSE timer[c] + 1]
  /\ age' = [k \in Keys |-> IF age[k] \in {NoRow, Old} THEN age[k] ELSE age[k] + 1]
  /\ UNCHANGED <<pc, cap, misses>>

Step(c) == Ask(c) \/ Acquire(c) \/ GiveUp(c) \/ Heartbeat(c) \/ End(c) \/ Release(c) \/ EndFree(c)

Next == Time \/ Reap \/ \E c \in Callers : Step(c) \/ Crash(c)

Spec == Init /\ [][Next]_vars

(* Time passes, timers fire, captures end (their Jobs have a deadline).    *)
FairSpec ==
  /\ Spec
  /\ WF_vars(Time)
  /\ \A c \in Callers : WF_vars(Heartbeat(c)) /\ WF_vars(End(c)) /\ WF_vars(Release(c))

-----------------------------------------------------------------------------
TypeOK ==
  /\ age \in [Keys -> 0..Old \cup {NoRow}]
  /\ pc \in [Callers -> {"out", "wait", "in", "free", "leave"}]
  /\ cap \in [Callers -> Caps \cup {0}]
  /\ timer \in [Callers -> 0..Beat \cup {Off}]
  /\ misses \in [Callers -> 0..MaxMisses]

(* The captures in flight under the gate.                                  *)
Capturing == {c \in Callers : pc[c] = "in"}

(* No two callers share a row: every capture is of its own bundle.         *)
OwnRows == \A c, d \in Callers : Key[c] = Key[d] => c = d

(* "Exactly one wins": a capture is admitted only when fewer than its cap  *)
(* really are in flight, in whatever replicas, although their heartbeats   *)
(* may fail, others died, and rows were left behind.                       *)
AdmitsUnderCap ==
  [][\A c \in Callers : pc[c] = "wait" /\ pc'[c] = "in" => Cardinality(Capturing) < cap[c]]_vars

(* A slot whose capture is over comes back, whether its process deleted    *)
(* the row, failed to, or died.                                            *)
Held(k)    == \E c \in Callers : Key[c] = k /\ pc[c] = "in"
SlotsComeBack == \A k \in Keys : []<>(k \notin Fresh \/ Held(k))
=============================================================================
