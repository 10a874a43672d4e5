------------------------------ MODULE RunLock ------------------------------
(***************************************************************************)
(* What a lease promises the work that runs under it, without clocks and   *)
(* statements on their way: it is taken when it is free, the taker's own   *)
(* or lapsed; while a run counts on it nobody else takes it, nobody        *)
(* deletes it, and it does not lapse before the run stops counting on it.  *)
(***************************************************************************)
CONSTANTS
  Procs,    \* processes that may take the lock
  Nobody    \* the holder of a lock that is free

VARIABLES
  holder,   \* who has the lock
  fresh,    \* the lock has not lapsed
  inside    \* the processes with a run that counts on the lock

vars == <<holder, fresh, inside>>

Init ==
  /\ holder = Nobody
  /\ fresh = FALSE
  /\ inside = {}

\* The lock is taken or extended, by a run that counts on it from now on or
\* by its holder between runs.
Take(p) ==
  /\ holder \in {p, Nobody} \/ ~fresh
  /\ inside \subseteq {p}
  /\ holder' = p
  /\ fresh' = TRUE
  /\ inside' \in {inside, {p}}

\* A run ends, or its time is up before the lock's.
Leave(p) ==
  /\ p \in inside
  /\ inside' = inside \ {p}
  /\ UNCHANGED <<holder, fresh>>

\* Only a lock that no run counts on is deleted.
Drop(p) ==
  /\ holder = p
  /\ inside = {}
  /\ holder' = Nobody
  /\ fresh' = FALSE
  /\ UNCHANGED inside

\* The lock lapses; a run that has not renewed it in time counts on it no more.
Lapse ==
  /\ fresh
  /\ fresh' = FALSE
  /\ inside' = {}
  /\ UNCHANGED holder

Next == Lapse \/ \E p \in Procs : Take(p) \/ Leave(p) \/ Drop(p)

Spec == Init /\ [][Next]_vars
=============================================================================
