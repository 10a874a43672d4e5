------------------------- MODULE ClusterGateProofs -------------------------
(***************************************************************************)
(* Proofs about ClusterGate for any number of captures, any caps and any   *)
(* intervals.  A caller counts rows, the property counts captures: that    *)
(* the rows are never fewer has to be carried along (BeatShape).           *)
(***************************************************************************)
EXTENDS ClusterGate, FiniteSetTheorems, TLAPS

USE DEF NoRow, Off

\* A capture in flight has a row, no older than its timer and the beats it lost.
BeatShape ==
  \A c \in Callers :
    pc[c] = "in" => /\ timer[c] # Off
                    /\ age[Key[c]] # NoRow
                    /\ age[Key[c]] <= timer[c] + misses[c] * Beat

GateInv == TypeOK /\ BeatShape

-----------------------------------------------------------------------------
\* One beat more is one interval more.
LEMMA OneMoreBeat ==
  ASSUME NEW m \in Nat
  PROVE  m * Beat \in Nat /\ (m + 1) * Beat = m * Beat + Beat
  BY GateAssumption

\* Fewer beats are less time.
LEMMA FewerBeats ==
  ASSUME NEW m \in 0..MaxMisses
  PROVE  m * Beat <= MaxMisses * Beat
<1>1. PICK k \in Nat : MaxMisses = m + k
  BY GateAssumption
<1>2. (m + k) * Beat = m * Beat + k * Beat /\ k * Beat \in Nat /\ m * Beat \in Nat
  BY GateAssumption
<1> QED
  BY <1>1, <1>2

\* A capture that has lost no more beats than the bound is younger than Stale.
LEMMA YoungWhileBeating ==
  ASSUME GateInv, NEW c \in Callers, pc[c] = "in"
  PROVE  Key[c] \in Keys /\ age[Key[c]] \in Nat /\ age[Key[c]] < Stale
<1>1. Key[c] \in Keys /\ age[Key[c]] \in Nat /\ timer[c] \in 0..Beat /\ misses[c] \in 0..MaxMisses
  BY GateAssumption DEF GateInv, TypeOK, BeatShape, Old
<1>2. misses[c] * Beat \in Nat /\ misses[c] * Beat <= MaxMisses * Beat
  BY <1>1, FewerBeats, OneMoreBeat
<1>3. MaxMisses * Beat \in Nat /\ (MaxMisses + 1) * Beat = MaxMisses * Beat + Beat
  BY OneMoreBeat, GateAssumption
<1>4. age[Key[c]] <= timer[c] + misses[c] * Beat
  BY DEF GateInv, BeatShape
<1> QED
  BY <1>1, <1>2, <1>3, <1>4, GateAssumption

-----------------------------------------------------------------------------
\* Every step keeps every variable in its type.
LEMMA StepTypeOK == TypeOK /\ [Next]_vars => TypeOK'
<1> SUFFICES ASSUME TypeOK, [Next]_vars PROVE TypeOK'
  OBVIOUS
<1> USE GateAssumption DEF TypeOK
<1>1. CASE UNCHANGED vars
  BY <1>1 DEF vars
<1>2. CASE Time
  <2>1. age' \in [Keys -> 0..Old \cup {NoRow}]
    BY <1>2 DEF Time, Old
  <2>2. timer' \in [Callers -> 0..Beat \cup {Off}]
    BY <1>2 DEF Time
  <2> QED
    BY <1>2, <2>1, <2>2 DEF Time
<1>3. CASE Reap
  BY <1>3 DEF Reap, Old
<1>4. ASSUME NEW c \in Callers, Ask(c) PROVE TypeOK'
  BY <1>4 DEF Ask
<1>5. ASSUME NEW c \in Callers, Acquire(c) PROVE TypeOK'
  BY <1>5 DEF Acquire, Refresh, Old
<1>6. ASSUME NEW c \in Callers, GiveUp(c) PROVE TypeOK'
  BY <1>6 DEF GiveUp
<1>7. ASSUME NEW c \in Callers, Heartbeat(c) PROVE TypeOK'
  BY <1>7 DEF Heartbeat, Old
<1>8. ASSUME NEW c \in Callers, End(c) PROVE TypeOK'
  BY <1>8 DEF End
<1>9. ASSUME NEW c \in Callers, Release(c) PROVE TypeOK'
  BY <1>9 DEF Release
<1>10. ASSUME NEW c \in Callers, EndFree(c) PROVE TypeOK'
  BY <1>10 DEF EndFree
<1>11. ASSUME NEW c \in Callers, Crash(c) PROVE TypeOK'
  BY <1>11 DEF Crash
<1> QED
  BY <1>1, <1>2, <1>3, <1>4, <1>5, <1>6, <1>7, <1>8, <1>9, <1>10, <1>11 DEF Next, Step

\* Every step leaves the captures in flight their young rows, when no two of
\* them share one.
LEMMA StepBeatShape == OwnRows /\ GateInv /\ [Next]_vars => BeatShape'
<1> SUFFICES ASSUME OwnRows, GateInv, [Next]_vars,
                    NEW d \in Callers, pc'[d] = "in"
             PROVE  /\ timer'[d] # Off
                    /\ age'[Key[d]] # NoRow
                    /\ age'[Key[d]] <= timer'[d] + misses'[d] * Beat
  BY DEF BeatShape
<1> USE GateAssumption DEF GateInv, TypeOK, BeatShape
<1> DEFINE Beating == /\ timer'[d] # Off
                      /\ age'[Key[d]] # NoRow
                      /\ age'[Key[d]] <= timer'[d] + misses'[d] * Beat
<1>0. misses[d] \in 0..MaxMisses /\ timer[d] \in 0..Beat \cup {Off} /\ Key[d] \in Keys
      /\ age[Key[d]] \in 0..Old \cup {NoRow}
  OBVIOUS
<1>a. misses[d] * Beat \in Nat /\ (misses[d] + 1) * Beat = misses[d] * Beat + Beat /\ 0 * Beat = 0
  BY <1>0, OneMoreBeat
<1>1. CASE UNCHANGED vars
  BY <1>1 DEF vars
<1>2. CASE Time
  <2>1. timer'[d] = timer[d] + 1 /\ misses'[d] = misses[d] /\ pc[d] = "in"
    BY <1>2 DEF Time
  <2>2. age'[Key[d]] # NoRow /\ age'[Key[d]] <= age[Key[d]] + 1
    BY <1>0, <1>2, <2>1 DEF Time, Old
  <2> QED
    BY <1>0, <1>a, <2>1, <2>2, StepTypeOK
<1>3. CASE Reap
  <2>1. pc[d] = "in" /\ timer'[d] = timer[d] /\ misses'[d] = misses[d]
    BY <1>3 DEF Reap
  <2>2. age[Key[d]] \in Nat /\ age[Key[d]] < Stale
    BY <2>1, YoungWhileBeating
  <2>3. age'[Key[d]] = age[Key[d]]
    BY <1>0, <1>3, <2>2 DEF Reap
  <2> QED
    BY <2>1, <2>3
<1>4. ASSUME NEW c \in Callers, Acquire(c) PROVE Beating
  <2>1. CASE c = d
    <3>1. timer'[d] = 0 /\ age'[Key[d]] = 0 /\ misses'[d] = misses[d]
      BY <1>0, <1>4, <2>1 DEF Acquire, Refresh
    <3> QED
      BY <1>a, <3>1
  <2>2. CASE c # d
    <3>1. pc[d] = "in" /\ Key[c] # Key[d]
      BY <1>4, <2>2 DEF Acquire, OwnRows
    <3>2. timer'[d] = timer[d] /\ age'[Key[d]] = age[Key[d]] /\ misses'[d] = misses[d]
      BY <1>4, <2>2, <3>1 DEF Acquire, Refresh
    <3> QED
      BY <3>1, <3>2
  <2> QED
    BY <2>1, <2>2
<1>5. ASSUME NEW c \in Callers, Heartbeat(c) PROVE Beating
  <2>1. pc[d] = "in"
    BY <1>5 DEF Heartbeat
  <2>2. CASE c = d /\ misses' = [misses EXCEPT ![c] = 0]
             /\ age' = [age EXCEPT ![Key[c]] = IF @ = NoRow THEN NoRow ELSE 0]
    <3>1. timer'[d] = 0 /\ age'[Key[d]] = 0 /\ misses'[d] = 0
      BY <1>0, <1>5, <2>1, <2>2 DEF Heartbeat
    <3> QED
      BY <1>a, <3>1
  <2>3. CASE c = d /\ misses' = [misses EXCEPT ![c] = @ + 1] /\ UNCHANGED age
    <3>1. timer[d] = Beat /\ timer'[d] = 0 /\ misses'[d] = misses[d] + 1 /\ age' = age
      BY <1>0, <1>5, <2>3 DEF Heartbeat
    <3>2. age[Key[d]] # NoRow /\ age[Key[d]] <= Beat + misses[d] * Beat
      BY <2>1, <3>1
    <3> QED
      BY <1>0, <1>a, <3>1, <3>2
  <2>4. CASE c # d
    <3>1. Key[c] # Key[d]
      BY <2>4 DEF OwnRows
    <3>2. timer'[d] = timer[d] /\ age'[Key[d]] = age[Key[d]] /\ misses'[d] = misses[d]
      BY <1>5, <2>4, <3>1 DEF Heartbeat
    <3> QED
      BY <2>1, <3>2
  <2> QED
    BY <1>5, <2>2, <2>3, <2>4 DEF Heartbeat
<1>6. ASSUME NEW c \in Callers, Release(c) PROVE Beating
  <2>1. c # d /\ pc[d] = "in" /\ Key[c] # Key[d]
    BY <1>6 DEF Release, OwnRows
  <2> QED
    BY <1>6, <2>1 DEF Release
<1>7. ASSUME NEW c \in Callers, Ask(c) \/ GiveUp(c) \/ EndFree(c) PROVE Beating
  BY <1>7 DEF Ask, GiveUp, EndFree
<1>8. ASSUME NEW c \in Callers, End(c) \/ Crash(c) PROVE Beating
  BY <1>8 DEF End, Crash
<1> QED
  BY <1>1, <1>2, <1>3, <1>4, <1>5, <1>6, <1>7, <1>8 DEF Next, Step

\* The invariant holds of every behaviour of the gate.
LEMMA GateInvHolds == OwnRows => (Spec => []GateInv)
<1>1. Init => GateInv
  BY GateAssumption DEF Init, GateInv, TypeOK, BeatShape, Old
<1>2. OwnRows /\ GateInv /\ [Next]_vars => GateInv'
  BY StepTypeOK, StepBeatShape DEF GateInv
<1> QED
  <2> SUFFICES ASSUME OwnRows PROVE Spec => []GateInv
    OBVIOUS
  <2>1. GateInv /\ [Next]_vars => GateInv'
    BY <1>2
  <2> QED
    BY <1>1, <2>1, PTL DEF Spec

-----------------------------------------------------------------------------
\* Rows, timers, caps and counted misses keep their types, whoever shares a row
\* (tenant_bundle_in_flight and the variables of acquireGlobalSlot).
THEOREM GateTypeCorrect == Spec => []TypeOK
<1>1. Init => TypeOK
  BY GateAssumption DEF Init, TypeOK, Old
<1> QED
  BY <1>1, StepTypeOK, PTL DEF Spec

\* There are at least as many fresh rows as captures in flight.
LEMMA RowsCoverCaptures ==
  ASSUME OwnRows, GateInv
  PROVE  /\ Cardinality(Fresh) \in Nat
         /\ Cardinality(Capturing) \in Nat
         /\ Cardinality(Capturing) <= Cardinality(Fresh)
<1> DEFINE f == [c \in Capturing |-> Key[c]]
<1>1. IsFiniteSet(Fresh)
  BY FS_Subset, GateAssumption DEF Fresh
<1>2. \A c \in Capturing : Key[c] \in Fresh
  BY YoungWhileBeating DEF Capturing, Fresh
<1>3. f \in Injection(Capturing, Fresh)
  BY <1>2 DEF Injection, IsInjective, OwnRows, Capturing
<1> QED
  BY <1>1, <1>3, FS_Injection, FS_CardinalityType

\* A capture is admitted only when fewer than its cap really are in flight, for
\* any number of callers and any caps, as long as no two callers share a row
\* (tryAcquireOnce in cluster-concurrency.ts).
THEOREM GateAdmitsUnderCap == OwnRows => (Spec => AdmitsUnderCap)
<1> SUFFICES ASSUME OwnRows PROVE Spec => AdmitsUnderCap
  OBVIOUS
<1>1. ASSUME GateInv, [Next]_vars, NEW c \in Callers, pc[c] = "wait", pc'[c] = "in"
      PROVE  Cardinality(Capturing) < cap[c]
  <2>1. cap[c] \in Nat
    <3>1. cap[c] \in Caps \cup {0}
      BY <1>1, Zenon DEF GateInv, TypeOK
    <3>2. Caps \cup {0} \subseteq Nat
      BY GateAssumption
    <3> QED
      BY <3>1, <3>2, Zenon
  <2>2. Acquire(c)
    BY <1>1 DEF Next, Step, vars, Time, Reap, Ask, Acquire, GiveUp, Heartbeat, End, Release,
                EndFree, Crash, GateInv, TypeOK
  <2> QED
    BY <1>1, <2>1, <2>2, RowsCoverCaptures DEF Acquire
<1>2. GateInv /\ [Next]_vars =>
        [\A c \in Callers : pc[c] = "wait" /\ pc'[c] = "in" => Cardinality(Capturing) < cap[c]]_vars
  BY <1>1
<1> QED
  BY <1>2, GateInvHolds, PTL DEF Spec, AdmitsUnderCap
=============================================================================
