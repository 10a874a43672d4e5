--------------------------- MODULE SchedulerLease ---------------------------
(***************************************************************************)
(* The scheduler lease of platform-api (backend/src/shared/                *)
(* scheduler-lease.ts): one row of platform_settings per job names the     *)
(* replica that may run it and until when.  A row that names nobody, names *)
(* the claimer, or has lapsed is taken by one conditional upsert.          *)
(*                                                                         *)
(* One job is modelled: every map of the code is keyed by the job and      *)
(* every statement touches the job's own row only.  Statements travel: one *)
(* that was sent is applied by the database at any later moment, in any    *)
(* order with the others (each has a pool connection of its own), or fails *)
(* with or without having been applied, and it survives its sender.        *)
(*                                                                         *)
(* Times are durations left.  lease.left is until - now() on the database  *)
(* clock, -1 once the lease has lapsed (until < now()); Time lets one unit *)
(* pass everywhere, so the model needs no bound on the clock.              *)
(***************************************************************************)
EXTENDS Integers

CONSTANTS
  Procs,       \* API processes; a restarted pod is another process
  NoHolder,    \* the holder of a row that does not exist
  Ttl,         \* how far ahead a run writes its lease (ttlMs)
  Liveness,    \* how far ahead an idle holder writes it (LEASE_LIVENESS_MS)
  Release,     \* TRUE for a run lock, FALSE for a sticky schedule owner
  Survivors,   \* processes that are neither killed nor stopped
  Laggards,    \* processes that may see a statement outlast its wait
  Wedged       \* processes whose job timer may stop firing while they live

ASSUME LeaseAssumption ==
  /\ NoHolder \notin Procs
  /\ Ttl \in Nat \ {0}
  /\ Liveness \in Nat \ {0}
  /\ Release \in BOOLEAN
  /\ Laggards \subseteq Procs
  /\ Survivors \subseteq Procs
  /\ Wedged \subseteq Procs

VARIABLES
  lease,      \* the job's row: holder and time left
  up,         \* life of the process: off, up, gone
  stage,      \* what withSchedulerLease is doing; inFlight iff not "idle"
  behind,     \* after-run writes given up on by the settle timeout
  renew,      \* the newest renewal is on its way (renewing)
  stray,      \* a renewal overtaken by a newer one is still on its way
  horizon,    \* held.get(job).horizon, NotHeld when there is no entry
  keep,       \* ttl of the keep-alive claim on its way, 0 for none
  replaced,   \* that claim was made for an entry replaced since
  stop,       \* progress of releaseAllSchedulerLeases
  work,       \* the run's work is going on (it may outlive the process)
  promised,   \* time left of the lease this run last wrote for itself
  clean       \* the run began with no shutdown begun and no write left behind

runVars  == <<stage, work, promised, clean>>
heldVars == <<horizon, keep, replaced>>
stopVars == <<up, stop>>
vars == <<lease, up, stage, behind, renew, stray, horizon, keep, replaced,
          stop, work, promised, clean>>

NotHeld == -1
NoRow == [holder |-> NoHolder, left |-> -1]

Stages  == {"idle", "claim", "run", "renewal", "letgo", "release", "cut"}
Settles == {"idle", "renewal", "letgo", "release", "cut"}

-----------------------------------------------------------------------------
(* The statements, as the database applies them.                           *)

\* Mutant: a lease is taken over in its last moment.
ClaimableAtTheEnd(p) == lease.holder \in {p, NoHolder} \/ lease.left <= 0

\* A row that is missing, the caller's, or lapsed.
Claimable(p) == lease.holder \in {p, NoHolder} \/ lease.left < 0

\* claimSchedulerLease: the row is written when it is missing, the caller's,
\* or lapsed.
Claim(p, ttl) ==
  lease' = IF Claimable(p) THEN [holder |-> p, left |-> ttl] ELSE lease

\* Mutant: the keep-alive's claim overwrites a longer lease.
ClaimNotExtendOnly(p, ttl) == Claim(p, ttl)

\* The same with extendOnly: a longer lease of the caller's is kept.
ClaimExtendOnly(p, ttl) ==
  IF lease.holder = p /\ lease.left > ttl THEN UNCHANGED lease
                                          ELSE Claim(p, ttl)

\* Mutant: the DELETE forgets to ask for its own holder.
DeleteAny(p) == lease' = NoRow

\* The DELETE of releaseSchedulerLease: only a row of the caller's.
DeleteOwn(p) == lease' = IF lease.holder = p THEN NoRow ELSE lease

-----------------------------------------------------------------------------
Init ==
  /\ lease = NoRow
  /\ up = [p \in Procs |-> "off"]
  /\ stage = [p \in Procs |-> "idle"]
  /\ behind = [p \in Procs |-> "idle"]
  /\ renew = [p \in Procs |-> FALSE]
  /\ stray = [p \in Procs |-> FALSE]
  /\ horizon = [p \in Procs |-> NotHeld]
  /\ keep = [p \in Procs |-> 0]
  /\ replaced = [p \in Procs |-> FALSE]
  /\ stop = [p \in Procs |-> "no"]
  /\ work = [p \in Procs |-> FALSE]
  /\ promised = [p \in Procs |-> -1]
  /\ clean = [p \in Procs |-> FALSE]

\* A process starts with empty maps.
Start(p) ==
  /\ up[p] = "off"
  /\ up' = [up EXCEPT ![p] = "up"]
  /\ UNCHANGED <<lease, behind, renew, stray, stop>>
  /\ UNCHANGED runVars /\ UNCHANGED heldVars

Stopping(p) == stop[p] # "no"

-----------------------------------------------------------------------------
(* withSchedulerLease, up to the run.                                      *)

\* A tick of the job's timer (or a caller of runExclusive): refused at once
\* when the job is in flight here, else it counts as in flight and its claim
\* is sent.
Tick(p) ==
  /\ up[p] = "up"
  /\ stage[p] = "idle"
  /\ stage' = [stage EXCEPT ![p] = "claim"]
  /\ clean' = [clean EXCEPT ![p] = ~Stopping(p) /\ behind[p] = "idle"]
  /\ UNCHANGED <<lease, behind, renew, stray, work, promised>>
  /\ UNCHANGED heldVars /\ UNCHANGED stopVars

\* The claim is granted: the run begins.
ClaimGranted(p) ==
  /\ up[p] = "up"
  /\ stage[p] = "claim"
  /\ Claimable(p)
  /\ Claim(p, Ttl)
  /\ stage' = [stage EXCEPT ![p] = "run"]
  /\ work' = [work EXCEPT ![p] = TRUE]
  /\ promised' = [promised EXCEPT ![p] = Ttl]
  /\ UNCHANGED <<behind, renew, stray, clean>>
  /\ UNCHANGED heldVars /\ UNCHANGED stopVars

\* The claim is refused: another holder's lease has not lapsed.
ClaimRefused(p) ==
  /\ up[p] = "up"
  /\ stage[p] = "claim"
  /\ ~Claimable(p)
  /\ stage' = [stage EXCEPT ![p] = "idle"]
  /\ clean' = [clean EXCEPT ![p] = FALSE]
  /\ UNCHANGED <<lease, behind, renew, stray, work, promised>>
  /\ UNCHANGED heldVars /\ UNCHANGED stopVars

\* The claim throws, or its sender is gone: nothing runs, whether or not the
\* statement was applied.
ClaimLost(p) ==
  /\ stage[p] = "claim"
  /\ UNCHANGED lease \/ Claim(p, Ttl)
  /\ stage' = [stage EXCEPT ![p] = "idle"]
  /\ clean' = [clean EXCEPT ![p] = FALSE]
  /\ UNCHANGED <<behind, renew, stray, work, promised>>
  /\ UNCHANGED heldVars /\ UNCHANGED stopVars

-----------------------------------------------------------------------------
(* The renewal timer of a run.                                             *)

\* The timer fires.  A renewal still on its way is no longer the one that
\* "renewing" names.  (Bound: one overtaken renewal per process at a time.)
RenewTimer(p) ==
  /\ up[p] = "up"
  /\ stage[p] = "run"
  /\ renew[p] => p \in Laggards /\ ~stray[p]
  /\ renew' = [renew EXCEPT ![p] = TRUE]
  /\ stray' = [stray EXCEPT ![p] = @ \/ renew[p]]
  /\ UNCHANGED <<lease, behind>>
  /\ UNCHANGED runVars /\ UNCHANGED heldVars /\ UNCHANGED stopVars

\* The newest renewal is applied, or fails unapplied (logged only).
RenewAnswered(p) ==
  /\ renew[p]
  /\ renew' = [renew EXCEPT ![p] = FALSE]
  /\ \/ /\ Claim(p, Ttl)
        /\ promised' = IF work[p] /\ Claimable(p)
                         THEN [promised EXCEPT ![p] = Ttl] ELSE promised
     \/ UNCHANGED <<lease, promised>>
  /\ UNCHANGED <<stage, behind, stray, work, clean>>
  /\ UNCHANGED heldVars /\ UNCHANGED stopVars

\* The same for an overtaken renewal.
StrayAnswered(p) ==
  /\ stray[p]
  /\ stray' = [stray EXCEPT ![p] = FALSE]
  /\ UNCHANGED lease \/ Claim(p, Ttl)
  /\ UNCHANGED <<behind, renew>>
  /\ UNCHANGED runVars /\ UNCHANGED heldVars /\ UNCHANGED stopVars

-----------------------------------------------------------------------------
(* The lease writes that follow a run ("settled").  A task is in stage     *)
(* "renewal" while it awaits the renewal on its way, "letgo" while it      *)
(* awaits a keep-alive on its way, "release" while its DELETE and "cut"    *)
(* while its shortening claim is on its way.                               *)

\* Mutant: letGo does not wait for a statement on its way.
NeverPending(p) == FALSE

\* An entry of held has a statement on its way: the keep-alive or an earlier
\* run's cut.  (holdLongLease joins the promise of the entry it replaces into
\* the new entry's, and what clears a promise afterwards is bound to the old
\* one: the joined promise settles but stays set, so letGo passes and the
\* keep-alive skips that entry until the next run.  Here it may go on, which
\* only adds behaviours: an entry kept alive is never safer than one skipped.)
Pending(p) == keep[p] # 0 \/ behind[p] = "cut"

HandsOver(p) == Release \/ Stopping(p)

\* What the task does once no renewal is on its way.
AfterRenewal(p) ==
  IF HandsOver(p)
    THEN IF horizon[p] # NotHeld /\ Pending(p) THEN "letgo" ELSE "release"
    ELSE IF Ttl > Liveness THEN "cut" ELSE "idle"

\* releaseSchedulerLease drops the held entry; holdLongLease makes a new one.
EntryAfterRenewal(p) ==
  /\ horizon' = [horizon EXCEPT ![p] =
       IF HandsOver(p) THEN NotHeld ELSE IF Ttl > Liveness THEN Ttl ELSE @]
  /\ replaced' = [replaced EXCEPT ![p] =
       @ \/ (keep[p] # 0 /\ ~HandsOver(p) /\ Ttl > Liveness)]
  /\ UNCHANGED keep

\* The run is over for the helper: fn returned, threw, or outlasted maxHoldMs
\* and was given up (LeasedRunAbandonedError; what it still does counts no
\* more).  The renewal timer is cleared.
EndRun(p) ==
  /\ up[p] = "up"
  /\ stage[p] = "run"
  /\ work' = [work EXCEPT ![p] = FALSE]
  /\ promised' = [promised EXCEPT ![p] = -1]
  /\ clean' = [clean EXCEPT ![p] = FALSE]
  /\ renew' = [renew EXCEPT ![p] = FALSE]
  /\ IF renew[p]
       THEN /\ stage' = [stage EXCEPT ![p] = "renewal"]
            /\ UNCHANGED heldVars
       ELSE /\ stage' = [stage EXCEPT ![p] = AfterRenewal(p)]
            /\ EntryAfterRenewal(p)
  /\ UNCHANGED <<lease, behind, stray>>
  /\ UNCHANGED stopVars

\* The renewal that ended with its run is answered and the task goes on (if
\* its process still lives).
RenewalSettled(p) ==
  /\ stage[p] = "renewal"
  /\ UNCHANGED lease \/ Claim(p, Ttl)
  /\ IF up[p] = "up"
       THEN /\ stage' = [stage EXCEPT ![p] = AfterRenewal(p)]
            /\ EntryAfterRenewal(p)
       ELSE /\ stage' = [stage EXCEPT ![p] = "idle"]
            /\ UNCHANGED heldVars
  /\ UNCHANGED <<behind, renew, stray, work, promised, clean>>
  /\ UNCHANGED stopVars

\* letGo has awaited the entry's statement: the DELETE is sent.
LetGoDone(p) ==
  /\ up[p] = "up"
  /\ stage[p] = "letgo"
  /\ ~Pending(p)
  /\ stage' = [stage EXCEPT ![p] = "release"]
  /\ UNCHANGED <<lease, behind, renew, stray, work, promised, clean>>
  /\ UNCHANGED heldVars /\ UNCHANGED stopVars

\* The DELETE is answered; a failure is logged ("it expires on its own").
\* inFlight.delete(job).
ReleaseAnswered(p) ==
  /\ stage[p] = "release"
  /\ UNCHANGED lease \/ DeleteOwn(p)
  /\ stage' = [stage EXCEPT ![p] = "idle"]
  /\ UNCHANGED <<behind, renew, stray, work, promised, clean>>
  /\ UNCHANGED heldVars /\ UNCHANGED stopVars

\* The shortening claim is answered, or fails (the keep-alive makes up).
CutAnswered(p) ==
  /\ stage[p] = "cut"
  /\ UNCHANGED lease \/ Claim(p, Liveness)
  /\ stage' = [stage EXCEPT ![p] = "idle"]
  /\ UNCHANGED <<behind, renew, stray, work, promised, clean>>
  /\ UNCHANGED heldVars /\ UNCHANGED stopVars

\* afterRunWaitMs has passed: the job is freed here without the writes, which
\* go on behind.  (Bound: one task behind per process at a time.)
SettleTimeout(p) ==
  /\ up[p] = "up"
  /\ stage[p] \in Settles \ {"idle"}
  /\ p \in Laggards /\ behind[p] = "idle"
  /\ behind' = [behind EXCEPT ![p] = stage[p]]
  /\ stage' = [stage EXCEPT ![p] = "idle"]
  /\ UNCHANGED <<lease, renew, stray, work, promised, clean>>
  /\ UNCHANGED heldVars /\ UNCHANGED stopVars

\* One step of the task left behind: as above, with nobody waiting for it.
BehindStep(p) ==
  /\ \/ /\ behind[p] = "renewal"
        /\ UNCHANGED lease \/ Claim(p, Ttl)
        /\ IF up[p] = "up"
             THEN /\ behind' = [behind EXCEPT ![p] = AfterRenewal(p)]
                  /\ EntryAfterRenewal(p)
             ELSE /\ behind' = [behind EXCEPT ![p] = "idle"]
                  /\ UNCHANGED heldVars
     \/ /\ behind[p] = "letgo" /\ up[p] = "up" /\ keep[p] = 0
        /\ behind' = [behind EXCEPT ![p] = "release"]
        /\ UNCHANGED <<lease, horizon, keep, replaced>>
     \/ /\ behind[p] \in {"release", "cut"}
        /\ \/ UNCHANGED lease
           \/ IF behind[p] = "cut" THEN Claim(p, Liveness) ELSE DeleteOwn(p)
        /\ behind' = [behind EXCEPT ![p] = "idle"]
        /\ UNCHANGED heldVars
  /\ UNCHANGED <<renew, stray>>
  /\ UNCHANGED runVars /\ UNCHANGED stopVars

-----------------------------------------------------------------------------
(* The keep-alive of a holder between runs.                                *)

\* Mutant: the keep-alive has no horizon.
KeepAliveForEver(p) ==
  /\ up[p] = "up"
  /\ horizon[p] # NotHeld
  /\ stage[p] = "idle" /\ ~Pending(p)
  /\ keep' = [keep EXCEPT ![p] = Liveness]
  /\ UNCHANGED <<lease, behind, renew, stray, horizon, replaced>>
  /\ UNCHANGED runVars /\ UNCHANGED stopVars

\* Mutant: the keep-alive writes up to the horizon, not the liveness window.
KeepAliveToHorizon(p) ==
  /\ up[p] = "up"
  /\ horizon[p] # NotHeld
  /\ stage[p] = "idle" /\ ~Pending(p)
  /\ keep' = [keep EXCEPT ![p] = horizon[p]]
  /\ UNCHANGED <<lease, behind, renew, stray, horizon, replaced>>
  /\ UNCHANGED runVars /\ UNCHANGED stopVars

\* keepLeasesAlive, for this job's entry: drop it past its horizon, else send
\* an extend-only claim.
KeepLeasesAlive(p) ==
  /\ up[p] = "up"
  /\ horizon[p] # NotHeld
  /\ stage[p] = "idle" /\ ~Pending(p)
  /\ IF horizon[p] = 0
       THEN /\ horizon' = [horizon EXCEPT ![p] = NotHeld]
            /\ UNCHANGED <<keep, replaced>>
       ELSE /\ keep' = [keep EXCEPT ![p] =
                 IF horizon[p] < Liveness THEN horizon[p] ELSE Liveness]
            /\ UNCHANGED <<horizon, replaced>>
  /\ UNCHANGED <<lease, behind, renew, stray>>
  /\ UNCHANGED runVars /\ UNCHANGED stopVars

\* Its answer: refused, the entry it was made for is dropped.
KeepAliveAnswered(p) ==
  /\ keep[p] # 0
  /\ keep' = [keep EXCEPT ![p] = 0]
  /\ ClaimExtendOnly(p, keep[p])
  /\ horizon' = IF Claimable(p) \/ replaced[p]
                  THEN horizon ELSE [horizon EXCEPT ![p] = NotHeld]
  /\ replaced' = [replaced EXCEPT ![p] = FALSE]
  /\ UNCHANGED <<behind, renew, stray>>
  /\ UNCHANGED runVars /\ UNCHANGED stopVars

\* It fails unapplied: logged only.
KeepAliveLost(p) ==
  /\ keep[p] # 0
  /\ keep' = [keep EXCEPT ![p] = 0]
  /\ replaced' = [replaced EXCEPT ![p] = FALSE]
  /\ UNCHANGED <<lease, behind, renew, stray, horizon>>
  /\ UNCHANGED runVars /\ UNCHANGED stopVars

-----------------------------------------------------------------------------
(* Shutdown, crash and time.                                               *)

\* SIGTERM: releaseAllSchedulerLeases sets "stopping".  A job in flight now is
\* in its keep list and this is all it does to it; of any other it lets the
\* held entry go and deletes the row.
ReleaseAll(p) ==
  /\ up[p] = "up" /\ p \notin Survivors
  /\ stop[p] = "no"
  /\ IF stage[p] # "idle"
       THEN /\ stop' = [stop EXCEPT ![p] = "done"]
            /\ UNCHANGED horizon
       ELSE /\ stop' = [stop EXCEPT ![p] =
                 IF horizon[p] # NotHeld /\ Pending(p) THEN "letgo" ELSE "delete"]
            /\ horizon' = [horizon EXCEPT ![p] = NotHeld]
  /\ UNCHANGED <<lease, up, behind, renew, stray, keep, replaced>>
  /\ UNCHANGED runVars

\* Its letGo has awaited the keep-alive: the DELETE is sent.
ReleaseAllLetGo(p) ==
  /\ up[p] = "up"
  /\ stop[p] = "letgo" /\ ~Pending(p)
  /\ stop' = [stop EXCEPT ![p] = "delete"]
  /\ UNCHANGED <<lease, up, behind, renew, stray>>
  /\ UNCHANGED runVars /\ UNCHANGED heldVars

\* Its DELETE is answered (a failure is ignored).
ReleaseAllAnswered(p) ==
  /\ stop[p] = "delete"
  /\ stop' = [stop EXCEPT ![p] = "done"]
  /\ UNCHANGED lease \/ DeleteOwn(p)
  /\ UNCHANGED <<up, behind, renew, stray>>
  /\ UNCHANGED runVars /\ UNCHANGED heldVars

\* The process ends: killed at any moment, or by exit(0) after its shutdown.
\* Statements on their way stay on their way; the work may outlive it.
Die(p) ==
  /\ up[p] = "up" /\ p \notin Survivors
  /\ up' = [up EXCEPT ![p] = "gone"]
  /\ stage' = [stage EXCEPT ![p] =
       IF @ \in {"run", "letgo"} THEN "idle" ELSE @]
  /\ behind' = [behind EXCEPT ![p] = IF @ = "letgo" THEN "idle" ELSE @]
  /\ stop' = [stop EXCEPT ![p] = IF @ = "letgo" THEN "done" ELSE @]
  /\ horizon' = [horizon EXCEPT ![p] = NotHeld]
  /\ UNCHANGED <<lease, renew, stray, keep, replaced, work, promised, clean>>

\* Work that outlived its process ends.
OrphanWorkEnds(p) ==
  /\ up[p] = "gone" /\ work[p]
  /\ work' = [work EXCEPT ![p] = FALSE]
  /\ promised' = [promised EXCEPT ![p] = -1]
  /\ clean' = [clean EXCEPT ![p] = FALSE]
  /\ UNCHANGED <<lease, behind, renew, stray, stage>>
  /\ UNCHANGED heldVars /\ UNCHANGED stopVars

\* One unit less, down to the floor.
Less(t, floor) == IF t > floor THEN t - 1 ELSE t

\* One unit of time passes, on the database clock and in every process.
Time ==
  /\ lease' = [lease EXCEPT !.left = Less(@, -1)]
  /\ promised' = [p \in Procs |-> Less(promised[p], -1)]
  /\ horizon' = [p \in Procs |-> Less(horizon[p], 0)]
  /\ UNCHANGED <<behind, renew, stray, keep, replaced, stage, work, clean>>
  /\ UNCHANGED stopVars

\* A statement is answered, or a task goes on.
Answer(p) ==
  \/ ClaimGranted(p) \/ ClaimRefused(p)
  \/ RenewAnswered(p) \/ StrayAnswered(p)
  \/ RenewalSettled(p) \/ LetGoDone(p) \/ ReleaseAnswered(p)
  \/ CutAnswered(p) \/ BehindStep(p)
  \/ KeepAliveAnswered(p) \/ ReleaseAllLetGo(p) \/ ReleaseAllAnswered(p)

\* A timer of the process fires.
Timer(p) ==
  \/ Tick(p) \/ RenewTimer(p) \/ KeepLeasesAlive(p) \/ SettleTimeout(p)

Environment(p) ==
  \/ Start(p) \/ EndRun(p) \/ ClaimLost(p)
  \/ KeepAliveLost(p) \/ ReleaseAll(p) \/ Die(p) \/ OrphanWorkEnds(p)

Next == Time \/ \E p \in Procs : Answer(p) \/ Timer(p) \/ Environment(p)

Spec == Init /\ [][Next]_vars

\* Timers of a living process fire (but for the job timer of a wedged one),
\* statements are answered, a run that does not return is given up, and the
\* clock runs.  A claim is not lost for ever.  Nothing makes a run return.
Fairness ==
  /\ WF_vars(Time)
  /\ \A p \in Procs :
       /\ WF_vars(Start(p))
       /\ WF_vars(Answer(p))
       /\ WF_vars(EndRun(p))
       /\ WF_vars(KeepLeasesAlive(p))
       /\ SF_vars(ClaimGranted(p))
       /\ p \notin Wedged => WF_vars(Tick(p))

FairSpec == Spec /\ Fairness

-----------------------------------------------------------------------------
(* Properties.                                                             *)

TypeOK ==
  /\ lease \in [holder : Procs \cup {NoHolder}, left : Int]
  /\ lease.left >= -1
  /\ up \in [Procs -> {"off", "up", "gone"}]
  /\ stage \in [Procs -> Stages]
  /\ behind \in [Procs -> Settles]
  /\ renew \in [Procs -> BOOLEAN]
  /\ stray \in [Procs -> BOOLEAN]
  /\ horizon \in [Procs -> Nat \cup {NotHeld}]
  /\ keep \in [Procs -> 0..Liveness]
  /\ replaced \in [Procs -> BOOLEAN]
  /\ stop \in [Procs -> {"no", "letgo", "delete", "done"}]
  /\ work \in [Procs -> BOOLEAN]
  /\ promised \in [Procs -> -1..Ttl]
  /\ clean \in [Procs -> BOOLEAN]

\* Nothing takes, deletes or shortens the lease of a run in flight (or of work
\* that outlived its process) before the time the run last wrote for itself:
\* no other replica, no keep-alive of an earlier run, no shutdown of its own
\* process.  Only a run begun during the shutdown, or over after-run writes
\* that the settle timeout left behind, is excepted.
RunKeepsItsLease ==
  \A p \in Procs :
    work[p] /\ clean[p] /\ promised[p] >= 0
      => lease.holder = p /\ lease.left >= promised[p]

\* Two replicas work on the job at once only when one of them has failed to
\* renew for a whole ttl, or began its run during its own shutdown or over
\* after-run writes left behind (clean): those runs are excepted, as in
\* RunKeepsItsLease.
Exclusion ==
  \A p, q \in Procs :
    /\ work[p] /\ clean[p] /\ promised[p] >= 0
    /\ work[q] /\ clean[q] /\ promised[q] >= 0
    => p = q

\* A living replica that has let the lease go does not find itself its holder
\* again without asking: no keep-alive or renewal that was on its way writes
\* the row back after the DELETE (letGo, "await renewing").  An overtaken
\* renewal is excepted, see NoRenewalWritesBack.
NoWriteBack ==
  [][\A p \in Procs :
       /\ up[p] = "up" /\ stage[p] = "idle" /\ behind[p] = "idle"
       /\ horizon[p] = NotHeld /\ stop[p] # "letgo" /\ ~stray[p]
       /\ lease.holder # p
       => lease'.holder # p]_vars

\* The processes with a run that counts on the lease: it began clean, and the
\* time it last wrote for itself has not passed.
Inside == {p \in Procs : work[p] /\ clean[p] /\ promised[p] >= 0}

(* To the runs that began clean the lease is the lock that RunLock         *)
(* describes, through every claim, renewal, cut, keep-alive and DELETE     *)
(* that is applied late, and every crash and shutdown.                     *)
Lock == INSTANCE RunLock WITH
  Nobody <- NoHolder,
  holder <- lease.holder,
  fresh <- lease.left >= 0,
  inside <- Inside

KeepsRunLock == Lock!Spec

\* The job is started again and again, whatever replica dies, is stopped,
\* hangs in a run or stops ticking while holding the lease.
JobKeepsRunning == []<><<\E p \in Procs : ClaimGranted(p)>>_vars
-----------------------------------------------------------------------------
(* What the source says of itself and the code does not do (README, known  *)
(* divergences 1 and 2, with the instances that violate them).             *)

\* "A renewal on its way would land after them and undo them": no renewal of a
\* run that is over writes the row back once the run lock is released.
NoRenewalWritesBack ==
  [][\A p \in Procs :
       /\ up[p] = "up" /\ stage[p] = "idle" /\ behind[p] = "idle"
       /\ horizon[p] = NotHeld /\ stop[p] # "letgo"
       /\ lease.holder # p
       => lease'.holder # p]_vars

\* "A graceful shutdown must not hand these to another replica: the work is
\* still in flight": its DELETE spares the row of a job running here.
ShutdownSparesRunningJobs ==
  [][\A p \in Procs :
       ReleaseAllAnswered(p) /\ stage[p] = "run" => lease' = lease]_vars
=============================================================================
