---------------------------- MODULE LeaseStartup ----------------------------
(***************************************************************************)
(* The start-up run of a sticky job (retryStartupRun in backend/src/       *)
(* shared/scheduler-lease.ts).  A process whose first tick is refused      *)
(* would run the job one interval later; the helper therefore tries twice  *)
(* more on its own: once when a process replaced by the rollout has given  *)
(* the lease up, once just past the liveness window, when a holder that    *)
(* died between runs has lost it.  Every other step is SchedulerLease's,   *)
(* here without statements that outlast their wait.                        *)
(***************************************************************************)
EXTENDS SchedulerLease

CONSTANTS
  StartupMinTtl,    \* STARTUP_RETRY_MIN_TTL_MS
  StartupDelay,     \* LEASED_STARTUP_DELAY_MS
  StartupLastTry    \* STARTUP_LAST_TRY_MS, counted from the refusal

ASSUME StartupAssumption ==
  /\ Laggards = {}
  /\ StartupMinTtl \in Nat
  /\ StartupDelay \in Nat \ {0}
  /\ StartupLastTry \in Nat
  /\ StartupLastTry > StartupDelay
  /\ StartupLastTry > Liveness

VARIABLES
  startup,   \* fresh: no tick answered yet; first, last: the try owed; none
  tryIn,     \* time until the timer of that try fires
  trying,    \* the claim on its way was sent by a try
  ran,       \* the job is in ranHere
  diedIdle,  \* history: the process died with the job not in flight there
  witness,   \* history: a holder already dead between runs at the refusal
  found      \* history: what its lease had left then

historyVars == <<diedIdle, witness, found>>
startupVars == <<startup, tryIn, trying, ran, diedIdle, witness, found>>
allVars == <<vars, startupVars>>

\* Only a sticky job with a long ttl is tried again.
RetriesStartup == ~Release /\ Ttl > StartupMinTtl

\* p died between runs, and no statement of its is on its way any more.
DeadBetweenRuns(p) ==
  /\ up[p] = "gone" /\ diedIdle[p] /\ stage[p] = "idle" /\ behind[p] = "idle"
  /\ ~work[p] /\ ~renew[p] /\ ~stray[p] /\ keep[p] = 0

StartupInit ==
  /\ Init
  /\ startup = [p \in Procs |-> "fresh"]
  /\ tryIn = [p \in Procs |-> 0]
  /\ trying = [p \in Procs |-> FALSE]
  /\ ran = [p \in Procs |-> FALSE]
  /\ diedIdle = [p \in Procs |-> FALSE]
  /\ witness = [p \in Procs |-> NoHolder]
  /\ found = [p \in Procs |-> 0]

\* Mutant: the last try is made when the liveness window ends, not past it.
NextTryAtWindowEnd(p) ==
  IF startup[p] = "first"
    THEN /\ startup' = [startup EXCEPT ![p] = "last"]
         /\ tryIn' = [tryIn EXCEPT ![p] = StartupLastTry - StartupDelay - 1]
    ELSE /\ startup' = [startup EXCEPT ![p] = "none"]
         /\ UNCHANGED tryIn

\* retryStartupRun(attempt + 1): the last try after the first, none after it.
NextTry(p) ==
  IF startup[p] = "first"
    THEN /\ startup' = [startup EXCEPT ![p] = "last"]
         /\ tryIn' = [tryIn EXCEPT ![p] = StartupLastTry - StartupDelay]
    ELSE /\ startup' = [startup EXCEPT ![p] = "none"]
         /\ UNCHANGED tryIn

\* The timer of a try fires: dropped when the process is stopping or has run
\* the job, refused when the job is in flight here, else it claims like a tick.
TryTimer(p) ==
  /\ up[p] = "up"
  /\ startup[p] \in {"first", "last"} /\ tryIn[p] = 0 /\ ~trying[p]
  /\ \/ /\ Stopping(p) \/ ran[p]
        /\ startup' = [startup EXCEPT ![p] = "none"]
        /\ UNCHANGED vars /\ UNCHANGED <<tryIn, trying>>
     \/ /\ ~Stopping(p) /\ ~ran[p] /\ stage[p] # "idle"
        /\ NextTry(p)
        /\ UNCHANGED vars /\ UNCHANGED trying
     \/ /\ ~Stopping(p) /\ ~ran[p] /\ Tick(p)
        /\ trying' = [trying EXCEPT ![p] = TRUE]
        /\ UNCHANGED <<startup, tryIn>>
  /\ UNCHANGED ran /\ UNCHANGED historyVars

\* The claim of a tick or a try is granted.  A sticky job has now run here; a
\* run already owed a later try is not tried again (its timer finds ranHere).
Granted(p) ==
  /\ ~(trying[p] /\ Stopping(p))
  /\ ClaimGranted(p)
  /\ ran' = [ran EXCEPT ![p] = ~Release]
  /\ trying' = [trying EXCEPT ![p] = FALSE]
  /\ startup' = [startup EXCEPT ![p] =
       IF trying[p] \/ @ = "fresh" THEN "none" ELSE @]
  /\ UNCHANGED tryIn /\ UNCHANGED historyVars

\* The process began to stop while the claim of a try was on its way: the
\* lease is taken but nothing runs, and the run's end gives it up.
GrantedTooLate(p) ==
  /\ trying[p] /\ Stopping(p)
  /\ up[p] = "up" /\ stage[p] = "claim" /\ Claimable(p)
  /\ Claim(p, Ttl)
  /\ stage' = [stage EXCEPT ![p] = "run"]
  /\ ran' = [ran EXCEPT ![p] = ~Release]
  /\ trying' = [trying EXCEPT ![p] = FALSE]
  /\ clean' = [clean EXCEPT ![p] = FALSE]
  /\ startup' = [startup EXCEPT ![p] = "none"]
  /\ UNCHANGED <<behind, renew, stray, work, promised, tryIn>>
  /\ UNCHANGED heldVars /\ UNCHANGED stopVars /\ UNCHANGED historyVars

\* A refused first tick owes the later tries; a refused try the next one.
Refused(p) ==
  /\ ClaimRefused(p)
  /\ trying' = [trying EXCEPT ![p] = FALSE]
  /\ CASE trying[p] -> NextTry(p) /\ UNCHANGED <<witness, found>>
       [] ~trying[p] /\ startup[p] = "fresh" /\ RetriesStartup ->
            /\ startup' = [startup EXCEPT ![p] = "first"]
            /\ tryIn' = [tryIn EXCEPT ![p] = StartupDelay]
            /\ IF DeadBetweenRuns(lease.holder)
                 THEN /\ witness' = [witness EXCEPT ![p] = lease.holder]
                      /\ found' = [found EXCEPT ![p] = lease.left]
                 ELSE UNCHANGED <<witness, found>>
       [] ~trying[p] /\ startup[p] = "fresh" /\ ~RetriesStartup ->
            /\ startup' = [startup EXCEPT ![p] = "none"]
            /\ UNCHANGED <<tryIn, witness, found>>
       [] OTHER -> UNCHANGED <<startup, tryIn, witness, found>>
  /\ UNCHANGED <<ran, diedIdle>>

\* A claim that throws uses nothing up: the first tick stays the first, and
\* the try after a failed one is still owed.
Failed(p) ==
  /\ ClaimLost(p)
  /\ trying' = [trying EXCEPT ![p] = FALSE]
  /\ IF trying[p] /\ up[p] = "up" THEN NextTry(p) ELSE UNCHANGED <<startup, tryIn>>
  /\ UNCHANGED ran /\ UNCHANGED historyVars

\* The process dies, in a run or between runs.
Dies(p) ==
  /\ Die(p)
  /\ diedIdle' = [diedIdle EXCEPT ![p] = stage[p] = "idle"]
  /\ UNCHANGED <<startup, tryIn, trying, ran, witness, found>>

StartupTime ==
  /\ Time
  /\ tryIn' = [p \in Procs |-> Less(tryIn[p], 0)]
  /\ UNCHANGED <<startup, trying, ran>> /\ UNCHANGED historyVars

\* A step of the lease that the start-up bookkeeping does not see.  Without
\* laggards no renewal is overtaken and no task is left behind.
Other(p) ==
  /\ \/ Start(p) \/ Tick(p) \/ RenewTimer(p) \/ RenewAnswered(p)
     \/ EndRun(p) \/ RenewalSettled(p) \/ LetGoDone(p)
     \/ ReleaseAnswered(p) \/ CutAnswered(p)
     \/ KeepLeasesAlive(p) \/ KeepAliveAnswered(p) \/ KeepAliveLost(p)
     \/ ReleaseAll(p) \/ ReleaseAllLetGo(p) \/ ReleaseAllAnswered(p)
     \/ OrphanWorkEnds(p)
  /\ UNCHANGED startupVars

StartupNext ==
  \/ StartupTime
  \/ \E p \in Procs :
       \/ TryTimer(p) \/ Granted(p) \/ GrantedTooLate(p) \/ Refused(p)
       \/ Failed(p) \/ Dies(p) \/ Other(p)

StartupSpec == StartupInit /\ [][StartupNext]_allVars

-----------------------------------------------------------------------------
\* The last try is never refused by a holder that had already died between
\* runs when the first tick was refused and whose lease was then within the
\* liveness window: by now that lease has lapsed (until < now()), whatever the
\* job's ttl.  A longer lease is one whose cut-back after the run, or DELETE
\* of a process stopping, was lost; see DeadHolderHasLapsed.
LastTryOutlivesDeadHolder ==
  [][\A p \in Procs :
       trying[p] /\ startup[p] = "last" /\ ClaimRefused(p) /\ found[p] <= Liveness
         => lease.holder # witness[p]]_allVars

(* What the source says of itself and the code does not do: the property   *)
(* of the run lease_lost_cut, which finds it violated.                     *)

\* "just past the liveness window, by when a holder that died between runs has
\* lost the lease": when the claim of the last try is on its way, the lease of
\* such a holder (it has run the job, and died between runs) has lapsed.  A
\* cut-back that failed leaves the run's own ttl in the row, and the keep-alive,
\* which only extends, does not shorten it.
DeadHolderHasLapsed ==
  \A p \in Procs :
    /\ trying[p] /\ startup[p] = "last"
    /\ witness[p] # NoHolder /\ lease.holder = witness[p] /\ ran[witness[p]]
    => lease.left < 0
=============================================================================
