\* A suspend, then a delete that may begin at any moment.
CONSTANTS
  N = 2
  H = 2
  Abort = {1}
  Kind <- StatusThenDelete
  MaxAttempts = 2
  MaxResumes = 1
  MaxFaults = 2
  MayBeLate = TRUE
SPECIFICATION FairSpec
INVARIANTS TypeOK PickUpRunsTheLatest PickUpActsOnTheTruth OneRunnerPerHook BlockedUntilDone CompletedLeavesNothingPending
PROPERTIES DoneStaysDone EveryTransitionEnds NoHookRunsForEver
CHECK_DEADLOCK FALSE
