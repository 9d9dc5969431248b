\* One queue object, as the comment in main() says.
CONSTANTS
  Commands = {c1, c2}
  HttpQueue = "queue"
  RunnerQueue = "queue"
  Verdicts = {"ok", "temporary", "retryable", "refused"}
  MaxAttempts = 2
  NoCommand = NoCommand
  MaxCrashes = 2
  MaxFaults = 1
SPECIFICATION LiveSpec
INVARIANTS TypeOK NoneStranded AttemptsBounded ReleasedNeverRuns
PROPERTIES LivesOnce QueuedJobSettles
CHECK_DEADLOCK FALSE
