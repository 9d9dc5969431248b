\* The wiring of main(): createAskServer ignores the queue it is given and makes
\* one of its own.
CONSTANTS
  Commands = {c1, c2}
  HttpQueue = "http"
  RunnerQueue = "runner"
  Verdicts = {"ok", "temporary", "retryable", "refused"}
  MaxAttempts = 2
  NoCommand = NoCommand
  MaxCrashes = 0
  MaxFaults = 0
SPECIFICATION LiveSpec
PROPERTIES QueuedJobSettles
CHECK_DEADLOCK FALSE
