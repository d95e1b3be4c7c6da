\* One run, two messages, no crash: a handler answers what the closing itself emits.
SPECIFICATION Spec
CONSTANTS
  Runs = {r1}
  Threads = {t1}
  Nobody = Nobody
  MaxPendingRuns = 1
  Facade = TRUE
  MaxMessages = 2
  MaxQuestions = 0
  MaxCrashes = 0
INVARIANTS
  CompletedRunsLeaveNoQueue
