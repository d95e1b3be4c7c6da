\* One turn of two iterations and a request to conclude, which may come at the last.
SPECIFICATION Spec
CONSTANTS
  read = read
  write = write
  ask = ask
  plan = plan
  remember = remember
  External <- MCExternal
  SideEffect <- MCSideEffect
  Builtin <- MCBuiltin
  AskUser = ask
  UpdatePlan = plan
  Allowed <- MCAllowed
  Absent = Absent
  Batches <- OneBatch
  VerifierBatches <- NoBatches
  Answers = {ok, err, blocked}
  Succeeding = {ok}
  Failing = {err, blocked}
  Blocked = blocked
  MaxIterations = 2
  ReviewMode = FALSE
  MaxReviewRounds = 1
  CheckPlan = FALSE
  Composed = FALSE
  Turns = 1
  MaxMessages = 1
  StreakThreshold = 3
  FailingThreshold = 2
  HardThreshold = Absent
  MaxNudges = 3
PROPERTIES
  ConcludeIsTaken
