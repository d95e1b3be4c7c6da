\* A turn that may ask, split its batches, be reviewed and be told to conclude,
\* under weak fairness of the ticks; its user may never answer.
SPECIFICATION FairSpec
CONSTANTS
  read = read
  write = write
  ask = ask
  plan = plan
  remember = remember
  External <- MCExternal
  SideEffect <- MCSideEffect
  Builtin <- MCBuiltin
  AskUser = ask
  UpdatePlan = plan
  Allowed <- MCAllowed
  Absent = Absent
  Batches <- SplitBatches
  VerifierBatches <- SplitVerifierBatches
  Answers = {ok, blocked}
  Succeeding = {ok}
  Failing = {blocked}
  Blocked = blocked
  MaxIterations = 3
  ReviewMode = TRUE
  MaxReviewRounds = 2
  CheckPlan = TRUE
  Composed = FALSE
  Turns = 1
  MaxMessages = 1
  StreakThreshold = 3
  FailingThreshold = 2
  HardThreshold = Absent
  MaxNudges = 3
INVARIANTS
  ReviewBudget
  RecordIsWhole
  CostBound
PROPERTIES
  KeepsItsPromise
  TurnEnds
