\* Repeats and oscillations of a read and a write: six iterations reach every
\* stop, refusal and repeat guard.
SPECIFICATION Spec
CONSTANTS
  read = read
  write = write
  ask = ask
  plan = plan
  remember = remember
  External <- MCExternal
  SideEffect <- MCSideEffect
  Builtin <- MCBuiltin
  AskUser = ask
  UpdatePlan = plan
  Allowed <- MCAllowed
  Absent = Absent
  Batches <- StuckBatches
  VerifierBatches <- NoBatches
  Answers = {ok, err, blocked}
  Succeeding = {ok}
  Failing = {err, blocked}
  Blocked = blocked
  MaxIterations = 6
  ReviewMode = FALSE
  MaxReviewRounds = 1
  CheckPlan = FALSE
  Composed = FALSE
  Turns = 1
  MaxMessages = 0
  StreakThreshold = 3
  FailingThreshold = 2
  HardThreshold = Absent
  MaxNudges = 3
INVARIANTS
  StreakIsSound
  NudgedBeforeStopped
  LoopIsCut
PROPERTIES
  NoDuplicateSideEffect
