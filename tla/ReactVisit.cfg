\* Two turns of a visit of two iterations each: a batch split by a question, a
\* verifier that forces one, an operator message, two media references of which one
\* can be pending, and words the host may have opted into.
SPECIFICATION CarrySpec
CONSTANTS
  read = read
  write = write
  ask = ask
  plan = plan
  remember = remember
  External <- MCExternal
  SideEffect <- MCSideEffect
  Builtin <- MCBuiltin
  AskUser = ask
  UpdatePlan = plan
  Allowed <- MCAllowed
  Absent = Absent
  Batches <- AskingBatch
  VerifierBatches <- OneBatch
  Answers = {ok, blocked}
  Succeeding = {ok}
  Failing = {blocked}
  Blocked = blocked
  MaxIterations = 2
  ReviewMode = TRUE
  MaxReviewRounds = 1
  CheckPlan = FALSE
  Composed = TRUE
  Turns = 2
  MaxMessages = 1
  StreakThreshold = 3
  FailingThreshold = 2
  HardThreshold = Absent
  MaxNudges = 3
  m1 = m1
  m2 = m2
  Captures <- MCCaptures
  PendingMax = 1
  Conversations = {TRUE, FALSE}
INVARIANTS
  TurnStartsFresh
  ReportIsThisTurns
  MediaIsSeenOnce
  WordsStayWithTheirCalls
SYMMETRY MCSymmetry
