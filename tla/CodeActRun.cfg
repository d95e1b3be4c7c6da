\* Plan, code, split batches and two verifier rounds in eight iterations: enough
\* for a give-up on empty replies after other work.
SPECIFICATION Spec
CONSTANTS
  read = read
  write = write
  ask = ask
  recall = recall
  remember = remember
  Code = code
  External <- MCExternal
  Builtin <- MCBuiltin
  AskUser = ask
  Allowed <- MCAllowed
  Batches <- MCBatches
  VerifierBatches <- MCVerifierBatches
  MaxIterations = 8
  PlanMode = TRUE
  ReviewMode = TRUE
  MaxReviewRounds = 2
  FencedFallback = TRUE
INVARIANTS
  CallsAccountedFor
  RoundsAreCounted
  ObjectionIsHeard
PROPERTIES
  KeepsItsPromise
  RunEnds
