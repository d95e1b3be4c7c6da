\* A loop that states its position, three iterations.
SPECIFICATION Spec
CONSTANTS
  read = read
  write = write
  ask = ask
  recall = recall
  remember = remember
  External <- MCExternal
  Builtin <- MCBuiltin
  AskUser = ask
  Allowed <- MCAllowed
  Batches <- MCBatches
  MaxIterations = 3
  Composer = TRUE
  LoopTail = TRUE
  MaxMessages = 0
INVARIANT
  AsksOnlyWhatWasSaid
