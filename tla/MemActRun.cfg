\* Questions in the middle of batches and two guidance messages in four
\* iterations: several stimuli, some of them between two composes.
SPECIFICATION Spec
CONSTANTS
  read = read
  write = write
  ask = ask
  recall = recall
  remember = remember
  External <- MCExternal
  Builtin <- MCBuiltin
  AskUser = ask
  Allowed <- MCAllowed
  Batches <- MCBatches
  MaxIterations = 4
  Composer = TRUE
  LoopTail = TRUE
  MaxMessages = 2
INVARIANTS
  AsksWhenNew
  AnswerIsKept
PROPERTIES
  KeepsItsPromise
  RunEnds
