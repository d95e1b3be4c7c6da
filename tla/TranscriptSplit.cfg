\* A batch that asks the user before its last call.
SPECIFICATION Spec
CONSTANTS
  CallIds = {1, 2, 3}
  AskUser = "ask_user"
  NoId = 0
  Batches <- SplitBatches
  Effects = {"ask_user", "remember"}
  Handed <- Nothing
  MaxHanded = 0
  Marked = TRUE
  MaxMessages = 8
\* The run goes on; the instance ends at its last message.
CHECK_DEADLOCK FALSE
INVARIANT
  MissingIsLost
