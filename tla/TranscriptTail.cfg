\* Any session of up to three strange messages, a window that may leave out what is
\* before the turn in progress, a batch with a question in it; seven durable messages.
SPECIFICATION Spec
CONSTANTS
  CallIds = {1, 2, 3}
  AskUser = "ask_user"
  NoId = 0
  Batches <- MCBatches
  Effects = {"ask_user", "remember"}
  Handed <- Strange
  MaxHanded = 3
  Marked = TRUE
  MaxMessages = 7
\* The run goes on; the instance ends at its last message.
CHECK_DEADLOCK FALSE
INVARIANTS
  RequestIsAccepted
  NothingDropped
  LostBehindAQuestion
PROPERTY
  SentIsPrefix
