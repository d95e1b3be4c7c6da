\* Two runs on two threads, two messages, one question, one crash, one queue kept.
SPECIFICATION Spec
CONSTANTS
  Runs = {r1, r2}
  Threads = {t1, t2}
  Nobody = Nobody
  MaxPendingRuns = 1
  Facade = TRUE
  MaxMessages = 2
  MaxQuestions = 1
  MaxCrashes = 1
SYMMETRY MCSymmetry
INVARIANTS
  DeliveredOnceInOrder
  NothingSilentlyLost
  NoQueueOutlivesItsRun
PROPERTIES
  QueuedIsHandedOver
