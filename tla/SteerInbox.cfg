\* One run, two messages, no crash: the host writes its inbox while a tick is in flight.
SPECIFICATION Spec
CONSTANTS
  Runs = {r1}
  Threads = {t1}
  Nobody = Nobody
  MaxPendingRuns = 1
  Facade = TRUE
  MaxMessages = 2
  MaxQuestions = 0
  MaxCrashes = 0
INVARIANTS
  InboxIsGuaranteed
