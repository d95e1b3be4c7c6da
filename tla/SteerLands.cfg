\* One run that may wait and be cancelled, two messages, one question, one crash.
SPECIFICATION FairSpec
CONSTANTS
  Runs = {r1}
  Threads = {t1}
  Nobody = Nobody
  MaxPendingRuns = 1
  Facade = TRUE
  MaxMessages = 2
  MaxQuestions = 1
  MaxCrashes = 1
PROPERTIES
  GuidanceLands
