\* A root and a run it delegates to or schedules, two calls each, over one restart
\* that may change the toolset and one allowlist the host rewrites.
SPECIFICATION FairSpec
CONSTANTS
  read = read
  Tools <- MCTools
  Memory = recall
  Delegate = delegate
  Schedule = schedule
  AskUser = ask
  Factory <- MCFactory
  Toolsets <- MCToolsets
  Grants <- MCGrants
  Requests <- MCRequests
  Inherit = Inherit
  Unset = Unset
  MaxRuns = 2
  MaxCalls <- MCMaxCalls
  MaxRestarts = 1
  MaxEdits = 1
INVARIANTS
  NobodyOutgrowsTheHost
  LossIsAnnounced
PROPERTIES
  AnsweredByItsOwn
  RecordedOnce
  CallsAreAnswered
