SPECIFICATION FairSpec
CONSTANTS
  Tabs = {r1, r2}
  Workers = {w1}
  Nobody = Nobody
  MaxJobs = 2
INVARIANTS
  ReadsCurrent
  OneActiveJob
  DeadlockNeedsRetry
PROPERTIES
  TransactionsEnd
