SPECIFICATION Spec
CONSTANTS
  Reviewers = {r1}
  Workers = {w1}
  Drafts = {d1}
  NoDraft = NoDraft
  Keys = {k1}
  NoKey = NoKey
  SeedStatuses = {"PENDING_REVIEW"}
  Ops = {"APPROVE", "RETRY_PROCESSING"}
  Faults = {"crm_fails", "slow_queue"}
  MaxAttempts = 3
  CeleryMaxRetries = 3
  MaxVersion = 4
  MaxJobs = 2
  MaxRuns = 0
INVARIANTS
  AttemptOwnsItem
