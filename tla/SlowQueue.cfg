SPECIFICATION Spec
CONSTANTS
  Reviewers = {r1, r2}
  Workers = {w1, w2}
  Drafts = {d1, d2}
  NoDraft = NoDraft
  Keys = {k1}
  NoKey = NoKey
  SeedStatuses = {"PENDING_REVIEW"}
  Ops = {"EDIT_DRAFT", "APPROVE", "RETRY_PROCESSING"}
  Faults = {"enqueue_fails", "message_lost", "api_crash", "slow_queue"}
  MaxAttempts = 2
  CeleryMaxRetries = 2
  MaxVersion = 6
  MaxJobs = 3
  MaxRuns = 0
SYMMETRY Symmetry
INVARIANTS
  AtMostOneEmail
  AttemptOwnsItem
