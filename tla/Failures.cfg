SPECIFICATION Spec
CONSTANTS
  Reviewers = {r1, r2}
  Workers = {w1, w2}
  Drafts = {d1, d2}
  NoDraft = NoDraft
  Keys = {k1}
  NoKey = NoKey
  SeedStatuses = {"FAILED"}
  Ops = {"EDIT_DRAFT", "APPROVE", "RETRY_PROCESSING"}
  Faults = {"enqueue_fails", "ambiguous_enqueue", "duplicate_message", "message_lost",
            "crm_fails", "worker_dies", "api_crash", "slow_worker"}
  MaxAttempts = 2
  CeleryMaxRetries = 2
  MaxVersion = 3
  MaxJobs = 3
  MaxRuns = 0
SYMMETRY Symmetry
INVARIANTS
  ProcessingHasActiveJob
  EmailBodyApproved
  RetryBudgetSuffices
  EmailsCounted
