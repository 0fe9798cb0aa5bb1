SPECIFICATION Spec
CONSTANTS
  Reviewers = {r1, r2}
  Workers = {w1, w2}
  Drafts = {d1, d2}
  NoDraft = NoDraft
  Keys = {k1}
  NoKey = NoKey
  SeedStatuses = {"PENDING_REVIEW", "FAILED", "REJECTED"}
  Ops = {"EDIT_DRAFT", "REGENERATE", "APPROVE", "REJECT", "REOPEN",
         "RETRY_PROCESSING"}
  Faults = {"enqueue_fails", "message_lost", "email_fails", "crm_fails",
            "provider_fails", "worker_dies", "api_crash"}
  MaxAttempts = 2
  CeleryMaxRetries = 2
  MaxVersion = 6
  MaxJobs = 3
  MaxRuns = 2
SYMMETRY Symmetry
INVARIANTS
  TypeOK
  AttemptOwnsItem
  SettledItemHasNoActiveJob
  SentMatchesSnapshot
  ApprovedAsShown
  RegenerationExclusive
  OneJobPerKey
PROPERTIES
  TransitionsValid
  VersionAdvances
  ImplementsLifecycle
