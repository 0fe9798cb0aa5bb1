SPECIFICATION FairSpec
CONSTANTS
  Reviewers = {r1, r2}
  Workers = {w1}
  Drafts = {d1, d2}
  NoDraft = NoDraft
  Keys = {k1}
  NoKey = NoKey
  SeedStatuses = {"PENDING_REVIEW"}
  Ops = {"EDIT_DRAFT", "REGENERATE", "APPROVE", "RETRY_PROCESSING"}
  Faults = {"enqueue_fails", "ambiguous_enqueue", "email_fails", "provider_fails"}
  MaxAttempts = 3
  CeleryMaxRetries = 3
  MaxVersion = 5
  MaxJobs = 2
  MaxRuns = 1
PROPERTIES
  ProcessingSettles
  RegenerationEnds
