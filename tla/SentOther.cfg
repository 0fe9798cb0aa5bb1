SPECIFICATION Spec
CONSTANTS
  Reviewers = {r1}
  Workers = {w1}
  Drafts = {d1, d2}
  NoDraft = NoDraft
  Keys = {k1, k2}
  NoKey = NoKey
  SeedStatuses = {"PENDING_REVIEW"}
  Ops = {"EDIT_DRAFT", "APPROVE"}
  Faults = {"ambiguous_enqueue"}
  MaxAttempts = 2
  CeleryMaxRetries = 2
  MaxVersion = 5
  MaxJobs = 2
  MaxRuns = 0
INVARIANTS
  SentMatchesSnapshot
