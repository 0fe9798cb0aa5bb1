SPECIFICATION Spec
CONSTANTS
  Reviewers = {r1}
  Workers = {w1}
  Drafts = {d1}
  NoDraft = NoDraft
  Keys = {k1}
  NoKey = NoKey
  SeedStatuses = {"PENDING_REVIEW"}
  Ops = {"APPROVE"}
  Faults = {"ambiguous_enqueue"}
  MaxAttempts = 2
  CeleryMaxRetries = 2
  MaxVersion = 3
  MaxJobs = 1
  MaxRuns = 0
PROPERTIES
  TransitionsValid
