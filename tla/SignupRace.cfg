SPECIFICATION Spec
CONSTANTS
  Clients = {c1, c2}
  Orgs = {o1, o2}
  Emails = {e1, e2}
  SeedOrg = o1
  SeedAdmin = e1
  NoItems = NoItems
  Unassigned = Unassigned
  DemoData = FALSE
  LoginEmails = {}
  Limit = 1
  WindowSeconds = 1
  TicksPerSecond = 1
  MaxClock = 0
  MaxSignups = 2
INVARIANTS
  ConflictsAnswered409
