SPECIFICATION Spec
CONSTANTS
  Clients = {c1, c2}
  Orgs = {o1, o2}
  Emails = {e1, e2, e3}
  SeedOrg = o1
  SeedAdmin = e1
  NoItems = NoItems
  Unassigned = Unassigned
  DemoData = TRUE
  LoginEmails = {e2}
  Limit = 2
  WindowSeconds = 2
  TicksPerSecond = 2
  MaxClock = 5
  MaxSignups = 2
SYMMETRY Symmetry
INVARIANTS
  TypeOK
  SlidingLimit
  RetryAfterNearlySuffices
  OneAccountOneAdmin
PROPERTIES
  DemoItemsKept
