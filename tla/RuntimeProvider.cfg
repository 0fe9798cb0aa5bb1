SPECIFICATION Spec
CONSTANTS
  Orgs = {o1, o2}
  Pages = {a1, a2, b1}
  OrgOf <- Organization
  Procs = {p1}
  Deployments <- Environments
  None = None
  o1 = o1
  o2 = o2
  a1 = a1
  a2 = a2
  b1 = b1
SYMMETRY Symmetry
INVARIANTS
  AuditTellsProvider
PROPERTIES
  RegenerationUsesEffective
