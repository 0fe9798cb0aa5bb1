SPECIFICATION FairSpec
CONSTANTS
  Drafts = {d1, d2}
  Notes = {n1, n2}
  None = None
  PageActions <- WorkItemAction
  OtherActions = {"EDIT_DRAFT", "REGENERATE"}
  MaxVersion = 3
  MaxRequests = 2
  MaxMishaps = 1
INVARIANTS
  RefreshedAfterAnswer
  OneActionPerShownVersion
  SaveReplacesWhatWasEdited
  RepeatedApproveSucceeds
PROPERTIES
  PollsUntilSettled
CHECK_DEADLOCK FALSE
