SPECIFICATION FairSpec
CONSTANTS
  c1 = c1
  c2 = c2
  p1 = p1
  p2 = p2
  None = None
  Names = {"one", "two"}
  Configs = {c1, c2}
  Policies = {p1, p2}
  Given <- MCGiven
  Edits <- MCEdits
  Existing <- MCExisting
  Ids = {1, 2, 3, 4, 5}
  FaultKinds = {"get", "list", "secret", "deleteExisting", "createChannel", "lostCreate", "link", "update", "delete", "crash"}
  MaxFaults = 2
  MaxUserOps = 3
INVARIANTS TypeOK NoDuplicates
PROPERTIES UserIntentSurvives NoRecordedLeak DeletionCompletes EventuallyApplied
CHECK_DEADLOCK FALSE
