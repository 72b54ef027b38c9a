SPECIFICATION Spec
CONSTANTS
  c1 = c1
  c2 = c2
  p1 = p1
  p2 = p2
  None = None
  Names = {"one"}
  Configs = {c1}
  Policies = {p1}
  Given <- Alone
  Edits <- NoEdits
  Existing <- Alone
  Ids = {1, 2}
  FaultKinds = {}
  MaxFaults = 0
  MaxUserOps = 1
INVARIANT ChannelExists
CHECK_DEADLOCK FALSE
