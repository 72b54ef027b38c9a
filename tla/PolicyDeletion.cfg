SPECIFICATION FairSpec
CONSTANTS
  nrql = nrql
  apm = apm
  a1 = a1
  a2 = a2
  b1 = b1
  ch1 = ch1
  ch2 = ch2
  k1 = k1
  k2 = k2
  acc = acc
  None = None
  Manual = Manual
  Titles = {"one", "two"}
  Keys = {k1, k2}
  Accounts = {None, acc}
  CondSpecs = {a1, a2, b1}
  Channels = {ch1, ch2}
  NameOf <- MCNameOf
  KindOf <- MCKindOf
  Given <- MCGiven
  Edits <- NoEdits
  GivenNames = {None}
  Names = {1, 2, 3, 4}
  Ids = {1, 2}
  FaultKinds = {"deletePolicy"}
  MaxFaults = 1
  MaxUserOps = 2
PROPERTIES DeletionCompletes
CHECK_DEADLOCK FALSE
