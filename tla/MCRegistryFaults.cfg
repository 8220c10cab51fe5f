SPECIFICATION Spec
CONSTANTS
  w1 = w1
  w2 = w2
  w3 = w3
  w4 = w4
  h1 = h1
  h2 = h2
  h3 = h3
  foreign = foreign
  NoWord = NoWord
  NoDesc = NoDesc
  NoConfig = NoConfig
  Rows = {1, 2, 3}
  SiteRows = {1, 2}
  Descs <- MCDescsFaults
  Words <- MCWords
  Forms <- MCForms
  Pic = {w1}
  Text <- MCTextFaults
  Configs <- MCConfigsFaults
  FpAnswers = {TRUE, FALSE}
  ModuleAnswers = {TRUE}
  DataDirty = {FALSE}
  Failures = {"commit", "apply"}
  Foreign = {}
  HostConfigures = "once"
  MaxCollisions = 8
  RetryTicks = 1
INVARIANTS
  InstalledAsRecorded
  BranchesLandInStubs
PROPERTIES
  StubsFrozen
  TickAllOrNothing
