SPECIFICATION Spec
CONSTANTS
  w1 = w1
  w2 = w2
  w3 = w3
  w4 = w4
  h1 = h1
  h2 = h2
  h3 = h3
  foreign = foreign
  NoWord = NoWord
  NoDesc = NoDesc
  NoConfig = NoConfig
  Rows = {1, 2}
  SiteRows = {1, 2}
  Descs <- MCDescsWhole
  Words <- MCWords
  Forms <- MCForms
  Pic = {w1}
  Text <- MCTextPic
  Configs <- MCConfigsForeign
  FpAnswers = {TRUE}
  ModuleAnswers = {TRUE}
  DataDirty = {FALSE}
  Failures = {}
  Foreign = {}
  HostConfigures = "once"
  MaxCollisions = 8
  RetryTicks = 1
PROPERTIES
  WholeSetValidates
