SPECIFICATION PatcherFairSpec
CONSTANTS
  w1 = w1
  w2 = w2
  h1 = h1
  d0 = d0
  v1 = v1
  v2 = v2
  g1 = g1
  NoWord = NoWord
  NoDesc = NoDesc
  NoConfig = NoConfig
  NoSwap = NoSwap
  Rows = {1}
  SiteRows = {1}
  Descs <- MCDescs
  Words <- MCWords
  Forms <- MCForms
  Pic = {w1}
  Text <- MCText
  Configs <- MCConfigs
  FpAnswers = {FALSE}
  ModuleAnswers = {TRUE}
  DataDirty = {TRUE, FALSE}
  Failures = {}
  Foreign = {}
  HostConfigures = "again"
  MaxCollisions = 8
  RetryTicks = 2
  Swaps = {1, 2}
  SwapDescs <- MCSwapDescs
  Bases = {0, 1}
  Loaded <- MCLoaded
  DataWords <- MCDataWords
  GameAddrs = {2}
  GameWords <- MCGameWords
  DataDelta <- MCDelta
INVARIANTS
  SwapsTypeOK
  DataIntact
  SwapsDisjoint
PROPERTIES
  SwapsArbitrated
  PatchesUndisturbed
  SwapGetsItsTurn
  WithdrawnSwapGone
  WithdrawnIsRemoved
