SPECIFICATION Spec
CONSTANTS
  Shapes = {"JUMP", "CALL", "REWRITE"}
  Words <- MCWords
  Linked <- MCLinked
  Replacements <- MCReplacements
  DataDeltas <- MCDeltas
  Places <- MCPlaces
  MaxHooks = 2
  kMaxModules = 2
  NoName = NoName
  Caller = 33554436
  SP = 1342177280
INVARIANTS
  NativeIsTaken
  HooksEnteredRight
  OriginalRuns
PROPERTY
  ComesOut
CHECK_DEADLOCK FALSE
