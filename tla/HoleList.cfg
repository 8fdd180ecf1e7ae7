SPECIFICATION Spec
CONSTANTS
  NrHoles = 3
  Chunks <- TwoChunks
  Sizes = {1, 2}
  Align = 2
  NULL = NULL
  NO_MEM = NO_MEM
INVARIANTS HolesSane ClicksPartitioned PanicsOnlyWhenFull
PROPERTIES ImplementsFirstFit
CHECK_DEADLOCK FALSE
