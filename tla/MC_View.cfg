SPECIFICATION FairSpec
CONSTANTS
  MaxLines = 2
  Heights <- LowWindows
  MaxCol = 0
  MaxHeader = 1
  MaxChained = 1
  MouseScroll = 3
  GotoLineno = 1
  Readers <- EveryReader
  MaxJumps = 1
INVARIANTS
  PositionValid
  RestoreIsPrompt
PROPERTIES
  ReadKeepsUserPosition
  RestoredAtEnd
  CursorStaysVisible
  LoadingEnds
