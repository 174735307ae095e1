SPECIFICATION SearchSpec
CONSTANTS
  MaxLines = 6
  Heights <- Windows
  MaxCol = 1
  MaxHeader = 0
  MaxChained = 0
  MouseScroll = 3
  GotoLineno = 2
  Readers <- PlainReaders
  MaxJumps = 0
  MaxSearched = 3
INVARIANTS
  NoAssertionFailure
  MoveLinesIsTheLoop
  ListIsCurrent
  MergeIsNearest
PROPERTIES
  ScrollKeepsRow
  NextIsNearest
