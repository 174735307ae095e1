SPECIFICATION Spec
CONSTANTS
  a = a
  b = b
  All = All
  Files <- TwoFiles
  Committed <- TwoHeads
  Contents <- TwoContents
  Context = 1
  Slices = TRUE
  MaxChanges = 2
INVARIANTS
  TypeOK
  StagesExactly
  OnlySelectedChange
  AllIsStaged
  LineNumbersRight
