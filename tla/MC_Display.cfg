SPECIFICATION ClosingSpec
CONSTANTS
  main = main
  diff = diff
  stage = stage
  changes = changes
  grep = grep
  pager = pager
  NoView = NoView
  Main = main
  Diff = diff
  Stage = stage
  Status = changes
  Grep = grep
  Pager = pager
  Views <- MainViews
  Children <- MainChildren
  MayFail <- MainViews
  FocusChild = TRUE
INVARIANTS
  SplitShowsTwoViews
  ChildBelongsToBase
PROPERTIES
  ClosingQuits
