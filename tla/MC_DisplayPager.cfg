SPECIFICATION ScreenSpec
CONSTANTS
  main = main
  diff = diff
  stage = stage
  changes = changes
  grep = grep
  pager = pager
  NoView = NoView
  Main = main
  Diff = diff
  Stage = stage
  Status = changes
  Grep = grep
  Pager = pager
  Views <- PagerViews
  Children <- PagerChildren
  MayFail <- PagerViews
  FocusChild = TRUE
INVARIANTS
  EnterNeverAsserts
