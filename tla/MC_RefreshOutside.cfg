SPECIFICATION Spec
CONSTANTS
  main = main
  status = status
  stage = stage
  log = log
  NoView = NoView
  Main = main
  Status = status
  Stage = NoView
  Log = log
  Views <- MainStatusLog
  First = {main}
  IndexKinds <- Untracked
  RefKinds <- HeadOnly
  MaxChanges = 1
  InitialMode = "auto"
  NewModes = {}
  MayToggle = TRUE
  MayRevert = FALSE
  Commands = {"head"}
  Outside = {"untracked"}
INVARIANTS
  StaleIsMarked
  ViewsAgreeOrMarked
