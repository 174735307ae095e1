SPECIFICATION FairSpec
CONSTANTS
  main = main
  status = status
  stage = stage
  log = log
  NoView = NoView
  Main = main
  Status = status
  Stage = stage
  Log = NoView
  Views <- MainStatusStage
  First <- MainStatus
  IndexKinds <- OneKind
  RefKinds <- HeadOnly
  MaxChanges = 1
  InitialMode = "auto"
  NewModes = {"after-command"}
  MayToggle = FALSE
  MayRevert = TRUE
  Commands = {"unstaged"}
  Outside = {}
INVARIANTS
  StaleIsMarked
PROPERTIES
  RefreshingSettles
