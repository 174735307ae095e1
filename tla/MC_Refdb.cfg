CONSTANTS
  Refs <- AllRefs
  Replaceable = {}
  NNames = 2
  NCommits = 2
  MaxMoved = 1
  MaxPartial = 1
SPECIFICATION Spec
INVARIANT TableIsGit
INVARIANT ListsAreTable
INVARIANT HeadKnown
PROPERTY ChangesReported
