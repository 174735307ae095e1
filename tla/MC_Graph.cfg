\* Five commits with up to two parents: the smallest history in which a lane
\* moves left over a merge; two colours, so that lanes have to share one.
CONSTANTS
  NCommits = 5
  MaxParents = 2
  NColors = 2
SPECIFICATION GraphSpec
INVARIANT TypeOK
INVARIANT ColorsOfLanes
PROPERTY ImplementsLanes
PROPERTY LanesDrawn
INVARIANT OldAwaitsNoOther
PROPERTY OldOverwrittenByMerge
\* git log ends: nothing is listed after the last commit.
CHECK_DEADLOCK FALSE
