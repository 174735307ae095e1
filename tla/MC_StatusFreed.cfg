SPECIFICATION Spec
CONSTANTS
  NFiles = 2
  Versions = {0, 1}
  Absent = 0
  MaxChanges = 1
PROPERTY RevertsOnlyAsked
