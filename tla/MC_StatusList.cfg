SPECIFICATION Spec
CONSTANTS
  NFiles = 3
  Versions = {0, 1}
  Absent = 0
  MaxChanges = 1
PROPERTY CursorOnFile
PROPERTY WalkOn
PROPERTY OnlyTheSelected
