SPECIFICATION Spec
CONSTANTS
  Folders = {f1, f2}
  Images = {i1, i2, i3}
  Supported = {i1, i2}
  Limits = {1, 3}
  FindMaxLimit = 2
  MaxChanges = 2
INVARIANTS
  TypeOK
  
PROPERTIES
  EveryPageAdvances
CHECK_DEADLOCK FALSE
