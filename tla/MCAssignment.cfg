SPECIFICATION Spec
CONSTANTS
  Members_ = {1, 2, 3}
  Topics = {1, 2}
  Internal = {}
  MaxPartitions = 3
  Descending = {3}
  Modes <- AssignModes
INVARIANTS
  
  Balanced
  Sticky
CHECK_DEADLOCK FALSE
