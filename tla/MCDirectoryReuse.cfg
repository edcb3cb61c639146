SPECIFICATION Spec
CONSTANTS
  NameLen <- LongNames
  MaxInum = 4
  MaxDirs = 1
  MaxSize = 1
  Byte = {7}
  Written = {}
  PageSize = 20
INVARIANTS ParsedirAsserts
CHECK_DEADLOCK FALSE
