SPECIFICATION Spec
CONSTANTS
  NameLen <- MixedNames
  MaxInum = 5
  MaxDirs = 2
  MaxSize = 2
  Byte = {7}
  Written = {2}
  PageSize = 20
INVARIANTS ReaddirExact FileExact ListingComplete
CHECK_DEADLOCK FALSE
