SPECIFICATION FairSpec
CONSTANTS
  Client = {c1, c2}
  Name = {f, g}
  SubDir = {g}
  Unlinkers = {c1, c2}
  Errors = TRUE
INVARIANTS VerifyHolds LookupStands NoCircle
PROPERTIES ReturnsUnlessKept
