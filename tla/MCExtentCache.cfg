SPECIFICATION Spec
CONSTANTS
  c1 = c1
  c2 = c2
  Client <- Clients
  MaxExt = 2
  MaxWrites = 2
  Kinds = {"file"}
SYMMETRY Symmetry
INVARIANTS ReadFresh ServerCurrent DirtyOnlyAtOwner LinkedAllocated
