SPECIFICATION Spec
CONSTANTS
  Clust = {c1, c2}
  NoClust = NoClust
  SS = 2
  CSIZE = 2
  Limit = 8
  ReadLens = {5}
  WriteLens = {1, 5}
  Offsets = {1, 4}
  MaxCall = 2
  MaxFault = 1
SYMMETRY ClustSymmetry
CHECK_DEADLOCK FALSE
INVARIANTS SyncedStays OthersKept
PROPERTY BytesRefined
