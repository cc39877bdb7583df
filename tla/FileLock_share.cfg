\* Two volumes share a table of one entry: objects of both compete for it, stale
\* ones are opened again, and a mount of one volume must not touch the other.
SPECIFICATION Spec
CONSTANTS
  Vol = {v1, v2}
  NoVol = NoVol
  Entry = {1, 2}
  Cluster = {2}
  Handle = {h1, h2}
  NLock = 1
  WMode = 3
  MaxMount = 2
  Reopens = TRUE
SYMMETRY VolumeSymmetry
CONSTRAINT OneName
INVARIANTS
  TypeOK
  ExclusiveWriter
  LockidIsOwn
  CounterCovers
  NoInternalError
  IInv
PROPERTIES
  OpenFileKeepsEntry
  SharingRefined
