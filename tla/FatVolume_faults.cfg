\* FAT16 with an I/O error or a power loss at any step; the two clusters are in
\* two sectors of the FAT.
SPECIFICATION Spec
CONSTANTS
  Entry = {e1, e2}
  NoEntry = NoEntry
  NFatEnt = 4
  PerSect = 3
  FAT32 = FALSE
  MaxSize = 2
  MaxFault = 1
SYMMETRY EntrySymmetry
CONSTRAINT NotHurt
INVARIANTS
  TypeOK
  NoCrossLink
  CrashConsistent
  NoLeak
PROPERTIES
  SyncStores
