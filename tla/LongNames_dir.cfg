SPECIFICATION Spec
CONSTANTS
  Long = {"LongName", "ReadMe"}
  Sfn = {"NAME~1", "NAME~2", "README"}
  Lossy = {"LongName"}
  Base <- TheBase
  Tails <- TheTails
  Parts <- TheParts
  Sum <- TheSum
  File = {f1, f2}
  NoFile = NoFile
  NoName = NoName
  Slots = 6
  OldSfn = "README"
  PerSector = 2
  PerCluster = 1
  MaxFault = 1
CONSTRAINT NotBare
SYMMETRY FileSymmetry
INVARIANTS ListedIsFound
PROPERTIES NamesRefined RenamedStays
CHECK_DEADLOCK FALSE
