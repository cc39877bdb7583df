\* FAT32, one file whose chain of up to three clusters spans two FAT sectors,
\* with an I/O error or a power loss at any step.
SPECIFICATION Spec
CONSTANTS
  Entry = {e1}
  NoEntry = NoEntry
  NFatEnt = 6
  PerSect = 3
  FAT32 = TRUE
  MaxSize = 3
  MaxFault = 1
CONSTRAINT NotHurt
INVARIANTS
  WindowCoherent
  ChainsReach
  FreeCountExact
