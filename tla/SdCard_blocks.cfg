CONSTANTS
  Block <- MCBlock
  Kind = {"HC", "SD2", "SD1", "MMC"}
  Value = {0, 1}
  Fresh <- MCFresh
  Timer = 3
  MaxBlks = 2
SPECIFICATION FairSpec
INVARIANTS TypeOK InitMatches
PROPERTIES ImplementsBlockStore CallsReturn
