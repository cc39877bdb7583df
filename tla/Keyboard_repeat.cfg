\* A counter of three bytes of two values each, followed round its wrap.
SPECIFICATION FairSpec
CONSTANTS
  Arrows <- TwoArrows
  Buttons = {"A"}
  Range = 8
  Units = {2, 4}
  First = 3
  Again = 1
INVARIANT PollReports
PROPERTIES OnTime HeldIsRepeated
