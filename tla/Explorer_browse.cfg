\* Two lines of display over a root directory of two sectors.
SPECIFICATION FairSpec
CONSTANTS
  c1 = c1
  c2 = c2
  Root = Root
  sub = sub
  deep = deep
  a = a
  b = b
  x = x
  y = y
  z = z
  Up = Up
  Card = {c1, c2}
  NoCard = NoCard
  Dir = {Root, sub, deep}
  NoDir = NoDir
  Name = {a, b, x, y, z}
  NoName = NoName
  Table <- MCTable
  Full <- MCFull
  PerSect = 3
  Lines = 2
  NLock = 2
INVARIANTS
  TypeOK
  SelectionInWindow
  ListIsCurrent
PROPERTIES
  ListsMountedCard
  GoneIsNoticed
  InsertedIsMounted
