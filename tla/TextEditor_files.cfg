\* A buffer of two chunks of three bytes; two keys that change the text.
SPECIFICATION FairSpec
CONSTANTS
  f1 = f1
  f2 = f2
  a = a
  File = {f1, f2}
  NoFile = NoFile
  Newline = Newline
  Char = {a, Newline}
  NUL = NUL
  maxFileLen = 6
  PtrMax = 8
  CHUNK = 3
  Stored0 <- MCStored0
  MaxKey = 2
  MaxFault = 1
INVARIANTS
  TypeOK
  OnlyActiveEdited
  UneditedIsStored
PROPERTIES
  SaveStores
  KeysReturn
