\* A reader or writer that is killed.
SPECIFICATION FairSpec
CONSTANTS
  Proc = {p1, p2}
  Creator = p1
  Byte = {a}
  Junk = Junk
  NoOne = NoOne
  PIPESIZE = 1
  UINT = 2
  MaxN = 2
  Victims = {p2}
PROPERTIES KilledLeaves
CHECK_DEADLOCK FALSE
