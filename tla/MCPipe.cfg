\* Two processes share a pipe of two bytes whose counters wrap at four; one
\* of them may be killed.
SPECIFICATION FairSpec
CONSTANTS
  Proc = {p1, p2}
  Creator = p1
  Byte = {0, 1}
  Junk = Junk
  NoOne = NoOne
  PIPESIZE = 2
  UINT = 4
  MaxN = 2
  Victims = {p2}
ACTION_CONSTRAINT Numbered
INVARIANTS NoUseAfterFree SleeperMustWait
PROPERTIES ImplementsFifo EofMeansClosed CloseReleases
CHECK_DEADLOCK FALSE
