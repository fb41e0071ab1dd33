\* Three processes, of which the log admits two at a time, each call of up to
\* two blocks out of three.
SPECIFICATION Spec
CONSTANTS
  Proc = {p1, p2, p3}
  Block = {b1, b2, b3}
  Val = {v0, v1}
  InitVal = v0
  NotCached = NotCached
  MAXOPBLOCKS = 3
  LOGSIZE = 6
  NLOG = 6
  OpBlocks = 2
SYMMETRY Symmetry
INVARIANTS PinBalance SleeperMustWait DurableWhenQuiet
PROPERTY ImplementsAtomicDisk
