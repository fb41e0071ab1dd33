\* Calls that use their whole reservation, on the log mkfs lays out.
SPECIFICATION Spec
CONSTANTS
  Proc = {p1, p2}
  Block = {b1, b2, b3, b4}
  Val = {v0, v1}
  InitVal = v0
  NotCached = NotCached
  MAXOPBLOCKS = 2
  LOGSIZE = 4
  NLOG = 4
  OpBlocks = 2
SYMMETRY Symmetry
INVARIANT NoPanic
