\* The log at its limit: four blocks against the three that fit, and calls
\* that stay one block below their reservation.  One chain of descriptors for
\* two requests; two users of the UART and of the clock.
SPECIFICATION MCFairSpec
CONSTANTS
  Proc = {p1, p2, p3}
  Block = {b1, b2, b3, b4}
  Val = {v0}
  InitVal = v0
  NotCached = NotCached
  MAXOPBLOCKS = 2
  LOGSIZE = 4
  NLOG = 4
  OpBlocks = 1
  Buf = {r1, r2}
  NUM = 4
  UINT16 = 8
  User = {u1, u2}
  Nil = Nil
INVARIANTS NoPanic
PROPERTIES LogMoves DeviceWaitsEnd PromptReturns
