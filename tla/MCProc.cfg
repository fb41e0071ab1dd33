\* Two CPUs and three slots: a process, its child, and a grandchild or sibling.
SPECIFICATION Spec
CONSTANTS
  NPROC = 3
  CPU = {c1, c2}
  MaxPid = 3
  KillArgs = {2}
  InitCalls = {"fork", "wait"}
SYMMETRY Symmetry
INVARIANTS StackExclusive ParentAlive NoLostExit
PROPERTY NewbornAlive
