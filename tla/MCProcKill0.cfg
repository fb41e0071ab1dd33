\* As MCProc, with programs that call kill(0).
SPECIFICATION Spec
CONSTANTS
  NPROC = 3
  CPU = {c1, c2}
  MaxPid = 3
  KillArgs = {0}
  InitCalls = {"fork", "wait"}
SYMMETRY Symmetry
PROPERTY NewbornAlive
