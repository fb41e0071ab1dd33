\* One CPU, so that every switch matters.
SPECIFICATION FairSpec
CONSTANTS
  NPROC = 3
  CPU = {c1}
  MaxPid = 3
  KillArgs = {3}
  InitCalls = {"fork", "wait"}
PROPERTY ChildReaped
