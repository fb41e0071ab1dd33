\* The name ".." in a removed directory.
SPECIFICATION MenuSpec
CONSTANTS
  Proc = {p1, p2}
  InitProc = p1
  Name = {"a", "b"}
  NInum = 3
  NINODE = 3
  NFILE = 1
  NOFILE = 2
  Calls <- AllCalls
  Menus = {"above"}
INVARIANT NoPanic
