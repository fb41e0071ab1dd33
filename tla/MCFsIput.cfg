\* An inode is freed and allocated again while iput() still refers to it.
SPECIFICATION MenuSpec
CONSTANTS
  Proc = {p1, p2}
  InitProc = p1
  Name = {"a", "b"}
  NInum = 3
  NINODE = 3
  NFILE = 1
  NOFILE = 2
  Calls <- AllCalls
  Menus = {"reuse"}
INVARIANT FreedWithLastReference
