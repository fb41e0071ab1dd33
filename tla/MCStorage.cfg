\* Two processes and two buffers, one of which the log may pin, for three
\* blocks; two CPUs and threads; two processes, and as many inode table
\* entries as inodes; files of up to three blocks.
SPECIFICATION MCSpec
CONSTANTS
  Proc = {q1, q2}
  Buf = {b1, b2}
  Block = {k1, k2, k3}
  Nil = Nil
  MaxPin = 1
  CPU = {c1, c2}
  Thread = {t1, t2}
  Dev = Dev
  User = {p1, p2}
  init = p1
  Name = {"a", "b"}
  NInum = 3
  NINODE = 3
  NFILE = 1
  NOFILE = 2
  Menus = {"links", "cwd", "odd", "device", "opens"}
  Ino = {i1, i2}
  i1 = i1
  i2 = i2
  f1 = f1
  f2 = f2
  NBlock = 8
  BSIZE = 2
  NDIRECT = 1
  NINDIRECT = 2
  MAXOPBLOCKS = 6
  UINT = 16
  BPB = 5
INVARIANTS
  Coherent BgetFinds SleepLockHeld LockDiscipline
  FsNoPanic FsLinksExact FsRefsExact
  ReadsBack FitsTransaction
