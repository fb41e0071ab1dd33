\* Sleep: three processes and one channel.  Two chains of descriptors
\* for three requests.  Two users of the clock, the console and the UART, and
\* two CPUs that print.
SPECIFICATION MCSpec
CONSTANTS
  NPROC = 3
  Chan = {"nread"}
  Nil = Nil
  Buf = {r1, r2, r3}
  NUM = 7
  UINT16 = 14
  User = {u1, u2}
  u1 = u1
  UINT = 4
  Arg <- SleepArgs
  Writer = {u1, u2}
  Sync = {s1, s2}
  UART_TX_BUF_SIZE = 2
  UINT64 = 4
  FIFO = 3
  MaxN = 2
  Reader = {u1, u2}
  Letter = {"a"}
  INPUT_BUF = 2
  UINT32 = 4
  MaxRead = 2
SYMMETRY Symmetry
INVARIANTS
  DriverConsistent OutputFits ReaderMustWait
  PagesConserved ImageExact
  HeapPartition ParsesBack StdioExact
PROPERTIES
  ImplementsMonitor ImplementsBlockDev SleptEnough OutputInOrder
  ImplementsTty
