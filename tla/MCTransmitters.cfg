CONSTANTS
  IP = {"a"}
  Multicast = {"m"}
  Port = {1, 2}
  Size = {1, 2}
  Dest <- MCDest
  Source <- MCSource
  Loopback = "b"
  Interfaces <- MCInterfaces
  Names <- MCNames
  Dotted = {2}
  PortBase = 2
  MAXPACKSIZE = 1
  MaxPackets = 2
  Threads = {t1, t2, t3}
  Free = Free
  PipeSize = 2
  MaxData = 2
  Key = {"k1", "k2", "k3"}
  NULL = NULL
  Wild = Wild
  HashSize = 2
  GetIndex <- MCBucket
SPECIFICATION FairSpec
INVARIANTS NothingLeftBehind NoLostWakeup SizesAgree
PROPERTIES ImplementsInterface ImplementsTable WaitsEnd
CHECK_DEADLOCK FALSE
