CONSTANTS
  IP = {"a"}
  Multicast = {"m"}
  Port = {1, 2}
  Size = {1}
  Dest <- MCDest
  Source <- MCSource
  Loopback = "b"
  Interfaces <- MCInterfaces
  Names <- MCNames
  Dotted = {2}
  PortBase = 2
  MAXPACKSIZE = 1
  MaxPackets = 0
  Threads = {t1, t2}
  Free = Free
  PipeSize = 1
  MaxData = 2
  Key = {"k1", "k2", "k3"}
  NULL = NULL
  Wild = Wild
  HashSize = 2
  GetIndex <- MCBucket
SPECIFICATION FairSpec
PROPERTY InjectReturns
CHECK_DEADLOCK FALSE
