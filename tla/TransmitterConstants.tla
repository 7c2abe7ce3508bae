------------------------ MODULE TransmitterConstants ------------------------
(***************************************************************************)
(* The parameters of the transmitters, and what is assumed about them.     *)
(***************************************************************************)
EXTENDS Integers, Sequences, FiniteSets

CONSTANTS
  IP,            \* addresses of hosts
  Multicast,     \* multicast addresses
  Port,          \* ports, without 0
  Size,          \* lengths of packets
  Dest,          \* addresses the application sends to
  Source,        \* where packets come from
  Loopback,      \* 127.0.0.1 or ::1
  Interfaces,    \* the sets of local addresses that may be found
  Names,         \* Names[ip]: names of a host, numbered in alphabetical order
  Dotted,        \* names with a dot
  PortBase,      \* the RTP port of this transmitter
  MAXPACKSIZE,   \* RTPUDPV4TRANS_MAXPACKSIZE and its like
  MaxPackets,    \* bound: packets in the sockets and in rawpacketlist
  Threads,
  Free,          \* the owner of an unlocked mutex
  PipeSize,      \* bytes the pipe holds before a write blocks
  MaxData,       \* bound: packets at a time, where they are only counted
  Key, NULL, Wild, HashSize, GetIndex(_)  \* of the hash tables

Address == [ip : IP, port : Port]

ASSUME AddressAssumption ==
  /\ Port \subseteq Nat \ {0} /\ Size \subseteq Nat
  /\ Source \subseteq Address /\ Dest \subseteq Address /\ {} \in Interfaces

ASSUME ThreadsAssumption ==
  /\ Free \notin Threads
  /\ PipeSize \in Nat \ {0} /\ MaxData \in Nat

\* The functions that choose a bucket work on unsigned numbers.
ASSUME HashAssumption ==
  /\ IsFiniteSet(Key) /\ NULL \notin Key /\ Wild \notin Key \cup {NULL}
  /\ HashSize \in Nat /\ \A k \in Key : GetIndex(k) \in Nat
=============================================================================
