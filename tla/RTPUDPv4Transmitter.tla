------------------------ MODULE RTPUDPv4Transmitter ------------------------
(***************************************************************************)
(* The UDP over IPv4 transmitter: two sockets, the pipe that ends a wait,  *)
(* the destination list, the multicast groups, the accept or ignore list   *)
(* and the list of received packets.  Every operation here is one critical *)
(* section of mainmutex and hence one action; WaitForIncomingData and the  *)
(* threads are in TransmitterThreads.  A call that returns an error and    *)
(* changes nothing is not a step.                                          *)
(*                                                                         *)
(* The hash tables are sets and functions.  An acceptignoreinfo without an *)
(* entry for a host behaves as one with an empty entry, which is how it is *)
(* written.  Exhausted memory is left out.                                 *)
(***************************************************************************)
EXTENDS TransmitterConstants, SequencesExt, Lists

VARIABLES
  created, localIPs, dests, groups, mode, info, maxsize, raw, out,
  open,     \* descriptors that are open
  member,   \* the groups each socket is a member of
  queue     \* datagrams waiting in each socket

lists == <<dests, groups, member, mode, info>>
fixed == <<created, localIPs>>   \* set by Create
vars  == <<fixed, lists, maxsize, raw, out, open, queue>>

Modes    == {"AcceptAll", "AcceptSome", "IgnoreSome"}
Sockets  == {"rtp", "rtcp"}
Datagram == [src : Source, len : {0, 1}]   \* 0: without data
Packet   == [src : Source, rtp : BOOLEAN]
PortInfo == [all : BOOLEAN, ports : SUBSET Port]
NoEntry  == [all |-> FALSE, ports |-> {}]
NoInfo   == [ip \in IP |-> NoEntry]
NoQueue  == [s \in Sockets |-> <<>>]
NoGroups == [s \in Sockets |-> {}]

TypeOK ==
  /\ created \in BOOLEAN /\ localIPs \subseteq (UNION Interfaces) \cup {Loopback}
  /\ dests \subseteq Address /\ groups \subseteq Multicast
  /\ mode \in Modes /\ info \in [IP -> PortInfo]
  /\ maxsize \in Size
  /\ raw \in Seq(Packet)
  /\ open \subseteq Sockets \cup {"abort"}
  /\ member \in [Sockets -> SUBSET Multicast]
  /\ queue \in [Sockets -> Seq(Datagram)]

Init ==
  /\ created = FALSE /\ localIPs = {} /\ dests = {} /\ groups = {}
  /\ mode = "AcceptAll" /\ info = NoInfo /\ maxsize \in Size
  /\ raw = <<>> /\ out = {} /\ open = {}
  /\ member = NoGroups /\ queue = NoQueue

-----------------------------------------------------------------------------
(* Life of the transmitter                                                 *)

\* The list of local addresses: the application's, the interfaces', the
\* name server's, in that order, and the loopback address in the last two.
CreateLocalIPList(given, ifaces, dns) ==
  IF given # {} THEN given
  ELSE (IF ifaces # {} THEN ifaces ELSE dns) \cup {Loopback}

\* The lists CreateLocalIPList may come up with.
LocalLists ==
  {CreateLocalIPList(given, ifaces, dns) :
     given \in Interfaces, ifaces \in Interfaces, dns \in Interfaces}

\* Where Create may give up, and what is open there: an odd port or the wrong
\* parameters and the first socket, the second socket, an option or a bind,
\* the pipe, the packet size.
OpenAt ==
  [socket |-> {}, second |-> {"rtp"}, options |-> Sockets, pipe |-> Sockets,
   size |-> Sockets \cup {"abort"}]

\* Mutant: the error path behind the pipe closes the sockets only.
ClosedAtKeepingPipe == [OpenAt EXCEPT !.size = Sockets]

\* What the error path at that place closes.
ClosedAt ==
  [socket |-> {}, second |-> {"rtp"}, options |-> Sockets, pipe |-> Sockets,
   size |-> Sockets \cup {"abort"}]

\* The list of local addresses stays behind when it was already made.
CreateFails(at, size) ==
  /\ ~created /\ (at = "size" => size > MAXPACKSIZE)
  /\ open' = (open \cup OpenAt[at]) \ ClosedAt[at]
  /\ localIPs' \in IF at \in {"pipe", "size"} THEN LocalLists ELSE {localIPs}
  /\ out' = {}
  /\ UNCHANGED <<created, lists, maxsize, raw, queue>>

Create(size) ==
  /\ ~created /\ PortBase % 2 = 0 /\ size <= MAXPACKSIZE
  /\ localIPs' \in LocalLists
  /\ open' = open \cup Sockets \cup {"abort"}
  /\ maxsize' = size /\ mode' = "AcceptAll" /\ created' = TRUE /\ out' = {}
  /\ UNCHANGED <<dests, groups, member, info, raw, queue>>

\* The sockets are closed and with them go their datagrams and memberships.
Destroy ==
  /\ created /\ created' = FALSE
  /\ open' = {} /\ dests' = {} /\ groups' = {} /\ raw' = <<>>
  /\ info' = NoInfo /\ localIPs' = {} /\ out' = {}
  /\ member' = NoGroups /\ queue' = NoQueue
  /\ UNCHANGED <<mode, maxsize>>

-----------------------------------------------------------------------------
(* Questions                                                               *)

\* Every port of a local address counts as ours: the loop returns before the
\* ports are compared.
ComesFromThisTransmitter(a) == created /\ a.ip \in localIPs

\* The alphabetically first qualified name of a local address, or else the
\* address itself.
LocalHostName ==
  LET names == UNION {Names[ip] : ip \in localIPs} \cap Dotted
  IN  IF names # {} THEN {CHOOSE n \in names : \A m \in names : n <= m} ELSE localIPs

GetLocalHostName ==
  /\ created /\ localIPs # {}
  /\ \E n \in LocalHostName : out' = {<<"name", n>>}
  /\ UNCHANGED <<fixed, lists, maxsize, raw, open, queue>>

-----------------------------------------------------------------------------
(* Sending                                                                 *)

SendRTPData(len) ==
  /\ created /\ len <= maxsize
  /\ out' = {<<"rtp", d, len>> : d \in dests}
  /\ UNCHANGED <<fixed, lists, maxsize, raw, open, queue>>

SendRTCPData(len) ==
  /\ created /\ len <= maxsize
  /\ out' = {<<"rtcp", d, len>> : d \in dests}
  /\ UNCHANGED <<fixed, lists, maxsize, raw, open, queue>>

SetMaximumPacketSize(s) ==
  /\ created /\ s <= MAXPACKSIZE
  /\ maxsize' = s /\ out' = {}
  /\ UNCHANGED <<fixed, lists, raw, open, queue>>

AddDestination(d) ==
  /\ created /\ d \notin dests
  /\ dests' = dests \cup {d} /\ out' = {}
  /\ UNCHANGED <<fixed, groups, member, mode, info, maxsize, raw, open, queue>>

DeleteDestination(d) ==
  /\ created /\ d \in dests
  /\ dests' = dests \ {d} /\ out' = {}
  /\ UNCHANGED <<fixed, groups, member, mode, info, maxsize, raw, open, queue>>

ClearDestinations ==
  /\ created /\ dests' = {} /\ out' = {}
  /\ UNCHANGED <<fixed, groups, member, mode, info, maxsize, raw, open, queue>>

-----------------------------------------------------------------------------
(* Multicast groups                                                        *)

\* The group is listed, then both sockets join; when either cannot, what was
\* done is undone.
JoinMulticastGroup(g) ==
  /\ created /\ g \in Multicast \ groups
  /\ \/ groups' = groups \cup {g} /\ member' = [s \in Sockets |-> member[s] \cup {g}]
     \/ groups' = (groups \cup {g}) \ {g} /\ UNCHANGED member
     \/ /\ groups' = (groups \cup {g}) \ {g}
        /\ member' = [member EXCEPT !["rtp"] = (@ \cup {g}) \ {g}]
  /\ out' = {}
  /\ UNCHANGED <<fixed, dests, mode, info, maxsize, raw, open, queue>>

LeaveMulticastGroup(g) ==
  /\ created /\ g \in groups
  /\ groups' = groups \ {g} /\ member' = [s \in Sockets |-> member[s] \ {g}]
  /\ out' = {}
  /\ UNCHANGED <<fixed, dests, mode, info, maxsize, raw, open, queue>>

LeaveAllMulticastGroups ==
  /\ created
  /\ groups' = {} /\ member' = [s \in Sockets |-> member[s] \ groups]
  /\ out' = {}
  /\ UNCHANGED <<fixed, dests, mode, info, maxsize, raw, open, queue>>

-----------------------------------------------------------------------------
(* The accept and ignore list                                              *)

\* Mutant: a mode that changes keeps the addresses of the old one.
SetReceiveModeKeepingList(m) ==
  /\ created /\ m # mode
  /\ mode' = m /\ info' = info /\ out' = {}
  /\ UNCHANGED <<fixed, dests, groups, member, maxsize, raw, open, queue>>

SetReceiveMode(m) ==
  /\ created /\ m # mode
  /\ mode' = m /\ info' = NoInfo /\ out' = {}
  /\ UNCHANGED <<fixed, dests, groups, member, maxsize, raw, open, queue>>

ProcessAddAcceptIgnoreEntry(e, port) ==
  IF port = 0 THEN [all |-> TRUE, ports |-> {}]
  ELSE IF ~e.all THEN [e EXCEPT !.ports = @ \cup {port}]
  ELSE e

\* While all ports are selected the list holds the exceptions.
ProcessDeleteAcceptIgnoreEntry(e, port) ==
  IF port = 0 THEN [all |-> FALSE, ports |-> {}]
  ELSE IF e.all THEN [e EXCEPT !.ports = @ \cup {port}]
  ELSE [e EXCEPT !.ports = @ \ {port}]

ShouldAcceptData(src) ==
  LET e      == info[src.ip]
      inlist == src.port \in e.ports
      onlist == IF e.all THEN ~inlist ELSE inlist
  IN  CASE mode = "AcceptAll"  -> TRUE
        [] mode = "AcceptSome" -> onlist
        [] mode = "IgnoreSome" -> ~onlist

ChangeList(m, ip, entry) ==
  /\ created /\ mode = m
  /\ info' = [info EXCEPT ![ip] = entry] /\ out' = {}
  /\ UNCHANGED <<fixed, dests, groups, member, mode, maxsize, raw, open, queue>>

AddToIgnoreList(ip, port) ==
  ChangeList("IgnoreSome", ip, ProcessAddAcceptIgnoreEntry(info[ip], port))

DeleteFromIgnoreList(ip, port) ==
  ChangeList("IgnoreSome", ip, ProcessDeleteAcceptIgnoreEntry(info[ip], port))

AddToAcceptList(ip, port) ==
  ChangeList("AcceptSome", ip, ProcessAddAcceptIgnoreEntry(info[ip], port))

DeleteFromAcceptList(ip, port) ==
  ChangeList("AcceptSome", ip, ProcessDeleteAcceptIgnoreEntry(info[ip], port))

ClearList(m) ==
  /\ created /\ mode = m
  /\ info' = NoInfo /\ out' = {}
  /\ UNCHANGED <<fixed, dests, groups, member, mode, maxsize, raw, open, queue>>

ClearIgnoreList == ClearList("IgnoreSome")

ClearAcceptList == ClearList("AcceptSome")

-----------------------------------------------------------------------------
(* Receiving                                                               *)

\* A datagram reaches a socket.
Arrive(s, d) ==
  /\ s \in open /\ Len(queue["rtp"]) + Len(queue["rtcp"]) + Len(raw) < MaxPackets
  /\ queue' = [queue EXCEPT ![s] = Append(@, d)] /\ out' = {}
  /\ UNCHANGED <<fixed, lists, maxsize, raw, open>>

\* PollSocket reads as long as FIONREAD reports data: a datagram without any
\* ends the loop and stays where it is, with everything behind it.
Readable(s) ==
  LET q == queue[s]
      n == SelectInSeq(q, LAMBDA d : d.len = 0)
  IN  IF n = 0 THEN q ELSE SubSeq(q, 1, n - 1)

PollSocket(s) ==
  LET accepted == Selected(Readable(s), {d \in Datagram : ShouldAcceptData(d.src)})
  IN  [i \in 1..Len(accepted) |-> [src |-> accepted[i].src, rtp |-> s = "rtp"]]

Poll ==
  /\ created
  /\ raw' = raw \o PollSocket("rtp") \o PollSocket("rtcp")
  /\ queue' = [s \in Sockets |->
                 SubSeq(queue[s], Len(Readable(s)) + 1, Len(queue[s]))]
  /\ out' = {}
  /\ UNCHANGED <<fixed, lists, maxsize, open>>

\* The session takes the packet and asks whether we sent it ourselves.
GetNextPacket ==
  /\ created /\ raw # <<>>
  /\ out' = {<<"packet", Head(raw), ComesFromThisTransmitter(Head(raw).src)>>}
  /\ raw' = Tail(raw)
  /\ UNCHANGED <<fixed, lists, maxsize, open, queue>>

-----------------------------------------------------------------------------
Lists ==
  \/ \E m \in Modes : SetReceiveMode(m)
  \/ \E ip \in IP, port \in Port \cup {0} :
       \/ AddToIgnoreList(ip, port) \/ DeleteFromIgnoreList(ip, port)
       \/ AddToAcceptList(ip, port) \/ DeleteFromAcceptList(ip, port)
  \/ ClearIgnoreList \/ ClearAcceptList

Destinations ==
  \/ \E d \in Dest : AddDestination(d) \/ DeleteDestination(d)
  \/ ClearDestinations

Groups ==
  \/ \E g \in Multicast : JoinMulticastGroup(g) \/ LeaveMulticastGroup(g)
  \/ LeaveAllMulticastGroups

Traffic ==
  \/ \E len \in Size : SendRTPData(len) \/ SendRTCPData(len)
  \/ \E s \in Sockets, d \in Datagram : Arrive(s, d)
  \/ Poll \/ GetNextPacket

Next ==
  \/ Destroy \/ GetLocalHostName
  \/ \E size \in Size : Create(size) \/ SetMaximumPacketSize(size)
  \/ \E size \in Size, at \in DOMAIN OpenAt : CreateFails(at, size)
  \/ Lists \/ Destinations \/ Groups \/ Traffic

Spec == Init /\ [][Next]_vars

-----------------------------------------------------------------------------
(* Properties                                                              *)

\* The transmitter does what RTPTransmitter promises: the list of ports with
\* its exceptions is a set of addresses, packets pass only from accepted
\* sources and in order, and nothing outlives Destroy.
Interface == INSTANCE RTPTransmitter WITH
  joined <- groups, inbox <- raw,
  listed <- {a \in Address : (a.port \in info[a.ip].ports) # info[a.ip].all},
  whole  <- {ip \in IP : info[ip].all}

ImplementsInterface == Interface!Spec

\* No error path of Create, and no failed join, leaves something behind: a
\* descriptor is open exactly while the transmitter is created, and each
\* socket is a member of exactly the listed groups.
NothingLeftBehind ==
  /\ open = IF created THEN Sockets \cup {"abort"} ELSE {}
  /\ \A s \in Sockets : member[s] = groups
=============================================================================
