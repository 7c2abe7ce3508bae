------------------------ MODULE RTPUDPv6Transmitter ------------------------
(***************************************************************************)
(* The UDP over IPv6 transmitter.  Its functions are those of the IPv4     *)
(* transmitter with another type of address, and are written here as such, *)
(* except that                                                             *)
(*   - ComesFromThisTransmitter also compares the port;                    *)
(*   - the interfaces are not asked for local addresses, the name server   *)
(*     is.                                                                 *)
(***************************************************************************)
EXTENDS TransmitterConstants

VARIABLES
  created, localIPs, dests, groups, mode, info, maxsize, raw, out, open, member, queue

V4 == INSTANCE RTPUDPv4Transmitter

Init == V4!Init

-----------------------------------------------------------------------------
(* Life of the transmitter                                                 *)

GetLocalIPList_Interfaces == {}

CreateLocalIPList(given, dns) ==
  V4!CreateLocalIPList(given, GetLocalIPList_Interfaces, dns)

LocalLists ==
  {CreateLocalIPList(given, dns) : given \in Interfaces, dns \in Interfaces}

CreateFails(at, size) == V4!CreateFails(at, size) /\ localIPs' \in LocalLists \cup {localIPs}

Create(size) == V4!Create(size) /\ localIPs' \in LocalLists

Destroy == V4!Destroy

-----------------------------------------------------------------------------
(* Questions                                                               *)

ComesFromThisTransmitter(a) ==
  created /\ a.ip \in localIPs /\ a.port \in {PortBase, PortBase + 1}

GetLocalHostName == V4!GetLocalHostName

-----------------------------------------------------------------------------
(* Sending                                                                 *)

SendRTPData(len) == V4!SendRTPData(len)

SendRTCPData(len) == V4!SendRTCPData(len)

SetMaximumPacketSize(s) == V4!SetMaximumPacketSize(s)

AddDestination(d) == V4!AddDestination(d)

DeleteDestination(d) == V4!DeleteDestination(d)

ClearDestinations == V4!ClearDestinations

-----------------------------------------------------------------------------
(* Multicast groups                                                        *)

JoinMulticastGroup(g) == V4!JoinMulticastGroup(g)

LeaveMulticastGroup(g) == V4!LeaveMulticastGroup(g)

LeaveAllMulticastGroups == V4!LeaveAllMulticastGroups

-----------------------------------------------------------------------------
(* The accept and ignore list                                              *)

SetReceiveMode(m) == V4!SetReceiveMode(m)

ProcessAddAcceptIgnoreEntry(e, port) == V4!ProcessAddAcceptIgnoreEntry(e, port)

ProcessDeleteAcceptIgnoreEntry(e, port) == V4!ProcessDeleteAcceptIgnoreEntry(e, port)

AddToIgnoreList(ip, port) ==
  V4!ChangeList("IgnoreSome", ip, ProcessAddAcceptIgnoreEntry(info[ip], port))

DeleteFromIgnoreList(ip, port) ==
  V4!ChangeList("IgnoreSome", ip, ProcessDeleteAcceptIgnoreEntry(info[ip], port))

AddToAcceptList(ip, port) ==
  V4!ChangeList("AcceptSome", ip, ProcessAddAcceptIgnoreEntry(info[ip], port))

DeleteFromAcceptList(ip, port) ==
  V4!ChangeList("AcceptSome", ip, ProcessDeleteAcceptIgnoreEntry(info[ip], port))

ClearIgnoreList == V4!ClearIgnoreList

ClearAcceptList == V4!ClearAcceptList

ShouldAcceptData(src) == V4!ShouldAcceptData(src)

-----------------------------------------------------------------------------
(* Receiving                                                               *)

PollSocket(s) ==
  LET accepted == V4!Selected(V4!Readable(s), {d \in V4!Datagram : ShouldAcceptData(d.src)})
  IN  [i \in 1..Len(accepted) |-> [src |-> accepted[i].src, rtp |-> s = "rtp"]]

Poll ==
  /\ created
  /\ raw' = raw \o PollSocket("rtp") \o PollSocket("rtcp")
  /\ queue' = [s \in V4!Sockets |->
                 SubSeq(queue[s], Len(V4!Readable(s)) + 1, Len(queue[s]))]
  /\ out' = {}
  /\ UNCHANGED <<created, localIPs, dests, groups, member, mode, info, maxsize, open>>

GetNextPacket ==
  /\ created /\ raw # <<>>
  /\ out' = {<<"packet", Head(raw), ComesFromThisTransmitter(Head(raw).src)>>}
  /\ raw' = Tail(raw)
  /\ UNCHANGED <<created, localIPs, dests, groups, member, mode, info, maxsize, open, queue>>

-----------------------------------------------------------------------------
Lists ==
  \/ \E m \in V4!Modes : SetReceiveMode(m)
  \/ \E ip \in IP, port \in Port \cup {0} :
       \/ AddToIgnoreList(ip, port) \/ DeleteFromIgnoreList(ip, port)
       \/ AddToAcceptList(ip, port) \/ DeleteFromAcceptList(ip, port)
  \/ ClearIgnoreList \/ ClearAcceptList

Sending ==
  \/ \E d \in Dest : AddDestination(d) \/ DeleteDestination(d)
  \/ \E g \in Multicast : JoinMulticastGroup(g) \/ LeaveMulticastGroup(g)
  \/ \E len \in Size : SendRTPData(len) \/ SendRTCPData(len) \/ SetMaximumPacketSize(len)
  \/ ClearDestinations \/ LeaveAllMulticastGroups

Next ==
  \/ \E size \in Size : Create(size)
  \/ \E size \in Size, at \in DOMAIN V4!OpenAt : CreateFails(at, size)
  \/ Destroy \/ GetLocalHostName \/ Lists \/ Sending \/ Poll \/ GetNextPacket
  \/ \E s \in V4!Sockets, d \in V4!Datagram : V4!Arrive(s, d)
=============================================================================
