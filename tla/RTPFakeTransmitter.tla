------------------------- MODULE RTPFakeTransmitter -------------------------
(***************************************************************************)
(* The transmitter without sockets: the application puts one packet at a   *)
(* time into the transmission parameters, where Poll fetches it, and gets  *)
(* the packets to send through a callback, once per destination.           *)
(*                                                                         *)
(* The tables and lists are copies of the IPv4 transmitter's.  Init        *)
(* refuses threads, so there is no waiting; there is no multicast either:  *)
(* those calls return an error and change nothing.                         *)
(***************************************************************************)
EXTENDS TransmitterConstants

VARIABLES
  created, localIPs, dests, groups, mode, info, maxsize, raw, out, open, member,
  queue     \* the current data, under the type the application gave it

V4 == INSTANCE RTPUDPv4Transmitter

Init == V4!Init

-----------------------------------------------------------------------------
(* Life of the transmitter                                                 *)

GetLocalIPList_Interfaces == {}

CreateLocalIPList(given, dns) ==
  V4!CreateLocalIPList(given, GetLocalIPList_Interfaces, dns)

LocalLists ==
  {CreateLocalIPList(given, dns) : given \in Interfaces, dns \in Interfaces}

\* The port may be odd.  A size that is too large leaves the local addresses
\* behind.
Create(size) ==
  /\ ~created /\ localIPs' \in LocalLists
  /\ IF size <= MAXPACKSIZE
     THEN created' = TRUE /\ maxsize' = size /\ mode' = "AcceptAll"
     ELSE UNCHANGED <<created, maxsize, mode>>
  /\ out' = {} /\ UNCHANGED <<dests, groups, info, raw, open, member, queue>>

\* The parameters, and the current data with them, are deleted as well.
Destroy ==
  /\ created /\ created' = FALSE
  /\ dests' = {} /\ raw' = <<>> /\ info' = V4!NoInfo /\ localIPs' = {}
  /\ queue' = V4!NoQueue /\ out' = {}
  /\ UNCHANGED <<groups, mode, maxsize, open, member>>

-----------------------------------------------------------------------------
(* Questions                                                               *)

ComesFromThisTransmitter(a) ==
  created /\ a.ip \in localIPs /\ a.port \in {PortBase, PortBase + 1}

GetLocalHostName == V4!GetLocalHostName

-----------------------------------------------------------------------------
(* Sending                                                                 *)

SendRTPData(len) == V4!SendRTPData(len)

SendRTCPData(len) == V4!SendRTCPData(len)

SetMaximumPacketSize(s) == V4!SetMaximumPacketSize(s)

AddDestination(d) == V4!AddDestination(d)

DeleteDestination(d) == V4!DeleteDestination(d)

ClearDestinations == V4!ClearDestinations

-----------------------------------------------------------------------------
(* The accept and ignore list                                              *)

SetReceiveMode(m) == V4!SetReceiveMode(m)

ProcessAddAcceptIgnoreEntry(e, port) == V4!ProcessAddAcceptIgnoreEntry(e, port)

ProcessDeleteAcceptIgnoreEntry(e, port) == V4!ProcessDeleteAcceptIgnoreEntry(e, port)

AddToIgnoreList(ip, port) ==
  V4!ChangeList("IgnoreSome", ip, ProcessAddAcceptIgnoreEntry(info[ip], port))

DeleteFromIgnoreList(ip, port) ==
  V4!ChangeList("IgnoreSome", ip, ProcessDeleteAcceptIgnoreEntry(info[ip], port))

AddToAcceptList(ip, port) ==
  V4!ChangeList("AcceptSome", ip, ProcessAddAcceptIgnoreEntry(info[ip], port))

DeleteFromAcceptList(ip, port) ==
  V4!ChangeList("AcceptSome", ip, ProcessDeleteAcceptIgnoreEntry(info[ip], port))

ClearIgnoreList == V4!ClearIgnoreList

ClearAcceptList == V4!ClearAcceptList

ShouldAcceptData(src) == V4!ShouldAcceptData(src)

-----------------------------------------------------------------------------
(* Receiving                                                               *)

\* The application fills in the current data; what was there is forgotten.
SetCurrentData(s, d) ==
  /\ created /\ Len(raw) < MaxPackets
  /\ queue' = [V4!NoQueue EXCEPT ![s] = <<d>>] /\ out' = {}
  /\ UNCHANGED <<created, localIPs, dests, groups, mode, info, maxsize, raw, open, member>>

\* Data without length is not a packet.
FakePoll(s) ==
  LET taken == V4!Selected(queue[s], {d \in V4!Datagram : d.len > 0 /\ ShouldAcceptData(d.src)})
  IN  [i \in 1..Len(taken) |-> [src |-> taken[i].src, rtp |-> s = "rtp"]]

\* The slot is emptied whatever became of its data.
Poll ==
  /\ created
  /\ raw' = raw \o FakePoll("rtp") \o FakePoll("rtcp")
  /\ queue' = V4!NoQueue /\ out' = {}
  /\ UNCHANGED <<created, localIPs, dests, groups, mode, info, maxsize, open, member>>

GetNextPacket ==
  /\ created /\ raw # <<>>
  /\ out' = {<<"packet", Head(raw), ComesFromThisTransmitter(Head(raw).src)>>}
  /\ raw' = Tail(raw)
  /\ UNCHANGED <<created, localIPs, dests, groups, member, mode, info, maxsize, open, queue>>

-----------------------------------------------------------------------------
Lists ==
  \/ \E m \in V4!Modes : SetReceiveMode(m)
  \/ \E ip \in IP, port \in Port \cup {0} :
       \/ AddToIgnoreList(ip, port) \/ DeleteFromIgnoreList(ip, port)
       \/ AddToAcceptList(ip, port) \/ DeleteFromAcceptList(ip, port)
  \/ ClearIgnoreList \/ ClearAcceptList

Sending ==
  \/ \E d \in Dest : AddDestination(d) \/ DeleteDestination(d)
  \/ \E len \in Size : SendRTPData(len) \/ SendRTCPData(len) \/ SetMaximumPacketSize(len)
  \/ ClearDestinations

Next ==
  \/ \E size \in Size : Create(size)
  \/ Destroy \/ GetLocalHostName \/ Lists \/ Sending \/ Poll \/ GetNextPacket
  \/ \E s \in V4!Sockets, d \in V4!Datagram : SetCurrentData(s, d)
=============================================================================
