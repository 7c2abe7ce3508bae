----------------------- MODULE RTPExternalTransmitter -----------------------
(***************************************************************************)
(* The transmitter that leaves the network to the application: an          *)
(* RTPExternalSender takes the packets to send, and the application        *)
(* injects the packets it received.  The sender is the only destination.   *)
(*                                                                         *)
(* Destinations, groups and lists are refused, the receive mode is always  *)
(* AcceptAll, and a packet may be as large as the application says.        *)
(***************************************************************************)
EXTENDS TransmitterConstants

VARIABLES
  created, localIPs, groups, mode, info, maxsize, raw, out, open, member, queue,
  dests     \* the sender, if there is one

lists == <<localIPs, groups, mode, info, member, queue>>   \* not used

V4 == INSTANCE RTPUDPv4Transmitter

Init == V4!Init

\* The only thing that can fail is the pipe, before anything is set.
Create(size, sender) ==
  /\ ~created /\ created' = TRUE
  /\ open' = open \cup {"abort"} /\ maxsize' = size /\ dests' = sender
  /\ out' = {} /\ UNCHANGED <<lists, raw>>

Destroy ==
  /\ created /\ created' = FALSE
  /\ open' = {} /\ raw' = <<>> /\ dests' = {}
  /\ out' = {} /\ UNCHANGED <<lists, maxsize>>

\* The name of the host, as the system gives it.
GetLocalHostName ==
  /\ created
  /\ \E n \in Dotted : out' = {<<"name", n>>}
  /\ UNCHANGED <<created, lists, maxsize, raw, open, dests>>

\* The application decides which packets it takes for its own.
ComesFromThisTransmitter(own) == own \in BOOLEAN

\* An error without a sender.
SendRTPData(len) ==
  /\ created /\ len <= maxsize /\ dests # {}
  /\ out' = {<<"rtp", d, len>> : d \in dests}
  /\ UNCHANGED <<created, lists, maxsize, raw, open, dests>>

SendRTCPData(len) ==
  /\ created /\ len <= maxsize /\ dests # {}
  /\ out' = {<<"rtcp", d, len>> : d \in dests}
  /\ UNCHANGED <<created, lists, maxsize, raw, open, dests>>

SetMaximumPacketSize(s) ==
  /\ created /\ maxsize' = s /\ out' = {}
  /\ UNCHANGED <<created, lists, raw, open, dests>>

Inject(src, rtp) ==
  /\ created /\ Len(raw) < MaxPackets
  /\ raw' = Append(raw, [src |-> src, rtp |-> rtp]) /\ out' = {}
  /\ UNCHANGED <<created, lists, maxsize, open, dests>>

InjectRTP(src) == Inject(src, TRUE)

InjectRTCP(src) == Inject(src, FALSE)

\* RTCP when the second byte is a type from SR (200) to APP (204).
InjectRTPorRTCP(src, len, type) == Inject(src, ~(len >= 2 /\ type \in 200..204))

GetNextPacket ==
  /\ created /\ raw # <<>>
  /\ \E own \in BOOLEAN :
       ComesFromThisTransmitter(own) /\ out' = {<<"packet", Head(raw), own>>}
  /\ raw' = Tail(raw)
  /\ UNCHANGED <<created, lists, maxsize, open, dests>>

-----------------------------------------------------------------------------
Next ==
  \/ \E size \in Size, sender \in {{}} \cup {{d} : d \in Dest} : Create(size, sender)
  \/ \E len \in Size : SendRTPData(len) \/ SendRTCPData(len) \/ SetMaximumPacketSize(len)
  \/ \E src \in Source : InjectRTP(src) \/ InjectRTCP(src)
  \/ \E src \in Source, len \in {1, 2}, type \in {199, 200, 204, 205} :
       InjectRTPorRTCP(src, len, type)
  \/ Destroy \/ GetLocalHostName \/ GetNextPacket
=============================================================================
