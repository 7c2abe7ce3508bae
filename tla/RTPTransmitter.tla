--------------------------- MODULE RTPTransmitter ---------------------------
(***************************************************************************)
(* What RTPTransmitter promises to a session, whatever the transmission    *)
(* mechanism is: packets go to exactly the current destinations, packets   *)
(* come in only from sources the receive mode lets through, and a          *)
(* destroyed component keeps nothing.  The receive lists are sets of       *)
(* source addresses; port 0 stands for all ports of a host.                *)
(*                                                                         *)
(* `out` is what the last call handed to the network or to the caller.     *)
(***************************************************************************)
EXTENDS Integers, Sequences

CONSTANTS
  IP,       \* addresses of hosts
  Multicast,\* multicast addresses
  Port,     \* ports, without 0
  Size      \* lengths of packets

VARIABLES
  created,  \* Create has been called
  dests,    \* destinations
  joined,   \* multicast groups
  mode,     \* the receive mode
  listed,   \* sources on the accept or ignore list
  whole,    \* hosts whose ports were listed all at once
  maxsize,  \* the largest packet to transmit
  inbox,    \* received packets, oldest first
  out       \* result of the last call

vars == <<created, dests, joined, mode, listed, whole, maxsize, inbox, out>>

Address == [ip : IP, port : Port]
Modes   == {"AcceptAll", "AcceptSome", "IgnoreSome"}
Nothing == {}

\* The sources an entry of the list stands for.
Covered(ip, port) == [ip : {ip}, port : IF port = 0 THEN Port ELSE {port}]

Accepts(src) ==
  \/ mode = "AcceptAll"
  \/ mode = "AcceptSome" /\ src \in listed
  \/ mode = "IgnoreSome" /\ src \notin listed

Empty ==
  /\ created = FALSE /\ dests = {} /\ joined = {} /\ mode = "AcceptAll"
  /\ listed = {} /\ whole = {} /\ inbox = <<>> /\ out = Nothing

Init == Empty /\ maxsize \in Size

-----------------------------------------------------------------------------
\* A transmitter may come with a destination of its own.
Create ==
  /\ ~created /\ created' = TRUE
  /\ dests' \in {dests} \cup {{d} : d \in Address}
  /\ mode' = "AcceptAll" /\ maxsize' \in Size /\ out' = Nothing
  /\ UNCHANGED <<joined, listed, whole, inbox>>

\* Buffers are cleared; only Create makes the component usable again.
Destroy ==
  /\ created /\ created' = FALSE
  /\ dests' = {} /\ joined' = {} /\ listed' = {} /\ whole' = {}
  /\ inbox' = <<>> /\ out' = Nothing
  /\ UNCHANGED <<mode, maxsize>>

\* A packet that is not too large goes to every destination.
SendData(kind, len) ==
  /\ created /\ len <= maxsize
  /\ out' = {<<kind, d, len>> : d \in dests}
  /\ UNCHANGED <<created, dests, joined, mode, listed, whole, maxsize, inbox>>

SetDestinations ==
  /\ created /\ out' = Nothing
  /\ \/ \E d \in Address : dests' \in {dests \cup {d}, dests \ {d}}
     \/ dests' = {}
  /\ UNCHANGED <<created, joined, mode, listed, whole, maxsize, inbox>>

SetGroups ==
  /\ created /\ out' = Nothing
  /\ \/ \E g \in Multicast : joined' \in {joined \cup {g}, joined \ {g}}
     \/ joined' = {}
  /\ UNCHANGED <<created, dests, mode, listed, whole, maxsize, inbox>>

\* When the mode changes, both lists are lost.
SetReceiveMode(m) ==
  /\ created /\ mode' = m /\ out' = Nothing
  /\ IF m # mode THEN listed' = {} /\ whole' = {} ELSE UNCHANGED <<listed, whole>>
  /\ UNCHANGED <<created, dests, joined, maxsize, inbox>>

\* While a host is listed as a whole, its ports cannot be added one by one:
\* one that was deleted stays out until the whole host is added or deleted.
AddToList(ip, port) ==
  /\ created /\ mode # "AcceptAll" /\ out' = Nothing
  /\ listed' = IF port # 0 /\ ip \in whole THEN listed ELSE listed \cup Covered(ip, port)
  /\ whole' = IF port = 0 THEN whole \cup {ip} ELSE whole
  /\ UNCHANGED <<created, dests, joined, mode, maxsize, inbox>>

DeleteFromList(ip, port) ==
  /\ created /\ mode # "AcceptAll" /\ out' = Nothing
  /\ listed' = listed \ Covered(ip, port)
  /\ whole' = IF port = 0 THEN whole \ {ip} ELSE whole
  /\ UNCHANGED <<created, dests, joined, mode, maxsize, inbox>>

ClearList ==
  /\ created /\ listed' = {} /\ whole' = {} /\ out' = Nothing
  /\ UNCHANGED <<created, dests, joined, mode, maxsize, inbox>>

SetMaximumPacketSize ==
  /\ created /\ maxsize' \in Size /\ out' = Nothing
  /\ UNCHANGED <<created, dests, joined, mode, listed, whole, inbox>>

\* Packets are stored behind those already there; a source that is not
\* accepted at that moment gets nothing through.
Receive ==
  /\ created /\ out' = Nothing
  /\ Len(inbox') >= Len(inbox)
  /\ \A i \in 1..Len(inbox) : inbox'[i] = inbox[i]
  /\ \A i \in (Len(inbox) + 1)..Len(inbox') : Accepts(inbox'[i].src)
  /\ UNCHANGED <<created, dests, joined, mode, listed, whole, maxsize>>

\* The oldest packet is handed out once.
GetNextPacket ==
  /\ created /\ inbox # <<>>
  /\ \E own \in BOOLEAN : out' = {<<"packet", Head(inbox), own>>}
  /\ inbox' = Tail(inbox)
  /\ UNCHANGED <<created, dests, joined, mode, listed, whole, maxsize>>

\* Questions change nothing.
Query ==
  /\ out' # out
  /\ \A r \in out' : r[1] \in {"name"}
  /\ UNCHANGED <<created, dests, joined, mode, listed, whole, maxsize, inbox>>

Next ==
  \/ Create \/ Destroy \/ Receive \/ GetNextPacket \/ Query
  \/ SetDestinations \/ SetGroups \/ SetMaximumPacketSize \/ ClearList
  \/ \E kind \in {"rtp", "rtcp"}, len \in Size : SendData(kind, len)
  \/ \E m \in Modes : SetReceiveMode(m)
  \/ \E ip \in IP, port \in Port \cup {0} : AddToList(ip, port) \/ DeleteFromList(ip, port)

Spec == Init /\ [][Next]_vars
=============================================================================
