--------------------------- MODULE MCRTCPReports ----------------------------
(* Packet sizes are scaled down, so that two sources overflow a packet;     *)
(* source 0 comes, goes, falls silent and speaks up.                        *)
EXTENDS RTCPReports

Two  == <<0, 1>>
Four == <<0, 1, 2, 3>>

\* Two items; where SDESCycle is 2, the second one in every other round only.
MCInterval ==
  [i \in ItemNames |-> IF i = "name" THEN 1 ELSE IF i = "note" THEN SDESCycle ELSE -1]
MCLengths == [i \in ItemNames |-> {MaxItem}]
=============================================================================
