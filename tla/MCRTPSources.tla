---------------------------- MODULE MCRTPSources ----------------------------
(* Small instances of RTPSources: model values for identifiers and         *)
(* addresses, with the host of each address.                               *)
EXTENDS RTPSources, TLC

\* Each address is a host of its own.
HostPerAddr == [a \in Addr |-> a]

Symmetry == Permutations(SSRC) \cup Permutations(Addr)
=============================================================================
