---------------------------- MODULE MCRTPSession ----------------------------
(* Small instances of RTPSession.                                          *)
EXTENDS RTPSession, TLC

Symmetry == Permutations(SSRC) \cup Permutations(Users)
=============================================================================
