---------------------------- MODULE MCRTPPackets ----------------------------
EXTENDS RTPPackets, TLC

Symmetry == Permutations(Caller) \union Permutations(CSRC)
=============================================================================
