--------------------------- MODULE MCTransmitters ---------------------------
(* One host with two ports, one more address of ours, one group.           *)
EXTENDS Transmitters

MCSource     == {[ip |-> "a", port |-> 1]}
MCDest       == {[ip |-> "a", port |-> 1]}
MCNames      == [ip \in {"a", "b"} |-> IF ip = "b" THEN {1, 2} ELSE {}]
MCBucket(k)  == IF k = "k3" THEN 1 ELSE 0
MCInterfaces == {{}, {"a"}}
=============================================================================
