--------------------------- MODULE RTPSourceStats ---------------------------
(***************************************************************************)
(* The sequence numbers of one source: probation, the extension of the     *)
(* 16-bit numbers to 32 bits and the sorted list of packets that wait to   *)
(* be fetched (RTPSourceStats::ProcessPacket and                           *)
(* RTPInternalSourceData::ProcessRTPPacket).                               *)
(*                                                                         *)
(* The n-th packet of the sender carries n % W.  The network loses,        *)
(* repeats and reorders packets: a packet may be at most Ahead beyond the  *)
(* newest one that arrived and at most Late behind it.  Overflow of the    *)
(* 32-bit counters, after 2^16 cycles, is not modelled.                    *)
(***************************************************************************)
EXTENDS Integers, Sequences

CONSTANTS
  W,             \* number of sequence numbers, 2^16 in the code
  Late, Ahead,   \* how far packets are reordered, and lost in a row
  MaxProbation,  \* RTPINTERNALSOURCEDATA_MAXPROBATIONPACKETS, 32 in the code
  MaxList,       \* bound: packets in the list
  MaxNumber,     \* bound: packets of the sender
  MaxCycles      \* bound: cycles counted

ASSUME StatsAssumption ==
  /\ W \in Nat /\ Late \in Nat /\ Ahead \in Nat /\ MaxNumber \in Nat
  /\ MaxProbation \in Nat /\ MaxList \in Nat /\ MaxCycles \in Nat
  /\ 2 * (Late + Ahead) < W
  /\ 1 < MaxProbation /\ MaxProbation <= MaxList

VARIABLES
  validated,     \* RTPSourceData::validated
  sentdata,      \* a packet was accepted
  probation, prevseqnr,
  numcycles, baseseqnr, exthighseqnr,
  packetlist,    \* packets: extended number, true number, accepted or not
  top,           \* history: the newest packet that arrived
  first, high,   \* history: the first and the newest packet accepted
  crossed        \* history: a packet arrived from before the last wrap

probes  == <<probation, prevseqnr>>
numbers == <<numcycles, baseseqnr, exthighseqnr>>
history == <<first, high, crossed>>
vars    == <<validated, sentdata, probes, numbers, packetlist, top, history>>

RTP_PROBATIONCOUNT == 2

Packet == [ext : Nat, n : Nat, accepted : BOOLEAN]

TypeOK ==
  /\ validated \in BOOLEAN /\ sentdata \in BOOLEAN /\ crossed \in BOOLEAN
  /\ probation \in 0..RTP_PROBATIONCOUNT /\ prevseqnr \in 0..(W - 1)
  /\ numcycles \in Nat /\ baseseqnr \in Nat /\ exthighseqnr \in Nat
  /\ packetlist \in Seq(Packet)
  /\ top \in Nat /\ first \in Nat /\ high \in Nat

Init ==
  /\ validated = FALSE /\ sentdata = FALSE
  /\ probation = 0 /\ prevseqnr = 0
  /\ numcycles = 0 /\ baseseqnr = 0 /\ exthighseqnr = 0
  /\ packetlist = <<>>
  /\ top \in 0..(W - 1)
  /\ first = 0 /\ high = 0 /\ crossed = FALSE

-----------------------------------------------------------------------------
(* Extending a sequence number                                             *)

\* a - b in 16-bit arithmetic.
Minus16(a, b) == IF a >= b THEN a - b ELSE (a - b) + W

maxseq16 == exthighseqnr % W

\* Mutants: a wrap is never noticed; every smaller number is a wrap.
NeverWraps(seq) == FALSE
SmallerWraps(seq) == seq < maxseq16

\* A smaller number that is nearer from above is the start of a new cycle.
Wraps(seq) ==
  /\ seq < maxseq16
  /\ Minus16(seq, maxseq16) < Minus16(maxseq16, seq)

NextCycle(seq) == numcycles + seq + W

Extended(seq) == IF Wraps(seq) THEN NextCycle(seq) ELSE numcycles + seq

-----------------------------------------------------------------------------
(* The packet list                                                         *)

\* Mutant: a packet that is there already is stored again.
StoreTwice(list, p) ==
  \E i \in 0..Len(list) :
    /\ \A j \in (i + 1)..Len(list) : list[j].ext > p.ext
    /\ i > 0 => list[i].ext <= p.ext
    /\ packetlist' = [j \in 1..(Len(list) + 1) |->
                        IF j <= i THEN list[j] ELSE IF j = i + 1 THEN p ELSE list[j - 1]]

\* The list is searched from its end for a number that is not larger; the
\* packet goes behind it, unless the numbers are equal.
Store(list, p) ==
  \E i \in 0..Len(list) :
    /\ \A j \in (i + 1)..Len(list) : list[j].ext > p.ext
    /\ i > 0 => list[i].ext <= p.ext
    /\ packetlist' = IF i > 0 /\ list[i].ext = p.ext THEN list
                     ELSE [j \in 1..(Len(list) + 1) |->
                             IF j <= i THEN list[j] ELSE IF j = i + 1 THEN p ELSE list[j - 1]]

\* The source of a packet on probation keeps few packets only.
Trimmed(list) == IF Len(list) = MaxProbation THEN Tail(list) ELSE list

-----------------------------------------------------------------------------
(* Actions                                                                 *)

\* The network hands over packet n.
Arrives(n) ==
  /\ top - Late <= n /\ n <= top + Ahead
  /\ Len(packetlist) < MaxList
  /\ top' = IF n > top THEN n ELSE top

Expected(seq) == probation # 0 /\ seq = (prevseqnr + 1) % W

\* A packet on probation is stored under its 16-bit number.
OnProbation(n) ==
  /\ Arrives(n)
  /\ ~validated /\ ~sentdata
  /\ ~(Expected(n % W) /\ probation = 1)
  /\ probation' = IF Expected(n % W) THEN probation - 1 ELSE RTP_PROBATIONCOUNT
  /\ prevseqnr' = n % W
  /\ Store(Trimmed(packetlist), [ext |-> n % W, n |-> n, accepted |-> FALSE])
  /\ UNCHANGED <<validated, sentdata, numbers, history>>

\* ACCEPTPACKETCODE: probation is over, or was not needed.
AcceptFirst(n) ==
  LET seq  == n % W
      base == IF seq = 0 THEN W - 1 ELSE seq - 1
  IN
  /\ Arrives(n)
  /\ ~sentdata /\ sentdata' = TRUE
  /\ validated \/ (Expected(seq) /\ probation = 1)
  /\ validated' = TRUE
  /\ IF validated THEN UNCHANGED probes ELSE probation' = 0 /\ prevseqnr' = seq
  /\ numcycles' = IF seq = 0 THEN W ELSE numcycles
  /\ baseseqnr' = base /\ exthighseqnr' = base + 1
  /\ Store(packetlist, [ext |-> base + 1, n |-> n, accepted |-> TRUE])
  /\ first' = n /\ high' = n /\ UNCHANGED crossed

AcceptNext(n) ==
  LET seq == n % W IN
  /\ Arrives(n)
  /\ sentdata
  /\ numcycles' = IF Wraps(seq) THEN numcycles + W ELSE numcycles
  /\ numcycles' <= MaxCycles * W
  /\ exthighseqnr' = IF seq >= maxseq16 \/ Wraps(seq) THEN Extended(seq) ELSE exthighseqnr
  /\ Store(packetlist, [ext |-> Extended(seq), n |-> n, accepted |-> TRUE])
  /\ high' = IF n > high THEN n ELSE high
  /\ crossed' = (crossed \/ n \div W < high \div W)
  /\ UNCHANGED <<validated, sentdata, probes, baseseqnr, first>>

\* A CNAME validates a source without RTP packets.
ProcessCNAME ==
  /\ ~validated /\ validated' = TRUE
  /\ UNCHANGED <<sentdata, probes, numbers, packetlist, top, history>>

GetNextPacket ==
  /\ validated /\ packetlist # <<>>
  /\ packetlist' = Tail(packetlist)
  /\ UNCHANGED <<validated, sentdata, probes, numbers, top, history>>

Next ==
  \/ \E n \in 0..MaxNumber : OnProbation(n) \/ AcceptFirst(n) \/ AcceptNext(n)
  \/ ProcessCNAME
  \/ GetNextPacket

Spec == Init /\ [][Next]_vars

-----------------------------------------------------------------------------
(* Properties                                                              *)

\* The list is in ascending order without repetitions, across probation,
\* acceptance and wraps: GetNextPacket always takes the smallest number.
ListSorted ==
  \A i, j \in 1..Len(packetlist) : i < j => packetlist[i].ext < packetlist[j].ext

\* The number of packets expected, from which the receiver reports compute
\* the loss, is never too small: no wrap is missed, whatever the order in
\* which the packets around it arrive.
HighestNotUnderstated ==
  sentdata => exthighseqnr - baseseqnr >= (high - first) + 1

\* It is exact, and so is the number of every packet in the list, as long as
\* no packet arrives from before a wrap after one from behind it.
ExactUntilLateWrap ==
  sentdata /\ ~crossed =>
    /\ exthighseqnr - baseseqnr = (high - first) + 1
    /\ \A i \in 1..Len(packetlist) :
         packetlist[i].accepted =>
           packetlist[i].ext - baseseqnr = (packetlist[i].n - first) + 1
=============================================================================
