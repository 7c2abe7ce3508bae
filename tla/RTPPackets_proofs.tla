------------------------- MODULE RTPPackets_proofs --------------------------
(***************************************************************************)
(* What holds of RTP packets where they are received, built and sent, for  *)
(* sequence numbers and timestamps of any width, frames of any length, any *)
(* number of callers, packets and contributing sources.                    *)
(*                                                                         *)
(* The receiver.  Extended numbers and true numbers differ by whole cycles *)
(* (OffsetInv).  Seen through that offset, a packet that is newer than the *)
(* highest number is extended to its true number (Newer), and so is an     *)
(* older one from the same cycle (Older); an older one from the cycle      *)
(* before is extended to something too large, which is why the highest     *)
(* number can be overstated but never understated.                         *)
(*                                                                         *)
(* The builder.  What it wrote last is the wire form of what was asked for *)
(* (BuiltInv), and reading undoes writing (ReadsBack).  Its counts are     *)
(* those of the log, and the timestamp that it reports is the one since    *)
(* which no packet carried another (ReportInv).                            *)
(*                                                                         *)
(* The sender.  A call in fragments has sent the first t of them           *)
(* (SentSoFar) and finds the default marker as it left it unless it was    *)
(* disturbed; of two calls in fragments none is undisturbed (MarkInv).     *)
(***************************************************************************)
EXTENDS RTPPackets, Lists_proofs

-----------------------------------------------------------------------------
(* The receiver: sequence numbers                                          *)

\* The assumption on the constants, as far as arithmetic needs it.
LEMMA WPositive == W \in Nat /\ W > 0 /\ Late \in Nat /\ Ahead \in Nat /\ 2 * (Late + Ahead) < W
  BY StatsAssumption

-----------------------------------------------------------------------------
(* Division with remainder                                                 *)

\* A number is its whole cycles and a number below W.
LEMMA DivMod ==
  ASSUME NEW n \in Nat
  PROVE  n % W \in 0..(W - 1) /\ n \div W \in Nat /\ n = ((n \div W) * W) + (n % W)
<1>1. n \div W \in Nat /\ n % W \in Nat /\ n % W < W /\ n = ((n \div W) * W) + (n % W)
  BY WPositive, Division
<1> QED BY <1>1, WPositive

\* Different numbers of cycles are at least W apart.
LEMMA CyclesApart ==
  ASSUME NEW a \in Int, NEW b \in Int, a < b
  PROVE  (a * W) + W <= b * W
<1>1. ((b - a) - 1) * W >= 0
  BY WPositive
<1> QED BY <1>1, WPositive

\* The two parts of a number are unique.
LEMMA Unique ==
  ASSUME NEW a \in Int, NEW b \in Int, NEW r \in 0..(W - 1), NEW s \in 0..(W - 1),
         (a * W) + r = (b * W) + s
  PROVE  a = b /\ r = s
<1>0. a * W \in Int /\ b * W \in Int
  BY WPositive
<1>1. ~(a < b)
  BY <1>0, CyclesApart, WPositive
<1>2. ~(b < a)
  BY <1>0, CyclesApart, WPositive
<1>3. a = b
  BY <1>1, <1>2
<1> QED BY <1>0, <1>3

\* The two parts of a number that is put together from them.
LEMMA LowBits ==
  ASSUME NEW k \in Nat, NEW r \in 0..(W - 1)
  PROVE  ((k * W) + r) % W = r /\ ((k * W) + r) \div W = k
<1> DEFINE n == (k * W) + r
<1>1. n \in Nat
  BY WPositive
<1>2. n = (k * W) + r
  OBVIOUS
<1> HIDE DEF n
<1>3. n % W \in 0..(W - 1) /\ n \div W \in Nat /\ n = ((n \div W) * W) + (n % W)
  BY <1>1, DivMod
<1>4. n \div W = k /\ n % W = r
  BY <1>2, <1>3, Unique
<1> QED BY <1>2, <1>4

-----------------------------------------------------------------------------
(* What the extension of a number computes                                 *)

\* A number N less than half a cycle above k * W + m is recognised.
LEMMA Newer ==
  ASSUME NEW k \in Int, NEW m \in 0..(W - 1), NEW q \in Int, NEW s \in 0..(W - 1),
         (k * W) + m < (q * W) + s,
         2 * (((q * W) + s) - ((k * W) + m)) < W
  PROVE  \/ m <= s /\ q = k
         \/ s < m /\ Minus16(s, m) < Minus16(m, s) /\ q * W = (k * W) + W
<1>0. q * W \in Int /\ k * W \in Int /\ (k + 1) * W = (k * W) + W
  BY WPositive
<1>1. ~(q < k)
  BY <1>0, CyclesApart, WPositive
<1>2. ~(k + 1 < q)
  <2>1. k + 1 < q => ((k + 1) * W) + W <= q * W
    BY CyclesApart
  <2> QED BY <1>0, <2>1, WPositive
<1>3. CASE q = k
  BY <1>0, <1>3
<1>4. CASE q = k + 1
  <2>1. q * W = (k * W) + W
    BY <1>0, <1>4
  <2>2. s < m /\ 2 * ((s + W) - m) < W
    BY <1>0, <2>1, WPositive
  <2> QED BY <2>1, <2>2, WPositive DEF Minus16
<1> QED BY <1>1, <1>2, <1>3, <1>4

\* A number of the same cycle less than half a cycle below k * W + m is left
\* in that cycle.
LEMMA Older ==
  ASSUME NEW k \in Int, NEW m \in 0..(W - 1), NEW q \in Int, NEW s \in 0..(W - 1),
         (q * W) + s <= (k * W) + m, k <= q,
         2 * (((k * W) + m) - ((q * W) + s)) < W
  PROVE  q = k /\ s <= m /\ (s < m => ~(Minus16(s, m) < Minus16(m, s)))
<1>0. q * W \in Int /\ k * W \in Int
  BY WPositive
<1>1. ~(k < q)
  BY <1>0, CyclesApart, WPositive
<1>2. q = k
  BY <1>1
<1>3. s <= m /\ 2 * (m - s) < W
  BY <1>0, <1>2
<1> QED BY <1>2, <1>3, WPositive DEF Minus16

-----------------------------------------------------------------------------
(* The packet list                                                         *)

Sorted(list) == \A i, j \in 1..Len(list) : i < j => list[i].ext < list[j].ext

\* Storing a packet keeps the list sorted and adds nothing else.
LEMMA StoreStep ==
  ASSUME NEW list \in Seq(Packet), NEW p \in Packet, Sorted(list), Store(list, p)
  PROVE  /\ packetlist' \in Seq(Packet) /\ Sorted(packetlist')
         /\ \A i \in 1..Len(packetlist') :
              packetlist'[i] = p \/ \E j \in 1..Len(list) : packetlist'[i] = list[j]
<1>1. PICK i \in 0..Len(list) :
        /\ \A j \in (i + 1)..Len(list) : list[j].ext > p.ext
        /\ i > 0 => list[i].ext <= p.ext
        /\ packetlist' = IF i > 0 /\ list[i].ext = p.ext THEN list
                         ELSE [j \in 1..(Len(list) + 1) |->
                                 IF j <= i THEN list[j] ELSE IF j = i + 1 THEN p ELSE list[j - 1]]
  BY DEF Store
<1>0. Len(list) \in Nat /\ \A j \in 1..Len(list) : list[j] \in Packet /\ list[j].ext \in Nat
  <2>1. Len(list) \in Nat /\ \A j \in 1..Len(list) : list[j] \in Packet
    OBVIOUS
  <2>2. \A x \in Packet : x.ext \in Nat
    BY DEF Packet
  <2> QED BY <2>1, <2>2
<1>p. p.ext \in Nat
  BY DEF Packet
<1>2. CASE i > 0 /\ list[i].ext = p.ext
  BY <1>1, <1>2
<1>3. CASE ~(i > 0 /\ list[i].ext = p.ext)
  <2> DEFINE L == [j \in 1..(Len(list) + 1) |->
                     IF j <= i THEN list[j] ELSE IF j = i + 1 THEN p ELSE list[j - 1]]
  <2>1. packetlist' = L
    BY <1>1, <1>3
  <2>2. /\ \A j \in 1..(Len(list) + 1) : L[j] \in Packet
        /\ \A j \in 1..(Len(list) + 1) : j <= i => j \in 1..Len(list) /\ L[j] = list[j]
        /\ \A j \in 1..(Len(list) + 1) : j = i + 1 => L[j] = p
        /\ \A j \in 1..(Len(list) + 1) : j > i + 1 => j - 1 \in 1..Len(list) /\ L[j] = list[j - 1]
    BY <1>0
  <2>3. L \in Seq(Packet) /\ Len(L) = Len(list) + 1
    BY <1>0, <2>2
  <2> HIDE DEF L
  <2>4. \A j \in 1..i : list[j].ext < p.ext
    <3>1. i > 0 => list[i].ext < p.ext
      BY <1>0, <1>p, <1>1, <1>3
    <3>2. \A j \in 1..i : j < i => list[j].ext < list[i].ext
      BY <1>0 DEF Sorted
    <3> QED BY <1>0, <1>p, <3>1, <3>2
  <2>5. Sorted(L)
    <3> SUFFICES ASSUME NEW a \in 1..(Len(list) + 1), NEW b \in 1..(Len(list) + 1), a < b
                 PROVE  L[a].ext < L[b].ext
      BY <2>3 DEF Sorted
    <3>1. CASE b <= i
      BY <1>0, <2>2, <3>1 DEF Sorted
    <3>2. CASE b = i + 1
      BY <1>0, <2>2, <2>4, <3>2
    <3>3. CASE b > i + 1 /\ a <= i
      BY <1>0, <2>2, <3>3 DEF Sorted
    <3>4. CASE b > i + 1 /\ a = i + 1
      BY <1>0, <1>p, <1>1, <2>2, <3>4
    <3>5. CASE b > i + 1 /\ a > i + 1
      <4>1. /\ L[a] = list[a - 1] /\ a - 1 \in 1..Len(list)
            /\ L[b] = list[b - 1] /\ b - 1 \in 1..Len(list)
        BY <2>2, <3>5, Zenon
      <4>2. a - 1 < b - 1
        OBVIOUS
      <4> QED BY <1>0, <4>1, <4>2 DEF Sorted
    <3> QED BY <3>1, <3>2, <3>3, <3>4, <3>5
  <2>6. ASSUME NEW a \in 1..Len(L)
        PROVE  L[a] = p \/ \E j \in 1..Len(list) : L[a] = list[j]
    BY <1>0, <2>2, <2>3
  <2> QED BY <2>1, <2>3, <2>5, <2>6
<1> QED BY <1>2, <1>3

\* Dropping the first packet keeps the list sorted and adds nothing.
LEMMA TailStep ==
  ASSUME NEW list \in Seq(Packet), list # <<>>, Sorted(list)
  PROVE  /\ Tail(list) \in Seq(Packet) /\ Sorted(Tail(list))
         /\ \A i \in 1..Len(Tail(list)) : \E j \in 1..Len(list) : Tail(list)[i] = list[j]
<1>1. /\ Tail(list) \in Seq(Packet) /\ Len(Tail(list)) = Len(list) - 1 /\ Len(list) \in Nat
      /\ \A i \in 1..Len(Tail(list)) : Tail(list)[i] = list[i + 1] /\ i + 1 \in 1..Len(list)
  OBVIOUS
<1>2. Sorted(Tail(list))
  BY <1>1 DEF Sorted
<1> QED BY <1>1, <1>2

\* Dropping the first packet on probation keeps the list sorted.
LEMMA TrimStep ==
  ASSUME NEW list \in Seq(Packet), Sorted(list)
  PROVE  /\ Trimmed(list) \in Seq(Packet) /\ Sorted(Trimmed(list))
         /\ \A i \in 1..Len(Trimmed(list)) : \E j \in 1..Len(list) : Trimmed(list)[i] = list[j]
<1>1. CASE Len(list) = MaxProbation
  <2>1. list # <<>> /\ Trimmed(list) = Tail(list)
    BY <1>1, StatsAssumption DEF Trimmed
  <2> QED BY <2>1, TailStep
<1>2. CASE Len(list) # MaxProbation
  BY <1>2 DEF Trimmed
<1> QED BY <1>1, <1>2

-----------------------------------------------------------------------------
(* The inductive invariant                                                 *)

\* The highest number is in the cycle that is counted.
CycleInv ==
  /\ \E k \in Nat : numcycles = k * W
  /\ sentdata => validated /\ exthighseqnr - numcycles \in 0..(W - 1)
  /\ ~sentdata => numcycles = 0

\* What the history knows of the network.
RangeInv == sentdata => high <= top /\ top - Late <= high

\* The numbers of this module and the sender's differ by whole cycles.
OffsetInv == sentdata => \E d \in Int : baseseqnr + 1 = first + (d * W)

ListInv ==
  /\ Sorted(packetlist)
  /\ \A i \in 1..Len(packetlist) : packetlist[i].ext % W = packetlist[i].n % W

\* Nothing is accepted before the first acceptance.
ProbationInv ==
  ~sentdata => \A i \in 1..Len(packetlist) : ~packetlist[i].accepted

IndInv ==
  /\ TypeOK
  /\ CycleInv
  /\ RangeInv
  /\ OffsetInv
  /\ ListInv
  /\ ProbationInv
  /\ HighestNotUnderstated
  /\ ExactUntilLateWrap

\* The invariant holds at first,
LEMMA InitInd == Init => IndInv
<1> SUFFICES ASSUME Init PROVE IndInv
  OBVIOUS
<1>1. packetlist = <<>> /\ Len(packetlist) = 0 /\ packetlist \in Seq(Packet)
  BY DEF Init
<1>2. TypeOK
  <2>1. probation \in 0..RTP_PROBATIONCOUNT /\ prevseqnr \in 0..(W - 1) /\ top \in Nat
    BY WPositive DEF Init, RTP_PROBATIONCOUNT
  <2>2. validated \in BOOLEAN /\ sentdata \in BOOLEAN /\ crossed \in BOOLEAN
    BY DEF Init
  <2> QED BY <1>1, <2>1, <2>2 DEF Init, TypeOK
<1>3. CycleInv
  <2>1. numcycles = 0 * W
    BY WPositive DEF Init
  <2> QED BY <2>1 DEF Init, CycleInv
<1>4. ListInv /\ ProbationInv
  BY <1>1 DEF ListInv, ProbationInv, Sorted
<1>5. RangeInv /\ OffsetInv /\ HighestNotUnderstated /\ ExactUntilLateWrap
  BY DEF Init, RangeInv, OffsetInv, HighestNotUnderstated, ExactUntilLateWrap
<1> QED BY <1>2, <1>3, <1>4, <1>5 DEF IndInv

-----------------------------------------------------------------------------
(* The actions                                                             *)

\* What storing a packet does to the invariants of the list.
LEMMA StoreInv ==
  ASSUME NEW list \in Seq(Packet), Sorted(list), NEW p \in Packet, Store(list, p),
         \A i \in 1..Len(list) : list[i].ext % W = list[i].n % W,
         p.ext % W = p.n % W
  PROVE  packetlist' \in Seq(Packet) /\ ListInv'
<1>1. /\ packetlist' \in Seq(Packet) /\ Sorted(packetlist')
      /\ \A i \in 1..Len(packetlist') :
           packetlist'[i] = p \/ \E j \in 1..Len(list) : packetlist'[i] = list[j]
  BY StoreStep
<1>2. \A i \in 1..Len(packetlist') : packetlist'[i].ext % W = packetlist'[i].n % W
  BY <1>1
<1> QED BY <1>1, <1>2 DEF ListInv, Sorted

\* after a packet on probation,
LEMMA OnProbationInd ==
  ASSUME IndInv, NEW n \in 0..MaxNumber, OnProbation(n)
  PROVE  IndInv'
<1> DEFINE list == Trimmed(packetlist)
           p    == [ext |-> n % W, n |-> n, accepted |-> FALSE]
<1>0. n \in Nat /\ n % W \in 0..(W - 1)
  BY StatsAssumption, DivMod
<1>1. /\ list \in Seq(Packet) /\ Sorted(list)
      /\ \A i \in 1..Len(list) : \E j \in 1..Len(packetlist) : list[i] = packetlist[j]
  BY TrimStep DEF IndInv, TypeOK, ListInv
<1>2. p \in Packet /\ p.ext = n % W /\ p.n = n /\ p.accepted = FALSE
  BY <1>0, WPositive DEF Packet
<1>3. (n % W) % W = n % W
  <2>1. ((0 * W) + (n % W)) % W = n % W
    BY <1>0, LowBits
  <2> QED BY <1>0, <2>1, WPositive
<1>4. Store(list, p)
  BY DEF OnProbation
<1>5. \A i \in 1..Len(list) : list[i].ext % W = list[i].n % W
  BY <1>1 DEF IndInv, ListInv
<1> HIDE DEF list, p
<1>6. packetlist' \in Seq(Packet) /\ ListInv'
  BY <1>1, <1>2, <1>3, <1>4, <1>5, StoreInv
<1>7. \A i \in 1..Len(packetlist') :
        packetlist'[i] = p \/ \E j \in 1..Len(list) : packetlist'[i] = list[j]
  BY <1>1, <1>2, <1>4, StoreStep
<1>8. ~sentdata /\ ~sentdata' /\ UNCHANGED <<validated, sentdata, numbers, history>>
  BY DEF OnProbation
<1>9. TypeOK'
  <2>1. top' \in Nat
    BY <1>0 DEF OnProbation, Arrives, IndInv, TypeOK
  <2>2. probation' \in 0..RTP_PROBATIONCOUNT /\ prevseqnr' \in 0..(W - 1)
    BY <1>0 DEF OnProbation, Expected, RTP_PROBATIONCOUNT, IndInv, TypeOK
  <2> QED BY <1>6, <1>8, <2>1, <2>2 DEF IndInv, TypeOK, numbers, history
<1>10. CycleInv'
  BY <1>8 DEF IndInv, CycleInv, numbers
<1>11. ProbationInv'
  <2>1. \A j \in 1..Len(list) : ~list[j].accepted
    BY <1>1, <1>8 DEF IndInv, ProbationInv
  <2> QED BY <1>2, <1>7, <2>1 DEF ProbationInv
<1> QED BY <1>6, <1>8, <1>9, <1>10, <1>11
        DEF IndInv, RangeInv, OffsetInv, HighestNotUnderstated, ExactUntilLateWrap

\* after the actions that extend no number,
LEMMA QuietInd ==
  ASSUME IndInv, ProcessCNAME \/ GetNextPacket
  PROVE  IndInv'
<1>1. CASE ProcessCNAME
  BY <1>1 DEF ProcessCNAME, IndInv, TypeOK, CycleInv, RangeInv, OffsetInv, ListInv, ProbationInv,
              HighestNotUnderstated, ExactUntilLateWrap, numbers, history, probes, Sorted
<1>2. CASE GetNextPacket
  <2>1. packetlist' = Tail(packetlist) /\ packetlist # <<>> /\ packetlist \in Seq(Packet)
        /\ Sorted(packetlist)
    BY <1>2 DEF GetNextPacket, IndInv, TypeOK, ListInv
  <2>2. /\ packetlist' \in Seq(Packet) /\ Sorted(packetlist')
        /\ \A i \in 1..Len(packetlist') :
             \E j \in 1..Len(packetlist) : packetlist'[i] = packetlist[j]
    BY <2>1, TailStep
  <2>3. UNCHANGED <<validated, sentdata, probation, prevseqnr, numcycles, baseseqnr,
                    exthighseqnr, top, first, high, crossed>>
    BY <1>2 DEF GetNextPacket, probes, numbers, history
  <2>4. TypeOK'
    BY <2>2, <2>3 DEF IndInv, TypeOK
  <2>5. ListInv' /\ ProbationInv' /\ ExactUntilLateWrap'
    BY <2>2, <2>3, Zenon DEF IndInv, ListInv, ProbationInv, ExactUntilLateWrap, Sorted
  <2> QED BY <2>3, <2>4, <2>5
          DEF IndInv, CycleInv, RangeInv, OffsetInv, HighestNotUnderstated
<1> QED BY <1>1, <1>2

\* after the packet that ends probation,
LEMMA AcceptFirstInd ==
  ASSUME IndInv, NEW n \in 0..MaxNumber, AcceptFirst(n)
  PROVE  IndInv'
<1> DEFINE seq  == n % W
           base == IF seq = 0 THEN W - 1 ELSE seq - 1
           p    == [ext |-> base + 1, n |-> n, accepted |-> TRUE]
<1>0. n \in Nat /\ seq \in 0..(W - 1) /\ n \div W \in Nat /\ n = ((n \div W) * W) + seq
  BY StatsAssumption, DivMod
<1>1. /\ ~sentdata /\ sentdata' /\ validated'
      /\ numcycles' = IF seq = 0 THEN W ELSE numcycles
      /\ baseseqnr' = base /\ exthighseqnr' = base + 1
      /\ first' = n /\ high' = n /\ crossed' = crossed
      /\ Store(packetlist, p)
      /\ top - Late <= n /\ top' = IF n > top THEN n ELSE top
  BY DEF AcceptFirst, Arrives
<1>2. /\ numcycles = 0 /\ top \in Nat /\ packetlist \in Seq(Packet) /\ Sorted(packetlist)
      /\ \A i \in 1..Len(packetlist) : packetlist[i].ext % W = packetlist[i].n % W
      /\ \A i \in 1..Len(packetlist) : ~packetlist[i].accepted
  BY <1>1 DEF IndInv, TypeOK, CycleInv, ListInv, ProbationInv
<1>b. base \in Nat /\ base + 1 = IF seq = 0 THEN W ELSE seq
  BY <1>0, WPositive
<1> HIDE DEF base
<1>3. p \in Packet /\ p.ext = base + 1 /\ p.n = n /\ p.accepted = TRUE
  BY <1>0, <1>b DEF Packet
<1>4. (base + 1) % W = n % W
  <2>1. CASE seq = 0
    <3>1. ((1 * W) + 0) % W = 0
      BY LowBits, WPositive
    <3> QED BY <2>1, <3>1, <1>b, WPositive
  <2>2. CASE seq # 0
    <3>1. ((0 * W) + seq) % W = seq
      BY <1>0, LowBits
    <3>2. (0 * W) + seq = base + 1
      BY <1>0, <1>b, <2>2, WPositive
    <3> QED BY <3>1, <3>2
  <2> QED BY <2>1, <2>2
<1>5. CycleInv'
  <2>1. CASE seq = 0
    <3>1. numcycles' = 1 * W /\ exthighseqnr' - numcycles' = 0
      BY <1>1, <1>b, <2>1, WPositive
    <3>2. 1 \in Nat /\ 0 \in 0..(W - 1)
      BY WPositive
    <3> QED BY <1>1, <3>1, <3>2 DEF CycleInv
  <2>2. CASE seq # 0
    <3>1. numcycles' = 0 * W /\ exthighseqnr' - numcycles' = seq
      BY <1>0, <1>1, <1>2, <1>b, <2>2, WPositive
    <3> QED BY <1>0, <1>1, <3>1 DEF CycleInv
  <2> QED BY <2>1, <2>2
<1>6. OffsetInv'
  <2> DEFINE q == n \div W
  <2>1. (0 - q) * W = 0 - (q * W) /\ (1 - q) * W = W - (q * W) /\ q * W \in Int
    BY <1>0, WPositive
  <2>2. CASE seq = 0
    <3>1. baseseqnr' + 1 = first' + ((1 - q) * W) /\ 1 - q \in Int
      BY <1>0, <1>1, <1>b, <2>1, <2>2, WPositive
    <3> QED BY <3>1 DEF OffsetInv
  <2>3. CASE seq # 0
    <3>1. baseseqnr' + 1 = first' + ((0 - q) * W) /\ 0 - q \in Int
      BY <1>0, <1>1, <1>b, <2>1, <2>3, WPositive
    <3> QED BY <3>1 DEF OffsetInv
  <2> QED BY <2>2, <2>3
<1>7. RangeInv'
  <2>0. top \in Nat /\ n \in Nat /\ top - Late <= n /\ top' = IF n > top THEN n ELSE top
    BY <1>0, <1>1, <1>2
  <2>1. n <= top' /\ top' - Late <= n
    BY <2>0, WPositive
  <2> QED BY <1>1, <2>1 DEF RangeInv
<1> HIDE DEF p
<1>8. packetlist' \in Seq(Packet) /\ ListInv'
  BY <1>1, <1>2, <1>3, <1>4, StoreInv
<1>9. \A i \in 1..Len(packetlist') :
        packetlist'[i] = p \/ \E j \in 1..Len(packetlist) : packetlist'[i] = packetlist[j]
  BY <1>1, <1>2, <1>3, StoreStep
<1>10. HighestNotUnderstated' /\ ExactUntilLateWrap'
  <2>1. exthighseqnr' - baseseqnr' = (high' - first') + 1
    BY <1>0, <1>1, <1>b
  <2>2. ASSUME NEW i \in 1..Len(packetlist'), packetlist'[i].accepted
        PROVE  packetlist'[i].ext - baseseqnr' = (packetlist'[i].n - first') + 1
    <3>1. packetlist'[i] = p
      BY <1>2, <1>9, <2>2
    <3>2. baseseqnr' = base /\ first' = n /\ n \in Nat /\ base \in Nat
      BY <1>0, <1>1, <1>b
    <3>3. packetlist'[i].ext = base + 1 /\ packetlist'[i].n = n
      BY <1>3, <3>1
    <3> QED BY <3>2, <3>3
  <2>3. exthighseqnr' - baseseqnr' >= (high' - first') + 1
    BY <1>0, <1>1, <1>b
  <2> QED BY <2>1, <2>2, <2>3 DEF HighestNotUnderstated, ExactUntilLateWrap
<1>11. TypeOK'
  <2>1. numcycles' \in Nat /\ baseseqnr' \in Nat /\ exthighseqnr' \in Nat
    BY <1>1, <1>2, <1>b, WPositive
  <2>2. top' \in Nat /\ first' \in Nat /\ high' \in Nat
    BY <1>0, <1>1, <1>2
  <2>3. probation' \in 0..RTP_PROBATIONCOUNT /\ prevseqnr' \in 0..(W - 1)
    <3>1. CASE validated
      BY <3>1 DEF AcceptFirst, probes, IndInv, TypeOK
    <3>2. CASE ~validated
      BY <1>0, <3>2 DEF AcceptFirst, RTP_PROBATIONCOUNT
    <3> QED BY <3>1, <3>2
  <2>4. validated' \in BOOLEAN /\ sentdata' \in BOOLEAN /\ crossed' \in BOOLEAN
    BY <1>1 DEF AcceptFirst, IndInv, TypeOK
  <2> QED BY <1>8, <2>1, <2>2, <2>3, <2>4 DEF TypeOK
<1> QED BY <1>1, <1>5, <1>6, <1>7, <1>8, <1>10, <1>11 DEF IndInv, ProbationInv

\* after every packet that follows,
LEMMA AcceptNextInd ==
  ASSUME IndInv, NEW n \in 0..MaxNumber, AcceptNext(n)
  PROVE  IndInv'
<1> DEFINE seq == n % W
           q   == n \div W
           X   == Extended(seq)
           p   == [ext |-> X, n |-> n, accepted |-> TRUE]
<1>0. n \in Nat /\ seq \in 0..(W - 1) /\ q \in Nat /\ n = (q * W) + seq
  BY StatsAssumption, DivMod
<1>1. /\ sentdata /\ sentdata' /\ UNCHANGED <<validated, probation, prevseqnr, baseseqnr, first>>
      /\ numcycles' = IF Wraps(seq) THEN numcycles + W ELSE numcycles
      /\ exthighseqnr' = IF seq >= maxseq16 \/ Wraps(seq) THEN X ELSE exthighseqnr
      /\ Store(packetlist, p)
      /\ crossed' = (crossed \/ q < high \div W)
  BY DEF AcceptNext, probes
<1>2. /\ top - Late <= n /\ n <= top + Ahead /\ top' = IF n > top THEN n ELSE top
      /\ high' = IF n > high THEN n ELSE high
      /\ high <= top /\ top - Late <= high
      /\ top \in Nat /\ high \in Nat /\ first \in Nat /\ baseseqnr \in Nat /\ exthighseqnr \in Nat
  BY <1>1 DEF AcceptNext, Arrives, IndInv, TypeOK, RangeInv
<1>3. /\ packetlist \in Seq(Packet) /\ Sorted(packetlist)
      /\ \A i \in 1..Len(packetlist) : packetlist[i].ext % W = packetlist[i].n % W
  BY DEF IndInv, TypeOK, ListInv
<1>4. PICK k \in Nat : numcycles = k * W
  BY DEF IndInv, CycleInv
<1> DEFINE m == exthighseqnr - numcycles
<1>5. m \in 0..(W - 1) /\ k * W \in Nat /\ exthighseqnr = (k * W) + m /\ validated
  BY <1>1, <1>2, <1>4, WPositive DEF IndInv, CycleInv
<1>6. maxseq16 = m
  <2>1. ((k * W) + m) % W = m
    BY <1>5, LowBits
  <2> QED BY <1>5, <2>1 DEF maxseq16
<1> HIDE DEF seq, q, m
<1>7. /\ Wraps(seq) = (seq < m /\ Minus16(seq, m) < Minus16(m, seq))
      /\ X = IF Wraps(seq) THEN ((k * W) + W) + seq ELSE (k * W) + seq
      /\ X \in Nat
  <2>1. X = IF Wraps(seq) THEN ((k * W) + seq) + W ELSE (k * W) + seq
    BY <1>4 DEF Extended, NextCycle
  <2>2. Wraps(seq) = (seq < m /\ Minus16(seq, m) < Minus16(m, seq))
    BY <1>6 DEF Wraps
  <2> QED BY <1>0, <1>5, <2>1, <2>2, WPositive
<1> HIDE DEF X
<1>8. X % W = seq
  <2>1. CASE Wraps(seq)
    <3>1. (((k + 1) * W) + seq) % W = seq
      BY <1>0, LowBits
    <3>2. ((k + 1) * W) + seq = X
      BY <1>0, <1>5, <1>7, <2>1, WPositive
    <3> QED BY <3>1, <3>2
  <2>2. CASE ~Wraps(seq)
    <3>1. ((k * W) + seq) % W = seq
      BY <1>0, LowBits
    <3> QED BY <1>7, <2>2, <3>1
  <2> QED BY <2>1, <2>2
<1>9. p \in Packet /\ p.ext = X /\ p.n = n /\ p.accepted = TRUE
  BY <1>0, <1>7 DEF Packet
<1> HIDE DEF p
<1>10. packetlist' \in Seq(Packet) /\ ListInv'
  <2>1. p.ext % W = p.n % W
    BY <1>8, <1>9 DEF seq
  <2> QED BY <1>1, <1>3, <1>9, <2>1, StoreInv
<1>11. \A i \in 1..Len(packetlist') :
         packetlist'[i] = p \/ \E j \in 1..Len(packetlist) : packetlist'[i] = packetlist[j]
  BY <1>1, <1>3, <1>9, StoreStep
<1>12. CycleInv'
  <2>1. CASE Wraps(seq)
    <3>1. numcycles' = (k + 1) * W /\ k + 1 \in Nat
      BY <1>1, <1>4, <1>5, <2>1, WPositive
    <3>2. exthighseqnr' - numcycles' = seq
      BY <1>0, <1>1, <1>4, <1>5, <1>7, <2>1, WPositive
    <3> QED BY <1>0, <1>1, <1>5, <3>1, <3>2 DEF CycleInv
  <2>2. CASE ~Wraps(seq)
    <3>1. numcycles' = k * W
      BY <1>1, <1>4, <2>2
    <3>2. exthighseqnr' - numcycles' = seq \/ exthighseqnr' - numcycles' = m
      BY <1>0, <1>1, <1>5, <1>7, <2>2, <3>1
    <3>3. exthighseqnr' - numcycles' \in 0..(W - 1)
      BY <1>0, <1>5, <3>2
    <3> QED BY <1>1, <1>5, <3>1, <3>3 DEF CycleInv
  <2> QED BY <2>1, <2>2
<1>13. RangeInv'
  <2>1. high' <= top' /\ top' - Late <= high'
    BY <1>0, <1>2, WPositive
  <2> QED BY <2>1 DEF RangeInv
<1>14. PICK d \in Int : baseseqnr + 1 = first + (d * W)
  BY <1>1 DEF IndInv, OffsetInv
<1>15. OffsetInv'
  BY <1>1, <1>14 DEF OffsetInv
\* The true number of the packet on the scale of the extended numbers.
<1> DEFINE D == d * W
<1>16. D \in Int /\ q * W \in Int /\ n + D = ((q + d) * W) + seq
  BY <1>0, <1>14, WPositive
<1>17. exthighseqnr >= high + D
  BY <1>1, <1>2, <1>14, <1>16 DEF IndInv, HighestNotUnderstated
<1>18. baseseqnr + 1 = first + D
  BY <1>14
<1> HIDE DEF D
<1>19. ASSUME n + D > exthighseqnr
       PROVE  X = n + D /\ exthighseqnr' = n + D /\ n > high
  <2>1. 2 * ((n + D) - exthighseqnr) < W /\ n > high
    BY <1>0, <1>2, <1>16, <1>17, <1>19, WPositive
  <2>2. \/ m <= seq /\ q + d = k
        \/ seq < m /\ Minus16(seq, m) < Minus16(m, seq) /\ (q + d) * W = (k * W) + W
    BY <1>0, <1>5, <1>16, <1>19, <2>1, Newer, SMTT(30)
  <2>3. CASE m <= seq /\ q + d = k
    <3>1. ~Wraps(seq)
      <4>1. ~(seq < m)
        BY <1>0, <1>5, <2>3
      <4> QED BY <1>7, <4>1
    <3>2. X = n + D
      BY <1>7, <1>16, <2>3, <3>1
    <3> QED BY <1>0, <1>1, <1>5, <1>6, <2>1, <2>3, <3>2
  <2>4. CASE seq < m /\ Minus16(seq, m) < Minus16(m, seq) /\ (q + d) * W = (k * W) + W
    <3>1. Wraps(seq)
      BY <1>7, <2>4
    <3>2. X = n + D
      BY <1>7, <1>16, <2>4, <3>1
    <3> QED BY <1>1, <2>1, <3>1, <3>2
  <2> QED BY <2>2, <2>3, <2>4
<1>20. exthighseqnr' >= exthighseqnr /\ exthighseqnr' \in Nat
  BY <1>0, <1>1, <1>2, <1>5, <1>6, <1>7, WPositive
<1>21. HighestNotUnderstated'
  <2>1. CASE n + D > exthighseqnr
    BY <1>0, <1>1, <1>2, <1>16, <1>18, <1>19, <2>1 DEF HighestNotUnderstated
  <2>2. CASE ~(n + D > exthighseqnr)
    BY <1>0, <1>1, <1>2, <1>16, <1>17, <1>18, <1>20, <2>2 DEF HighestNotUnderstated
  <2> QED BY <2>1, <2>2
<1>22. ASSUME ~crossed'
       PROVE  X = n + D /\ exthighseqnr' = high' + D
  <2> DEFINE h == high \div W
             r == high % W
  <2>1. ~crossed /\ ~(q < h)
    BY <1>1, <1>22
  <2>2. r \in 0..(W - 1) /\ h \in Nat /\ high = (h * W) + r
    BY <1>2, DivMod
  <2> HIDE DEF h, r
  <2>3. exthighseqnr = high + D
    BY <1>1, <1>2, <1>16, <1>18, <2>1 DEF IndInv, ExactUntilLateWrap
  <2>4. CASE n + D > exthighseqnr
    BY <1>2, <1>19, <2>4
  <2>5. CASE ~(n + D > exthighseqnr)
    <3>1. h * W \in Int /\ ((h + d) * W) + r = high + D
      BY <1>14, <2>2, WPositive DEF D
    <3>2. h + d = k
      BY <1>5, <1>14, <2>2, <2>3, <3>1, Unique
    <3>3. k <= q + d
      BY <1>0, <1>14, <2>1, <2>2, <3>2
    <3>4. n <= high /\ 2 * (exthighseqnr - (n + D)) < W
      BY <1>0, <1>2, <1>16, <2>3, <2>5, WPositive
    <3>5. q + d = k /\ seq <= m /\ (seq < m => ~(Minus16(seq, m) < Minus16(m, seq)))
      BY <1>0, <1>2, <1>5, <1>14, <1>16, <2>5, <3>3, <3>4, Older, SMTT(30)
    <3>6. ~Wraps(seq)
      BY <1>7, <3>5
    <3>7. X = n + D
      BY <1>7, <1>16, <3>5, <3>6
    <3>8. exthighseqnr' = exthighseqnr
      BY <1>0, <1>1, <1>5, <1>6, <1>7, <3>5, <3>6
    <3> QED BY <1>0, <1>2, <2>3, <3>4, <3>7, <3>8
  <2> QED BY <2>4, <2>5
<1>23. ExactUntilLateWrap'
  <2> SUFFICES ASSUME ~crossed'
               PROVE  /\ exthighseqnr' - baseseqnr' = (high' - first') + 1
                      /\ \A i \in 1..Len(packetlist') :
                           packetlist'[i].accepted =>
                             packetlist'[i].ext - baseseqnr' = (packetlist'[i].n - first') + 1
    BY DEF ExactUntilLateWrap
  <2>1. X = n + D /\ exthighseqnr' = high' + D
    BY <1>22
  <2>2. high' \in Nat /\ baseseqnr' = baseseqnr /\ first' = first
    BY <1>0, <1>1, <1>2
  <2>3. exthighseqnr' - baseseqnr' = (high' - first') + 1
    BY <1>2, <1>16, <1>18, <2>1, <2>2
  <2>4. \A j \in 1..Len(packetlist) : packetlist[j].accepted =>
          packetlist[j].ext - baseseqnr = (packetlist[j].n - first) + 1
    BY <1>1 DEF IndInv, ExactUntilLateWrap
  <2>5. p.ext - baseseqnr = (p.n - first) + 1
    BY <1>0, <1>2, <1>9, <1>16, <1>18, <2>1
  <2> QED BY <1>11, <2>2, <2>3, <2>4, <2>5, Zenon
<1>24. TypeOK'
  <2>1. numcycles' \in Nat
    BY <1>1, <1>4, <1>5, WPositive
  <2>2. top' \in Nat /\ high' \in Nat /\ first' \in Nat /\ baseseqnr' \in Nat
    BY <1>0, <1>1, <1>2
  <2>3. crossed' \in BOOLEAN /\ validated' \in BOOLEAN /\ sentdata' \in BOOLEAN
    BY <1>1 DEF IndInv, TypeOK
  <2>4. probation' \in 0..RTP_PROBATIONCOUNT /\ prevseqnr' \in 0..(W - 1)
    BY <1>1 DEF IndInv, TypeOK
  <2> QED BY <1>10, <1>20, <2>1, <2>2, <2>3, <2>4 DEF TypeOK
<1> QED BY <1>1, <1>10, <1>12, <1>13, <1>15, <1>21, <1>23, <1>24 DEF IndInv, ProbationInv

-----------------------------------------------------------------------------
(* Theorems                                                                *)

\* and so after every step.
LEMMA NextInd == IndInv /\ [Next]_vars => IndInv'
<1> SUFFICES ASSUME IndInv, [Next]_vars PROVE IndInv'
  OBVIOUS
<1>1. ASSUME NEW n \in 0..MaxNumber, OnProbation(n) \/ AcceptFirst(n) \/ AcceptNext(n)
      PROVE  IndInv'
  BY <1>1, OnProbationInd, AcceptFirstInd, AcceptNextInd
<1>2. CASE ProcessCNAME \/ GetNextPacket
  BY <1>2, QuietInd
<1>3. CASE UNCHANGED vars
  BY <1>3 DEF vars, probes, numbers, history, IndInv, TypeOK, CycleInv, RangeInv, OffsetInv,
              ListInv, ProbationInv, HighestNotUnderstated, ExactUntilLateWrap, Sorted
<1> QED BY <1>1, <1>2, <1>3 DEF Next

\* The inductive invariant holds for every width of the numbers, all
\* reordering and loss within half a cycle, and every bound on the list.
THEOREM Invariance == Spec => []IndInv
  BY InitInd, NextInd, PTL DEF Spec

\* GetNextPacket always takes the smallest number.
THEOREM ListSortedCorrect == Spec => []ListSorted
<1>1. IndInv => ListSorted
  BY DEF IndInv, ListInv, Sorted, ListSorted
<1> QED BY <1>1, Invariance, PTL

\* ProcessPacket misses no wrap of the sequence numbers.
THEOREM HighestCorrect == Spec => []HighestNotUnderstated
<1>1. IndInv => HighestNotUnderstated
  BY DEF IndInv
<1> QED BY <1>1, Invariance, PTL

\* ProcessPacket extends every number to the true one until a packet from
\* before a wrap arrives behind one from after it.
THEOREM ExactCorrect == Spec => []ExactUntilLateWrap
<1>1. IndInv => ExactUntilLateWrap
  BY DEF IndInv
<1> QED BY <1>1, Invariance, PTL

-----------------------------------------------------------------------------
(* Writing and reading a packet                                            *)

GoodExtension(e) ==
  e = NoExtension \/ \E V, id : \E words \in Seq(V) : e = [present |-> TRUE, id |-> id, words |-> words]

\* A packet that BuildPacket does not refuse.
Sendable(p) ==
  /\ p = [marker |-> p.marker, payloadtype |-> p.payloadtype, seqnr |-> p.seqnr,
          timestamp |-> p.timestamp, ssrc |-> p.ssrc, csrcs |-> p.csrcs,
          extension |-> p.extension, payload |-> p.payload, payloadlength |-> p.payloadlength]
  /\ p.marker \in BOOLEAN /\ p.payloadtype \in 0..127 /\ p.payloadtype \notin RTCPTypes
  /\ p.csrcs \in Seq(CSRC) /\ GoodExtension(p.extension) /\ p.payloadlength \in Nat

\* The two parts of a list that has been put together.
LEMMA Parted ==
  ASSUME NEW S, NEW a \in Seq(S), NEW b \in Seq(S)
  PROVE  /\ a \o b \in Seq(S) /\ Len(a \o b) = Len(a) + Len(b)
         /\ SubSeq(a \o b, 1, Len(a)) = a
         /\ \A k \in 1..Len(b) : (a \o b)[Len(a) + k] = b[k]
<1>1. PICK m \in Nat, n \in Nat : m = Len(a) /\ n = Len(b)
  OBVIOUS
<1>2. PICK c \in Seq(S) : c = a \o b
  BY ConcatProperties, Zenon
<1>3. /\ Len(c) = m + n
      /\ \A i \in 1..(m + n) : c[i] = IF i <= m THEN a[i] ELSE b[i - m]
  BY <1>1, <1>2, ConcatProperties
<1>4. \A k \in 1..n : c[m + k] = b[k]
  <2> SUFFICES ASSUME NEW k \in 1..n PROVE c[m + k] = b[k]
    OBVIOUS
  <2>1. m + k \in 1..(m + n) /\ ~(m + k <= m) /\ (m + k) - m = k
    OBVIOUS
  <2>2. c[m + k] = b[(m + k) - m]
    BY <1>3, <2>1
  <2> QED BY <2>1, <2>2
<1>5. \A i \in 1..m : c[i] = a[i]
  <2> SUFFICES ASSUME NEW i \in 1..m PROVE c[i] = a[i]
    OBVIOUS
  <2>1. i \in 1..(m + n) /\ i <= m
    OBVIOUS
  <2> QED BY <1>3, <2>1
<1>6. SubSeq(c, 1, m) = a
  <2>1. \A i \in 1..m : c[i] \in S
    BY <1>1, <1>5
  <2>2. /\ SubSeq(c, 1, m) \in Seq(S)
        /\ Len(SubSeq(c, 1, m)) = IF 1 <= m THEN (m - 1) + 1 ELSE 0
        /\ \A i \in 1..((m - 1) + 1) : SubSeq(c, 1, m)[i] = c[(1 + i) - 1]
    BY <2>1, SubSeqProperties
  <2>3. PICK s \in Seq(S) : s = SubSeq(c, 1, m)
    BY <2>2
  <2>4. Len(s) = m
    BY <2>2, <2>3
  <2>5. \A i \in 1..m : s[i] = a[i]
    <3> SUFFICES ASSUME NEW i \in 1..m PROVE s[i] = a[i]
      OBVIOUS
    <3>1. i \in 1..((m - 1) + 1) /\ (1 + i) - 1 = i
      OBVIOUS
    <3>2. s[i] = c[(1 + i) - 1]
      BY <2>2, <2>3, <3>1
    <3> QED BY <1>5, <3>1, <3>2
  <2> QED BY <1>1, <2>3, <2>4, <2>5
<1> QED BY <1>1, <1>2, <1>3, <1>4, <1>6

\* The rest of a list.
LEMMA RestOf ==
  ASSUME NEW S, NEW c \in Seq(S), NEW m \in Nat, NEW b \in Seq(S), Len(c) = m + Len(b),
         \A k \in 1..Len(b) : c[m + k] = b[k]
  PROVE  SubSeq(c, m + 1, m + Len(b)) = b
<1>1. PICK n \in Nat : n = Len(b)
  OBVIOUS
<1>2. \A i \in (m + 1)..(m + n) : c[i] \in S
  <2> SUFFICES ASSUME NEW i \in (m + 1)..(m + n) PROVE c[i] \in S
    OBVIOUS
  <2>1. i \in 1..Len(c)
    BY <1>1
  <2> QED BY <2>1
<1>3. /\ SubSeq(c, m + 1, m + n) \in Seq(S)
      /\ Len(SubSeq(c, m + 1, m + n)) = IF m + 1 <= m + n THEN ((m + n) - (m + 1)) + 1 ELSE 0
      /\ \A i \in 1..(((m + n) - (m + 1)) + 1) : SubSeq(c, m + 1, m + n)[i] = c[((m + 1) + i) - 1]
  <2>1. m + 1 \in Int /\ m + n \in Int
    OBVIOUS
  <2> QED BY <1>2, <2>1, SubSeqProperties
<1>4. PICK s \in Seq(S) : s = SubSeq(c, m + 1, m + n)
  BY <1>3
<1>5. Len(s) = n
  BY <1>3, <1>4
<1>6. \A i \in 1..n : s[i] = b[i]
  <2> SUFFICES ASSUME NEW i \in 1..n PROVE s[i] = b[i]
    OBVIOUS
  <2>1. i \in 1..(((m + n) - (m + 1)) + 1) /\ ((m + 1) + i) - 1 = m + i
    OBVIOUS
  <2>2. s[i] = c[((m + 1) + i) - 1]
    BY <1>3, <1>4, <2>1
  <2> QED BY <1>1, <2>1, <2>2
<1>7. s = b
  BY <1>1, <1>5, <1>6
<1> QED BY <1>1, <1>4, <1>7, Zenon

\* What is written is read back.
LEMMA ReadsBack ==
  ASSUME NEW p, Sendable(p)
  PROVE  ParseRawPacket(Write(p, PacketLength(p))) = p
<1> DEFINE ew == ExtensionWords(p.extension)
           w  == Write(p, PacketLength(p))
<1>1. PICK cs \in Seq(CSRC), k \in Nat, len \in Nat :
        cs = p.csrcs /\ k = Len(cs) /\ len = p.payloadlength
  BY DEF Sendable
<1>2. w = [version |-> 2, padding |-> 0, marker |-> IF p.marker THEN 1 ELSE 0,
           extension |-> IF p.extension.present THEN 1 ELSE 0, csrccount |-> k,
           payloadtype |-> p.payloadtype, sequencenumber |-> p.seqnr,
           timestamp |-> p.timestamp, ssrc |-> p.ssrc,
           words |-> cs \o ew, payload |-> p.payload,
           length |-> 12 + (4 * Len(cs \o ew)) + len]
  <2>1. p.payloadtype % 128 = p.payloadtype
    <3>1. \A n \in 0..127 : n % 128 = n
      OBVIOUS
    <3> QED BY <3>1 DEF Sendable
  <2> QED BY <1>1, <2>1 DEF Write, PacketLength, HeaderSize, WordSize, Version
<1>e. /\ p.extension = NoExtension => ew = <<>> /\ p.extension.present = FALSE
      /\ \A V : \A id, words : p.extension = [present |-> TRUE, id |-> id, words |-> words] =>
           p.extension.present = TRUE /\ ew = <<[extid |-> id, length |-> Len(words)]>> \o words
  BY DEF ExtensionWords, NoExtension
<1> HIDE DEF w, ew
<1>3. ~(w.marker = 1 /\ w.payloadtype \in RTCPTypes) /\ (w.marker = 1) = p.marker
  BY <1>2 DEF Sendable
<1>4. CASE p.extension = NoExtension
  <2>1. ew = <<>> /\ p.extension.present = FALSE
    BY <1>4, <1>e
  <2>2. cs \o ew = cs /\ Len(cs \o ew) = k
    BY <1>1, <2>1
  <2>3. /\ w.length = 12 + (4 * k) + len /\ w.extension = 0 /\ w.csrccount = k /\ w.padding = 0
        /\ w.words = cs /\ w.version = 2
    BY <1>2, <2>1, <2>2
  <2>4. SubSeq(cs, 1, k) = cs
    BY <1>1
  <2>5. /\ (w.length - 0) - (12 + (4 * (k + 0 + 0))) = len
        /\ ~(w.length < 12) /\ ~(len < 0)
    BY <2>3
  <2> DEFINE offset == HeaderSize + WordSize * (w.csrccount + w.extension + 0)
             rest   == w.length - w.padding - offset
  <2>6. rest = len
    BY <2>3, <2>5 DEF HeaderSize, WordSize
  <2>7. GetCSRCs(w) = cs
    BY <2>3, <2>4 DEF GetCSRCs
  <2>8. ParseRawPacket(w) =
          [marker |-> w.marker = 1, payloadtype |-> w.payloadtype, seqnr |-> w.sequencenumber,
           timestamp |-> w.timestamp, ssrc |-> w.ssrc, csrcs |-> GetCSRCs(w),
           extension |-> NoExtension, payload |-> w.payload, payloadlength |-> rest]
    <3> HIDE DEF w
    <3> QED BY <1>3, <2>3, <2>5, <2>6 DEF ParseRawPacket, HeaderSize, Version
  <2> HIDE DEF rest
  <2>9. ParseRawPacket(w) =
          [marker |-> p.marker, payloadtype |-> p.payloadtype, seqnr |-> p.seqnr,
           timestamp |-> p.timestamp, ssrc |-> p.ssrc, csrcs |-> p.csrcs,
           extension |-> p.extension, payload |-> p.payload, payloadlength |-> p.payloadlength]
    BY <1>1, <1>2, <1>3, <1>4, <2>6, <2>7, <2>8
  <2> QED BY <2>9 DEF Sendable, w
<1>5. ASSUME NEW V, NEW id, NEW words \in Seq(V),
             p.extension = [present |-> TRUE, id |-> id, words |-> words]
      PROVE  ParseRawPacket(w) = p
  <2>1. PICK m \in Nat : m = Len(words)
    OBVIOUS
  <2> DEFINE hdr == [extid |-> id, length |-> m]
             S   == CSRC \cup {hdr} \cup V
  <2>2. ew = <<hdr>> \o words /\ p.extension.present = TRUE
    BY <1>5, <1>e, <2>1
  <2>3. <<hdr>> \in Seq(S) /\ words \in Seq(S) /\ cs \in Seq(S) /\ Len(<<hdr>>) = 1
    <3>1. CSRC \subseteq S /\ V \subseteq S /\ hdr \in S
      OBVIOUS
    <3> HIDE DEF S, hdr
    <3> QED BY <3>1
  <2>h. hdr.length = m /\ hdr.extid = id
    OBVIOUS
  <2> HIDE DEF S, hdr
  <2>4. PICK e \in Seq(S) : /\ e = <<hdr>> \o words /\ Len(e) = 1 + m /\ e[1] = hdr
                            /\ \A j \in 1..m : e[1 + j] = words[j]
    <3>1. PICK h \in Seq(S) : h = <<hdr>> /\ Len(h) = 1 /\ h[1] = hdr
      BY <2>3
    <3>2. PICK e \in Seq(S) : e = h \o words /\ Len(e) = Len(h) + Len(words)
      BY <2>3, Parted
    <3>3. \A j \in 1..Len(words) : e[Len(h) + j] = words[j]
      BY <2>3, <3>2, Parted
    <3>4. SubSeq(e, 1, Len(h)) = h
      BY <2>3, <3>2, Parted
    <3>5. e[1] = hdr
      BY <2>1, <2>3, <3>1, <3>2, ConcatProperties
    <3> QED BY <2>1, <3>1, <3>2, <3>3, <3>5
  <2>5. PICK all \in Seq(S) : /\ all = cs \o e /\ Len(all) = k + (1 + m)
                              /\ SubSeq(all, 1, k) = cs
                              /\ \A j \in 1..(1 + m) : all[k + j] = e[j]
    <3>1. PICK all \in Seq(S) : all = cs \o e /\ Len(all) = Len(cs) + Len(e)
      BY <2>3, Parted
    <3>2. SubSeq(all, 1, Len(cs)) = cs /\ \A j \in 1..Len(e) : all[Len(cs) + j] = e[j]
      BY <2>3, <3>1, Parted
    <3> QED BY <1>1, <2>4, <3>1, <3>2
  <2>6. /\ w.length = 12 + (4 * (k + (1 + m))) + len /\ w.extension = 1 /\ w.csrccount = k
        /\ w.padding = 0 /\ w.words = all /\ w.version = 2
    BY <1>2, <2>2, <2>4, <2>5
  <2>7. all[k + 1] = hdr
    <3>1. 1 \in 1..(1 + m)
      OBVIOUS
    <3> QED BY <2>4, <2>5, <3>1
  <2>8. SubSeq(all, k + 2, (k + 1) + m) = words
    <3>1. PICK n \in Nat : n = k + 1
      OBVIOUS
    <3>2. Len(all) = n + Len(words)
      BY <2>1, <2>5, <3>1
    <3>3. \A j \in 1..Len(words) : all[n + j] = words[j]
      <4> SUFFICES ASSUME NEW j \in 1..m PROVE all[n + j] = words[j]
        BY <2>1
      <4>1. 1 + j \in 1..(1 + m) /\ n + j = k + (1 + j)
        BY <3>1
      <4>2. all[k + (1 + j)] = e[1 + j]
        BY <2>5, <4>1
      <4> QED BY <2>4, <4>1, <4>2
    <3>4. SubSeq(all, n + 1, n + Len(words)) = words
      BY <2>3, <3>2, <3>3, RestOf
    <3>5. n + 1 = k + 2
      BY <3>1
    <3> QED BY <2>1, <3>1, <3>4, <3>5
  <2>9. /\ (w.length - 0) - (12 + (4 * (k + 1 + m))) = len
        /\ ~(w.length < 12) /\ ~(len < 0)
    BY <2>6
  <2> DEFINE offset == HeaderSize + WordSize * (w.csrccount + w.extension + m)
             rest   == w.length - w.padding - offset
  <2>10. rest = len
    BY <2>6, <2>9 DEF HeaderSize, WordSize
  <2>11. GetCSRCs(w) = cs
    BY <2>5, <2>6 DEF GetCSRCs
  <2>12. w.words[w.csrccount + 1].length = m /\ w.words[w.csrccount + 1].extid = id
    BY <2>6, <2>7, <2>h
  <2>13. SubSeq(w.words, w.csrccount + 2, w.csrccount + 1 + m) = words
    BY <2>6, <2>8
  <2>14. ParseRawPacket(w) =
           [marker |-> w.marker = 1, payloadtype |-> w.payloadtype, seqnr |-> w.sequencenumber,
            timestamp |-> w.timestamp, ssrc |-> w.ssrc, csrcs |-> GetCSRCs(w),
            extension |-> [present |-> TRUE, id |-> id, words |-> words],
            payload |-> w.payload, payloadlength |-> rest]
    <3> DEFINE Rest(h) == w.length - w.padding - (HeaderSize + WordSize * (w.csrccount + w.extension + h))
               Fields(h) ==
                 [marker |-> w.marker = 1, payloadtype |-> w.payloadtype, seqnr |-> w.sequencenumber,
                  timestamp |-> w.timestamp, ssrc |-> w.ssrc, csrcs |-> GetCSRCs(w),
                  extension |-> IF w.extension = 0 THEN NoExtension
                                ELSE [present |-> TRUE, id |-> w.words[w.csrccount + 1].extid,
                                      words |-> SubSeq(w.words, w.csrccount + 2, w.csrccount + 1 + h)],
                  payload |-> w.payload, payloadlength |-> Rest(h)]
               Bad(h) == \/ w.length < HeaderSize \/ w.version # Version
                         \/ w.marker = 1 /\ w.payloadtype \in RTCPTypes
                         \/ Rest(h) < 0
               Read(h) == IF Bad(h) THEN Refused("INVALIDPACKET") ELSE Fields(h)
    <3>1. ParseRawPacket(w) = Read(IF w.extension = 1 THEN w.words[w.csrccount + 1].length ELSE 0)
      BY Zenon DEF ParseRawPacket
    <3>2. (IF w.extension = 1 THEN w.words[w.csrccount + 1].length ELSE 0) = m
      BY <2>6, <2>12
    <3>3. ParseRawPacket(w) = Read(m)
      <4> HIDE DEF Read
      <4> QED BY <3>1, <3>2
    <3>4. Rest(m) = rest
      OBVIOUS
    <3>5. ~Bad(m)
      <4> HIDE DEF Rest, rest
      <4> QED BY <1>3, <2>6, <2>9, <2>10, <3>4 DEF HeaderSize, Version
    <3>6. Fields(m) =
           [marker |-> w.marker = 1, payloadtype |-> w.payloadtype, seqnr |-> w.sequencenumber,
            timestamp |-> w.timestamp, ssrc |-> w.ssrc, csrcs |-> GetCSRCs(w),
            extension |-> [present |-> TRUE, id |-> id, words |-> words],
            payload |-> w.payload, payloadlength |-> rest]
      <4> DEFINE ext == IF w.extension = 0 THEN NoExtension
                        ELSE [present |-> TRUE, id |-> w.words[w.csrccount + 1].extid,
                              words |-> SubSeq(w.words, w.csrccount + 2, w.csrccount + 1 + m)]
      <4>1. ext = [present |-> TRUE, id |-> id, words |-> words]
        <5>1. w.extension # 0
          BY <2>6
        <5>2. ext = [present |-> TRUE, id |-> w.words[w.csrccount + 1].extid,
                     words |-> SubSeq(w.words, w.csrccount + 2, w.csrccount + 1 + m)]
          BY <5>1, Zenon
        <5> HIDE DEF ext, w
        <5> QED BY <5>2, <2>12, <2>13
      <4>2. Fields(m) =
           [marker |-> w.marker = 1, payloadtype |-> w.payloadtype, seqnr |-> w.sequencenumber,
            timestamp |-> w.timestamp, ssrc |-> w.ssrc, csrcs |-> GetCSRCs(w),
            extension |-> ext, payload |-> w.payload, payloadlength |-> Rest(m)]
        OBVIOUS
      <4> HIDE DEF Rest, rest, ext, Fields
      <4> QED BY <4>1, <4>2, <3>4, Zenon
    <3> HIDE DEF Bad, Fields, rest
    <3> QED BY <3>3, <3>5, <3>6
  <2> HIDE DEF rest
  <2>15. ParseRawPacket(w) =
           [marker |-> p.marker, payloadtype |-> p.payloadtype, seqnr |-> p.seqnr,
            timestamp |-> p.timestamp, ssrc |-> p.ssrc, csrcs |-> p.csrcs,
            extension |-> p.extension, payload |-> p.payload, payloadlength |-> p.payloadlength]
    BY <1>1, <1>2, <1>3, <1>5, <2>10, <2>11, <2>14
  <2> QED BY <2>15 DEF Sendable
<1> QED BY <1>4, <1>5 DEF Sendable, GoodExtension, w

-----------------------------------------------------------------------------
(* What the sender's side keeps                                            *)

Maybe(S) == {Unset} \cup {To(v) : v \in S}
Members ==
  [init : BOOLEAN, maxpacksize : Nat, ssrc : Nat, timestamp : Nat, seqnr : Nat,
   numpackets : Nat, numpayloadbytes : Nat, pt : Maybe(Nat), mark : Maybe(BOOLEAN),
   tsinc : Maybe(Nat), csrcs : Seq(CSRC), lastwallclocktime : Nat, lastrtptimestamp : Nat,
   prevrtptimestamp : Nat]
Entries == [timestamp : Nat, time : Nat, len : Nat]

\* The timestamp that a sender report gives goes back to the first of the packets
\* that carry it.
ReportInv ==
  /\ pb.numpackets = Len(log) /\ pb.numpayloadbytes = Octets(log)
  /\ pb.numpackets > 0 =>
       /\ pb.prevrtptimestamp = pb.lastrtptimestamp
       /\ \E i \in DOMAIN log :
            /\ log[i].time = pb.lastwallclocktime /\ log[i].timestamp = pb.lastrtptimestamp
            /\ \A j \in i .. Len(log) : log[j].timestamp = pb.lastrtptimestamp
            /\ i = 1 \/ log[i - 1].timestamp # pb.lastrtptimestamp

BuiltInv ==
  /\ pb \in Members /\ clock \in Nat /\ log \in Seq(Entries)
  /\ packet # Nothing => Sendable(asked) /\ packet = Write(asked, PacketLength(asked))
  /\ ReportInv

-----------------------------------------------------------------------------
(* The builder                                                             *)

\* The lengths of the packets of a log.
LEMMA LogLengths ==
  ASSUME NEW s \in Seq(Entries)
  PROVE  \E lens \in Seq(Nat) : /\ lens = [i \in DOMAIN s |-> s[i].len] /\ Len(lens) = Len(s)
                                /\ \A i \in 1..Len(s) : lens[i] = s[i].len
<1>1. PICK n \in Nat : n = Len(s)
  OBVIOUS
<1>2. DOMAIN s = 1..n /\ \A i \in 1..n : s[i].len \in Nat
  <2>1. \A e \in Entries : e.len \in Nat
    BY DEF Entries
  <2>2. DOMAIN s = 1..n /\ \A i \in 1..n : s[i] \in Entries
    BY <1>1
  <2> QED BY <2>1, <2>2
<1>3. [i \in 1..n |-> s[i].len] \in Seq(Nat) /\ Len([i \in 1..n |-> s[i].len]) = n
  BY <1>2
<1> QED BY <1>1, <1>2, <1>3

\* No packets have no octets.
LEMMA OctetsNone == Octets(<<>>) = 0
<1>1. [i \in DOMAIN <<>> |-> <<>>[i].len] = <<>>
  OBVIOUS
<1> QED BY <1>1, TotalEmpty, Zenon DEF Octets

\* One more packet.
LEMMA OctetsMore ==
  ASSUME NEW s \in Seq(Entries), NEW e \in Entries
  PROVE  Octets(Append(s, e)) = Octets(s) + e.len
<1>1. PICK n \in Nat, len \in Nat : n = Len(s) /\ len = e.len
  BY DEF Entries
<1>2. PICK t \in Seq(Entries) :
        t = Append(s, e) /\ Len(t) = n + 1 /\ (\A i \in 1..n : t[i] = s[i]) /\ t[n + 1] = e
  <2>1. /\ Append(s, e) \in Seq(Entries) /\ Len(Append(s, e)) = n + 1
        /\ (\A i \in 1..n : Append(s, e)[i] = s[i]) /\ Append(s, e)[n + 1] = e
    BY <1>1, AppendProperties
  <2> QED BY <2>1, Zenon
<1>3. PICK a \in Seq(Nat) : /\ a = [i \in DOMAIN s |-> s[i].len] /\ Len(a) = n
                            /\ \A i \in 1..n : a[i] = s[i].len
  BY <1>1, LogLengths, Zenon
<1>4. PICK b \in Seq(Nat) : /\ b = [i \in DOMAIN t |-> t[i].len] /\ Len(b) = n + 1
                            /\ \A i \in 1..(n + 1) : b[i] = t[i].len
  BY <1>2, LogLengths
<1>5. PICK one \in Seq(Nat) : one = <<len>> /\ Len(one) = 1 /\ one[1] = len
  <2>1. <<len>> \in Seq(Nat) /\ Len(<<len>>) = 1 /\ <<len>>[1] = len
    OBVIOUS
  <2> QED BY <2>1, Zenon
<1>6. b = a \o one
  <2>1. a \o one \in Seq(Nat) /\ Len(a \o one) = n + 1
        /\ \A i \in 1..(n + 1) : (a \o one)[i] = IF i <= n THEN a[i] ELSE one[i - n]
    BY <1>3, <1>5
  <2>2. PICK c \in Seq(Nat) : c = a \o one
    BY <2>1
  <2>3. ASSUME NEW i \in 1..(n + 1) PROVE b[i] = c[i]
    <3>1. CASE i \in 1..n
      BY <1>2, <1>3, <1>4, <2>1, <2>2, <3>1
    <3>2. CASE i = n + 1
      <4>1. ~(i <= n) /\ i - n = 1
        BY <3>2
      <4> QED BY <1>1, <1>2, <1>4, <1>5, <2>1, <2>2, <3>2, <4>1
    <3> QED BY <3>1, <3>2
  <2>4. Len(c) = n + 1
    BY <2>1, <2>2
  <2>5. b = c
    BY <1>4, <2>3, <2>4
  <2> QED BY <2>2, <2>5
<1>7. Total(b) = Total(a) + Total(one)
  BY <1>6, TotalConcat
<1>8. Total(one) = len
  BY <1>5, TotalOne
<1> QED BY <1>1, <1>2, <1>3, <1>4, <1>7, <1>8 DEF Octets

\* The report depends on the counts, the last pair and the packets built.
LEMMA ReportKept ==
  ASSUME ReportInv, log' = log, pb'.numpackets = pb.numpackets,
         pb'.numpayloadbytes = pb.numpayloadbytes, pb'.prevrtptimestamp = pb.prevrtptimestamp,
         pb'.lastrtptimestamp = pb.lastrtptimestamp, pb'.lastwallclocktime = pb.lastwallclocktime
  PROVE  ReportInv'
BY Zenon DEF ReportInv

\* Setting the members that no report says anything of.
LEMMA SetKeeps ==
  ASSUME BuiltInv, NEW new \in Members, Set(new), new.numpackets = pb.numpackets,
         new.numpayloadbytes = pb.numpayloadbytes, new.prevrtptimestamp = pb.prevrtptimestamp,
         new.lastrtptimestamp = pb.lastrtptimestamp, new.lastwallclocktime = pb.lastwallclocktime
  PROVE  BuiltInv'
<1>1. pb' = new /\ packet' = packet /\ clock' = clock /\ asked' = asked /\ log' = log
  BY DEF Set
<1>2. ReportInv'
  BY <1>1, ReportKept DEF BuiltInv
<1> QED BY <1>1, <1>2 DEF BuiltInv

\* A request in the types of the code.
GoodRequest(r) ==
  /\ r.mark \in BOOLEAN /\ r.pt \in Nat /\ r.inc \in Nat /\ r.payloadlength \in Nat
  /\ GoodExtension(r.extension)

\* What is accepted is written as it is.
LEMMA AcceptedIsWritten ==
  ASSUME BuiltInv, NEW r, GoodRequest(r), Accepts(r)
  PROVE  /\ Sendable(PacketFor(r))
         /\ BuildPacket(PacketFor(r), pb.maxpacksize) = Write(PacketFor(r), PacketLength(PacketFor(r)))
<1> DEFINE p == PacketFor(r)
           w == Write(p, PacketLength(p))
           long == pb.maxpacksize > 0 /\ PacketLength(p) > pb.maxpacksize
<1>1. \A why : IsError(Refused(why))
  BY DEF IsError, Refused
<1>2. ~IsError(BuildPacket(p, pb.maxpacksize))
  BY DEF Accepts
<1>3. BuildPacket(p, pb.maxpacksize) =
        CASE Len(p.csrcs) > MaxCSRCs -> Refused("TOOMANYCSRCS")
          [] p.payloadtype > 127 \/ p.payloadtype \in RTCPTypes -> Refused("BADPAYLOADTYPE")
          [] long -> Refused("DATAEXCEEDSMAXSIZE")
          [] OTHER -> w
  BY Zenon DEF BuildPacket
<1>4. p = [marker |-> r.mark, payloadtype |-> r.pt, seqnr |-> pb.seqnr, timestamp |-> pb.timestamp,
           ssrc |-> pb.ssrc, csrcs |-> pb.csrcs, extension |-> r.extension, payload |-> r.payload,
           payloadlength |-> r.payloadlength]
  BY DEF PacketFor
<1> HIDE DEF p, w, long
<1>5. ~(Len(p.csrcs) > MaxCSRCs) /\ ~(p.payloadtype > 127 \/ p.payloadtype \in RTCPTypes)
      /\ BuildPacket(p, pb.maxpacksize) = w
  BY <1>1, <1>2, <1>3
<1>6. p.payloadtype \in 0..127 /\ p.payloadtype \notin RTCPTypes
  <2>1. PICK pt \in Nat : pt = r.pt
    BY DEF GoodRequest
  <2>2. p.payloadtype = pt
    BY <1>4, <2>1
  <2> QED BY <1>5, <2>2
<1>7. pb.csrcs \in Seq(CSRC)
  BY DEF BuiltInv, Members
<1>8. Sendable(p)
  BY <1>4, <1>6, <1>7 DEF Sendable, GoodRequest
<1> QED BY <1>5, <1>8 DEF p, w

\* A packet built.
LEMMA PacketKeeps ==
  ASSUME BuiltInv, NEW r, GoodRequest(r), PrivateBuildPacket(r)
  PROVE  BuiltInv'
<1> USE BuilderAssumption
<1> DEFINE new == pb.numpackets = 0 \/ pb.timestamp # pb.prevrtptimestamp
           e   == [timestamp |-> pb.timestamp, time |-> clock, len |-> r.payloadlength]
<1>1. Accepts(r)
  BY DEF PrivateBuildPacket
<1>2. packet' = BuildPacket(PacketFor(r), pb.maxpacksize) /\ asked' = PacketFor(r)
      /\ clock' = clock + 1 /\ log' = Append(log, e)
  BY DEF PrivateBuildPacket
<1>3. pb' = [pb EXCEPT !.lastwallclocktime = IF new THEN clock ELSE @,
                       !.lastrtptimestamp = IF new THEN pb.timestamp ELSE @,
                       !.prevrtptimestamp = IF new THEN pb.timestamp ELSE @,
                       !.numpayloadbytes = @ + r.payloadlength, !.numpackets = @ + 1,
                       !.timestamp = (@ + r.inc) % TsWidth, !.seqnr = (@ + 1) % SeqWidth]
  BY DEF PrivateBuildPacket
<1>4. pb \in Members /\ clock \in Nat /\ log \in Seq(Entries) /\ ReportInv
  BY DEF BuiltInv
<1>5. Sendable(asked') /\ packet' = Write(asked', PacketLength(asked'))
  BY <1>1, <1>2, AcceptedIsWritten
<1>6. e \in Entries
  BY <1>4 DEF GoodRequest, Entries, Members
<1>7. log' \in Seq(Entries)
  BY <1>2, <1>4, <1>6, AppendProperties
<1>8. clock' \in Nat
  BY <1>2, <1>4
<1>9. pb' \in Members
  <2>1. /\ pb.numpayloadbytes + r.payloadlength \in Nat /\ pb.numpackets + 1 \in Nat
        /\ (pb.timestamp + r.inc) % TsWidth \in Nat /\ (pb.seqnr + 1) % SeqWidth \in Nat
    <3>1. \A a, b \in Nat : a + b \in Nat /\ (a + b) % TsWidth \in Nat /\ (a + 1) % SeqWidth \in Nat
      BY DEF BuilderAssumption
    <3>2. /\ pb.numpayloadbytes \in Nat /\ pb.numpackets \in Nat /\ pb.timestamp \in Nat
          /\ pb.seqnr \in Nat /\ r.payloadlength \in Nat /\ r.inc \in Nat
      BY <1>4 DEF Members, GoodRequest
    <3> QED BY <3>1, <3>2
  <2>2. /\ (IF new THEN clock ELSE pb.lastwallclocktime) \in Nat
        /\ (IF new THEN pb.timestamp ELSE pb.lastrtptimestamp) \in Nat
        /\ (IF new THEN pb.timestamp ELSE pb.prevrtptimestamp) \in Nat
    BY <1>4 DEF Members
  <2> HIDE DEF new
  <2> QED BY <1>3, <1>4, <2>1, <2>2 DEF Members
<1>10. ReportInv'
  <2>1. PICK n \in Nat : n = Len(log)
    BY <1>4
  <2>2. /\ Len(log') = n + 1 /\ log'[n + 1] = e /\ \A i \in 1..n : log'[i] = log[i]
    BY <1>2, <1>4, <1>6, <2>1, AppendProperties
  <2>3. DOMAIN log = 1..n /\ DOMAIN log' = 1..(n + 1)
    BY <1>4, <1>7, <2>1, <2>2
  <2>4. /\ pb'.numpackets = pb.numpackets + 1 /\ pb'.numpayloadbytes = pb.numpayloadbytes + r.payloadlength
        /\ pb'.prevrtptimestamp = IF new THEN pb.timestamp ELSE pb.prevrtptimestamp
        /\ pb'.lastrtptimestamp = IF new THEN pb.timestamp ELSE pb.lastrtptimestamp
        /\ pb'.lastwallclocktime = IF new THEN clock ELSE pb.lastwallclocktime
    <3> HIDE DEF new
    <3> QED BY <1>3, <1>4 DEF Members
  <2>5. pb.numpackets = n /\ pb.numpayloadbytes = Octets(log)
    BY <1>4, <2>1 DEF ReportInv
  <2>6. pb'.numpackets = Len(log') /\ pb'.numpayloadbytes = Octets(log')
    <3>1. Octets(log') = Octets(log) + e.len /\ e.len = r.payloadlength
      BY <1>2, <1>4, <1>6, OctetsMore
    <3> QED BY <2>2, <2>4, <2>5, <3>1
  <2>7. pb'.prevrtptimestamp = pb'.lastrtptimestamp
    BY <1>4, <2>4, <2>1, <2>5 DEF ReportInv
  <2>8. \E i \in DOMAIN log' :
          /\ log'[i].time = pb'.lastwallclocktime /\ log'[i].timestamp = pb'.lastrtptimestamp
          /\ \A j \in i .. Len(log') : log'[j].timestamp = pb'.lastrtptimestamp
          /\ i = 1 \/ log'[i - 1].timestamp # pb'.lastrtptimestamp
    <3>1. CASE n = 0
      <4>1. 1 \in DOMAIN log' /\ \A j \in 1..Len(log') : j = 1
        BY <2>2, <2>3, <3>1
      <4>2. log'[1] = e /\ new
        BY <2>2, <2>5, <3>1
      <4>3. log'[1].time = pb'.lastwallclocktime /\ log'[1].timestamp = pb'.lastrtptimestamp
        BY <4>2, <2>4
      <4> QED BY <4>1, <4>3
    <3>2. CASE n # 0
      <4>1. PICK i \in 1..n :
              /\ log[i].time = pb.lastwallclocktime /\ log[i].timestamp = pb.lastrtptimestamp
              /\ \A j \in i .. n : log[j].timestamp = pb.lastrtptimestamp
              /\ i = 1 \/ log[i - 1].timestamp # pb.lastrtptimestamp
        BY <1>4, <2>1, <2>3, <2>5, <3>2 DEF ReportInv
      <4>2. pb.prevrtptimestamp = pb.lastrtptimestamp
        BY <1>4, <2>1, <2>5, <3>2 DEF ReportInv
      <4>3. CASE new
        <5>1. pb.timestamp # pb.lastrtptimestamp
          BY <2>5, <3>2, <4>2, <4>3
        <5>2. n \in 1..n /\ n \in i..n /\ n + 1 \in DOMAIN log' /\ (n + 1) - 1 = n
          BY <2>3, <3>2
        <5>3. log'[(n + 1) - 1].timestamp = pb.lastrtptimestamp
          BY <2>2, <4>1, <5>2
        <5>4. \A j \in (n + 1)..Len(log') : j = n + 1
          BY <2>2
        <5>5. log'[n + 1].time = pb'.lastwallclocktime /\ log'[n + 1].timestamp = pb'.lastrtptimestamp
              /\ pb'.lastrtptimestamp = pb.timestamp
          BY <2>2, <2>4, <4>3
        <5> QED BY <5>1, <5>2, <5>3, <5>4, <5>5
      <4>4. CASE ~new
        <5>1. pb.timestamp = pb.lastrtptimestamp
          BY <4>2, <4>4
        <5>2. pb'.lastrtptimestamp = pb.lastrtptimestamp /\ pb'.lastwallclocktime = pb.lastwallclocktime
          BY <2>4, <4>4
        <5>3. i \in DOMAIN log' /\ (i = 1 \/ i - 1 \in 1..n)
          BY <2>3
        <5>4. ASSUME NEW j \in i..Len(log') PROVE log'[j].timestamp = pb.lastrtptimestamp
          <6>1. CASE j = n + 1
            BY <2>2, <5>1, <6>1
          <6>2. CASE j # n + 1
            <7>1. j \in i..n /\ j \in 1..n
              BY <2>2, <6>2
            <7> QED BY <2>2, <4>1, <7>1
          <6> QED BY <6>1, <6>2
        <5>5. log'[i] = log[i] /\ (i = 1 \/ log'[i - 1] = log[i - 1])
          BY <2>2, <5>3
        <5> HIDE DEF new
        <5> QED BY <4>1, <5>2, <5>3, <5>4, <5>5
      <4> QED BY <4>3, <4>4
    <3> QED BY <3>1, <3>2
  <2> QED BY <2>6, <2>7, <2>8 DEF ReportInv
<1> QED BY <1>5, <1>7, <1>8, <1>9, <1>10 DEF BuiltInv

\* A new SSRC, or a new session: the counts and the log begin anew.
LEMMA NewSSRCKeeps ==
  ASSUME BuiltInv, NEW b \in Members, pb' = b, b.numpackets = 0, b.numpayloadbytes = 0, log' = <<>>,
         clock' = clock, (packet' = Nothing /\ asked' = Nothing) \/ UNCHANGED <<packet, asked>>
  PROVE  BuiltInv'
<1>1. Len(<<>>) = 0 /\ <<>> \in Seq(Entries)
  OBVIOUS
<1>2. ReportInv'
  BY <1>1, OctetsNone DEF ReportInv
<1>3. packet' # Nothing => Sendable(asked') /\ packet' = Write(asked', PacketLength(asked'))
  BY DEF BuiltInv
<1> QED BY <1>1, <1>2, <1>3 DEF BuiltInv

\* The setters of the builder.
LEMMA SettersKeep ==
  ASSUME BuiltInv,
         \/ \E c \in CSRC : AddCSRC(c) \/ DeleteCSRC(c)
         \/ ClearCSRCList
         \/ \E pt \in Nat : SetDefaultPayloadType(pt)
         \/ \E m \in BOOLEAN : SetDefaultMark(m)
         \/ \E inc \in Nat : SetDefaultTimestampIncrement(inc) \/ IncrementTimestamp(inc)
         \/ IncrementTimestampDefault
  PROVE  BuiltInv'
<1> USE BuilderAssumption
<1>1. pb \in Members
  BY DEF BuiltInv
<1>2. ASSUME NEW s \in Seq(CSRC), Set([pb EXCEPT !.csrcs = s]) PROVE BuiltInv'
  <2>1. PICK b \in Members : b = [pb EXCEPT !.csrcs = s]
    BY <1>1 DEF Members
  <2>2. /\ b.numpackets = pb.numpackets /\ b.numpayloadbytes = pb.numpayloadbytes
        /\ b.prevrtptimestamp = pb.prevrtptimestamp /\ b.lastrtptimestamp = pb.lastrtptimestamp
        /\ b.lastwallclocktime = pb.lastwallclocktime
    BY <1>1, <2>1 DEF Members
  <2>3. Set(b)
    BY <1>2, <2>1
  <2> QED BY <2>2, <2>3, SetKeeps
<1>3. ASSUME NEW t \in Nat, Set([pb EXCEPT !.timestamp = t]) PROVE BuiltInv'
  <2>1. PICK b \in Members : b = [pb EXCEPT !.timestamp = t]
    BY <1>1 DEF Members
  <2>2. /\ b.numpackets = pb.numpackets /\ b.numpayloadbytes = pb.numpayloadbytes
        /\ b.prevrtptimestamp = pb.prevrtptimestamp /\ b.lastrtptimestamp = pb.lastrtptimestamp
        /\ b.lastwallclocktime = pb.lastwallclocktime
    BY <1>1, <2>1 DEF Members
  <2>3. Set(b)
    BY <1>3, <2>1
  <2> QED BY <2>2, <2>3, SetKeeps
<1>4. CASE \E c \in CSRC : AddCSRC(c)
  <2>1. PICK c \in CSRC : Set([pb EXCEPT !.csrcs = Append(@, c)])
    BY <1>4, Zenon DEF AddCSRC, Setter
  <2>2. pb.csrcs \in Seq(CSRC)
    BY <1>1 DEF Members
  <2>3. PICK s \in Seq(CSRC) : s = Append(pb.csrcs, c)
    BY <2>2, AppendProperties, Zenon
  <2> QED BY <1>2, <2>1, <2>3
<1>5. CASE \E c \in CSRC : DeleteCSRC(c)
  <2>1. PICK i \in DOMAIN pb.csrcs :
          Set([pb EXCEPT !.csrcs = SubSeq([pb.csrcs EXCEPT ![i] = pb.csrcs[Len(pb.csrcs)]], 1, Len(pb.csrcs) - 1)])
    BY <1>5 DEF DeleteCSRC, Setter
  <2>2. PICK l \in Seq(CSRC) : l = pb.csrcs
    BY <1>1 DEF Members
  <2>3. PICK n \in Nat : n = Len(l) /\ n # 0 /\ i \in 1..n
    BY <2>1, <2>2
  <2>4. PICK swapped \in Seq(CSRC) : swapped = [l EXCEPT ![i] = l[n]] /\ Len(swapped) = n
    <3>1. n \in 1..Len(l) /\ l[n] \in CSRC
      BY <2>3
    <3>2. [l EXCEPT ![i] = l[n]] \in Seq(CSRC) /\ Len([l EXCEPT ![i] = l[n]]) = n
      BY <2>3, <3>1, ExceptSeq
    <3> QED BY <3>2
  <2>5. SubSeq(swapped, 1, n - 1) \in Seq(CSRC)
    <3>1. \A k \in 1..(n - 1) : swapped[k] \in CSRC
      BY <2>4
    <3>2. 1 \in Int /\ n - 1 \in Int
      OBVIOUS
    <3> QED BY <3>1, <3>2, SubSeqProperties
  <2>6. PICK s \in Seq(CSRC) : s = SubSeq(swapped, 1, n - 1)
    BY <2>5
  <2> QED BY <1>2, <2>1, <2>2, <2>3, <2>4, <2>6
<1>6. CASE ClearCSRCList
  <2>1. <<>> \in Seq(CSRC) /\ Set([pb EXCEPT !.csrcs = <<>>])
    BY <1>6 DEF ClearCSRCList, Setter
  <2> QED BY <1>2, <2>1
<1>7. CASE \E inc \in Nat : IncrementTimestamp(inc)
  <2>1. PICK inc \in Nat : Set([pb EXCEPT !.timestamp = (@ + inc) % TsWidth])
    BY <1>7 DEF IncrementTimestamp, Setter
  <2>2. PICK t \in Nat : t = (pb.timestamp + inc) % TsWidth
    <3>1. \A a, b \in Nat : (a + b) % TsWidth \in Nat
      BY DEF BuilderAssumption
    <3>2. pb.timestamp \in Nat
      BY <1>1 DEF Members
    <3> QED BY <3>1, <3>2
  <2> QED BY <1>3, <2>1, <2>2
<1>8. CASE IncrementTimestampDefault
  <2>1. pb.tsinc \in Maybe(Nat) /\ pb.tsinc.set
    BY <1>1, <1>8 DEF IncrementTimestampDefault, Members
  <2>2. PICK inc \in Nat : pb.tsinc.value = inc
    BY <2>1 DEF Maybe, Unset, To
  <2>3. Set([pb EXCEPT !.timestamp = (@ + inc) % TsWidth])
    BY <1>8, <2>2 DEF IncrementTimestampDefault, IncrementTimestamp, Setter
  <2>4. PICK t \in Nat : t = (pb.timestamp + inc) % TsWidth
    <3>1. \A a, b \in Nat : (a + b) % TsWidth \in Nat
      BY DEF BuilderAssumption
    <3>2. pb.timestamp \in Nat
      BY <1>1 DEF Members
    <3> QED BY <3>1, <3>2
  <2> QED BY <1>3, <2>3, <2>4
<1>9. CASE \/ \E pt \in Nat : SetDefaultPayloadType(pt)
           \/ \E m \in BOOLEAN : SetDefaultMark(m)
           \/ \E inc \in Nat : SetDefaultTimestampIncrement(inc)
  <2>1. PICK b : /\ Set(b)
                 /\ \/ \E pt \in Nat : b = [pb EXCEPT !.pt = To(pt)]
                    \/ \E m \in BOOLEAN : b = [pb EXCEPT !.mark = To(m)]
                    \/ \E inc \in Nat : b = [pb EXCEPT !.tsinc = To(inc)]
    BY <1>9, Zenon DEF SetDefaultPayloadType, SetDefaultMark, SetDefaultTimestampIncrement, Setter
  <2>2. \A S : \A v \in S : To(v) \in Maybe(S)
    BY DEF Maybe
  <2>3. b \in Members
    <3>1. ASSUME NEW pt \in Nat, b = [pb EXCEPT !.pt = To(pt)] PROVE b \in Members
      <4>1. PICK v \in Maybe(Nat) : v = To(pt)
        BY <2>2
      <4>2. b = [pb EXCEPT !.pt = v]
        BY <3>1, <4>1
      <4> QED BY <1>1, <4>2 DEF Members
    <3>2. ASSUME NEW m \in BOOLEAN, b = [pb EXCEPT !.mark = To(m)] PROVE b \in Members
      <4>1. PICK v \in Maybe(BOOLEAN) : v = To(m)
        BY <2>2
      <4>2. b = [pb EXCEPT !.mark = v]
        BY <3>2, <4>1
      <4> QED BY <1>1, <4>2, Zenon DEF Members
    <3>3. ASSUME NEW inc \in Nat, b = [pb EXCEPT !.tsinc = To(inc)] PROVE b \in Members
      <4>1. PICK v \in Maybe(Nat) : v = To(inc)
        BY <2>2
      <4>2. b = [pb EXCEPT !.tsinc = v]
        BY <3>3, <4>1
      <4> QED BY <1>1, <4>2 DEF Members
    <3> QED BY <2>1, <3>1, <3>2, <3>3, Zenon
  <2>4. /\ b.numpackets = pb.numpackets /\ b.numpayloadbytes = pb.numpayloadbytes
        /\ b.prevrtptimestamp = pb.prevrtptimestamp /\ b.lastrtptimestamp = pb.lastrtptimestamp
        /\ b.lastwallclocktime = pb.lastwallclocktime
    BY <1>1, <2>1, Zenon DEF Members
  <2> QED BY <2>1, <2>3, <2>4, SetKeeps
<1> QED BY <1>4, <1>5, <1>6, <1>7, <1>8, <1>9

\* The requests with the defaults of the builder.
LEMMA DefaultsAreGood ==
  ASSUME pb \in Members, DefaultsSet, NEW data, NEW len \in Nat, NEW ext, GoodExtension(ext)
  PROVE  GoodRequest(WithDefaults(data, len, ext))
<1>1. pb.pt \in Maybe(Nat) /\ pb.mark \in Maybe(BOOLEAN) /\ pb.tsinc \in Maybe(Nat)
  BY DEF Members
<1>2. pb.pt.set /\ pb.mark.set /\ pb.tsinc.set
  BY DEF DefaultsSet
<1>3. pb.pt.value \in Nat /\ pb.mark.value \in BOOLEAN /\ pb.tsinc.value \in Nat
  BY <1>1, <1>2 DEF Maybe, Unset, To
<1> QED BY <1>3 DEF WithDefaults, Request, GoodRequest

\* The requests that name everything.
LEMMA RequestIsGood ==
  ASSUME NEW data, NEW len \in Nat, NEW pt \in Nat, NEW mark \in BOOLEAN, NEW inc \in Nat, NEW ext,
         GoodExtension(ext)
  PROVE  GoodRequest(Request(data, len, pt, mark, inc, ext))
BY DEF Request, GoodRequest

\* The members with a new SSRC.
LEMMA NewSSRCMembers ==
  ASSUME pb \in Members, NEW ts \in Nat, NEW seq \in Nat
  PROVE  /\ WithNewSSRC(pb, ts, seq) \in Members
         /\ WithNewSSRC(pb, ts, seq).numpackets = 0 /\ WithNewSSRC(pb, ts, seq).numpayloadbytes = 0
<1>1. PICK ssrc \in Nat : ssrc = pb.ssrc + 1
  BY DEF Members
<1>2. WithNewSSRC(pb, ts, seq) = [pb EXCEPT !.ssrc = ssrc, !.timestamp = ts, !.seqnr = seq,
                                            !.numpackets = 0, !.numpayloadbytes = 0]
  BY <1>1 DEF WithNewSSRC
<1>3. PICK b : b = WithNewSSRC(pb, ts, seq)
  OBVIOUS
<1>4. b \in Members
  <2>1. \A m \in Members : \A n \in Nat : [m EXCEPT !.ssrc = n] \in Members
    BY DEF Members
  <2>2. \A m \in Members : \A n \in Nat : [m EXCEPT !.timestamp = n] \in Members
    BY DEF Members
  <2>3. \A m \in Members : \A n \in Nat : [m EXCEPT !.seqnr = n] \in Members
    BY DEF Members
  <2>4. \A m \in Members : \A n \in Nat : [m EXCEPT !.numpackets = n] \in Members
    BY DEF Members
  <2>5. \A m \in Members : \A n \in Nat : [m EXCEPT !.numpayloadbytes = n] \in Members
    BY DEF Members
  <2>6. PICK b1 \in Members : b1 = [pb EXCEPT !.ssrc = ssrc]
    BY <2>1
  <2>7. PICK b2 \in Members : b2 = [b1 EXCEPT !.timestamp = ts]
    BY <2>2
  <2>8. PICK b3 \in Members : b3 = [b2 EXCEPT !.seqnr = seq]
    BY <2>3
  <2>9. PICK b4 \in Members : b4 = [b3 EXCEPT !.numpackets = 0]
    BY <2>4
  <2>10. PICK b5 \in Members : b5 = [b4 EXCEPT !.numpayloadbytes = 0]
    BY <2>5
  <2>11. b = b5
    BY <1>2, <1>3, <2>6, <2>7, <2>8, <2>9, <2>10
  <2> QED BY <2>11
<1>5. b.numpackets = 0 /\ b.numpayloadbytes = 0
  BY <1>2, <1>3 DEF Members
<1> QED BY <1>3, <1>4, <1>5

\* The program that uses the builder.
LEMMA BuilderKeeps ==
  ASSUME BuiltInv, BuilderNext
  PROVE  BuiltInv'
<1> USE BuilderAssumption
<1>1. pb \in Members
  BY DEF BuiltInv
<1>2. GoodExtension(NoExtension) /\ \A ext \in Extensions : GoodExtension(ext)
  <2>1. <<"x">> \in Seq({"x"})
    OBVIOUS
  <2> QED BY <2>1 DEF GoodExtension, Extensions
<1>3. TsWidth - 1 \in Nat /\ SeqWidth - 1 \in Nat
  BY DEF BuilderAssumption
<1>4. CASE \E max \in {24, 32}, ts \in {0, TsWidth - 1} : InitBuilder(max, ts, SeqWidth - 1)
  <2>1. PICK max \in Nat, ts \in Nat : InitBuilder(max, ts, SeqWidth - 1)
    BY <1>3, <1>4
  <2>0. PICK n \in Members : n = WithNewSSRC(pb, ts, SeqWidth - 1) /\ n.numpackets = 0 /\ n.numpayloadbytes = 0
    BY <1>1, <1>3, NewSSRCMembers
  <2>2. PICK b : b = [n EXCEPT
                        !.init = TRUE, !.maxpacksize = max, !.pt = Unset,
                        !.mark = Unset, !.tsinc = Unset, !.csrcs = <<>>]
    OBVIOUS
  <2>3. /\ pb' = b /\ log' = <<>> /\ clock' = clock /\ packet' = Nothing /\ asked' = Nothing
    BY <2>0, <2>1, <2>2 DEF InitBuilder
  <2>4. <<>> \in Seq(CSRC) /\ \A S : Unset \in Maybe(S)
    BY DEF Maybe
  <2>5. b \in Members /\ b.numpackets = 0 /\ b.numpayloadbytes = 0
    BY <2>0, <2>2, <2>4 DEF Members
  <2> QED BY <2>3, <2>5, NewSSRCKeeps
<1>5. CASE \E max \in {24, 32} : pb.init /\ SetMaximumPacketSize(max)
  <2>1. PICK max \in Nat : SetMaximumPacketSize(max)
    BY <1>5
  <2>2. pb' = [pb EXCEPT !.maxpacksize = max] /\ packet' = Nothing /\ clock' = clock /\ log' = log
    BY <2>1 DEF SetMaximumPacketSize
  <2>3. pb' \in Members
    BY <1>1, <2>2, Zenon DEF Members
  <2>4. /\ pb'.numpackets = pb.numpackets /\ pb'.numpayloadbytes = pb.numpayloadbytes
        /\ pb'.prevrtptimestamp = pb.prevrtptimestamp /\ pb'.lastrtptimestamp = pb.lastrtptimestamp
        /\ pb'.lastwallclocktime = pb.lastwallclocktime
    BY <1>1, <2>2 DEF Members
  <2>5. ReportInv'
    BY <2>2, <2>4, ReportKept DEF BuiltInv
  <2> QED BY <2>2, <2>3, <2>5 DEF BuiltInv
<1>6. CASE \E ts \in {0, TsWidth - 1} : CreateNewSSRC(ts, 0)
  <2>1. PICK ts \in Nat : CreateNewSSRC(ts, 0)
    BY <1>3, <1>6
  <2>2. PICK b \in Members : b = WithNewSSRC(pb, ts, 0) /\ b.numpackets = 0 /\ b.numpayloadbytes = 0
    BY <1>1, NewSSRCMembers
  <2> QED BY <2>1, <2>2, NewSSRCKeeps DEF CreateNewSSRC
<1>7. CASE \E len \in {0, 8} :
             \/ BuildWithDefaults("d", len)
             \/ Build("d", len, 33, TRUE, 0)
             \/ \E ext \in Extensions : BuildWithDefaultsEx("d", len, ext) \/ BuildEx("d", len, 33, FALSE, 1, ext)
  <2>1. PICK len \in Nat :
             \/ BuildWithDefaults("d", len)
             \/ Build("d", len, 33, TRUE, 0)
             \/ \E ext \in Extensions : BuildWithDefaultsEx("d", len, ext) \/ BuildEx("d", len, 33, FALSE, 1, ext)
    BY <1>7
  <2>2. CASE BuildWithDefaults("d", len)
    <3>1. DefaultsSet /\ PrivateBuildPacket(WithDefaults("d", len, NoExtension))
      BY <2>2 DEF BuildWithDefaults
    <3> QED BY <1>1, <1>2, <3>1, DefaultsAreGood, PacketKeeps
  <2>3. CASE Build("d", len, 33, TRUE, 0)
    <3>1. PrivateBuildPacket(Request("d", len, 33, TRUE, 0, NoExtension))
      BY <2>3 DEF Build
    <3> QED BY <1>2, <3>1, RequestIsGood, PacketKeeps
  <2>4. CASE \E ext \in Extensions : BuildWithDefaultsEx("d", len, ext)
    <3>1. PICK ext \in Extensions : DefaultsSet /\ PrivateBuildPacket(WithDefaults("d", len, ext))
      BY <2>4 DEF BuildWithDefaultsEx
    <3> QED BY <1>1, <1>2, <3>1, DefaultsAreGood, PacketKeeps
  <2>5. CASE \E ext \in Extensions : BuildEx("d", len, 33, FALSE, 1, ext)
    <3>1. PICK ext \in Extensions : PrivateBuildPacket(Request("d", len, 33, FALSE, 1, ext))
      BY <2>5 DEF BuildEx
    <3> QED BY <1>2, <3>1, RequestIsGood, PacketKeeps
  <2> QED BY <2>1, <2>2, <2>3, <2>4, <2>5
<1>8. CASE \/ \E c \in CSRC : AddCSRC(c) \/ DeleteCSRC(c)
           \/ ClearCSRCList
           \/ \E pt \in {72, 96} : SetDefaultPayloadType(pt)
           \/ \E m \in BOOLEAN : SetDefaultMark(m)
           \/ SetDefaultTimestampIncrement(1)
           \/ IncrementTimestamp(1) \/ IncrementTimestampDefault
  BY <1>8, SettersKeep
<1> QED BY <1>4, <1>5, <1>6, <1>7, <1>8 DEF BuilderNext

-----------------------------------------------------------------------------
(* The sender                                                              *)

SenderExtensions ==
  {NoExtension, MimeH264} \cup {FragmentHeader(len, t) : len \in Nat, t \in Nat}
Parts == [from : Nat, len : Nat, mark : BOOLEAN, extension : SenderExtensions]
Calls ==
  [pc : {"idle", "fragment", "last", "done"},
   call : {"none", "sendBuffer", "sendBufferAt", "sendBufferEx1", "sendBufferEx"}, len : Nat,
   t : Nat, sent : Seq(Parts), failed : BOOLEAN, disturbed : BOOLEAN]

\* The full fragments sent so far.
SentSoFar(p) ==
  /\ Len(p.sent) = p.t
  /\ \A i \in 1..p.t :
       /\ p.sent[i].from = (i - 1) * SEND_PACKETSIZE /\ p.sent[i].len = SEND_PACKETSIZE
       /\ p.call = "sendBufferEx" => p.sent[i].extension = FragmentHeader(p.len, i - 1)
       /\ ~p.disturbed => ~p.sent[i].mark

\* A call in fragments.
InFragments(p) ==
  /\ p.len > SEND_PACKETSIZE /\ p.call \in {"sendBufferEx1", "sendBufferEx"}
  /\ p.t <= FullFragments(p.len) /\ (p.pc = "last" => p.t = FullFragments(p.len))
  /\ ~p.failed => SentSoFar(p)

\* The frame of a call that is done.
Reassembled(p) ==
  LET n == Len(p.sent)
      octet == IF p.call = "sendBufferEx1" /\ p.len <= SEND_PACKETSIZE THEN 1 ELSE 0
  IN /\ n > 0 /\ p.sent[1].from = 0 /\ p.sent[n].from + p.sent[n].len = p.len + octet
     /\ \A i \in 1 .. n - 1 : p.sent[i].from + p.sent[i].len = p.sent[i + 1].from
     /\ \A i \in 1 .. n : p.sent[i].len > 0 \/ p.len = 0
     /\ \A i \in 1 .. n - 1 :
          p.call = "sendBufferEx" => p.sent[i].extension.words[1] = <<n, i - 1>>
     /\ ~p.disturbed => \A i \in 1 .. n - 1 : ~p.sent[i].mark
     /\ ~p.disturbed /\ n > 1 => p.sent[n].mark

CallInv(p) ==
  /\ p.pc \in {"fragment", "last"} => InFragments(p)
  /\ p.pc = "done" /\ ~p.failed => Reassembled(p)

\* The marker is the one the fragments of an undisturbed call need, and of two
\* calls in fragments none is undisturbed.
MarkInv ==
  \A c \in Caller :
    Fragmenting(c) =>
      /\ ~prog[c].disturbed /\ created => pb.mark = To(prog[c].pc = "last")
      /\ \A d \in Caller \ {c} : Fragmenting(d) => prog[c].disturbed

SenderInv ==
  /\ created = pb.init /\ mInited = pb.init
  /\ pb.init => DefaultsSet
  /\ prog \in [Caller -> Calls]
  /\ \A c \in Caller : CallInv(prog[c])
  /\ MarkInv

\* How a frame is divided.
LEMMA Divided ==
  ASSUME NEW len \in Nat, len > SEND_PACKETSIZE
  PROVE  /\ FullFragments(len) \in Nat /\ FullFragments(len) > 0
         /\ FullFragments(len) * SEND_PACKETSIZE < len
         /\ len <= (FullFragments(len) + 1) * SEND_PACKETSIZE
<1>1. PICK d \in Nat : d = SEND_PACKETSIZE /\ d > 0
  BY DEF SEND_PACKETSIZE
<1>2. PICK q \in Nat, r \in Nat : q = len \div d /\ r = len % d /\ len = (q * d) + r /\ r < d
  BY <1>1, Division
<1>3. FullFragments(len) = IF r = 0 THEN q - 1 ELSE q
  BY <1>1, <1>2, Zenon DEF FullFragments
<1>4. PICK x \in Nat : x = q * d /\ len = x + r
  BY <1>2
<1>5. (q + 1) * d = x + d /\ (q - 1) * d = x - d
  BY <1>4
<1>6. q > 0 /\ (r = 0 => q > 1)
  <2>1. q = 0 => x = 0
    BY <1>4
  <2>2. q = 1 => x = d
    BY <1>4
  <2> QED BY <1>1, <1>2, <1>4, <2>1, <2>2
<1>7. CASE r = 0
  <2>1. PICK f \in Nat : f = FullFragments(len) /\ f = q - 1 /\ f > 0
    BY <1>3, <1>6, <1>7
  <2>2. f * d = x - d /\ (f + 1) * d = x
    BY <1>4, <1>5, <2>1
  <2> QED BY <1>1, <1>4, <1>7, <2>1, <2>2
<1>8. CASE r # 0
  <2>1. FullFragments(len) = q
    BY <1>3, <1>8
  <2> QED BY <1>1, <1>2, <1>4, <1>5, <1>6, <1>8, <2>1
<1> QED BY <1>7, <1>8

\* The extensions that the sender uses are extensions.
LEMMA SenderExtensionsAreGood ==
  ASSUME NEW e \in SenderExtensions
  PROVE  GoodExtension(e)
<1>1. \A x, y : <<x, y, y>> \in Seq({x, y}) /\ <<x, y, y, y, y>> \in Seq({x, y})
  OBVIOUS
<1>2. CASE e = NoExtension
  BY <1>2 DEF GoodExtension
<1>3. CASE e = MimeH264
  <2>1. <<"h264", "?", "?", "?", "?">> \in Seq({"h264", "?"})
    BY <1>1, Zenon
  <2>2. e = [present |-> TRUE, id |-> 0, words |-> <<"h264", "?", "?", "?", "?">>]
    BY <1>3 DEF MimeH264
  <2> QED BY <2>1, <2>2, Zenon DEF GoodExtension
<1>4. CASE \E len, t \in Nat : e = FragmentHeader(len, t)
  <2>1. PICK len \in Nat, t \in Nat : e = FragmentHeader(len, t)
    BY <1>4
  <2>2. PICK x : x = <<FullFragments(len) + 1, t>>
    OBVIOUS
  <2>3. e = [present |-> TRUE, id |-> t, words |-> <<x, "?", "?">>]
    BY <2>1, <2>2 DEF FragmentHeader
  <2>4. <<x, "?", "?">> \in Seq({x, "?"})
    BY <1>1, Zenon
  <2> QED BY <2>3, <2>4, Zenon DEF GoodExtension
<1> QED BY <1>2, <1>3, <1>4 DEF SenderExtensions

\* The requests that take the defaults when there are any.
LEMMA DefaultsRequest ==
  ASSUME pb \in Members, NEW c, NEW from, NEW len \in Nat, NEW ext, GoodExtension(ext)
  PROVE  /\ GoodRequest(Defaults(c, from, len, ext))
         /\ Defaults(c, from, len, ext).payloadlength = len
         /\ Defaults(c, from, len, ext).extension = ext
         /\ DefaultsSet => Defaults(c, from, len, ext).mark = pb.mark.value
<1>1. CASE DefaultsSet
  <2>1. PICK r : r = WithDefaults(<<c, from>>, len, ext)
    OBVIOUS
  <2>2. GoodRequest(r)
    BY <1>1, <2>1, DefaultsAreGood
  <2>3. r.payloadlength = len /\ r.extension = ext /\ r.mark = pb.mark.value
    BY <2>1 DEF WithDefaults, Request
  <2>4. Defaults(c, from, len, ext) = r
    BY <1>1, <2>1 DEF Defaults
  <2> QED BY <2>2, <2>3, <2>4
<1>2. CASE ~DefaultsSet
  <2>1. PICK r : r = Request(<<c, from>>, len, 0, FALSE, 0, ext)
    OBVIOUS
  <2>2. GoodRequest(r)
    BY <2>1, RequestIsGood
  <2>3. r.payloadlength = len /\ r.extension = ext
    BY <2>1 DEF Request
  <2>4. Defaults(c, from, len, ext) = r
    BY <1>2, <2>1 DEF Defaults
  <2> QED BY <1>2, <2>2, <2>3, <2>4
<1> QED BY <1>1, <1>2

\* What a call sends, and what becomes of the call.
Sending(c, from, r, next) ==
  /\ pb'.init = pb.init /\ pb'.mark = pb.mark /\ (DefaultsSet => DefaultsSet')
  /\ created' = created /\ mInited' = mInited
  /\ \E q \in Calls, part \in Parts :
       /\ prog' = [prog EXCEPT ![c] = q]
       /\ part = [from |-> from, len |-> r.payloadlength, mark |-> r.mark, extension |-> r.extension]
       /\ q.pc = next.pc /\ q.call = next.call /\ q.len = next.len /\ q.t = next.t
       /\ q.disturbed = next.disturbed
       /\ ~q.failed => ~next.failed /\ created /\ q.sent = Append(next.sent, part)

\* Every packet that is sent is of that kind.
LEMMA SendsKeeps ==
  ASSUME BuiltInv, prog \in [Caller -> Calls], NEW c \in Caller, NEW from \in Nat,
         NEW r, GoodRequest(r), r.extension \in SenderExtensions, NEW next \in Calls,
         Sends(c, from, r, next)
  PROVE  BuiltInv' /\ Sending(c, from, r, next)
<1> DEFINE fits == created /\ Accepts(r)
<1>1. PICK part \in Parts :
        part = [from |-> from, len |-> r.payloadlength, mark |-> r.mark, extension |-> r.extension]
  BY DEF Parts, GoodRequest
<1>2. /\ IF fits THEN PrivateBuildPacket(r) ELSE UNCHANGED builderVars
      /\ prog' = [prog EXCEPT ![c] = [next EXCEPT !.sent = IF fits THEN Append(@, part) ELSE @,
                                                  !.failed = @ \/ ~fits]]
      /\ created' = created /\ mInited' = mInited
  BY <1>1 DEF Sends
<1>3. /\ BuiltInv' /\ pb'.init = pb.init /\ pb'.mark = pb.mark /\ pb'.pt = pb.pt /\ pb'.tsinc = pb.tsinc
  <2>1. CASE fits
    <3>1. PrivateBuildPacket(r)
      BY <1>2, <2>1
    <3>2. BuiltInv'
      BY <3>1, PacketKeeps
    <3>3. pb \in Members
      BY DEF BuiltInv
    <3>4. pb'.init = pb.init /\ pb'.mark = pb.mark /\ pb'.pt = pb.pt /\ pb'.tsinc = pb.tsinc
      BY <3>1, <3>3 DEF PrivateBuildPacket, Members
    <3> QED BY <3>2, <3>4
  <2>2. CASE ~fits
    <3>1. pb' = pb /\ packet' = packet /\ clock' = clock /\ asked' = asked /\ log' = log
      BY <1>2, <2>2 DEF builderVars
    <3> QED BY <3>1 DEF BuiltInv, ReportInv
  <2> QED BY <2>1, <2>2
<1>4. PICK q : q = [next EXCEPT !.sent = IF fits THEN Append(@, part) ELSE @, !.failed = @ \/ ~fits]
  OBVIOUS
<1>5. PICK s \in Seq(Parts) : s = IF fits THEN Append(next.sent, part) ELSE next.sent
  <2>1. next.sent \in Seq(Parts)
    BY DEF Calls
  <2>2. Append(next.sent, part) \in Seq(Parts)
    BY <2>1, AppendProperties
  <2> QED BY <2>1, <2>2
<1>6. PICK f \in BOOLEAN : f = (next.failed \/ ~fits)
  OBVIOUS
<1>7. q = [next EXCEPT !.sent = s, !.failed = f]
  BY <1>4, <1>5, <1>6
<1>8. q \in Calls
  <2>1. \A n \in Calls : \A x \in Seq(Parts) : [n EXCEPT !.sent = x] \in Calls
    BY DEF Calls
  <2>2. \A n \in Calls : \A x \in BOOLEAN : [n EXCEPT !.failed = x] \in Calls
    BY DEF Calls
  <2>3. PICK n \in Calls : n = [next EXCEPT !.sent = s]
    BY <2>1
  <2>4. [n EXCEPT !.failed = f] \in Calls
    BY <2>2
  <2>5. q = [n EXCEPT !.failed = f]
    BY <1>7, <2>3
  <2> QED BY <2>4, <2>5
<1>9. /\ q.pc = next.pc /\ q.call = next.call /\ q.len = next.len /\ q.t = next.t
      /\ q.disturbed = next.disturbed /\ q.sent = s /\ q.failed = f
  BY <1>7 DEF Calls
<1>10. ~q.failed => ~next.failed /\ created /\ q.sent = Append(next.sent, part)
  <2> HIDE DEF Accepts
  <2> QED BY <1>5, <1>6, <1>9
<1>11. DefaultsSet => DefaultsSet'
  BY <1>3 DEF DefaultsSet
<1>12. prog' = [prog EXCEPT ![c] = q]
  BY <1>2, <1>4
<1> QED BY <1>1, <1>2, <1>3, <1>8, <1>9, <1>10, <1>11, <1>12 DEF Sending

-----------------------------------------------------------------------------
(* The calls of the sender                                                 *)

\* A frame in one packet.
LEMMA OnePacket ==
  ASSUME NEW q \in Calls, NEW part \in Parts, q.sent = Append(<<>>, part), part.from = 0,
         part.len = q.len + (IF q.call = "sendBufferEx1" /\ q.len <= SEND_PACKETSIZE THEN 1 ELSE 0)
  PROVE  Reassembled(q)
<1>1. q.sent = <<part>> /\ Len(<<part>>) = 1 /\ <<part>>[1] = part
  OBVIOUS
<1>2. PICK len \in Nat, n \in Nat : len = q.len /\ n = part.len
  BY DEF Calls, Parts
<1>3. PICK octet \in {0, 1} : octet = IF q.call = "sendBufferEx1" /\ q.len <= SEND_PACKETSIZE THEN 1 ELSE 0
  BY <1>2
<1>4. PICK sent : sent = q.sent /\ Len(sent) = 1 /\ sent[1] = part
  BY <1>1
<1>5. /\ sent[1].from + sent[1].len = q.len + octet
      /\ sent[1].len > 0 \/ q.len = 0
  BY <1>2, <1>3, <1>4
<1>6. \A i \in 1..1 : i = 1
  OBVIOUS
<1>7. 1..(1 - 1) = {}
  OBVIOUS
<1>8. Reassembled(q) <=>
        /\ Len(q.sent) > 0 /\ q.sent[1].from = 0 /\ q.sent[Len(q.sent)].from + q.sent[Len(q.sent)].len = q.len + octet
        /\ \A i \in 1 .. Len(q.sent) - 1 : q.sent[i].from + q.sent[i].len = q.sent[i + 1].from
        /\ \A i \in 1 .. Len(q.sent) : q.sent[i].len > 0 \/ q.len = 0
        /\ \A i \in 1 .. Len(q.sent) - 1 :
             q.call = "sendBufferEx" => q.sent[i].extension.words[1] = <<Len(q.sent), i - 1>>
        /\ ~q.disturbed => \A i \in 1 .. Len(q.sent) - 1 : ~q.sent[i].mark
        /\ ~q.disturbed /\ Len(q.sent) > 1 => q.sent[Len(q.sent)].mark
  BY <1>3 DEF Reassembled
<1> QED BY <1>4, <1>5, <1>6, <1>7, <1>8

\* One more fragment.
LEMMA NextFragment ==
  ASSUME NEW p \in Calls, SentSoFar(p), NEW q \in Calls, NEW part \in Parts,
         q.sent = Append(p.sent, part), q.t = p.t + 1, q.len = p.len, q.call = p.call,
         q.disturbed = p.disturbed,
         part.from = p.t * SEND_PACKETSIZE, part.len = SEND_PACKETSIZE,
         p.call = "sendBufferEx" => part.extension = FragmentHeader(p.len, p.t),
         ~p.disturbed => ~part.mark
  PROVE  SentSoFar(q)
<1>1. PICK t \in Nat : t = p.t
  BY DEF Calls
<1>2. PICK sent \in Seq(Parts) : sent = p.sent /\ Len(sent) = t
  BY <1>1 DEF Calls, SentSoFar
<1>3. PICK more \in Seq(Parts) : /\ more = q.sent /\ Len(more) = t + 1 /\ more[t + 1] = part
                                 /\ \A i \in 1..t : more[i] = sent[i]
  <2>1. /\ Append(sent, part) \in Seq(Parts) /\ Len(Append(sent, part)) = t + 1
        /\ Append(sent, part)[t + 1] = part /\ \A i \in 1..t : Append(sent, part)[i] = sent[i]
    BY <1>2, AppendProperties
  <2>2. q.sent = Append(sent, part)
    BY <1>2
  <2> QED BY <2>1, <2>2, Zenon
<1>4. ASSUME NEW i \in 1..(t + 1)
      PROVE  /\ more[i].from = (i - 1) * SEND_PACKETSIZE /\ more[i].len = SEND_PACKETSIZE
             /\ q.call = "sendBufferEx" => more[i].extension = FragmentHeader(q.len, i - 1)
             /\ ~q.disturbed => ~more[i].mark
  <2>1. CASE i \in 1..t
    <3>1. more[i] = sent[i]
      BY <1>3, <2>1
    <3>2. /\ sent[i].from = (i - 1) * SEND_PACKETSIZE /\ sent[i].len = SEND_PACKETSIZE
          /\ p.call = "sendBufferEx" => sent[i].extension = FragmentHeader(p.len, i - 1)
          /\ ~p.disturbed => ~sent[i].mark
      BY <1>1, <1>2, <2>1 DEF SentSoFar
    <3> QED BY <3>1, <3>2
  <2>2. CASE i = t + 1
    <3>1. i - 1 = t /\ more[i] = part
      BY <1>3, <2>2
    <3> QED BY <1>1, <3>1
  <2> QED BY <2>1, <2>2
<1> QED BY <1>1, <1>3, <1>4 DEF SentSoFar

\* The last fragment.
LEMMA FragmentsDone ==
  ASSUME NEW p \in Calls, SentSoFar(p), p.len > SEND_PACKETSIZE, p.t = FullFragments(p.len),
         NEW q \in Calls, NEW part \in Parts,
         q.sent = Append(p.sent, part), q.len = p.len, q.call = p.call, q.disturbed = p.disturbed,
         part.from = p.t * SEND_PACKETSIZE, part.len = p.len - part.from,
         ~p.disturbed => part.mark
  PROVE  Reassembled(q)
<1>1. PICK t \in Nat, len \in Nat : t = p.t /\ len = p.len
  BY DEF Calls
<1>2. t > 0 /\ t * 36000 < len /\ len > 36000
  BY <1>1, Divided DEF SEND_PACKETSIZE
<1>3. PICK sent \in Seq(Parts) : sent = p.sent /\ Len(sent) = t
  BY <1>1 DEF Calls, SentSoFar
<1>4. PICK more \in Seq(Parts) : /\ more = q.sent /\ Len(more) = t + 1 /\ more[t + 1] = part
                                 /\ \A i \in 1..t : more[i] = sent[i]
  <2>1. /\ Append(sent, part) \in Seq(Parts) /\ Len(Append(sent, part)) = t + 1
        /\ Append(sent, part)[t + 1] = part /\ \A i \in 1..t : Append(sent, part)[i] = sent[i]
    BY <1>3, AppendProperties
  <2>2. q.sent = Append(sent, part)
    BY <1>3
  <2> QED BY <2>1, <2>2, Zenon
<1>5. ASSUME NEW i \in 1..t
      PROVE  /\ more[i].from = (i - 1) * 36000 /\ more[i].len = 36000
             /\ q.call = "sendBufferEx" => more[i].extension = FragmentHeader(len, i - 1)
             /\ ~q.disturbed => ~more[i].mark
  <2>1. more[i] = sent[i]
    BY <1>4
  <2>2. /\ sent[i].from = (i - 1) * 36000 /\ sent[i].len = 36000
        /\ p.call = "sendBufferEx" => sent[i].extension = FragmentHeader(len, i - 1)
        /\ ~p.disturbed => ~sent[i].mark
    BY <1>1, <1>3 DEF SentSoFar, SEND_PACKETSIZE
  <2> QED BY <2>1, <2>2
<1>6. more[t + 1].from = t * 36000 /\ more[t + 1].len = len - t * 36000 /\ (~q.disturbed => more[t + 1].mark)
  BY <1>1, <1>4 DEF SEND_PACKETSIZE
<1>7. 1 \in 1..t /\ more[1].from = 0
  <2>1. 1 \in 1..t /\ (1 - 1) * 36000 = 0
    BY <1>2
  <2> QED BY <1>5, <2>1
<1>8. more[t + 1].from + more[t + 1].len = len
  BY <1>6
<1>9. ASSUME NEW i \in 1..t PROVE more[i].from + more[i].len = more[i + 1].from
  <2>1. CASE i = t
    <3>1. ((t - 1) * 36000) + 36000 = t * 36000
      OBVIOUS
    <3> QED BY <1>5, <1>6, <2>1, <3>1
  <2>2. CASE i # t
    <3>1. i + 1 \in 1..t /\ ((i - 1) * 36000) + 36000 = ((i + 1) - 1) * 36000
      BY <2>2
    <3> QED BY <1>5, <3>1
  <2> QED BY <2>1, <2>2
<1>10. ASSUME NEW i \in 1..(t + 1) PROVE more[i].len > 0
  <2>1. CASE i \in 1..t
    BY <1>5, <2>1
  <2>2. CASE i = t + 1
    BY <1>2, <1>6, <2>2
  <2> QED BY <2>1, <2>2
<1>11. ASSUME NEW i \in 1..t, q.call = "sendBufferEx"
       PROVE  more[i].extension.words[1] = <<t + 1, i - 1>>
  <2>1. PICK header : header = <<FullFragments(len) + 1, i - 1>>
    OBVIOUS
  <2>2. more[i].extension = [present |-> TRUE, id |-> i - 1, words |-> <<header, "?", "?">>]
    BY <1>5, <1>11, <2>1 DEF FragmentHeader
  <2>3. more[i].extension.words[1] = header
    BY <2>2
  <2> QED BY <1>1, <2>1, <2>3
<1>12. Reassembled(q) <=>
        /\ Len(q.sent) > 0 /\ q.sent[1].from = 0 /\ q.sent[Len(q.sent)].from + q.sent[Len(q.sent)].len = q.len + 0
        /\ \A i \in 1 .. Len(q.sent) - 1 : q.sent[i].from + q.sent[i].len = q.sent[i + 1].from
        /\ \A i \in 1 .. Len(q.sent) : q.sent[i].len > 0 \/ q.len = 0
        /\ \A i \in 1 .. Len(q.sent) - 1 :
             q.call = "sendBufferEx" => q.sent[i].extension.words[1] = <<Len(q.sent), i - 1>>
        /\ ~q.disturbed => \A i \in 1 .. Len(q.sent) - 1 : ~q.sent[i].mark
        /\ ~q.disturbed /\ Len(q.sent) > 1 => q.sent[Len(q.sent)].mark
  <2>1. ~(q.call = "sendBufferEx1" /\ q.len <= SEND_PACKETSIZE)
    BY <1>1, <1>2 DEF SEND_PACKETSIZE
  <2> QED BY <2>1, Zenon DEF Reassembled
<1>13. Len(more) = t + 1 /\ Len(more) - 1 = t /\ Len(more) > 0 /\ len + 0 = len
  BY <1>4
<1>14. more[Len(more)].from + more[Len(more)].len = q.len + 0
  BY <1>1, <1>8, <1>13
<1>15. ~q.disturbed => \A i \in 1..t : ~more[i].mark
  BY <1>5
<1>16. ~q.disturbed => more[Len(more)].mark
  BY <1>6, <1>13
<1>17. more[1].from = 0
  BY <1>7
<1>18. \A i \in 1..Len(more) : more[i].len > 0
  BY <1>10, <1>13
<1>19. \A i \in 1..(Len(more) - 1) : q.call = "sendBufferEx" => more[i].extension.words[1] = <<Len(more), i - 1>>
  BY <1>11, <1>13
<1>20. \A i \in 1..(Len(more) - 1) : more[i].from + more[i].len = more[i + 1].from
  BY <1>9, <1>13
<1>21. q.sent = more /\ ~q.disturbed => \A i \in 1..(Len(more) - 1) : ~more[i].mark
  BY <1>13, <1>15
<1> HIDE <1>5, <1>6, <1>9, <1>10, <1>11, <1>15
<1> QED BY <1>4, <1>12, <1>13, <1>14, <1>16, <1>17, <1>18, <1>19, <1>20, <1>21, ZenonT(60)

\* More disturbance takes nothing from a call.
LEMMA DisturbedKeeps ==
  ASSUME NEW p \in Calls, CallInv(p), NEW b \in BOOLEAN, p.disturbed => b
  PROVE  [p EXCEPT !.disturbed = b] \in Calls /\ CallInv([p EXCEPT !.disturbed = b])
<1>1. PICK q \in Calls : q = [p EXCEPT !.disturbed = b]
  BY DEF Calls
<1>2. /\ q.pc = p.pc /\ q.call = p.call /\ q.len = p.len /\ q.t = p.t /\ q.sent = p.sent
      /\ q.failed = p.failed /\ (~q.disturbed => ~p.disturbed)
  BY <1>1 DEF Calls
<1>3. SentSoFar(p) => SentSoFar(q)
  BY <1>2 DEF SentSoFar
<1>4. InFragments(p) => InFragments(q)
  BY <1>2, <1>3 DEF InFragments
<1>5. Reassembled(p) => Reassembled(q)
  BY <1>2 DEF Reassembled
<1> QED BY <1>1, <1>2, <1>4, <1>5 DEF CallInv

\* A step of one call that leaves the default marker alone, and in which the
\* call does not start its fragments or come to the last one.
LEMMA OneCallKeeps ==
  ASSUME SenderInv, NEW c \in Caller, NEW q \in Calls, prog' = [prog EXCEPT ![c] = q], CallInv(q),
         q.pc \in {"fragment", "last"} => q.pc = prog[c].pc /\ q.disturbed = prog[c].disturbed,
         pb'.init = pb.init, pb'.mark = pb.mark, DefaultsSet => DefaultsSet',
         created' = created, mInited' = mInited
  PROVE  SenderInv'
<1>1. prog \in [Caller -> Calls] /\ created = pb.init /\ mInited = pb.init /\ (pb.init => DefaultsSet)
      /\ (\A d \in Caller : CallInv(prog[d])) /\ MarkInv
  BY DEF SenderInv
<1>2. prog' \in [Caller -> Calls] /\ prog'[c] = q /\ \A d \in Caller \ {c} : prog'[d] = prog[d]
  BY <1>1
<1>3. \A d \in Caller : CallInv(prog'[d])
  BY <1>1, <1>2
<1>4. \A d \in Caller : Fragmenting(d)' =>
        Fragmenting(d) /\ prog'[d].pc = prog[d].pc /\ prog'[d].disturbed = prog[d].disturbed
  <2> SUFFICES ASSUME NEW d \in Caller, Fragmenting(d)'
               PROVE  Fragmenting(d) /\ prog'[d].pc = prog[d].pc /\ prog'[d].disturbed = prog[d].disturbed
    OBVIOUS
  <2>1. prog'[d].pc \in {"fragment", "mark", "last"} /\ prog'[d] \in Calls
    BY <1>2 DEF Fragmenting
  <2>2. prog'[d].pc \in {"fragment", "last"}
    BY <2>1 DEF Calls
  <2>3. prog'[d].pc = prog[d].pc /\ prog'[d].disturbed = prog[d].disturbed
    BY <1>2, <2>2
  <2> QED BY <2>1, <2>3 DEF Fragmenting
<1>5. MarkInv'
  BY <1>1, <1>4 DEF MarkInv
<1> QED BY <1>1, <1>2, <1>3, <1>5 DEF SenderInv

\* The default marker that a call in fragments finds.
LEMMA MarkFound ==
  ASSUME BuiltInv, SenderInv, NEW c \in Caller, prog[c].pc \in {"fragment", "last"}, created,
         ~prog[c].disturbed
  PROVE  pb.mark.value = (prog[c].pc = "last")
<1>1. Fragmenting(c)
  BY DEF Fragmenting
<1>2. pb.mark = To(prog[c].pc = "last")
  BY <1>1 DEF SenderInv, MarkInv
<1> QED BY <1>2 DEF To

\* A frame sent in one packet.
LEMMA SingleKeeps ==
  ASSUME BuiltInv, SenderInv, NEW c \in Caller, NEW r, GoodRequest(r), r.extension \in SenderExtensions,
         NEW call \in {"sendBuffer", "sendBufferAt", "sendBufferEx1", "sendBufferEx"}, NEW len \in Nat,
         Sends(c, 0, r, Done(call, len)),
         r.payloadlength = len + (IF call = "sendBufferEx1" /\ len <= SEND_PACKETSIZE THEN 1 ELSE 0)
  PROVE  BuiltInv' /\ SenderInv'
<1>1. PICK next \in Calls : /\ next = Done(call, len) /\ next.pc = "done" /\ next.call = call
                            /\ next.len = len /\ next.sent = <<>>
  <2>1. PICK next : next = Done(call, len)
    OBVIOUS
  <2>2. next = [pc |-> "done", call |-> call, len |-> len, t |-> 0, sent |-> <<>>, failed |-> FALSE,
                disturbed |-> FALSE]
    BY <2>1 DEF Done, Idle
  <2>3. <<>> \in Seq(Parts)
    OBVIOUS
  <2>4. next \in Calls
    BY <2>2, <2>3 DEF Calls
  <2> QED BY <2>1, <2>2, <2>4
<1>2. prog \in [Caller -> Calls]
  BY DEF SenderInv
<1>3. Sends(c, 0, r, next)
  BY <1>1
<1>4. 0 \in Nat
  OBVIOUS
<1>5. BuiltInv' /\ Sending(c, 0, r, next)
  BY <1>2, <1>3, <1>4, SendsKeeps
<1>6. PICK q \in Calls, part \in Parts :
        /\ prog' = [prog EXCEPT ![c] = q]
        /\ part = [from |-> 0, len |-> r.payloadlength, mark |-> r.mark, extension |-> r.extension]
        /\ q.pc = next.pc /\ q.call = next.call /\ q.len = next.len
        /\ ~q.failed => q.sent = Append(next.sent, part)
  BY <1>5, Zenon DEF Sending
<1>7. CallInv(q)
  <2>1. part.from = 0 /\ part.len = r.payloadlength
    BY <1>6
  <2>2. ~q.failed => Reassembled(q)
    BY <1>1, <1>6, <2>1, OnePacket
  <2>3. q.pc = "done"
    BY <1>1, <1>6
  <2> QED BY <2>2, <2>3 DEF CallInv
<1>8. q.pc = "done" /\ pb'.init = pb.init /\ pb'.mark = pb.mark /\ (DefaultsSet => DefaultsSet')
      /\ created' = created /\ mInited' = mInited
  BY <1>1, <1>5, <1>6 DEF Sending
<1> QED BY <1>5, <1>6, <1>7, <1>8, OneCallKeeps

\* A full fragment.
LEMMA FragmentKeeps ==
  ASSUME BuiltInv, SenderInv, NEW c \in Caller, Fragment(c)
  PROVE  BuiltInv' /\ SenderInv'
<1>1. PICK p \in Calls : p = prog[c]
  BY DEF SenderInv
<1>2. prog \in [Caller -> Calls] /\ CallInv(p)
  BY <1>1 DEF SenderInv
<1>3. PICK t \in Nat, len \in Nat : t = p.t /\ len = p.len
  BY DEF Calls
<1>4. p.pc = "fragment" /\ t < FullFragments(len)
  BY <1>1, <1>3 DEF Fragment
<1>5. InFragments(p)
  BY <1>2, <1>4 DEF CallInv
<1>6. PICK from \in Nat : from = t * SEND_PACKETSIZE
  BY <1>3 DEF SEND_PACKETSIZE
<1>7. PICK ext \in SenderExtensions : ext = IF p.call = "sendBufferEx" THEN FragmentHeader(len, t) ELSE NoExtension
  BY DEF SenderExtensions
<1>8. PICK next \in Calls : next = [p EXCEPT !.t = @ + 1]
  <2>1. \A n \in Calls : \A x \in Nat : [n EXCEPT !.t = x] \in Calls
    BY Zenon DEF Calls
  <2>2. PICK x \in Nat : x = p.t + 1
    BY <1>3
  <2>3. [p EXCEPT !.t = @ + 1] = [p EXCEPT !.t = x]
    BY <2>2
  <2>4. [p EXCEPT !.t = x] \in Calls
    BY <2>1
  <2> QED BY <2>3, <2>4
<1>9. /\ next.pc = p.pc /\ next.call = p.call /\ next.len = p.len /\ next.t = t + 1 /\ next.sent = p.sent
      /\ next.failed = p.failed /\ next.disturbed = p.disturbed
  BY <1>3, <1>8 DEF Calls
<1>10. PICK r : r = Defaults(c, from, SEND_PACKETSIZE, ext)
  OBVIOUS
<1>11. /\ GoodRequest(r) /\ r.payloadlength = SEND_PACKETSIZE /\ r.extension = ext
       /\ DefaultsSet => r.mark = pb.mark.value
  <2>1. pb \in Members /\ GoodExtension(ext) /\ SEND_PACKETSIZE \in Nat
    BY SenderExtensionsAreGood DEF BuiltInv, SEND_PACKETSIZE
  <2> QED BY <1>10, <2>1, DefaultsRequest
<1>12. Sends(c, from, r, next)
  BY <1>1, <1>3, <1>6, <1>7, <1>8, <1>10 DEF Fragment
<1>13. BuiltInv' /\ Sending(c, from, r, next)
  BY <1>2, <1>11, <1>12, SendsKeeps
<1>14. PICK q \in Calls, part \in Parts :
        /\ prog' = [prog EXCEPT ![c] = q]
        /\ part = [from |-> from, len |-> r.payloadlength, mark |-> r.mark, extension |-> r.extension]
        /\ q.pc = next.pc /\ q.call = next.call /\ q.len = next.len /\ q.t = next.t
        /\ q.disturbed = next.disturbed
        /\ ~q.failed => ~next.failed /\ created /\ q.sent = Append(next.sent, part)
  BY <1>13, Zenon DEF Sending
<1>15. q.pc = "fragment" /\ q.call = p.call /\ q.len = len /\ q.t = t + 1 /\ q.disturbed = p.disturbed
  BY <1>3, <1>4, <1>9, <1>14
<1>16. ~q.failed => SentSoFar(q)
  <2> SUFFICES ASSUME ~q.failed PROVE SentSoFar(q)
    OBVIOUS
  <2>1. ~p.failed /\ created /\ q.sent = Append(p.sent, part)
    BY <1>9, <1>14
  <2>2. SentSoFar(p)
    BY <1>5, <2>1 DEF InFragments
  <2>3. part.from = p.t * SEND_PACKETSIZE /\ part.len = SEND_PACKETSIZE /\ part.extension = ext /\ part.mark = r.mark
    BY <1>3, <1>6, <1>11, <1>14
  <2>4. ~p.disturbed => ~part.mark
    <3>1. DefaultsSet
      BY <2>1 DEF SenderInv
    <3>2. ~p.disturbed => pb.mark.value = (p.pc = "last")
      BY <1>1, <1>4, <2>1, MarkFound
    <3>3. p.pc # "last"
      BY <1>4
    <3> QED BY <1>11, <2>3, <3>1, <3>2, <3>3
  <2>5. p.call = "sendBufferEx" => part.extension = FragmentHeader(p.len, p.t)
    BY <1>3, <1>7, <2>3
  <2>6. q.t = p.t + 1 /\ q.len = p.len /\ q.call = p.call /\ q.disturbed = p.disturbed
    BY <1>3, <1>15
  <2> QED BY <2>1, <2>2, <2>3, <2>4, <2>5, <2>6, NextFragment
<1>17. CallInv(q)
  <2>1. q.len > SEND_PACKETSIZE /\ q.call \in {"sendBufferEx1", "sendBufferEx"}
    BY <1>3, <1>5, <1>15 DEF InFragments
  <2>2. q.t <= FullFragments(q.len)
    <3>1. PICK n \in Nat : n = FullFragments(len)
      BY <1>3, <1>15, <2>1, Divided
    <3> QED BY <1>4, <1>15, <3>1
  <2> QED BY <1>15, <1>16, <2>1, <2>2 DEF CallInv, InFragments
<1>18. /\ q.pc = prog[c].pc /\ q.disturbed = prog[c].disturbed
       /\ pb'.init = pb.init /\ pb'.mark = pb.mark /\ (DefaultsSet => DefaultsSet')
       /\ created' = created /\ mInited' = mInited
  BY <1>1, <1>4, <1>13, <1>15 DEF Sending
<1> QED BY <1>13, <1>14, <1>17, <1>18, OneCallKeeps

\* The last fragment.
LEMMA LastFragmentKeeps ==
  ASSUME BuiltInv, SenderInv, NEW c \in Caller, LastFragment(c)
  PROVE  BuiltInv' /\ SenderInv'
<1>1. PICK p \in Calls : p = prog[c]
  BY DEF SenderInv
<1>2. prog \in [Caller -> Calls] /\ CallInv(p)
  BY <1>1 DEF SenderInv
<1>3. PICK t \in Nat, len \in Nat : t = p.t /\ len = p.len
  BY DEF Calls
<1>4. p.pc = "last"
  BY <1>1 DEF LastFragment
<1>5. InFragments(p) /\ len > SEND_PACKETSIZE /\ t = FullFragments(len)
  BY <1>2, <1>3, <1>4 DEF CallInv, InFragments
<1>6. PICK from \in Nat : from = t * SEND_PACKETSIZE
  BY <1>3 DEF SEND_PACKETSIZE
<1>7. PICK rest \in Nat : rest = len - from
  <2>1. from < len
    BY <1>5, <1>6, Divided
  <2> QED BY <2>1
<1>8. PICK next \in Calls : next = [p EXCEPT !.pc = "done"]
  BY DEF Calls
<1>9. /\ next.pc = "done" /\ next.call = p.call /\ next.len = p.len /\ next.t = t /\ next.sent = p.sent
      /\ next.failed = p.failed /\ next.disturbed = p.disturbed
  BY <1>3, <1>8 DEF Calls
<1>10. PICK r : r = IF p.call = "sendBufferEx" THEN Request(<<c, from>>, rest, t, TRUE, 3, NoExtension)
                    ELSE Defaults(c, from, rest, NoExtension)
  OBVIOUS
<1>11. /\ GoodRequest(r) /\ r.payloadlength = rest /\ r.extension = NoExtension
       /\ (p.call = "sendBufferEx" => r.mark) /\ (p.call # "sendBufferEx" /\ DefaultsSet => r.mark = pb.mark.value)
  <2>1. pb \in Members /\ GoodExtension(NoExtension)
    BY DEF BuiltInv, GoodExtension
  <2>2. CASE p.call = "sendBufferEx"
    <3>1. r = Request(<<c, from>>, rest, t, TRUE, 3, NoExtension)
      BY <1>10, <2>2
    <3>2. GoodRequest(r)
      BY <2>1, <3>1, RequestIsGood
    <3>3. r.payloadlength = rest /\ r.extension = NoExtension /\ r.mark
      BY <3>1 DEF Request
    <3> QED BY <2>2, <3>2, <3>3
  <2>3. CASE p.call # "sendBufferEx"
    <3>1. r = Defaults(c, from, rest, NoExtension)
      BY <1>10, <2>3
    <3> QED BY <2>1, <2>3, <3>1, DefaultsRequest
  <2> QED BY <2>2, <2>3
<1>12. Sends(c, from, r, next)
  BY <1>1, <1>3, <1>6, <1>7, <1>8, <1>10 DEF LastFragment
<1>13. BuiltInv' /\ Sending(c, from, r, next)
  <2>1. r.extension \in SenderExtensions
    BY <1>11 DEF SenderExtensions
  <2> QED BY <1>2, <1>11, <1>12, <2>1, SendsKeeps
<1>14. PICK q \in Calls, part \in Parts :
        /\ prog' = [prog EXCEPT ![c] = q]
        /\ part = [from |-> from, len |-> r.payloadlength, mark |-> r.mark, extension |-> r.extension]
        /\ q.pc = next.pc /\ q.call = next.call /\ q.len = next.len /\ q.t = next.t
        /\ q.disturbed = next.disturbed
        /\ ~q.failed => ~next.failed /\ created /\ q.sent = Append(next.sent, part)
  BY <1>13, Zenon DEF Sending
<1>15. q.pc = "done" /\ q.call = p.call /\ q.len = p.len /\ q.disturbed = p.disturbed
  BY <1>9, <1>14
<1>16. ~q.failed => Reassembled(q)
  <2> SUFFICES ASSUME ~q.failed PROVE Reassembled(q)
    OBVIOUS
  <2>1. ~p.failed /\ created /\ q.sent = Append(p.sent, part)
    BY <1>9, <1>14
  <2>2. SentSoFar(p)
    BY <1>5, <2>1 DEF InFragments
  <2>3. part.from = p.t * SEND_PACKETSIZE /\ part.len = p.len - part.from /\ part.mark = r.mark
    BY <1>3, <1>6, <1>7, <1>11, <1>14
  <2>4. ~p.disturbed => part.mark
    <3>1. DefaultsSet
      BY <2>1 DEF SenderInv
    <3>2. ~p.disturbed => pb.mark.value = (p.pc = "last")
      BY <1>1, <1>4, <2>1, MarkFound
    <3> QED BY <1>4, <1>11, <2>3, <3>1, <3>2
  <2>5. p.len > SEND_PACKETSIZE /\ p.t = FullFragments(p.len)
    BY <1>3, <1>5
  <2> QED BY <1>15, <2>1, <2>2, <2>3, <2>4, <2>5, FragmentsDone
<1>17. CallInv(q)
  BY <1>15, <1>16 DEF CallInv
<1>18. /\ q.pc = "done"
       /\ pb'.init = pb.init /\ pb'.mark = pb.mark /\ (DefaultsSet => DefaultsSet')
       /\ created' = created /\ mInited' = mInited
  BY <1>13, <1>15 DEF Sending
<1> QED BY <1>13, <1>14, <1>17, <1>18, OneCallKeeps

\* SetDefaultMark as the calls in fragments make it.
LEMMA MarkAllKeeps ==
  ASSUME BuiltInv, created = pb.init, NEW m \in BOOLEAN, MarkAll(m)
  PROVE  /\ BuiltInv' /\ pb'.init = pb.init /\ (created => pb'.mark = To(m)) /\ (DefaultsSet => DefaultsSet')
<1>1. CASE created
  <2>1. SetDefaultMark(m)
    BY <1>1 DEF MarkAll
  <2>2. BuiltInv'
    BY <2>1, SettersKeep
  <2>3. pb' = [pb EXCEPT !.mark = To(m)] /\ pb \in Members
    BY <2>1 DEF SetDefaultMark, Setter, Set, BuiltInv
  <2>4. pb'.init = pb.init /\ pb'.mark = To(m) /\ pb'.pt = pb.pt /\ pb'.tsinc = pb.tsinc
    BY <2>3 DEF Members
  <2> QED BY <2>2, <2>4 DEF DefaultsSet, To
<1>2. CASE ~created
  <2>1. pb' = pb /\ packet' = packet /\ clock' = clock /\ asked' = asked /\ log' = log
    BY <1>2 DEF MarkAll, builderVars
  <2> QED BY <1>2, <2>1 DEF BuiltInv, ReportInv, DefaultsSet
<1> QED BY <1>1, <1>2

\* A call in fragments is in the middle of them or at the last.
LEMMA FragmentingIs ==
  ASSUME prog \in [Caller -> Calls], NEW d \in Caller
  PROVE  Fragmenting(d) <=> prog[d].pc \in {"fragment", "last"}
BY DEF Fragmenting, Calls

\* The call that starts its fragments.
LEMMA Started ==
  ASSUME NEW call, NEW len, NEW b
  PROVE  [Idle EXCEPT !.pc = "fragment", !.call = call, !.len = len, !.disturbed = b]
           = [pc |-> "fragment", call |-> call, len |-> len, t |-> 0, sent |-> <<>>,
              failed |-> FALSE, disturbed |-> b]
<1>1. PICK no, s, z : no = FALSE /\ s = <<>> /\ z = 0
  OBVIOUS
<1>2. Idle = [pc |-> "idle", call |-> "none", len |-> z, t |-> z, sent |-> s,
         failed |-> no, disturbed |-> no]
  BY <1>1, Zenon DEF Idle
<1>3. PICK x : x = [Idle EXCEPT !.pc = "fragment", !.call = call, !.len = len]
  OBVIOUS
<1>4. x = [pc |-> "fragment", call |-> call, len |-> len, t |-> z, sent |-> s,
                              failed |-> no, disturbed |-> no]
  BY <1>2, <1>3
<1>5. [x EXCEPT !.disturbed = b] = [pc |-> "fragment", call |-> call, len |-> len, t |-> z, sent |-> s,
                              failed |-> no, disturbed |-> b]
  BY <1>4
<1>6. [Idle EXCEPT !.pc = "fragment", !.call = call, !.len = len, !.disturbed = b] = [x EXCEPT !.disturbed = b]
  BY <1>3
<1> QED BY <1>1, <1>5, <1>6, Zenon

\* Calls that start to be in fragments disturb the others.
LEMMA StartKeeps ==
  ASSUME BuiltInv, SenderInv, NEW c \in Caller, NEW call \in {"sendBufferEx1", "sendBufferEx"},
         NEW len \in Nat, StartFragments(c, call, len)
  PROVE  BuiltInv' /\ SenderInv'
<1> DEFINE others == \E e \in Caller : Fragmenting(e)
<1>1. prog \in [Caller -> Calls] /\ created = pb.init /\ mInited = pb.init /\ (pb.init => DefaultsSet)
      /\ (\A d \in Caller : CallInv(prog[d])) /\ MarkInv
  BY DEF SenderInv
<1>2. BuiltInv' /\ pb'.init = pb.init /\ (created => pb'.mark = To(FALSE)) /\ (DefaultsSet => DefaultsSet')
  <2>1. MarkAll(FALSE)
    BY DEF StartFragments
  <2> QED BY <1>1, <2>1, MarkAllKeeps
<1>3. prog[c].pc = "idle" /\ len > SEND_PACKETSIZE /\ created' = created /\ mInited' = mInited
  BY DEF StartFragments
<1>b. PICK b \in BOOLEAN : b = others
  OBVIOUS
<1> HIDE DEF others
<1>4. PICK q \in Calls : q = [pc |-> "fragment", call |-> call, len |-> len, t |-> 0, sent |-> <<>>,
                              failed |-> FALSE, disturbed |-> b]
  <2>1. <<>> \in Seq(Parts)
    OBVIOUS
  <2>2. [pc |-> "fragment", call |-> call, len |-> len, t |-> 0, sent |-> <<>>,
         failed |-> FALSE, disturbed |-> b] \in Calls
    BY <2>1 DEF Calls
  <2> QED BY <2>2
<1>5. prog' = [d \in Caller |-> IF d = c THEN q
                                ELSE [prog[d] EXCEPT !.disturbed = @ \/ Fragmenting(d)]]
  <2>1. q = [Idle EXCEPT !.pc = "fragment", !.call = call, !.len = len, !.disturbed = b]
    BY <1>4, Started
  <2>2. q = [Idle EXCEPT !.pc = "fragment", !.call = call, !.len = len, !.disturbed = others]
    BY <1>b, <2>1
  <2>3. prog' = [d \in Caller |-> IF d = c THEN [Idle EXCEPT !.pc = "fragment", !.call = call, !.len = len, !.disturbed = others]
                                ELSE [prog[d] EXCEPT !.disturbed = @ \/ Fragmenting(d)]]
    BY DEF StartFragments, others
  <2> QED BY <2>2, <2>3, Zenon
<1>6. CallInv(q)
  <2>1. Len(<<>>) = 0 /\ 1..0 = {} /\ 0 <= FullFragments(len)
    BY <1>3, Divided
  <2>2. SentSoFar(q)
    BY <1>4, <2>1 DEF SentSoFar
  <2> QED BY <1>3, <1>4, <2>1, <2>2 DEF CallInv, InFragments
<1>7. ASSUME NEW d \in Caller, d # c
      PROVE  /\ prog'[d] \in Calls /\ CallInv(prog'[d]) /\ prog'[d].pc = prog[d].pc
             /\ Fragmenting(d) => prog'[d].disturbed
  <2>1. PICK p \in Calls : p = prog[d] /\ CallInv(p)
    BY <1>1
  <2>2. PICK x \in BOOLEAN : x = (p.disturbed \/ Fragmenting(d))
    OBVIOUS
  <2>3. p.disturbed => x
    BY <2>2
  <2>4. prog'[d] = [p EXCEPT !.disturbed = x]
    <3> HIDE DEF Fragmenting
    <3> QED BY <1>5, <1>7, <2>1, <2>2
  <2>5. [p EXCEPT !.disturbed = x] \in Calls /\ CallInv([p EXCEPT !.disturbed = x])
    BY <2>1, <2>3, DisturbedKeeps
  <2>6. [p EXCEPT !.disturbed = x].pc = p.pc /\ [p EXCEPT !.disturbed = x].disturbed = x
    BY DEF Calls
  <2> QED BY <2>1, <2>2, <2>4, <2>5, <2>6
<1>8. prog'[c] = q /\ DOMAIN prog' = Caller
  BY <1>5
<1>9. prog' \in [Caller -> Calls]
  <2>1. \A d \in Caller : prog'[d] \in Calls
    BY <1>7, <1>8
  <2> QED BY <1>5, <2>1, Zenon
<1>10. \A d \in Caller : CallInv(prog'[d])
  BY <1>6, <1>7, <1>8
<1>11. MarkInv'
  <2>1. ASSUME NEW d \in Caller, Fragmenting(d)'
        PROVE  /\ ~prog'[d].disturbed /\ created => pb'.mark = To(prog'[d].pc = "last")
               /\ \A e \in Caller \ {d} : Fragmenting(e)' => prog'[d].disturbed
    <3>1. CASE d = c
      <4>1. q.pc = "fragment" /\ q.disturbed = others
        BY <1>4, <1>b
      <4>2. pb'.mark = To(FALSE) \/ ~created
        BY <1>2
      <4>3. (prog'[d].pc = "last") = FALSE
        BY <1>8, <3>1, <4>1
      <4>4. ASSUME NEW e \in Caller \ {d}, Fragmenting(e)' PROVE prog'[d].disturbed
        <5>1. prog'[e].pc = prog[e].pc
          BY <1>7, <3>1
        <5>2. Fragmenting(e)
          BY <4>4, <5>1 DEF Fragmenting
        <5>3. others
          BY <5>2 DEF others
        <5> QED BY <1>8, <3>1, <4>1, <5>3
      <4> QED BY <4>2, <4>3, <4>4
    <3>2. CASE d # c
      <4>1. Fragmenting(d)
        BY <1>7, <2>1, <3>2 DEF Fragmenting
      <4>2. prog'[d].disturbed
        BY <1>7, <3>2, <4>1
      <4> QED BY <4>2
    <3> QED BY <3>1, <3>2
  <2>2. \A d \in Caller : Fragmenting(d)' =>
            /\ ~prog'[d].disturbed /\ created' => pb'.mark = To(prog'[d].pc = "last")
            /\ \A e \in Caller \ {d} : Fragmenting(e)' => prog'[d].disturbed
    BY <1>3, <2>1
  <2> QED BY <2>2 DEF MarkInv
<1> QED BY <1>1, <1>2, <1>3, <1>9, <1>10, <1>11 DEF SenderInv

\* A call comes to its last fragment.
LEMMA MarkLastKeeps ==
  ASSUME BuiltInv, SenderInv, NEW c \in Caller, MarkLast(c)
  PROVE  BuiltInv' /\ SenderInv'
<1>1. prog \in [Caller -> Calls] /\ created = pb.init /\ mInited = pb.init /\ (pb.init => DefaultsSet)
      /\ (\A d \in Caller : CallInv(prog[d])) /\ MarkInv
  BY DEF SenderInv
<1>2. BuiltInv' /\ pb'.init = pb.init /\ (created => pb'.mark = To(TRUE)) /\ (DefaultsSet => DefaultsSet')
  <2>1. MarkAll(TRUE)
    BY DEF MarkLast
  <2> QED BY <1>1, <2>1, MarkAllKeeps
<1>3. PICK p \in Calls : p = prog[c] /\ CallInv(p)
  BY <1>1
<1>4. /\ p.pc = "fragment" /\ p.t = FullFragments(p.len) /\ created' = created /\ mInited' = mInited
      /\ prog' = [prog EXCEPT ![c].pc = "last"]
  BY <1>3 DEF MarkLast
<1>q. PICK q \in Calls : q = [p EXCEPT !.pc = "last"]
  BY DEF Calls
<1>5. /\ q.pc = "last" /\ q.t = p.t /\ q.len = p.len
      /\ q.call = p.call /\ q.failed = p.failed /\ q.sent = p.sent
      /\ q.disturbed = p.disturbed
  BY <1>q DEF Calls
<1>6. prog' \in [Caller -> Calls] /\ prog'[c] = q /\ \A d \in Caller \ {c} : prog'[d] = prog[d]
  <2>1. prog' = [prog EXCEPT ![c] = q]
    BY <1>1, <1>3, <1>4, <1>q
  <2> QED BY <1>1, <2>1
<1>7. CallInv(q)
  <2>1. InFragments(p)
    BY <1>3, <1>4 DEF CallInv
  <2>2. SentSoFar(p) => SentSoFar(q)
    BY <1>5 DEF SentSoFar
  <2>3. InFragments(q)
    BY <1>4, <1>5, <2>1, <2>2 DEF InFragments
  <2> QED BY <1>5, <2>3 DEF CallInv
<1>8. \A d \in Caller : CallInv(prog'[d])
  BY <1>1, <1>6, <1>7
<1>9. \A d \in Caller : /\ Fragmenting(d)' <=> Fragmenting(d)
                        /\ prog'[d].disturbed = prog[d].disturbed
                        /\ d # c => prog'[d].pc = prog[d].pc
  BY <1>3, <1>4, <1>5, <1>6 DEF Fragmenting
<1>10. Fragmenting(c)
  BY <1>3, <1>4 DEF Fragmenting
<1>11. MarkInv'
  <2>1. ASSUME NEW d \in Caller, Fragmenting(d), ~prog[d].disturbed, created
        PROVE  pb'.mark = To(prog'[d].pc = "last")
    <3>1. d = c
      BY <1>1, <1>10, <2>1 DEF MarkInv
    <3>2. (prog'[d].pc = "last") = TRUE
      BY <1>5, <1>6, <3>1
    <3> QED BY <1>2, <2>1, <3>2
  <2>2. \A d \in Caller : \A e \in Caller \ {d} : Fragmenting(d) /\ Fragmenting(e) => prog[d].disturbed
    BY <1>1 DEF MarkInv
  <2>3. \A d \in Caller : Fragmenting(d)' =>
            /\ ~prog'[d].disturbed /\ created' => pb'.mark = To(prog'[d].pc = "last")
            /\ \A e \in Caller \ {d} : Fragmenting(e)' => prog'[d].disturbed
    <3> SUFFICES ASSUME NEW d \in Caller, Fragmenting(d)'
                 PROVE  /\ ~prog'[d].disturbed /\ created' => pb'.mark = To(prog'[d].pc = "last")
                        /\ \A e \in Caller \ {d} : Fragmenting(e)' => prog'[d].disturbed
      OBVIOUS
    <3> QED BY <1>4, <1>9, <2>1, <2>2
  <2> QED BY <2>3 DEF MarkInv
<1> QED BY <1>1, <1>2, <1>4, <1>6, <1>8, <1>11 DEF SenderInv

\* A session begins: what was in fragments is disturbed.
LEMMA InitSessionKeeps ==
  ASSUME BuiltInv, SenderInv, NEW ts \in Nat, NEW seq \in Nat, initSession(ts, seq)
  PROVE  BuiltInv' /\ SenderInv'
<1>1. prog \in [Caller -> Calls] /\ (\A d \in Caller : CallInv(prog[d])) /\ pb \in Members /\ MarkInv
  BY DEF SenderInv, BuiltInv
<1>2. PICK n \in Members : n = WithNewSSRC(pb, ts, seq) /\ n.numpackets = 0 /\ n.numpayloadbytes = 0
  BY <1>1, NewSSRCMembers
<1>3. PICK b : b = [n EXCEPT !.init = TRUE, !.maxpacksize = MAX_PACKET_SIZE,
                             !.pt = To(96), !.mark = To(TRUE), !.tsinc = To(1), !.csrcs = <<>>]
  OBVIOUS
<1>4. PICK pt \in Maybe(Nat), mark \in Maybe(BOOLEAN), inc \in Maybe(Nat) :
        pt = To(96) /\ mark = To(TRUE) /\ inc = To(1) /\ pt.set /\ mark.set /\ inc.set
  <2>1. \A S : \A v \in S : To(v) \in Maybe(S) /\ To(v).set
    BY DEF Maybe, To
  <2>2. 96 \in Nat /\ 1 \in Nat /\ TRUE \in BOOLEAN
    OBVIOUS
  <2>3. /\ To(96) \in Maybe(Nat) /\ To(TRUE) \in Maybe(BOOLEAN) /\ To(1) \in Maybe(Nat)
        /\ To(96).set /\ To(TRUE).set /\ To(1).set
    BY <2>1, <2>2
  <2> QED BY <2>3
<1>5. b = [n EXCEPT !.init = TRUE, !.maxpacksize = 65535,
                    !.pt = pt, !.mark = mark, !.tsinc = inc, !.csrcs = <<>>]
  BY <1>3, <1>4 DEF MAX_PACKET_SIZE
<1>6. b \in Members
  <2>1. <<>> \in Seq(CSRC)
    OBVIOUS
  <2>2. \A m \in Members : \A x \in Nat : [m EXCEPT !.maxpacksize = x] \in Members
    BY DEF Members
  <2>3. \A m \in Members : \A x \in Maybe(Nat) : [m EXCEPT !.pt = x] \in Members
    BY DEF Members
  <2>4. \A m \in Members : \A x \in Maybe(BOOLEAN) : [m EXCEPT !.mark = x] \in Members
    BY DEF Members
  <2>5. \A m \in Members : \A x \in Maybe(Nat) : [m EXCEPT !.tsinc = x] \in Members
    BY DEF Members
  <2>6. \A m \in Members : \A x \in Seq(CSRC) : [m EXCEPT !.csrcs = x] \in Members
    BY DEF Members
  <2>7. PICK n1 \in Members : n1 = [n EXCEPT !.init = TRUE, !.maxpacksize = 65535]
    <3>1. PICK n0 \in Members : n0 = [n EXCEPT !.init = TRUE]
      BY DEF Members
    <3>2. 65535 \in Nat
      OBVIOUS
    <3>3. [n0 EXCEPT !.maxpacksize = 65535] \in Members
      BY <2>2, <3>2
    <3>4. [n EXCEPT !.init = TRUE, !.maxpacksize = 65535] = [n0 EXCEPT !.maxpacksize = 65535]
      BY <3>1
    <3> QED BY <3>3, <3>4
  <2>8. PICK n2 \in Members : n2 = [n1 EXCEPT !.pt = pt]
    BY <2>3
  <2>9. PICK n3 \in Members : n3 = [n2 EXCEPT !.mark = mark]
    BY <2>4
  <2>10. PICK n4 \in Members : n4 = [n3 EXCEPT !.tsinc = inc]
    BY <2>5
  <2>11. PICK n5 \in Members : n5 = [n4 EXCEPT !.csrcs = <<>>]
    BY <2>1, <2>6
  <2>12. b = n5
    BY <1>5, <2>7, <2>8, <2>9, <2>10, <2>11
  <2> QED BY <2>12
<1>7. b.numpackets = 0 /\ b.numpayloadbytes = 0 /\ b.init = TRUE /\ b.pt = pt /\ b.mark = mark /\ b.tsinc = inc
  BY <1>2, <1>5 DEF Members
<1>8. /\ pb' = b /\ log' = <<>> /\ clock' = clock /\ packet' = Nothing /\ asked' = Nothing
      /\ created' = TRUE /\ mInited' = TRUE
      /\ prog' = [c \in Caller |-> [prog[c] EXCEPT !.disturbed = @ \/ Fragmenting(c)]]
  BY <1>2, <1>3 DEF initSession
<1>9. BuiltInv'
  BY <1>6, <1>7, <1>8, NewSSRCKeeps
<1>10. ASSUME NEW d \in Caller
       PROVE  /\ prog'[d] \in Calls /\ CallInv(prog'[d]) /\ prog'[d].pc = prog[d].pc
              /\ Fragmenting(d) => prog'[d].disturbed
  <2>1. PICK p \in Calls : p = prog[d] /\ CallInv(p)
    BY <1>1
  <2>2. PICK y \in BOOLEAN : y = (p.disturbed \/ Fragmenting(d))
    OBVIOUS
  <2>3. p.disturbed => y
    BY <2>2
  <2>4. prog'[d] = [p EXCEPT !.disturbed = y]
    <3> HIDE DEF Fragmenting
    <3> QED BY <1>8, <2>1, <2>2
  <2>5. [p EXCEPT !.disturbed = y] \in Calls /\ CallInv([p EXCEPT !.disturbed = y])
    BY <2>1, <2>3, DisturbedKeeps
  <2>6. [p EXCEPT !.disturbed = y].pc = p.pc /\ [p EXCEPT !.disturbed = y].disturbed = y
    BY DEF Calls
  <2> QED BY <2>1, <2>2, <2>4, <2>5, <2>6
<1>11. prog' \in [Caller -> Calls]
  BY <1>8, <1>10
<1>12. MarkInv'
  <2>1. \A d \in Caller : Fragmenting(d)' => prog'[d].disturbed
    BY <1>10 DEF Fragmenting
  <2> QED BY <2>1 DEF MarkInv
<1>13. created' = pb'.init /\ mInited' = pb'.init /\ DefaultsSet'
  BY <1>4, <1>7, <1>8 DEF DefaultsSet
<1> QED BY <1>9, <1>10, <1>11, <1>12, <1>13 DEF SenderInv

\* A session ends.
LEMMA DeinitSessionKeeps ==
  ASSUME BuiltInv, SenderInv, deinitSession
  PROVE  BuiltInv' /\ SenderInv'
<1>1. /\ pb' = [pb EXCEPT !.init = FALSE] /\ packet' = Nothing /\ clock' = clock /\ log' = log
      /\ created' = FALSE /\ mInited' = FALSE /\ prog' = prog
  BY DEF deinitSession, DestroyBuilder
<1>2. pb \in Members
  BY DEF BuiltInv
<1>3. /\ pb' \in Members /\ pb'.init = FALSE
      /\ pb'.numpackets = pb.numpackets /\ pb'.numpayloadbytes = pb.numpayloadbytes
      /\ pb'.prevrtptimestamp = pb.prevrtptimestamp /\ pb'.lastrtptimestamp = pb.lastrtptimestamp
      /\ pb'.lastwallclocktime = pb.lastwallclocktime
  BY <1>1, <1>2 DEF Members
<1>4. ReportInv'
  BY <1>1, <1>3, ReportKept DEF BuiltInv
<1>5. BuiltInv'
  BY <1>1, <1>3, <1>4 DEF BuiltInv
<1>6. MarkInv'
  <2>1. \A d \in Caller : Fragmenting(d)' <=> Fragmenting(d)
    BY <1>1 DEF Fragmenting
  <2> QED BY <1>1, <2>1 DEF SenderInv, MarkInv
<1> QED BY <1>1, <1>3, <1>5, <1>6 DEF SenderInv

\* Steps that touch neither the calls nor the default marker.
LEMMA OthersKeep ==
  ASSUME SenderInv, pb'.init = pb.init, pb'.mark = pb.mark, DefaultsSet => DefaultsSet',
         created' = created, mInited' = mInited, prog' = prog
  PROVE  SenderInv'
<1>1. \A d \in Caller : Fragmenting(d)' <=> Fragmenting(d)
  BY DEF Fragmenting
<1>2. MarkInv'
  BY <1>1 DEF SenderInv, MarkInv
<1> QED BY <1>2 DEF SenderInv

\* A new SSRC after a collision.
LEMMA CollisionKeeps ==
  ASSUME BuiltInv, SenderInv, NEW ts \in Nat, Collision(ts, 0)
  PROVE  BuiltInv' /\ SenderInv'
<1>1. pb \in Members
  BY DEF BuiltInv
<1>2. PICK b \in Members : b = WithNewSSRC(pb, ts, 0) /\ b.numpackets = 0 /\ b.numpayloadbytes = 0
  BY <1>1, NewSSRCMembers
<1>3. /\ pb' = b /\ log' = <<>> /\ UNCHANGED <<packet, clock, asked>>
      /\ created' = created /\ mInited' = mInited /\ prog' = prog
  BY <1>2 DEF Collision, CreateNewSSRC, senderVars
<1>4. BuiltInv'
  BY <1>2, <1>3, NewSSRCKeeps
<1>5. b.init = pb.init /\ b.mark = pb.mark /\ b.pt = pb.pt /\ b.tsinc = pb.tsinc
  BY <1>1, <1>2 DEF WithNewSSRC, Members
<1>6. DefaultsSet => DefaultsSet'
  BY <1>3, <1>5 DEF DefaultsSet
<1> QED BY <1>3, <1>4, <1>5, <1>6, OthersKeep

\* A call that returns.
LEMMA ReturnKeeps ==
  ASSUME BuiltInv, SenderInv, NEW c \in Caller, Return(c)
  PROVE  BuiltInv' /\ SenderInv'
<1>1. /\ prog' = [prog EXCEPT ![c] = Idle] /\ created' = created /\ mInited' = mInited
      /\ pb' = pb /\ packet' = packet /\ clock' = clock /\ asked' = asked /\ log' = log
  BY DEF Return, builderVars
<1>2. BuiltInv'
  BY <1>1 DEF BuiltInv, ReportInv
<1>3. PICK q \in Calls : q = Idle /\ q.pc = "idle"
  <2>1. <<>> \in Seq(Parts)
    OBVIOUS
  <2>2. Idle \in Calls
    BY <2>1 DEF Idle, Calls
  <2>3. Idle.pc = "idle"
    BY DEF Idle
  <2> QED BY <2>2, <2>3
<1>4. CallInv(q)
  BY <1>3 DEF CallInv
<1>5. DefaultsSet => DefaultsSet'
  BY <1>1 DEF DefaultsSet
<1> QED BY <1>1, <1>2, <1>3, <1>4, <1>5, OneCallKeeps

\* The calls that send one packet.
LEMMA CallsKeep ==
  ASSUME BuiltInv, SenderInv, NEW c \in Caller, NEW len \in Nat,
         sendBuffer(c, len) \/ sendBufferAt(c, len, 1) \/ sendBufferEx1(c, len) \/ sendBufferEx(c, len, 1)
  PROVE  BuiltInv' /\ SenderInv'
<1>1. pb \in Members
  BY DEF BuiltInv
<1>2. NoExtension \in SenderExtensions /\ MimeH264 \in SenderExtensions
  BY DEF SenderExtensions
<1>3. GoodExtension(NoExtension) /\ GoodExtension(MimeH264)
  BY <1>2, SenderExtensionsAreGood
<1>4. CASE sendBuffer(c, len)
  <2>1. PICK r : r = Defaults(c, 0, len, MimeH264)
    OBVIOUS
  <2>2. GoodRequest(r) /\ r.payloadlength = len /\ r.extension = MimeH264
    BY <1>1, <1>3, <2>1, DefaultsRequest
  <2>3. Sends(c, 0, r, Done("sendBuffer", len))
    BY <1>4, <2>1 DEF sendBuffer
  <2>4. r.payloadlength = len + (IF "sendBuffer" = "sendBufferEx1" /\ len <= SEND_PACKETSIZE THEN 1 ELSE 0)
    BY <2>2
  <2> QED BY <1>2, <2>2, <2>3, <2>4, SingleKeeps
<1>5. CASE sendBufferAt(c, len, 1)
  <2>1. PICK r : r = Request(<<c, 0>>, len, 0, FALSE, 1, NoExtension)
    OBVIOUS
  <2>2. GoodRequest(r)
    BY <1>3, <2>1, RequestIsGood
  <2>3. Sends(c, 0, r, Done("sendBufferAt", len))
    BY <1>5, <2>1 DEF sendBufferAt
  <2>4. r.extension = NoExtension
        /\ r.payloadlength = len + (IF "sendBufferAt" = "sendBufferEx1" /\ len <= SEND_PACKETSIZE THEN 1 ELSE 0)
    BY <2>1 DEF Request
  <2> QED BY <1>2, <2>2, <2>3, <2>4, SingleKeeps
<1>6. CASE sendBufferEx1(c, len)
  <2>1. CASE StartFragments(c, "sendBufferEx1", len)
    BY <2>1, StartKeeps
  <2>2. CASE len <= SEND_PACKETSIZE /\ Sends(c, 0, Defaults(c, 0, len + 1, NoExtension), Done("sendBufferEx1", len))
    <3>1. PICK more \in Nat : more = len + 1
      OBVIOUS
    <3>2. PICK r : r = Defaults(c, 0, more, NoExtension)
      OBVIOUS
    <3>3. GoodRequest(r) /\ r.payloadlength = more /\ r.extension = NoExtension
      BY <1>1, <1>3, <3>2, DefaultsRequest
    <3>4. Sends(c, 0, r, Done("sendBufferEx1", len))
      BY <2>2, <3>1, <3>2
    <3>5. r.payloadlength = len + (IF "sendBufferEx1" = "sendBufferEx1" /\ len <= SEND_PACKETSIZE THEN 1 ELSE 0)
      BY <2>2, <3>1, <3>3
    <3> QED BY <1>2, <3>3, <3>4, <3>5, SingleKeeps
  <2> QED BY <1>6, <2>1, <2>2 DEF sendBufferEx1
<1>7. CASE sendBufferEx(c, len, 1)
  <2>1. CASE StartFragments(c, "sendBufferEx", len)
    BY <2>1, StartKeeps
  <2>2. CASE Sends(c, 0, Request(<<c, 0>>, len, 0, FALSE, 1, NoExtension), Done("sendBufferEx", len))
    <3>1. PICK r : r = Request(<<c, 0>>, len, 0, FALSE, 1, NoExtension)
      OBVIOUS
    <3>2. GoodRequest(r)
      BY <1>3, <3>1, RequestIsGood
    <3>3. Sends(c, 0, r, Done("sendBufferEx", len))
      BY <2>2, <3>1
    <3>4. r.extension = NoExtension
          /\ r.payloadlength = len + (IF "sendBufferEx" = "sendBufferEx1" /\ len <= SEND_PACKETSIZE THEN 1 ELSE 0)
      BY <3>1 DEF Request
    <3> QED BY <1>2, <3>2, <3>3, <3>4, SingleKeeps
  <2> QED BY <1>7, <2>1, <2>2 DEF sendBufferEx
<1> QED BY <1>4, <1>5, <1>6, <1>7

\* Every step of the sender.
LEMMA SenderKeeps ==
  ASSUME BuiltInv, SenderInv, SenderNext
  PROVE  BuiltInv' /\ SenderInv'
<1>1. TsWidth - 1 \in Nat /\ SeqWidth - 1 \in Nat /\ 0 \in Nat
  BY BuilderAssumption DEF BuilderAssumption
<1>2. CASE initSession(0, SeqWidth - 1)
  BY <1>1, <1>2, InitSessionKeeps
<1>3. CASE deinitSession
  BY <1>3, DeinitSessionKeeps
<1>4. CASE disConnect \/ \E d \in Dest : connect(d)
  <2>1. /\ pb' = pb /\ packet' = packet /\ clock' = clock /\ asked' = asked /\ log' = log
        /\ created' = created /\ mInited' = mInited /\ prog' = prog
    BY <1>4 DEF disConnect, connect, builderVars
  <2>2. BuiltInv' /\ (DefaultsSet => DefaultsSet')
    BY <2>1 DEF BuiltInv, ReportInv, DefaultsSet
  <2> QED BY <2>1, <2>2, OthersKeep
<1>5. CASE Collision(TsWidth - 1, 0)
  BY <1>1, <1>5, CollisionKeeps
<1>6. ASSUME NEW c \in Caller,
             \/ \E len \in Lengths : sendBuffer(c, len) \/ sendBufferAt(c, len, 1)
             \/ \E len \in Frames : sendBufferEx1(c, len) \/ sendBufferEx(c, len, 1)
             \/ Fragment(c) \/ MarkLast(c) \/ LastFragment(c) \/ Return(c)
      PROVE  BuiltInv' /\ SenderInv'
  <2>1. Lengths \subseteq Nat /\ Frames \subseteq Nat
    BY SenderAssumption DEF SenderAssumption
  <2>2. CASE \/ \E len \in Lengths : sendBuffer(c, len) \/ sendBufferAt(c, len, 1)
             \/ \E len \in Frames : sendBufferEx1(c, len) \/ sendBufferEx(c, len, 1)
    BY <2>1, <2>2, CallsKeep
  <2>3. CASE Fragment(c) \/ MarkLast(c) \/ LastFragment(c) \/ Return(c)
    BY <2>3, FragmentKeeps, MarkLastKeeps, LastFragmentKeeps, ReturnKeeps
  <2> QED BY <1>6, <2>2, <2>3
<1> QED BY <1>2, <1>3, <1>4, <1>5, <1>6 DEF SenderNext

-----------------------------------------------------------------------------
(* The three places                                                        *)

PacketsInv ==
  /\ BuiltInv
  /\ place = "sender" => SenderInv
  /\ place # "sender" => prog = [c \in Caller |-> Idle]

\* The invariant of the three places holds at first
LEMMA PacketsStart == PacketsInit => PacketsInv
<1> SUFFICES ASSUME PacketsInit PROVE PacketsInv
  OBVIOUS
<1>1. /\ pb = Uninitialised /\ packet = Nothing /\ clock = 0 /\ log = <<>>
      /\ created = FALSE /\ mInited = FALSE /\ prog = [c \in Caller |-> Idle]
  BY DEF PacketsInit, SenderInit, BuilderInit
<1>2. <<>> \in Seq(CSRC) /\ <<>> \in Seq(Entries) /\ <<>> \in Seq(Parts) /\ Len(<<>>) = 0
  OBVIOUS
<1>3. \A S : Unset \in Maybe(S)
  BY DEF Maybe
<1>4. pb \in Members
  BY <1>1, <1>2, <1>3 DEF Uninitialised, Members
<1>5. pb.numpackets = 0 /\ pb.numpayloadbytes = 0 /\ pb.init = FALSE
  BY <1>1 DEF Uninitialised
<1>6. BuiltInv
  BY <1>1, <1>2, <1>4, <1>5, OctetsNone DEF BuiltInv, ReportInv
<1>7. Idle \in Calls /\ Idle.pc = "idle"
  <2>1. Idle.pc = "idle"
    BY DEF Idle
  <2> QED BY <1>2, <2>1 DEF Idle, Calls
<1>8. \A c \in Caller : prog[c] = Idle
  BY <1>1
<1>9. CallInv(Idle)
  BY <1>7 DEF CallInv
<1>10. \A c \in Caller : ~Fragmenting(c)
  BY <1>7, <1>8 DEF Fragmenting
<1>11. SenderInv
  BY <1>1, <1>5, <1>7, <1>8, <1>9, <1>10 DEF SenderInv, MarkInv
<1> QED BY <1>1, <1>6, <1>11 DEF PacketsInv

\* and is kept by every step.
LEMMA PacketsStep == PacketsInv /\ [PacketsNext]_<<vars, builderVars, senderVars, place>> => PacketsInv'
<1> SUFFICES ASSUME PacketsInv, [PacketsNext]_<<vars, builderVars, senderVars, place>> PROVE PacketsInv'
  OBVIOUS
<1>1. ASSUME UNCHANGED builderVars PROVE BuiltInv'
  BY <1>1 DEF PacketsInv, builderVars, BuiltInv, ReportInv
<1>2. ASSUME UNCHANGED builderVars, UNCHANGED senderVars, UNCHANGED place PROVE PacketsInv'
  <2>1. pb' = pb /\ prog' = prog /\ created' = created /\ mInited' = mInited /\ place' = place
    BY <1>2 DEF builderVars, senderVars
  <2>2. place = "sender" => SenderInv'
    BY <2>1, OthersKeep DEF PacketsInv, DefaultsSet
  <2> QED BY <1>1, <1>2, <2>1, <2>2 DEF PacketsInv
<1>3. CASE place = "receiver" /\ Next /\ UNCHANGED <<builderVars, senderVars>> /\ UNCHANGED place
  BY <1>2, <1>3
<1>4. CASE place = "builder" /\ UNCHANGED <<vars, senderVars>> /\ BuilderNext /\ UNCHANGED place
  <2>1. BuiltInv'
    BY <1>4, BuilderKeeps DEF PacketsInv
  <2>2. prog' = prog /\ place' = place /\ place # "sender"
    BY <1>4 DEF senderVars
  <2> QED BY <2>1, <2>2 DEF PacketsInv
<1>5. CASE place = "sender" /\ UNCHANGED vars /\ SenderNext /\ UNCHANGED place
  BY <1>5, SenderKeeps DEF PacketsInv
<1>6. CASE UNCHANGED <<vars, builderVars, senderVars, place>>
  BY <1>2, <1>6
<1> QED BY <1>3, <1>4, <1>5, <1>6 DEF PacketsNext

\* The invariant of the three places, from which the properties follow.
THEOREM PacketsInvariance == PacketsSpec => []PacketsInv
  BY PacketsStart, PacketsStep, PTL DEF PacketsSpec

\* A packet is read at the other end as what was asked for.
THEOREM SentReadsBackCorrect == PacketsSpec => []SentReadsBack
<1>1. PacketsInv => SentReadsBack
  BY ReadsBack DEF PacketsInv, BuiltInv, SentReadsBack
<1> QED BY <1>1, PacketsInvariance, PTL

\* The sender reports count the packets of the present SSRC and date their
\* timestamp with the first packet that carried it.
THEOREM ReportedTimeCorrect == PacketsSpec => []ReportedTimeFits
<1>1. PacketsInv => ReportedTimeFits
  BY DEF PacketsInv, BuiltInv, ReportInv, ReportedTimeFits
<1> QED BY <1>1, PacketsInvariance, PTL

\* The fragments of a frame are the frame, whatever its length, and marked as
\* they should be unless another call or session came in between.
THEOREM FramesReassembleCorrect == PacketsSpec => []FramesReassemble
<1>1. PacketsInv => FramesReassemble
  <2> SUFFICES ASSUME PacketsInv PROVE FramesReassemble
    OBVIOUS
  <2>1. ASSUME NEW c \in Caller, prog[c].pc = "done", ~prog[c].failed PROVE Reassembled(prog[c])
    <3>1. place = "sender"
      <4>1. Idle.pc = "idle"
        BY DEF Idle
      <4> QED BY <2>1, <4>1 DEF PacketsInv
    <3> QED BY <2>1, <3>1 DEF PacketsInv, SenderInv, CallInv
  <2> QED BY <2>1, Zenon DEF FramesReassemble, Reassembled
<1> QED BY <1>1, PacketsInvariance, PTL

\* Where packets are put in order, the numbers of a source are those of
\* RTPSourceStats.
THEOREM ReceiverCorrect == PacketsSpec => [](ListSorted /\ HighestNotUnderstated /\ ExactUntilLateWrap)
<1>1. PacketsInit => Init
  BY DEF PacketsInit
<1>2. [PacketsNext]_<<vars, builderVars, senderVars, place>> => [Next]_vars
  BY DEF PacketsNext
<1>3. PacketsSpec => Spec
  BY <1>1, <1>2, PTL DEF PacketsSpec, Spec
<1> QED BY <1>3, ListSortedCorrect, HighestCorrect, ExactCorrect, PTL
=============================================================================
