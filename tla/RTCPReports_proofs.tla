------------------------- MODULE RTCPReports_proofs -------------------------
(***************************************************************************)
(* Proofs about the RTCP packets of a session: that every compound packet  *)
(* takes the bytes allocated for it and can be parsed again, that a round  *)
(* of report blocks and items always gets a step further, that a block is  *)
(* only written for an interval with packets in it, and that reports keep  *)
(* their distance.                                                         *)
(***************************************************************************)
EXTENDS RTCPReports, Lists_proofs, FiniteSetTheorems

-----------------------------------------------------------------------------
(* Arithmetic                                                              *)

\* Products grow with their factors.
LEMMA Products ==
  ASSUME NEW a \in Nat, NEW b \in Nat, NEW m \in Nat, a <= b
  PROVE  a * m \in Nat /\ b * m \in Nat /\ a * m <= b * m
OBVIOUS

\* A padded size is a multiple of the word and less than a word larger.
LEMMA AlignedSize ==
  ASSUME NEW n \in Nat
  PROVE  /\ Aligned(n) \in Nat /\ Aligned(n) % Word = 0
         /\ n <= Aligned(n) /\ Aligned(n) < n + Word
BY DEF Aligned, Word

\* The larger size is not smaller when padded.
LEMMA AlignedMonotone ==
  ASSUME NEW m \in Nat, NEW n \in Nat, m <= n
  PROVE  Aligned(m) <= Aligned(n)
BY DEF Aligned, Word

\* So many packets hold n entries, and one packet less does not.
LEMMA PacketsForBounds ==
  ASSUME NEW n \in Nat, n > 0
  PROVE  /\ PacketsFor(n) \in Nat /\ PacketsFor(n) >= 1
         /\ n <= PacketsFor(n) * MaxCount /\ (PacketsFor(n) - 1) * MaxCount < n
<1>1. MaxCount \in Nat /\ MaxCount > 0
  BY SizeAssumption
<1>2. PICK m \in Nat, q \in Nat, r \in Nat :
        m = MaxCount /\ q = n \div m /\ r = n % m /\ n = (q * m) + r /\ r < m
  BY <1>1, Division
<1>3. CASE r = 0
  <2>1. PacketsFor(n) = q
    BY <1>2, <1>3 DEF PacketsFor
  <2>2. q # 0
    BY <1>2, <1>3
  <2>3. (q - 1) * m = (q * m) - m
    BY <1>2
  <2> QED BY <1>1, <1>2, <1>3, <2>1, <2>2, <2>3
<1>4. CASE r # 0
  <2>1. PacketsFor(n) = q + 1
    BY <1>2, <1>4 DEF PacketsFor
  <2>2. (q + 1) * m = (q * m) + m
    BY <1>2
  <2> QED BY <1>1, <1>2, <1>4, <2>1, <2>2
<1> QED BY <1>3, <1>4

\* More entries do not take fewer packets.
LEMMA PacketsForMonotone ==
  ASSUME NEW m \in Nat, NEW n \in Nat, m > 0, m <= n
  PROVE  PacketsFor(m) <= PacketsFor(n)
<1>1. PICK c \in Nat, p \in Nat, q \in Nat :
        c = MaxCount /\ p = PacketsFor(m) /\ q = PacketsFor(n)
  <2>1. n > 0 /\ MaxCount \in Nat
    BY SizeAssumption
  <2> QED BY <2>1, PacketsForBounds
<1>2. p >= 1 /\ (p - 1) * c < m /\ n <= q * c
  BY <1>1, PacketsForBounds
<1>3. ASSUME q <= p - 1 PROVE FALSE
  <2>1. q * c <= (p - 1) * c
    <3>1. p - 1 \in Nat
      BY <1>2
    <3> QED BY <1>3, <3>1, Products
  <2>2. (p - 1) * c \in Nat /\ q * c \in Nat
    BY <1>2
  <2> QED BY <1>2, <2>1, <2>2
<1> QED BY <1>1, <1>3

\* One entry takes one packet.
LEMMA OnePacket == PacketsFor(1) = 1
<1>1. PICK c \in Nat, p \in Nat : c = MaxCount /\ c > 0 /\ p = PacketsFor(1)
  <2>1. /\ MaxCount \in Nat /\ MaxCount > 0
        /\ 1 \in Nat /\ 1 > 0
    BY SizeAssumption
  <2>2. PacketsFor(1) \in Nat
    BY <2>1, PacketsForBounds
  <2> QED BY <2>1, <2>2
<1>2. p >= 1 /\ (p - 1) * c < 1
  BY <1>1, PacketsForBounds
<1>3. ASSUME p >= 2 PROVE FALSE
  <2>1. 1 * c <= (p - 1) * c
    BY <1>2, <1>3, Products
  <2> QED BY <1>1, <1>2, <2>1
<1> QED BY <1>1, <1>2, <1>3

-----------------------------------------------------------------------------
(* Packets that have been built                                            *)

Packs ==
  [max : Nat, header : Nat, isSR : BOOLEAN, blocks : Seq(Source), sdes : Seq(Nat),
   app : Seq(Nat), appsize : Nat, bye : Seq(Nat), byesize : Nat]

\* At most one packet of another type, of a whole number of words.
Single(sizes, bytes, least) ==
  \/ sizes = <<>> /\ bytes = 0
  \/ sizes = <<bytes>> /\ bytes % Word = 0 /\ bytes >= least

\* What BuildNextPacket, BuildBYEPacket and SendRTCPAPPPacket hand to EndBuild:
\* a report that has been started, one chunk, and no more than the limit.
WellBuilt(b) ==
  /\ b \in Packs
  /\ b.header = Word + (IF b.isSR THEN SenderInfo ELSE 0)
  /\ Len(b.sdes) = 1
  /\ Single(b.app, b.appsize, CommonHeader + (2 * Word))
  /\ Single(b.bye, b.byesize, CommonHeader + Word)
  /\ NeededBytes(b) <= b.max

\* What ParseData accepts of a packet within the compound packet.
Written ==
  [type : {"SR", "RR", "APP", "BYE"}, count : Nat, bytes : Nat]
    \cup [type : {"SDES"}, count : Nat, bytes : Nat, chunks : Seq(Nat)]
Readable ==
  {p \in Written : /\ p.bytes % Word = 0 /\ p.bytes >= CommonHeader
                   /\ KnownFormat(p) /\ p.count <= MaxCount}

Bytes(packets) == [k \in DOMAIN packets |-> packets[k].bytes]

LEMMA BytesConcat ==
  ASSUME NEW p \in Seq(Readable), NEW q \in Seq(Readable)
  PROVE  /\ p \o q \in Seq(Readable)
         /\ Total(Bytes(p \o q)) = Total(Bytes(p)) + Total(Bytes(q))
<1>1. \A x \in Readable : x.bytes \in Nat
  BY DEF Readable, Written
<1>2. p \o q \in Seq(Readable)
  BY ConcatProperties, Zenon
<1>3. PICK a \in Seq(Nat), b \in Seq(Nat) : a = Bytes(p) /\ b = Bytes(q)
  <2>1. ASSUME NEW r \in Seq(Readable)
        PROVE  Bytes(r) \in Seq(Nat)
    BY <1>1 DEF Bytes
  <2> QED BY <2>1, Zenon
<1>4. Bytes(p \o q) = a \o b
  <2>1. PICK r \in Seq(Readable) : r = p \o q
    BY <1>2, Zenon
  <2>2. PICK m \in Nat, n \in Nat : m = Len(p) /\ n = Len(q)
    OBVIOUS
  <2>3. /\ Len(r) = m + n
        /\ \A i \in 1..(m + n) : r[i] = IF i <= m THEN p[i] ELSE q[i - m]
    BY <2>1, <2>2, ConcatProperties
  <2>4. /\ Len(a) = m /\ \A i \in 1..m : a[i] = p[i].bytes
        /\ Len(b) = n /\ \A i \in 1..n : b[i] = q[i].bytes
    BY <1>3, <2>2 DEF Bytes
  <2>5. PICK c \in Seq(Nat) : c = a \o b
    BY ConcatProperties, Zenon
  <2>6. /\ Len(c) = m + n
        /\ \A i \in 1..(m + n) : c[i] = IF i <= m THEN a[i] ELSE b[i - m]
    BY <2>4, <2>5, ConcatProperties, ZenonT(30)
  <2>7. \A i \in 1..(m + n) : c[i] = r[i].bytes
    <3> SUFFICES ASSUME NEW i \in 1..(m + n) PROVE c[i] = r[i].bytes
      OBVIOUS
    <3>1. CASE i <= m
      <4>1. i \in 1..m
        BY <3>1
      <4>2. c[i] = a[i]
        BY <2>6, <3>1
      <4>3. r[i] = p[i]
        BY <2>3, <3>1
      <4>4. a[i] = p[i].bytes
        BY <2>4, <4>1
      <4> QED BY <4>2, <4>3, <4>4
    <3>2. CASE ~(i <= m)
      <4>1. PICK j \in 1..n : j = i - m
        BY <3>2
      <4>2. c[i] = b[j]
        BY <2>6, <3>2, <4>1
      <4>3. r[i] = q[j]
        BY <2>3, <3>2, <4>1
      <4>4. b[j] = q[j].bytes
        BY <2>4
      <4> QED BY <4>2, <4>3, <4>4
    <3> QED BY <3>1, <3>2
  <2>8. DOMAIN r = 1..(m + n) /\ DOMAIN c = 1..(m + n)
    BY <2>3, <2>6
  <2>9. c = [i \in 1..(m + n) |-> c[i]]
    BY <2>8
  <2> QED BY <2>1, <2>5, <2>7, <2>8, <2>9 DEF Bytes
<1> QED BY <1>2, <1>3, <1>4, TotalConcat

\* The bytes of the reports for n blocks, and that they grow with n.
LEMMA ReportSizes ==
  ASSUME NEW b \in Packs, b.header = Word + (IF b.isSR THEN SenderInfo ELSE 0),
         NEW m \in Nat, NEW n \in Nat, m <= n
  PROVE  /\ ReportBytesWith(b, n) \in Nat /\ ReportBytesWith(b, m) \in Nat
         /\ 8 <= ReportBytesWith(b, m) /\ ReportBytesWith(b, m) <= ReportBytesWith(b, n)
<1> DEFINE extra == IF b.isSR THEN 20 ELSE 0
<1>1. \A k \in Nat : ReportBytesWith(b, k) =
         IF k = 0 THEN 8 + extra ELSE (k * 24) + (PacketsFor(k) * 8) + extra
  BY DEF ReportBytesWith, Packs, CommonHeader, SenderInfo, BlockSize, Word
<1>2. \A k \in Nat : k > 0 => PacketsFor(k) \in Nat /\ PacketsFor(k) >= 1
  BY PacketsForBounds
<1>3. m > 0 => PacketsFor(m) <= PacketsFor(n)
  BY PacketsForMonotone
<1>4. extra \in Nat
  OBVIOUS
<1> HIDE DEF extra
<1> QED BY <1>1, <1>2, <1>3, <1>4

\* The number of blocks in the k-th report packet.
LEMMA BlocksInPacket ==
  ASSUME NEW n \in Nat, NEW k \in Nat, k >= 1, (k - 1) * MaxCount <= n
  PROVE  /\ CountIn(n, k) \in Nat /\ CountIn(n, k) <= MaxCount
         /\ CountIn(n, k) = (IF k * MaxCount < n THEN k * MaxCount ELSE n) - ((k - 1) * MaxCount)
<1>1. PICK c \in Nat, before \in Nat : c = MaxCount /\ before = (k - 1) * c
  <2>1. MaxCount \in Nat /\ k - 1 \in Nat
    BY SizeAssumption
  <2>2. (k - 1) * MaxCount \in Nat
    BY <2>1
  <2> QED BY <2>1, <2>2
<1>2. k * c = before + c
  BY <1>1
<1>3. CountIn(n, k) = IF n - before < c THEN n - before ELSE c
  BY <1>1 DEF CountIn
<1> QED BY <1>1, <1>2, <1>3

\* The report packets take the bytes that were computed for them.
LEMMA ReportsWritten ==
  ASSUME NEW b \in Packs, b.header = Word + (IF b.isSR THEN SenderInfo ELSE 0)
  PROVE  /\ ReportPackets(b) \in Seq(Readable)
         /\ Len(ReportPackets(b)) >= 1 /\ ReportPackets(b)[1].type \in {"SR", "RR"}
         /\ Total(Bytes(ReportPackets(b))) = ReportBytes(b)
<1>1. PICK n \in Nat, c \in Nat, extra \in Nat :
        /\ n = Len(b.blocks) /\ c = MaxCount /\ c > 0
        /\ extra = (IF b.isSR THEN SenderInfo ELSE 0) /\ b.header = 4 + extra
  BY SizeAssumption DEF Packs, SenderInfo, Word
<1>2. PICK m \in Nat : m = (IF n = 0 THEN 1 ELSE PacketsFor(n)) /\ m >= 1 /\ (m - 1) * c <= n /\ n <= m * c
  <2>1. CASE n = 0
    <3>1. (1 - 1) * c = 0 /\ 1 * c = c
      OBVIOUS
    <3> QED BY <2>1, <3>1
  <2>2. CASE n > 0
    <3>1. PICK m \in Nat : m = PacketsFor(n) /\ m >= 1 /\ n <= m * c /\ (m - 1) * c < n
      BY <1>1, <2>2, PacketsForBounds
    <3>2. (m - 1) * c \in Int
      BY <3>1
    <3> QED BY <2>2, <3>1, <3>2
  <2> QED BY <2>1, <2>2
<1> DEFINE upto(k) == IF k * c < n THEN k * c ELSE n
           Fixed(k) == IF k = 1 THEN b.header ELSE Word
           P(k) == [type |-> IF k = 1 /\ b.isSR THEN "SR" ELSE "RR", count |-> CountIn(n, k),
                    bytes |-> CommonHeader + Fixed(k) + (CountIn(n, k) * BlockSize)]
<1>3. PICK R : R = ReportPackets(b) /\ R = [k \in 1..m |-> P(k)]
  BY <1>1, <1>2 DEF ReportPackets
<1>4. ASSUME NEW k \in 1..m
      PROVE  /\ CountIn(n, k) \in Nat /\ CountIn(n, k) <= c
             /\ CountIn(n, k) = upto(k) - ((k - 1) * c) /\ (k - 1) * c <= n /\ (k - 1) * c \in Nat
  <2>1. k \in Nat /\ k >= 1 /\ k - 1 \in Nat /\ m - 1 \in Nat /\ k - 1 <= m - 1
    OBVIOUS
  <2>2. (k - 1) * c <= (m - 1) * c /\ (k - 1) * c \in Nat /\ (m - 1) * c \in Nat
    BY <2>1, Products
  <2>3. (k - 1) * c <= n
    BY <1>2, <2>2
  <2> QED BY <1>1, <2>1, <2>2, <2>3, BlocksInPacket
<1>5. ASSUME NEW k \in 1..m
      PROVE  P(k) \in Readable /\ P(k).type \in {"SR", "RR"}
  <2>1. PICK x \in Nat : x = CountIn(n, k) /\ x <= c
    BY <1>4
  <2>2. CASE k = 1 /\ b.isSR
    <3>1. P(k) = [type |-> "SR", count |-> x, bytes |-> 28 + (x * 24)]
      BY <1>1, <2>1, <2>2 DEF CommonHeader, BlockSize, SenderInfo
    <3>2. PICK p : p = [type |-> "SR", count |-> x, bytes |-> 28 + (x * 24)]
      OBVIOUS
    <3>3. p \in Written /\ p.type = "SR" /\ p.count = x /\ p.bytes = 28 + (x * 24)
      BY <3>2 DEF Written
    <3>4. KnownFormat(p)
      BY <3>3 DEF KnownFormat, RTCPSRPacket, CommonHeader, BlockSize, SenderInfo, Word
    <3>5. p.bytes % Word = 0 /\ p.bytes >= CommonHeader
      BY <3>3 DEF Word, CommonHeader
    <3>6. p \in Readable
      BY <1>1, <2>1, <3>3, <3>4, <3>5 DEF Readable
    <3> QED BY <3>1, <3>2, <3>6
  <2>3. CASE ~(k = 1 /\ b.isSR)
    <3>1. P(k) = [type |-> "RR", count |-> x, bytes |-> 8 + (x * 24)]
      BY <1>1, <2>1, <2>3 DEF CommonHeader, BlockSize, SenderInfo, Word
    <3>2. PICK p : p = [type |-> "RR", count |-> x, bytes |-> 8 + (x * 24)]
      OBVIOUS
    <3>3. p \in Written /\ p.type = "RR" /\ p.count = x /\ p.bytes = 8 + (x * 24)
      BY <3>2 DEF Written
    <3>4. KnownFormat(p)
      BY <3>3 DEF KnownFormat, RTCPRRPacket, CommonHeader, BlockSize, SenderInfo, Word
    <3>5. p.bytes % Word = 0 /\ p.bytes >= CommonHeader
      BY <3>3 DEF Word, CommonHeader
    <3>6. p \in Readable
      BY <1>1, <2>1, <3>3, <3>4, <3>5 DEF Readable
    <3> QED BY <3>1, <3>2, <3>6
  <2> QED BY <2>2, <2>3
<1>6. R \in Seq(Readable) /\ Len(R) = m /\ \A k \in 1..m : R[k] = P(k)
  <2> HIDE DEF P
  <2> QED BY <1>3, <1>5
<1>7. ReportPackets(b)[1].type \in {"SR", "RR"}
  <2> HIDE DEF P
  <2>1. 1 \in 1..m
    BY <1>2
  <2> QED BY <1>3, <1>5, <1>6, <2>1
<1>8. PICK bytes \in Seq(Nat) : bytes = Bytes(R)
  <2>1. Bytes(R) \in Seq(Nat)
    <3>1. \A x \in Readable : x.bytes \in Nat
      BY DEF Readable, Written
    <3> QED BY <1>6, <3>1 DEF Bytes
  <2> QED BY <2>1, Zenon
<1>9. Len(bytes) = m /\ \A k \in 1..m : bytes[k] = P(k).bytes
  <2> HIDE DEF P
  <2> QED BY <1>6, <1>8 DEF Bytes
<1> DEFINE f == [k \in 0..m |-> IF k = 0 THEN 0 ELSE (8 * k) + extra + (24 * upto(k))]
<1>10. \A k \in 0..m : upto(k) \in Nat
  BY <1>1
<1>11. f \in [0..m -> Nat] /\ f[0] = 0 /\ f[m] = (8 * m) + extra + (24 * n)
  <2>1. upto(m) = n
    BY <1>2
  <2> HIDE DEF upto
  <2>2. \A k \in 0..m : f[k] = IF k = 0 THEN 0 ELSE (8 * k) + extra + (24 * upto(k))
    OBVIOUS
  <2>3. f \in [0..m -> Nat]
    BY <1>10
  <2> HIDE DEF f
  <2>4. 0 \in 0..m /\ m \in 0..m /\ m # 0
    BY <1>2
  <2>5. f[0] = 0 /\ f[m] = (8 * m) + extra + (24 * n)
    BY <2>1, <2>2, <2>4, Zenon
  <2> QED BY <2>3, <2>5
<1>12. ASSUME NEW k \in 1..m PROVE f[k] = f[k - 1] + bytes[k]
  <2>1. PICK x \in Nat, y \in Nat : x = CountIn(n, k) /\ y = (k - 1) * c /\ upto(k) = y + x
    BY <1>4, <1>10
  <2>2. upto(k - 1) = y
    BY <1>4, <2>1
  <2>3. bytes[k] = (IF k = 1 THEN 8 + extra ELSE 8) + (24 * x)
    BY <1>1, <1>9, <2>1 DEF CommonHeader, BlockSize, Word
  <2> HIDE DEF upto
  <2>4. k \in 0..m /\ k - 1 \in 0..m /\ k # 0
    OBVIOUS
  <2>5. f[k] = (8 * k) + extra + (24 * (y + x))
    BY <2>1, <2>4
  <2>6. CASE k = 1
    <3>1. y = 0 /\ f[k - 1] = 0
      BY <2>1, <2>6
    <3> QED BY <2>3, <2>5, <2>6, <3>1
  <2>7. CASE k # 1
    <3>1. f[k - 1] = (8 * (k - 1)) + extra + (24 * y)
      BY <2>2, <2>4, <2>7
    <3> QED BY <2>3, <2>5, <2>7, <3>1
  <2> QED BY <2>6, <2>7
<1> HIDE DEF f
<1>13. Total(bytes) = (8 * m) + extra + (24 * n)
  <2>1. Sums(f, bytes)
    BY <1>9, <1>11, <1>12 DEF Sums
  <2> QED BY <1>9, <1>11, <2>1, TotalIs
<1>14. ReportBytes(b) = (8 * m) + extra + (24 * n)
  <2>1. ReportBytes(b) = IF n = 0 THEN IF b.header = 0 THEN 0 ELSE 4 + b.header
                         ELSE (n * 24) + (PacketsFor(n) * 8) + extra
    BY <1>1 DEF ReportBytes, ReportBytesWith, CommonHeader, BlockSize, Word
  <2>2. m = IF n = 0 THEN 1 ELSE PacketsFor(n)
    BY <1>2, Zenon
  <2>3. b.header = 4 + extra
    BY <1>1
  <2>4. CASE n = 0
    <3>1. m = 1 /\ ReportBytes(b) = IF b.header = 0 THEN 0 ELSE 4 + b.header
      BY <2>1, <2>2, <2>4, Zenon
    <3> QED BY <2>3, <2>4, <3>1
  <2>5. CASE n # 0
    <3>1. ReportBytes(b) = (n * 24) + (m * 8) + extra
      BY <2>1, <2>2, <2>5, Zenon
    <3> QED BY <3>1
  <2> QED BY <2>4, <2>5
<1> QED BY <1>2, <1>3, <1>6, <1>7, <1>8, <1>13, <1>14

\* One readable packet is a list of such packets.
LEMMA OneReadable ==
  ASSUME NEW p \in Readable
  PROVE  <<p>> \in Seq(Readable) /\ Total(Bytes(<<p>>)) = p.bytes
<1>1. p.bytes \in Nat
  BY DEF Readable, Written
<1>2. Bytes(<<p>>) = <<p.bytes>>
  BY DEF Bytes
<1> QED BY <1>1, <1>2, TotalOne

\* The one chunk is one packet.
LEMMA ChunkWritten ==
  ASSUME NEW n \in Nat
  PROVE  /\ SDESBytes(<<n>>) = Aligned(n + 1) + 8
         /\ SDESPackets([sdes |-> <<n>>]) \in Seq(Readable)
         /\ Total(Bytes(SDESPackets([sdes |-> <<n>>]))) = Aligned(n + 1) + 8
<1>1. PICK size \in Nat : size = Aligned(n + 1) + 4 /\ size % 4 = 0 /\ size = ChunkBytes(n)
  <2>1. Aligned(n + 1) \in Nat /\ Aligned(n + 1) % 4 = 0
    <3>1. n + 1 \in Nat
      OBVIOUS
    <3> QED BY <3>1, AlignedSize DEF Word
  <2> QED BY <2>1 DEF ChunkBytes, Word
<1>2. ChunksBytes(<<n>>) = size
  <2>1. [i \in DOMAIN <<n>> |-> ChunkBytes(<<n>>[i])] = <<size>>
    BY <1>1
  <2> QED BY <2>1, TotalOne DEF ChunksBytes
<1>3. SDESBytes(<<n>>) = size + 4
  <2>1. <<n>> # <<>> /\ Len(<<n>>) = 1
    OBVIOUS
  <2> QED BY <1>2, <2>1, OnePacket DEF SDESBytes, CommonHeader
<1>4. (1 - 1) * MaxCount = 0 /\ CountIn(1, 1) = 1
  <2>1. (1 - 1) * MaxCount = 0 /\ MaxCount \in Nat /\ MaxCount > 0
    BY SizeAssumption
  <2> QED BY <2>1 DEF CountIn
<1>5. SubSeq(<<n>>, ((1 - 1) * MaxCount) + 1, ((1 - 1) * MaxCount) + CountIn(Len(<<n>>), 1)) = <<n>>
  <2>1. Len(<<n>>) = 1 /\ SubSeq(<<n>>, 1, 1) = <<n>>
    <3>1. PICK one \in Seq(Nat) : one = <<n>>
      <4>1. <<n>> \in Seq(Nat)
        OBVIOUS
      <4> QED BY <4>1, Zenon
    <3>2. Len(one) = 1 /\ one[1] = n
      BY <3>1
    <3>3. PICK part \in Seq(Nat) : part = SubSeq(one, 1, 1)
      BY <3>2, SubSeqProperties
    <3>4. Len(part) = 1 /\ part[1] = n
      BY <3>2, <3>3, SubSeqProperties
    <3>5. part = one
      BY <3>2, <3>4
    <3> QED BY <3>1, <3>2, <3>3, <3>5
  <2> QED BY <1>4, <2>1
<1> DEFINE p == [type |-> "SDES", count |-> 1, bytes |-> 4 + size, chunks |-> <<n>>]
<1>6. SDESPackets([sdes |-> <<n>>]) = <<p>>
  <2>1. [sdes |-> <<n>>].sdes = <<n>> /\ Len(<<n>>) = 1
    OBVIOUS
  <2> DEFINE Chunks(k) == SubSeq(<<n>>, ((k - 1) * MaxCount) + 1,
                                 ((k - 1) * MaxCount) + CountIn(Len(<<n>>), k))
             X(k) == [type |-> "SDES", count |-> Len(Chunks(k)),
                      bytes |-> CommonHeader + ChunksBytes(Chunks(k)), chunks |-> Chunks(k)]
  <2>2. SDESPackets([sdes |-> <<n>>]) = [k \in 1..1 |-> X(k)]
    BY <2>1, OnePacket DEF SDESPackets
  <2>3. X(1) = p
    BY <1>2, <1>5, <2>1 DEF CommonHeader
  <2> HIDE DEF X, p
  <2>4. [k \in 1..1 |-> X(k)] = <<X(1)>>
    OBVIOUS
  <2> QED BY <2>2, <2>3, <2>4
<1>7. p \in Readable
  <2>1. p \in Written /\ p.type = "SDES" /\ p.count = 1 /\ p.bytes = 4 + size /\ p.chunks = <<n>>
    BY DEF Written
  <2> HIDE DEF p
  <2>2. KnownFormat(p)
    BY <1>2, <2>1 DEF KnownFormat, RTCPSDESPacket, CommonHeader
  <2> QED BY <1>1, <2>1, <2>2, SizeAssumption DEF Readable, Word, CommonHeader
<1>8. p.bytes = 4 + size
  OBVIOUS
<1> HIDE DEF p
<1>9. Aligned(n + 1) \in Nat
  <2>1. n + 1 \in Nat
    OBVIOUS
  <2> QED BY <2>1, AlignedSize
<1>10. /\ SDESPackets([sdes |-> <<n>>]) \in Seq(Readable)
       /\ Total(Bytes(SDESPackets([sdes |-> <<n>>]))) = p.bytes
  BY <1>6, <1>7, OneReadable
<1> QED BY <1>1, <1>3, <1>8, <1>9, <1>10

\* An application packet, or a BYE, if there is one.
LEMMA SingleWritten ==
  ASSUME NEW sizes, NEW bytes \in Nat, NEW type \in {"APP", "BYE"},
         Single(sizes, bytes, IF type = "APP" THEN 12 ELSE 8)
  PROVE  Whole(type, sizes) \in Seq(Readable) /\ Total(Bytes(Whole(type, sizes))) = bytes
<1>1. CASE sizes = <<>> /\ bytes = 0
  <2>1. \A f : f = [k \in 1..0 |-> f[k]] => f = <<>>
    OBVIOUS
  <2>2. Whole(type, sizes) = <<>>
    <3>1. Whole(type, sizes) = [k \in 1..0 |-> Whole(type, sizes)[k]]
      BY <1>1 DEF Whole
    <3> QED BY <2>1, <3>1
  <2>3. Bytes(<<>>) = <<>>
    <3>1. Bytes(<<>>) = [k \in 1..0 |-> Bytes(<<>>)[k]]
      BY DEF Bytes
    <3> QED BY <2>1, <3>1
  <2>4. <<>> \in Seq(Readable)
    OBVIOUS
  <2> QED BY <1>1, <2>2, <2>3, <2>4, TotalEmpty
<1>2. CASE sizes = <<bytes>> /\ bytes % 4 = 0 /\ bytes >= IF type = "APP" THEN 12 ELSE 8
  <2> DEFINE p == [type |-> type, count |-> 1, bytes |-> bytes]
  <2>1. Whole(type, sizes) = <<p>>
    BY <1>2 DEF Whole
  <2>2. p \in Written /\ p.type = type /\ p.count = 1 /\ p.bytes = bytes
    BY DEF Written
  <2> HIDE DEF p
  <2>3. KnownFormat(p)
    <3>1. CASE type = "APP"
      BY <1>2, <2>2, <3>1 DEF KnownFormat, RTCPAPPPacket, CommonHeader, Word
    <3>2. CASE type = "BYE"
      BY <1>2, <2>2, <3>2 DEF KnownFormat, RTCPBYEPacket, CommonHeader, Word
    <3> QED BY <3>1, <3>2
  <2>4. p \in Readable
    BY <1>2, <2>2, <2>3, SizeAssumption DEF Readable, Word, CommonHeader
  <2> QED BY <2>1, <2>2, <2>4, OneReadable
<1> QED BY <1>1, <1>2 DEF Single, Word

\* The chunk of a packet that has been built, and its size.
LEMMA OneChunk ==
  ASSUME NEW b, WellBuilt(b)
  PROVE  /\ SDESBytes(b.sdes) \in Nat
         /\ \E n \in Nat : b.sdes = <<n>> /\ SDESBytes(b.sdes) = Aligned(n + 1) + 8
<1>1. PICK n \in Nat : b.sdes = <<n>>
  <2>1. b.sdes \in Seq(Nat) /\ Len(b.sdes) = 1
    BY DEF WellBuilt, Packs
  <2>2. b.sdes = <<b.sdes[1]>> /\ b.sdes[1] \in Nat
    BY <2>1
  <2> QED BY <2>2
<1>2. n + 1 \in Nat
  OBVIOUS
<1>3. Aligned(n + 1) \in Nat
  BY <1>2, AlignedSize
<1>4. SDESBytes(<<n>>) = Aligned(n + 1) + 8
  BY ChunkWritten
<1> QED BY <1>1, <1>3, <1>4

\* The sizes of its parts are numbers.
LEMMA NeededNat ==
  ASSUME NEW b, WellBuilt(b)
  PROVE  ReportBytes(b) \in Nat /\ SDESBytes(b.sdes) \in Nat /\ NeededBytes(b) \in Nat
<1>1. PICK k \in Nat : k = Len(b.blocks) /\ k <= k
  BY DEF WellBuilt, Packs
<1>2. ReportBytesWith(b, k) \in Nat
  BY <1>1, ReportSizes, Zenon DEF WellBuilt
<1>3. PICK x \in Nat, y \in Nat, app \in Nat, bye \in Nat :
        x = ReportBytes(b) /\ y = SDESBytes(b.sdes) /\ app = b.appsize /\ bye = b.byesize
  BY <1>1, <1>2, OneChunk DEF ReportBytes, WellBuilt, Packs
<1>4. NeededBytes(b) = (app + bye) + x + y
  BY <1>3 DEF NeededBytes, OtherBytes
<1>5. (app + bye) + x + y \in Nat
  OBVIOUS
<1> QED BY <1>3, <1>4, <1>5

\* Whatever has been built well is well formed.
LEMMA WellBuiltIsWellFormed == ASSUME NEW b, WellBuilt(b) PROVE WellFormed(b)
<1>1. PICK n \in Nat : b.sdes = <<n>>
  <2>1. b.sdes \in Seq(Nat) /\ Len(b.sdes) = 1
    BY DEF WellBuilt, Packs
  <2>2. b.sdes = <<b.sdes[1]>> /\ b.sdes[1] \in Nat
    BY <2>1
  <2> QED BY <2>2
<1> DEFINE R == ReportPackets(b)
           S == SDESPackets([sdes |-> <<n>>])
           A == Whole("APP", b.app)
           Y == Whole("BYE", b.bye)
<1>2. EndBuild(b) = R \o S \o A \o Y
  BY <1>1 DEF EndBuild, SDESPackets
<1>3. /\ R \in Seq(Readable) /\ Len(R) >= 1 /\ R[1].type \in {"SR", "RR"}
      /\ Total(Bytes(R)) = ReportBytes(b)
  BY ReportsWritten DEF WellBuilt
<1>4. S \in Seq(Readable) /\ Total(Bytes(S)) = SDESBytes(b.sdes)
  BY <1>1, ChunkWritten
<1>5. b.appsize \in Nat /\ b.byesize \in Nat
  BY DEF WellBuilt, Packs
<1>6. A \in Seq(Readable) /\ Total(Bytes(A)) = b.appsize
  <2>1. Single(b.app, b.appsize, IF "APP" = "APP" THEN 12 ELSE 8)
    BY DEF WellBuilt, CommonHeader, Word
  <2> QED BY <1>5, <2>1, SingleWritten
<1>7. Y \in Seq(Readable) /\ Total(Bytes(Y)) = b.byesize
  <2>1. Single(b.bye, b.byesize, IF "BYE" = "APP" THEN 12 ELSE 8)
    BY DEF WellBuilt, CommonHeader, Word
  <2> QED BY <1>5, <2>1, SingleWritten
<1> HIDE DEF R, S, A, Y
<1>8. PICK RS \in Seq(Readable) : RS = R \o S /\ Total(Bytes(RS)) = Total(Bytes(R)) + Total(Bytes(S))
  BY <1>3, <1>4, BytesConcat
<1>9. PICK RSA \in Seq(Readable) : RSA = RS \o A /\ Total(Bytes(RSA)) = Total(Bytes(RS)) + Total(Bytes(A))
  BY <1>6, BytesConcat
<1>10. PICK packets \in Seq(Readable) :
         packets = RSA \o Y /\ Total(Bytes(packets)) = Total(Bytes(RSA)) + Total(Bytes(Y))
  BY <1>7, BytesConcat
<1>11. packets = EndBuild(b)
  BY <1>2, <1>8, <1>9, <1>10
<1>12. Len(packets) >= 1 /\ packets[1] = R[1]
  <2>1. Len(RS) >= 1 /\ RS[1] = R[1]
    BY <1>3, <1>4, <1>8, ConcatProperties
  <2>2. Len(RSA) >= 1 /\ RSA[1] = R[1]
    BY <1>6, <1>9, <2>1, ConcatProperties
  <2> QED BY <1>7, <1>10, <2>2, ConcatProperties
<1>13. \A k \in DOMAIN packets : packets[k] \in Readable
  OBVIOUS
<1>14. PICK r \in Nat, s \in Nat : r = ReportBytes(b) /\ s = SDESBytes(b.sdes) /\ r >= 4
  <2>1. ReportBytes(b) \in Nat /\ ReportBytes(b) >= 4
    <3>1. /\ b \in Packs /\ b.header = Word + (IF b.isSR THEN SenderInfo ELSE 0)
      BY DEF WellBuilt
    <3>2. PICK k \in Nat : k = Len(b.blocks) /\ k <= k
      BY DEF WellBuilt, Packs
    <3>3. 8 <= ReportBytesWith(b, k) /\ ReportBytesWith(b, k) \in Nat
      BY <3>1, <3>2, ReportSizes
    <3> QED BY <3>2, <3>3 DEF ReportBytes
  <2>2. SDESBytes(b.sdes) \in Nat
    <3>1. n + 1 \in Nat
      OBVIOUS
    <3>2. Aligned(n + 1) \in Nat
      BY <3>1, AlignedSize, Zenon
    <3>3. SDESBytes(<<n>>) = Aligned(n + 1) + 8
      BY ChunkWritten
    <3> QED BY <1>1, <3>2, <3>3
  <2> QED BY <2>1, <2>2
<1>15. Total(Bytes(packets)) = NeededBytes(b) /\ NeededBytes(b) >= 4
  <2>3. PICK app \in Nat, bye \in Nat : app = b.appsize /\ bye = b.byesize
    BY <1>5
  <2>1. NeededBytes(b) = (b.appsize + b.byesize) + r + s
    BY <1>14 DEF NeededBytes, OtherBytes
  <2>2. Total(Bytes(packets)) = r + s + b.appsize + b.byesize
    BY <1>3, <1>4, <1>6, <1>7, <1>8, <1>9, <1>10, <1>14
  <2>4. (app + bye) + r + s = r + s + app + bye /\ (app + bye) + r + s >= 4
    BY <1>14
  <2> QED BY <2>1, <2>2, <2>3, <2>4
<1>16. ParseData(packets, NeededBytes(b))
  BY <1>3, <1>12, <1>13, <1>15 DEF ParseData, Bytes, Readable, CommonHeader
<1>17. \A k \in DOMAIN packets : KnownFormat(packets[k]) /\ packets[k].count <= MaxCount
  BY <1>13 DEF Readable
<1> QED BY <1>11, <1>16, <1>17 DEF WellFormed, WellBuilt

-----------------------------------------------------------------------------
(* Building a packet                                                       *)

\* The greatest of some numbers up to n.
LEMMA MaxOfSome ==
  ASSUME NEW n \in Nat, NEW T \in SUBSET (0..n), T # {}
  PROVE  Max(T) \in T /\ \A y \in T : y <= Max(T)
<1>1. PICK x \in T : \A y \in T : y <= x
  BY GreatestElement
<1>2. \E m \in T : \A y \in T : m >= y
  BY <1>1
<1>3. Max(T) \in T /\ \A y \in T : Max(T) >= y
  BY <1>2, Zenon DEF Max
<1> QED BY <1>3

\* A packet begins with the report and our CNAME, for which there is room.
LEMMA BeginWell ==
  ASSUME NEW sr \in BOOLEAN
  PROVE  /\ Begin(sr) \in Packs /\ CanBegin(sr) /\ WellBuilt(Begin(sr))
         /\ Begin(sr).app = <<>> /\ Begin(sr).bye = <<>>
         /\ Begin(sr).blocks = <<>> /\ Begin(sr).sdes = <<CNAMELength + ItemHeader>>
         /\ Begin(sr).max = MaxPacketSize
         /\ NeededBytes(Begin(sr)) <= CNAMEBytes + Aligned(ItemHeader + MaxItem + 1)
<1>1. PICK extra \in Nat, c \in Nat, max \in Nat, limit \in Nat :
        /\ extra = (IF sr THEN 20 ELSE 0) /\ c = CNAMELength /\ c <= MaxItem
        /\ max = MaxPacketSize /\ limit = Aligned(ItemHeader + MaxItem + 1)
        /\ 36 + limit <= max
  <2>1. ItemHeader + MaxItem + 1 \in Nat
    BY SizeAssumption DEF ItemHeader
  <2>2. PICK limit \in Nat : limit = Aligned(ItemHeader + MaxItem + 1)
    BY <2>1, AlignedSize
  <2>3. 36 + limit + 24 <= MinPacketSize /\ MinPacketSize \in Nat
    BY <2>2, SizeAssumption DEF CNAMEBytes, CommonHeader, Word, SenderInfo, BlockSize
  <2>4. PICK max \in Nat : max = MaxPacketSize /\ 36 + limit <= max
    BY <2>3, ReportsAssumption
  <2>5. PICK c \in Nat : c = CNAMELength /\ c <= MaxItem
    BY SizeAssumption, ReportsAssumption
  <2>6. PICK extra \in Nat : extra = (IF sr THEN 20 ELSE 0)
    OBVIOUS
  <2> QED BY <2>2, <2>4, <2>5, <2>6
<1> DEFINE started == [max |-> max, header |-> 4 + extra, isSR |-> sr, blocks |-> <<>>,
                       sdes |-> <<>>, app |-> <<>>, appsize |-> 0, bye |-> <<>>, byesize |-> 0]
           source  == [started EXCEPT !.sdes = <<0>>]
           b       == [started EXCEPT !.sdes = <<c + 2>>]
<1>2. (IF sr THEN StartSenderReport(InitBuild(MaxPacketSize))
       ELSE StartReceiverReport(InitBuild(MaxPacketSize))) = started
  <2> DEFINE init == [max |-> max, header |-> 0, isSR |-> FALSE, blocks |-> <<>>, sdes |-> <<>>,
                      app |-> <<>>, appsize |-> 0, bye |-> <<>>, byesize |-> 0]
  <2>1. InitBuild(MaxPacketSize) = init
    BY <1>1 DEF InitBuild
  <2>2. CASE sr = TRUE
    <3>1. StartSenderReport(init) = [init EXCEPT !.header = 24, !.isSR = TRUE]
      BY DEF StartSenderReport, Word, SenderInfo
    <3>2. extra = 20 /\ 4 + extra = 24
      BY <1>1, <2>2
    <3> QED BY <2>1, <2>2, <3>1, <3>2
  <2>3. CASE sr = FALSE
    <3>1. StartReceiverReport(init) = [init EXCEPT !.header = 4]
      BY DEF StartReceiverReport, Word
    <3>2. extra = 0 /\ 4 + extra = 4
      BY <1>1, <2>3
    <3> QED BY <2>1, <2>3, <3>1, <3>2
  <2> QED BY <2>2, <2>3
<1>3. AddSDESSource(started) = source
  BY DEF AddSDESSource
<1>4. WithItems(<<0>>, <<c>>) = <<c + 2>>
  <2>1. Total(<<c>>) = c
    BY TotalOne
  <2>2. Len(<<0>>) = 1 /\ Len(<<c>>) = 1
    OBVIOUS
  <2>3. WithItems(<<0>>, <<c>>) = [<<0>> EXCEPT ![1] = c + 2]
    <3>1. WithItems(<<0>>, <<c>>) = [<<0>> EXCEPT ![1] = <<0>>[1] + (1 * 2) + c]
      BY <2>1, <2>2 DEF WithItems, ItemHeader
    <3>2. <<0>>[1] + (1 * 2) + c = c + 2
      OBVIOUS
    <3> QED BY <3>1, <3>2
  <2> QED BY <2>3
<1>5. AddSDESNormalItems(source, <<c>>) = b
  BY <1>4 DEF AddSDESNormalItems
<1>6. Begin(sr) = b
  BY <1>1, <1>2, <1>3, <1>5 DEF Begin
<1>7. b \in Packs
  <2>1. <<>> \in Seq(Source) /\ <<>> \in Seq(Nat) /\ <<c + 2>> \in Seq(Nat) /\ 4 + extra \in Nat
    OBVIOUS
  <2> QED BY <2>1 DEF Packs
<1>8. PICK size \in Nat : size = SDESBytes(<<c + 2>>) /\ size <= limit + 8
  <2>1. c + 2 \in Nat /\ c + 3 \in Nat /\ ItemHeader + MaxItem + 1 \in Nat /\ c + 3 <= ItemHeader + MaxItem + 1
    BY <1>1, SizeAssumption DEF ItemHeader
  <2>2. Aligned(c + 3) \in Nat /\ Aligned(c + 3) <= limit
    BY <1>1, <2>1, AlignedSize, AlignedMonotone
  <2>3. SDESBytes(<<c + 2>>) = Aligned((c + 2) + 1) + 8
    BY <2>1, ChunkWritten
  <2>4. (c + 2) + 1 = c + 3
    OBVIOUS
  <2> QED BY <2>2, <2>3, <2>4
<1>9. ReportBytes(b) = 8 + extra /\ ReportBytes(source) = 8 + extra /\ ReportBytes(started) = 8 + extra
  BY <1>1 DEF ReportBytes, ReportBytesWith, CommonHeader
<1>10. NeededBytes(b) = 8 + extra + size /\ 8 + extra + size <= 36 + limit
  BY <1>1, <1>8, <1>9 DEF NeededBytes, OtherBytes
<1>11. WellBuilt(b)
  <2>1. b.header = 4 + extra /\ b.isSR = sr /\ Len(b.sdes) = 1 /\ b.app = <<>> /\ b.bye = <<>>
        /\ b.appsize = 0 /\ b.byesize = 0 /\ b.max = max
    OBVIOUS
  <2> HIDE DEF b
  <2> QED BY <1>1, <1>7, <1>10, <2>1 DEF WellBuilt, Single, Word, SenderInfo
<1>12. CanBegin(sr)
  <2>1. CanStart(InitBuild(MaxPacketSize), started.header)
    BY <1>1 DEF CanStart, InitBuild, OtherBytes, SDESBytes, CommonHeader
  <2>2. CanAddSDESSource(started)
    BY <1>1, <1>9 DEF CanAddSDESSource, OtherBytes, SDESBytesWithExtraSource
  <2>3. CanAddSDESItems(source, <<c>>)
    <3>1. SDESBytesWithExtraItems(<<0>>, <<c>>) = size
      BY <1>4, <1>8 DEF SDESBytesWithExtraItems
    <3> QED BY <1>1, <1>9, <1>10, <3>1 DEF CanAddSDESItems, OtherBytes
  <2> HIDE DEF started, source
  <2> QED BY <1>1, <1>2, <1>3, <2>1, <2>2, <2>3 DEF CanBegin
<1>13. NeededBytes(b) <= CNAMEBytes + Aligned(ItemHeader + MaxItem + 1)
  BY <1>1, <1>8, <1>10 DEF CNAMEBytes, CommonHeader, Word, SenderInfo
<1> QED BY <1>1, <1>6, <1>7, <1>11, <1>12, <1>13 DEF ItemHeader

\* It has no other packets in it.
LEMMA NothingAdded ==
  ASSUME NEW sr \in BOOLEAN
  PROVE  LET b == Begin(sr)
         IN  /\ b \in Packs /\ WellBuilt(b) /\ b.app = <<>> /\ b.bye = <<>>
             /\ b.appsize = 0 /\ b.byesize = 0
<1> DEFINE b == Begin(sr)
<1>1. b \in Packs /\ WellBuilt(b) /\ b.app = <<>> /\ b.bye = <<>>
  BY BeginWell
<1> HIDE DEF b
<1>2. \A x : <<x>> # <<>>
  OBVIOUS
<1>3. /\ Single(b.app, b.appsize, CommonHeader + (2 * Word))
      /\ Single(b.bye, b.byesize, CommonHeader + Word)
  BY <1>1 DEF WellBuilt
<1>4. b.appsize = 0 /\ b.byesize = 0
  BY <1>1, <1>2, <1>3, Zenon DEF Single
<1> QED BY <1>1, <1>4 DEF b

\* Blocks are only added as far as all of them fit.
LEMMA BlocksAdded ==
  ASSUME NEW b, WellBuilt(b), NEW room \in Nat, CanAddReportBlocks(b, room),
         NEW ssrcs \in Seq(Source), Len(ssrcs) <= room
  PROVE  WellBuilt(AddReportBlocks(b, ssrcs))
<1> DEFINE r == AddReportBlocks(b, ssrcs)
<1>1. b \in Packs /\ b.blocks \in Seq(Source)
  BY DEF WellBuilt, Packs
<1>2. PICK blocks \in Seq(Source), m \in Nat, n \in Nat :
        /\ blocks = b.blocks \o ssrcs /\ m = Len(b.blocks) /\ n = Len(ssrcs)
        /\ Len(blocks) = m + n
  <2>1. b.blocks \o ssrcs \in Seq(Source) /\ Len(b.blocks \o ssrcs) = Len(b.blocks) + Len(ssrcs)
    BY <1>1, ConcatProperties
  <2>2. Len(b.blocks) \in Nat /\ Len(ssrcs) \in Nat
    BY <1>1
  <2> QED BY <2>1, <2>2, Zenon
<1>3. r = [b EXCEPT !.blocks = blocks]
  BY <1>2 DEF AddReportBlocks
<1>4. /\ r \in Packs /\ r.blocks = blocks /\ r.header = b.header /\ r.isSR = b.isSR
      /\ r.sdes = b.sdes /\ r.app = b.app /\ r.appsize = b.appsize /\ r.bye = b.bye
      /\ r.byesize = b.byesize /\ r.max = b.max
  BY <1>1, <1>3 DEF Packs
<1> HIDE DEF r
<1>5. \A k \in Nat : ReportBytesWith(r, k) = ReportBytesWith(b, k)
  BY <1>4 DEF ReportBytesWith
<1>6. NeededBytes(r) = (b.appsize + b.byesize) + ReportBytesWith(b, m + n) + SDESBytes(b.sdes)
  BY <1>2, <1>4, <1>5 DEF NeededBytes, OtherBytes, ReportBytes
<1>7. NeededBytes(b) = (b.appsize + b.byesize) + ReportBytesWith(b, m) + SDESBytes(b.sdes)
  BY <1>2 DEF NeededBytes, OtherBytes, ReportBytes
<1>8. NeededBytes(r) <= b.max
  <2>1. CASE n = 0
    <3>1. m + n = m
      BY <2>1
    <3> QED BY <1>6, <1>7, <3>1 DEF WellBuilt
  <2>2. CASE n # 0
    <3>1. (b.appsize + b.byesize) + SDESBytes(b.sdes) + ReportBytesWith(b, m + room) <= b.max
      BY <1>2, <2>2 DEF CanAddReportBlocks, OtherBytes
    <3>2. /\ ReportBytesWith(b, m + n) <= ReportBytesWith(b, m + room)
          /\ ReportBytesWith(b, m + n) \in Nat /\ ReportBytesWith(b, m + room) \in Nat
      <4>1. m + n \in Nat /\ m + room \in Nat /\ m + n <= m + room
        BY <1>2
      <4> QED BY <4>1, ReportSizes DEF WellBuilt
    <3>3. PICK app \in Nat, bye \in Nat, max \in Nat : app = b.appsize /\ bye = b.byesize /\ max = b.max
      BY <1>1 DEF Packs
    <3>4. SDESBytes(b.sdes) \in Nat
      BY OneChunk
    <3>5. PICK sdes \in Nat, x \in Nat, y \in Nat :
            /\ sdes = SDESBytes(b.sdes)
            /\ x = ReportBytesWith(b, m + n) /\ y = ReportBytesWith(b, m + room)
      BY <3>2, <3>4
    <3>6. (app + bye) + sdes + y <= max /\ x <= y
      BY <3>1, <3>2, <3>3, <3>5
    <3>7. NeededBytes(r) = (app + bye) + x + sdes
      BY <1>6, <3>3, <3>5
    <3>8. (app + bye) + x + sdes <= max
      BY <3>6
    <3> QED BY <3>3, <3>7, <3>8
  <2> QED BY <2>1, <2>2
<1> QED BY <1>4, <1>8 DEF WellBuilt, r

\* Items of one call are only added if all of them fit.
LEMMA ItemsAdded ==
  ASSUME NEW b, WellBuilt(b), NEW ls \in Seq(Nat), CanAddSDESItems(b, ls)
  PROVE  WellBuilt(AddSDESNormalItems(b, ls)) /\ AddSDESNormalItems(b, ls).blocks = b.blocks
<1>1. PICK n \in Nat : b.sdes = <<n>>
  BY OneChunk
<1>2. PICK k \in Nat, t \in Nat : k = Len(ls) /\ t = Total(ls)
  BY TotalNat
<1>3. PICK x \in Nat : x = n + (k * 2) + t
  OBVIOUS
<1>4. WithItems(b.sdes, ls) = <<x>>
  <2>1. WithItems(<<n>>, ls) = [<<n>> EXCEPT ![1] = x]
    <3>1. Len(<<n>>) = 1 /\ <<n>>[1] + (k * 2) + t = x
      BY <1>3
    <3> QED BY <1>2, <3>1 DEF WithItems, ItemHeader
  <2> QED BY <1>1, <2>1
<1> DEFINE r == AddSDESNormalItems(b, ls)
<1>5. r = [b EXCEPT !.sdes = <<x>>]
  BY <1>4 DEF AddSDESNormalItems
<1>6. /\ r \in Packs /\ r.blocks = b.blocks /\ r.header = b.header /\ r.isSR = b.isSR
      /\ r.sdes = <<x>> /\ r.app = b.app /\ r.appsize = b.appsize /\ r.bye = b.bye
      /\ r.byesize = b.byesize /\ r.max = b.max
  <2>1. b \in Packs /\ <<x>> \in Seq(Nat)
    BY DEF WellBuilt
  <2> QED BY <1>5, <2>1 DEF Packs
<1> HIDE DEF r
<1>7. NeededBytes(r) = (b.appsize + b.byesize) + ReportBytes(b) + SDESBytes(<<x>>)
  BY <1>6 DEF NeededBytes, OtherBytes, ReportBytes, ReportBytesWith
<1>8. NeededBytes(r) <= b.max
  <2>1. CASE ls = <<>>
    <3>1. k = 0 /\ t = 0
      BY <1>2, <2>1, TotalEmpty
    <3>2. x = n
      BY <1>3, <3>1
    <3>3. NeededBytes(r) = NeededBytes(b)
      BY <1>1, <1>7, <3>2, Zenon DEF NeededBytes, OtherBytes
    <3> QED BY <3>3 DEF WellBuilt
  <2>2. CASE ls # <<>>
    <3>1. SDESBytesWithExtraItems(b.sdes, ls) = SDESBytes(<<x>>)
      BY <1>1, <1>4 DEF SDESBytesWithExtraItems
    <3> QED BY <1>7, <2>2, <3>1 DEF CanAddSDESItems, OtherBytes
  <2> QED BY <2>1, <2>2
<1>9. WellBuilt(r)
  BY <1>6, <1>8 DEF WellBuilt
<1> QED BY <1>6, <1>9 DEF r

\* A BYE packet in a packet that has just begun, with or without a reason.
LEMMA BYEAdded ==
  ASSUME NEW sr \in BOOLEAN, NEW reason \in Nat, CanBuildBYE(sr, reason)
  PROVE  WellBuilt(BYEPack(sr, reason))
<1> DEFINE b == Begin(sr)
           r == BYEPack(sr, reason)
<1>1. b \in Packs /\ WellBuilt(b) /\ b.app = <<>> /\ b.bye = <<>> /\ b.appsize = 0 /\ b.byesize = 0
  BY NothingAdded
<1>2. PICK size \in Nat : size = BYEBytes(1, reason) /\ size % 4 = 0 /\ size >= 8
  <2>1. CASE reason = 0
    BY <2>1 DEF BYEBytes, CommonHeader, Word
  <2>2. CASE reason # 0
    <3>1. 1 + reason \in Nat
      OBVIOUS
    <3>2. PICK a \in Nat : a = Aligned(1 + reason) /\ a % 4 = 0
      BY <3>1, AlignedSize DEF Word
    <3>3. BYEBytes(1, reason) = 4 + (4 * 1) + a
      BY <2>2, <3>2 DEF BYEBytes, CommonHeader, Word
    <3>4. 4 + (4 * 1) + a \in Nat /\ (4 + (4 * 1) + a) % 4 = 0 /\ 4 + (4 * 1) + a >= 8
      BY <3>2
    <3> QED BY <3>3, <3>4
  <2> QED BY <2>1, <2>2
<1> HIDE DEF b
<1>3. r = [b EXCEPT !.bye = <<size>>, !.byesize = size]
  <2>1. r = [b EXCEPT !.bye = Append(b.bye, size), !.byesize = b.byesize + size]
    BY <1>2 DEF BYEPack, AddBYEPacket, b
  <2>2. Append(b.bye, size) = <<size>> /\ b.byesize + size = size
    BY <1>1
  <2> QED BY <2>1, <2>2
<1> HIDE DEF r
<1>4. /\ r \in Packs /\ r.blocks = b.blocks /\ r.header = b.header /\ r.isSR = b.isSR
      /\ r.sdes = b.sdes /\ r.app = <<>> /\ r.appsize = 0 /\ r.bye = <<size>>
      /\ r.byesize = size /\ r.max = b.max
  <2>1. <<size>> \in Seq(Nat)
    OBVIOUS
  <2> QED BY <1>1, <1>3, <2>1 DEF Packs
<1>5. NeededBytes(r) <= r.max
  <2>1. NeededBytes(b) + size <= b.max
    BY <1>2 DEF CanBuildBYE, CanAddBYE, b
  <2>2. ReportBytes(r) = ReportBytes(b)
    BY <1>4 DEF ReportBytes, ReportBytesWith
  <2>3. PICK x \in Nat, y \in Nat, max \in Nat :
          x = ReportBytes(b) /\ y = SDESBytes(b.sdes) /\ max = b.max
    BY <1>1, NeededNat DEF Packs
  <2>4. NeededBytes(b) = (0 + 0) + x + y /\ NeededBytes(r) = (0 + size) + x + y
    BY <1>1, <1>4, <2>2, <2>3 DEF NeededBytes, OtherBytes
  <2>5. (0 + size) + x + y = (0 + 0) + x + y + size
    BY <2>3
  <2> QED BY <1>4, <2>1, <2>4, <2>5
<1>6. WellBuilt(r)
  BY <1>1, <1>2, <1>4, <1>5 DEF WellBuilt, Single, Word, CommonHeader
<1> QED BY <1>6 DEF r

\* There is room for it, however long the reason.
LEMMA BYEFits ==
  ASSUME NEW sr \in BOOLEAN, NEW reason \in 0..MaxItem
  PROVE  CanBuildBYE(sr, reason)
<1>1. PICK limit \in Nat, most \in Nat :
        /\ limit = Aligned(ItemHeader + MaxItem + 1) /\ most = Aligned(1 + MaxItem)
        /\ 36 + limit + 4 + 4 + most <= MaxPacketSize
  <2>1. ItemHeader + MaxItem + 1 \in Nat /\ 1 + MaxItem \in Nat
    BY SizeAssumption DEF ItemHeader
  <2>2. PICK limit \in Nat, most \in Nat :
          limit = Aligned(ItemHeader + MaxItem + 1) /\ most = Aligned(1 + MaxItem)
    BY <2>1, AlignedSize
  <2>3. 36 + limit + 4 + 4 + most <= MinPacketSize /\ MinPacketSize \in Nat
    BY <2>2, SizeAssumption DEF CNAMEBytes, CommonHeader, Word, SenderInfo
  <2>4. MinPacketSize <= MaxPacketSize /\ MaxPacketSize \in Nat
    BY ReportsAssumption
  <2>5. 36 + limit + 4 + 4 + most <= MaxPacketSize
    BY <2>3, <2>4
  <2> QED BY <2>2, <2>5
<1>2. PICK size \in Nat : size = BYEBytes(1, reason) /\ size <= 4 + 4 + most
  <2>1. CASE reason = 0
    BY <1>1, <2>1 DEF BYEBytes, CommonHeader, Word
  <2>2. CASE reason # 0
    <3>1. 1 + reason \in Nat /\ 1 + MaxItem \in Nat /\ 1 + reason <= 1 + MaxItem
      BY SizeAssumption
    <3>2. PICK a \in Nat : a = Aligned(1 + reason) /\ a <= most
      BY <1>1, <3>1, AlignedSize, AlignedMonotone
    <3>3. BYEBytes(1, reason) = 4 + (4 * 1) + a
      BY <2>2, <3>2 DEF BYEBytes, CommonHeader, Word
    <3>4. 4 + (4 * 1) + a \in Nat /\ 4 + (4 * 1) + a <= 4 + 4 + most
      BY <3>2
    <3> QED BY <3>3, <3>4
  <2> QED BY <2>1, <2>2
<1>3. CanBegin(sr) /\ Begin(sr).max = MaxPacketSize /\ WellBuilt(Begin(sr))
  BY BeginWell
<1>4. PICK needed \in Nat, max \in Nat :
        /\ needed = NeededBytes(Begin(sr)) /\ max = MaxPacketSize /\ needed <= 36 + limit
  <2>1. NeededBytes(Begin(sr)) <= CNAMEBytes + limit
    BY <1>1, BeginWell
  <2>2. CNAMEBytes = 36
    BY DEF CNAMEBytes, CommonHeader, Word, SenderInfo
  <2>3. NeededBytes(Begin(sr)) \in Nat
    BY <1>3, NeededNat
  <2> QED BY <2>1, <2>2, <2>3, ReportsAssumption
<1>5. NeededBytes(Begin(sr)) + BYEBytes(1, reason) <= Begin(sr).max
  <2>1. needed + size <= max
    BY <1>1, <1>2, <1>4
  <2> QED BY <1>2, <1>3, <1>4, <2>1
<1>6. 1 <= MaxCount
  BY SizeAssumption
<1> QED BY <1>3, <1>5, <1>6 DEF CanBuildBYE, CanAddBYE

\* Application data behind the report and our CNAME.
LEMMA APPAdded ==
  ASSUME NEW d \in Nat, CanAddAPP(Begin(FALSE), d)
  PROVE  WellBuilt(APPPack(d))
<1> DEFINE b == Begin(FALSE)
           r == APPPack(d)
<1>1. b \in Packs /\ WellBuilt(b) /\ b.app = <<>> /\ b.bye = <<>> /\ b.appsize = 0 /\ b.byesize = 0
  BY NothingAdded
<1>2. PICK size \in Nat : size = APPBytes(d) /\ size % 4 = 0 /\ size >= 12
  <2>1. d % 4 = 0
    BY DEF CanAddAPP, Word
  <2>2. APPBytes(d) = 12 + d
    BY DEF APPBytes, CommonHeader, Word
  <2>3. (12 + d) % 4 = 0 /\ 12 + d \in Nat /\ 12 + d >= 12
    BY <2>1
  <2> QED BY <2>2, <2>3
<1> HIDE DEF b
<1>3. r = [b EXCEPT !.app = <<size>>, !.appsize = size]
  <2>1. r = [b EXCEPT !.app = Append(b.app, size), !.appsize = b.appsize + size]
    BY <1>2 DEF APPPack, AddAPPPacket, b
  <2>2. Append(b.app, size) = <<size>> /\ b.appsize + size = size
    BY <1>1
  <2> QED BY <2>1, <2>2
<1> HIDE DEF r
<1>4. /\ r \in Packs /\ r.blocks = b.blocks /\ r.header = b.header /\ r.isSR = b.isSR
      /\ r.sdes = b.sdes /\ r.app = <<size>> /\ r.appsize = size /\ r.bye = <<>>
      /\ r.byesize = 0 /\ r.max = b.max
  <2>1. <<size>> \in Seq(Nat)
    OBVIOUS
  <2> QED BY <1>1, <1>3, <2>1 DEF Packs
<1>5. NeededBytes(r) <= r.max
  <2>1. NeededBytes(b) + size <= b.max
    <3>1. CanAddAPP(b, d)
      BY DEF b
    <3>2. NeededBytes(b) + APPBytes(d) <= b.max
      BY <3>1 DEF CanAddAPP
    <3> QED BY <1>2, <3>2
  <2>2. ReportBytes(r) = ReportBytes(b)
    BY <1>4 DEF ReportBytes, ReportBytesWith
  <2>3. PICK x \in Nat, y \in Nat, max \in Nat :
          x = ReportBytes(b) /\ y = SDESBytes(b.sdes) /\ max = b.max
    BY <1>1, NeededNat DEF Packs
  <2>4. NeededBytes(b) = (0 + 0) + x + y /\ NeededBytes(r) = (size + 0) + x + y
    BY <1>1, <1>4, <2>2, <2>3 DEF NeededBytes, OtherBytes
  <2>5. (size + 0) + x + y = (0 + 0) + x + y + size
    BY <2>3
  <2> QED BY <1>4, <2>1, <2>4, <2>5
<1>6. WellBuilt(r)
  BY <1>1, <1>2, <1>4, <1>5 DEF WellBuilt, Single, Word, CommonHeader
<1> QED BY <1>6 DEF r

\* A packet that has just begun takes a report block,
LEMMA OneBlockFits ==
  ASSUME NEW sr \in BOOLEAN
  PROVE  CanAddReportBlocks(Begin(sr), 1)
<1> DEFINE b == Begin(sr)
<1>1. /\ b \in Packs /\ WellBuilt(b) /\ b.appsize = 0 /\ b.byesize = 0
  BY NothingAdded
<1>2. /\ b.blocks = <<>> /\ b.max = MaxPacketSize
      /\ NeededBytes(b) <= CNAMEBytes + Aligned(ItemHeader + MaxItem + 1)
  BY BeginWell
<1> HIDE DEF b
<1>3. PICK limit \in Nat, max \in Nat :
        /\ limit = Aligned(ItemHeader + MaxItem + 1) /\ max = MaxPacketSize
        /\ 36 + limit + 24 <= max
  <2>1. ItemHeader + MaxItem + 1 \in Nat
    BY SizeAssumption DEF ItemHeader
  <2>2. PICK limit \in Nat : limit = Aligned(ItemHeader + MaxItem + 1)
    BY <2>1, AlignedSize
  <2>3. 36 + limit + 24 <= MinPacketSize /\ MinPacketSize \in Nat
    BY <2>2, SizeAssumption DEF CNAMEBytes, CommonHeader, Word, SenderInfo, BlockSize
  <2> QED BY <2>2, <2>3, ReportsAssumption
<1>4. PICK extra \in Nat : extra = (IF b.isSR THEN 20 ELSE 0)
  OBVIOUS
<1>5. ReportBytes(b) = 8 + extra
  <2>1. b.header = 4 + extra /\ Len(b.blocks) = 0 /\ 4 + extra # 0
    BY <1>1, <1>2, <1>4 DEF WellBuilt, Word, SenderInfo
  <2>2. ReportBytes(b) = 4 + (4 + extra)
    BY <2>1 DEF ReportBytes, ReportBytesWith, CommonHeader
  <2> QED BY <2>2
<1>6. ReportBytesWith(b, Len(b.blocks) + 1) = 32 + extra
  <2>1. Len(b.blocks) + 1 = 1
    BY <1>2
  <2>2. ReportBytesWith(b, 1) = (1 * 24) + (1 * 8) + extra
    BY <1>4, OnePacket DEF ReportBytesWith, CommonHeader, Word, BlockSize, SenderInfo
  <2> QED BY <2>1, <2>2
<1>7. PICK size \in Nat : size = SDESBytes(b.sdes) /\ 8 + extra + size <= 36 + limit
  <2>1. PICK size \in Nat : size = SDESBytes(b.sdes)
    BY <1>1, NeededNat
  <2>2. NeededBytes(b) = (0 + 0) + (8 + extra) + size
    BY <1>1, <1>5, <2>1 DEF NeededBytes, OtherBytes
  <2>3. CNAMEBytes = 36
    BY DEF CNAMEBytes, CommonHeader, Word, SenderInfo
  <2> QED BY <1>2, <1>3, <2>1, <2>2, <2>3
<1>8. OtherBytes(b) + SDESBytes(b.sdes) + ReportBytesWith(b, Len(b.blocks) + 1) <= b.max
  <2>1. (0 + 0) + size + (32 + extra) <= max
    BY <1>3, <1>7
  <2>2. OtherBytes(b) = 0 + 0
    BY <1>1 DEF OtherBytes
  <2> QED BY <1>2, <1>3, <1>6, <1>7, <2>1, <2>2
<1> QED BY <1>8 DEF CanAddReportBlocks, b

\* and any SDES item.
LEMMA OneItemFits ==
  ASSUME NEW sr \in BOOLEAN, NEW l \in 0..MaxItem
  PROVE  CanAddSDESItems(Begin(sr), <<l>>)
<1> DEFINE b == Begin(sr)
<1>1. b \in Packs /\ WellBuilt(b) /\ b.appsize = 0 /\ b.byesize = 0
  BY NothingAdded
<1>2. b.blocks = <<>> /\ b.max = MaxPacketSize /\ b.sdes = <<CNAMELength + ItemHeader>>
  BY BeginWell
<1> HIDE DEF b
<1>3. PICK c \in Nat, i \in Nat, n \in Nat, most \in Nat :
        /\ c = CNAMELength /\ i = MaxItem /\ c <= i /\ l <= i
        /\ n = (2 * (ItemHeader + MaxItem)) + 1 /\ most = Aligned(n)
        /\ 36 + most <= MaxPacketSize
  <2>1. (2 * (ItemHeader + MaxItem)) + 1 \in Nat
    BY SizeAssumption DEF ItemHeader
  <2>2. PICK n \in Nat, most \in Nat : n = (2 * (ItemHeader + MaxItem)) + 1 /\ most = Aligned(n)
    BY <2>1, AlignedSize
  <2>3. 36 + most <= MinPacketSize /\ MinPacketSize \in Nat
    BY <2>2, SizeAssumption DEF CNAMEBytes, CommonHeader, Word, SenderInfo
  <2>4. 36 + most <= MaxPacketSize
    BY <2>3, ReportsAssumption
  <2>5. PICK c \in Nat, i \in Nat : c = CNAMELength /\ i = MaxItem /\ c <= i /\ l <= i
    BY SizeAssumption, ReportsAssumption
  <2> QED BY <2>2, <2>4, <2>5, Zenon
<1>4. l \in Nat
  BY SizeAssumption
<1>5. PICK x \in Nat : x = c + 4 + l /\ x + 1 <= n /\ x + 1 \in Nat
  <2>1. n = (2 * (2 + i)) + 1
    BY <1>3 DEF ItemHeader
  <2> QED BY <1>3, <1>4, <2>1
<1>6. WithItems(b.sdes, <<l>>) = <<x>>
  <2>1. b.sdes = <<c + 2>>
    BY <1>2, <1>3 DEF ItemHeader
  <2>2. Total(<<l>>) = l
    BY <1>4, TotalOne
  <2>3. WithItems(<<c + 2>>, <<l>>) = [<<c + 2>> EXCEPT ![1] = x]
    <3>1. Len(<<c + 2>>) = 1 /\ Len(<<l>>) = 1 /\ <<c + 2>>[1] + (1 * 2) + l = x
      BY <1>4, <1>5
    <3> QED BY <2>2, <3>1 DEF WithItems, ItemHeader
  <2> QED BY <2>1, <2>3
<1>7. PICK size \in Nat : size = SDESBytesWithExtraItems(b.sdes, <<l>>) /\ size <= most + 8
  <2>1. SDESBytesWithExtraItems(b.sdes, <<l>>) = SDESBytes(<<x>>)
    BY <1>2, <1>6 DEF SDESBytesWithExtraItems
  <2>2. Aligned(x + 1) \in Nat /\ Aligned(x + 1) <= most
    BY <1>3, <1>5, AlignedSize, AlignedMonotone
  <2>3. SDESBytes(<<x>>) = Aligned(x + 1) + 8
    BY ChunkWritten
  <2> QED BY <2>1, <2>2, <2>3
<1>8. PICK r \in Nat : r = ReportBytes(b) /\ r <= 28
  <2>1. PICK extra \in Nat : extra = (IF b.isSR THEN 20 ELSE 0) /\ extra <= 20
    OBVIOUS
  <2>2. b.header = 4 + extra /\ Len(b.blocks) = 0 /\ 4 + extra # 0
    BY <1>1, <1>2, <2>1 DEF WellBuilt, Word, SenderInfo
  <2>3. ReportBytes(b) = 4 + (4 + extra)
    BY <2>2 DEF ReportBytes, ReportBytesWith, CommonHeader
  <2> QED BY <2>1, <2>3
<1>9. OtherBytes(b) + ReportBytes(b) + SDESBytesWithExtraItems(b.sdes, <<l>>) <= b.max
  <2>1. PICK max \in Nat : max = MaxPacketSize
    BY ReportsAssumption
  <2>2. (0 + 0) + r + size <= max
    BY <1>3, <1>7, <1>8, <2>1
  <2>3. OtherBytes(b) = 0 + 0
    BY <1>1 DEF OtherBytes
  <2> QED BY <1>2, <1>7, <1>8, <2>1, <2>2, <2>3
<1> QED BY <1>9 DEF CanAddSDESItems, b

-----------------------------------------------------------------------------
(* The walks                                                               *)

\* Every block of the packet is for a source that one is due to.
OnlyDue(b) == b.blocks \in Seq(ToReport)

\* The table gives a walk the sources that a block is due to.
LEMMA DueInTable ==
  ASSUME table \in Seq(Source), NEW marked
  PROVE  LET new == Selected(table, ToReport \ marked)
         IN  new \in Seq(Source) /\ \A j \in 1..Len(new) : new[j] \in ToReport
<1> DEFINE wanted == ToReport \ marked
<1>1. \A X : table \in Seq(X) =>
        \A S : Selected(table, S) \in Seq(X)
               /\ SelectedFrom(Selected(table, S), table, Len(table), S)
  BY SelectedProperties
<1>2. PICK new : /\ new = Selected(table, wanted) /\ new \in Seq(Source)
                 /\ SelectedFrom(new, table, Len(table), wanted)
  <2> HIDE DEF wanted
  <2> QED BY <1>1, Zenon
<1>3. ASSUME NEW j \in 1..Len(new) PROVE new[j] \in wanted
  <2> HIDE DEF wanted
  <2> QED BY <1>2, Zenon DEF SelectedFrom
<1> QED BY <1>2, <1>3

\* The blocks that a walk adds fit into the packet.
LEMMA BlocksFilledIn ==
  ASSUME table \in Seq(Source), NEW pack, WellBuilt(pack), NEW marked, NEW maxcount \in Nat
  PROVE  LET walk == FillInReportBlocks(pack, marked, maxcount)
         IN  /\ WellBuilt(walk.pack) /\ walk.added \in Nat /\ walk.skipped \in Nat
             /\ walk.full => ~CanAddReportBlocks(pack, 1) \/ walk.added >= 1
             /\ OnlyDue(pack) => OnlyDue(walk.pack)
<1> DEFINE walk == FillInReportBlocks(pack, marked, maxcount)
           T(list) == {n \in 0..Len(list) : CanAddReportBlocks(pack, n)}
<1>1. PICK new \in Seq(Source) : new = Selected(table, ToReport \ marked)
  BY DueInTable, Zenon
<1>2. PICK m \in Nat : m = Len(new)
  OBVIOUS
<1>3. PICK room \in Nat : /\ room = Max(T(new)) /\ room <= m /\ CanAddReportBlocks(pack, room)
                          /\ \A n \in 0..m : CanAddReportBlocks(pack, n) => n <= room
  <2> DEFINE V == {n \in 0..m : CanAddReportBlocks(pack, n)}
  <2>1. V \in SUBSET (0..m) /\ V # {}
    <3>1. 0 \in V
      BY DEF CanAddReportBlocks
    <3> QED BY <3>1
  <2>2. Max(V) \in V /\ \A n \in V : n <= Max(V)
    <3> HIDE DEF V
    <3> QED BY <2>1, MaxOfSome
  <2>3. V = T(new)
    BY <1>2
  <2>4. PICK room \in V : room = Max(T(new)) /\ \A n \in V : n <= room
    <3> HIDE DEF V, T
    <3> QED BY <2>2, <2>3
  <2>5. room \in 0..m /\ CanAddReportBlocks(pack, room)
    OBVIOUS
  <2>6. \A n \in 0..m : CanAddReportBlocks(pack, n) => n <= room
    BY <2>4
  <2>7. room \in Nat /\ room <= m
    BY <2>5
  <2> HIDE DEF V, T
  <2> QED BY <2>4, <2>5, <2>6, <2>7, Zenon
<1> DEFINE added == IF room < maxcount THEN room ELSE maxcount
<1>4. PICK a \in Nat : a = added /\ a <= room
  OBVIOUS
<1>5. PICK ssrcs \in Seq(Source) : ssrcs = SubSeq(new, 1, a) /\ Len(ssrcs) <= room
  <2>1. \A i \in 1..a : new[i] \in Source
    BY <1>2, <1>3, <1>4
  <2>2. SubSeq(new, 1, a) \in Seq(Source) /\ Len(SubSeq(new, 1, a)) = IF 1 <= a THEN a - 1 + 1 ELSE 0
    BY <2>1, SubSeqProperties
  <2>3. (IF 1 <= a THEN a - 1 + 1 ELSE 0) <= room
    BY <1>4
  <2> QED BY <2>2, <2>3
<1>6. WellBuilt(AddReportBlocks(pack, ssrcs))
  BY <1>3, <1>5, BlocksAdded
<1>7. /\ walk.pack = AddReportBlocks(pack, ssrcs) /\ walk.added = a
      /\ walk.skipped = Cardinality({i \in DOMAIN table : table[i] \in ToReport \cap marked})
      /\ walk.full = (room < m /\ room < maxcount)
  <2> HIDE DEF T
  <2> QED BY <1>1, <1>2, <1>3, <1>4, <1>5 DEF FillInReportBlocks, T
<1>8. walk.skipped \in Nat
  <2>1. IsFiniteSet(1..Len(table))
    BY FS_Interval
  <2>2. IsFiniteSet({i \in DOMAIN table : table[i] \in ToReport \cap marked})
    BY <2>1, FS_Subset
  <2> QED BY <1>7, <2>2, FS_CardinalityType
<1>9. walk.full => ~CanAddReportBlocks(pack, 1) \/ a >= 1
  <2> SUFFICES ASSUME walk.full, CanAddReportBlocks(pack, 1) PROVE a >= 1
    OBVIOUS
  <2>1. room < m /\ room < maxcount
    BY <1>7
  <2>2. 1 \in 0..m
    BY <1>3, <2>1
  <2>3. 1 <= room
    BY <1>3, <2>2
  <2> QED BY <1>4, <2>1, <2>3
<1>10. ASSUME OnlyDue(pack) PROVE OnlyDue(AddReportBlocks(pack, ssrcs))
  <2>1. \A j \in 1..Len(new) : new[j] \in ToReport
    BY <1>1, DueInTable, Zenon
  <2>2. \A i \in 1..a : new[i] \in ToReport
    BY <1>2, <1>3, <1>4, <2>1
  <2>3. ssrcs \in Seq(ToReport)
    BY <1>5, <2>2, SubSeqProperties
  <2>4. pack.blocks \o ssrcs \in Seq(ToReport)
    BY <1>10, <2>3, ConcatProperties DEF OnlyDue
  <2>5. AddReportBlocks(pack, ssrcs).blocks = pack.blocks \o ssrcs
    BY DEF AddReportBlocks, WellBuilt, Packs
  <2> QED BY <2>4, <2>5 DEF OnlyDue
<1> HIDE DEF walk
<1> QED BY <1>6, <1>7, <1>8, <1>9, <1>10 DEF walk

\* The items are a list without repetition.
LEMMA ItemsAre == SDESItems \in Seq(ItemNames) /\ Len(SDESItems) = 6 /\ Distinct(SDESItems)
<1>1. Len(SDESItems) = 6 /\ DOMAIN SDESItems = 1..6
  BY DEF SDESItems
<1>2. SDESItems \in Seq(ItemNames)
  <2>1. ItemNames = {"name", "email", "location", "phone", "tool", "note"}
    BY <1>1 DEF ItemNames, Range, SDESItems
  <2> QED BY <2>1 DEF SDESItems
<1>3. Distinct(SDESItems)
  BY <1>1 DEF SDESItems, Distinct
<1> QED BY <1>1, <1>2, <1>3

\* The items that a walk adds fit into the packet, and when the packet is full
\* there is an item left.
LEMMA ItemsFilledIn ==
  ASSUME length \in [ItemNames -> 0..MaxItem], NEW pack, WellBuilt(pack),
         NEW items \in SUBSET ItemNames, NEW flags
  PROVE  LET sdes == FillInSDES(pack, items, flags)
         IN  /\ WellBuilt(sdes.pack) /\ (OnlyDue(pack) => OnlyDue(sdes.pack))
             /\ sdes.full => items \ sdes.flags # {}
             /\ (\A l \in 0..MaxItem : CanAddSDESItems(pack, <<l>>)) /\ items \ flags # {}
                  => sdes.added # 0
<1> DEFINE sdes == FillInSDES(pack, items, flags)
           wanted == items \ flags
<1>1. PICK new \in Seq(ItemNames) :
        /\ new = Selected(SDESItems, wanted)
        /\ \A x \in wanted : \E j \in 1..Len(new) : new[j] = x
        /\ \A j \in 1..Len(new) : new[j] \in wanted
        /\ Distinct(new)
  <2>1. \A X : SDESItems \in Seq(X) =>
          \A S : Selected(SDESItems, S) \in Seq(X)
                 /\ SelectedFrom(Selected(SDESItems, S), SDESItems, Len(SDESItems), S)
    BY SelectedProperties
  <2>2. PICK new \in Seq(ItemNames) :
          new = Selected(SDESItems, wanted) /\ SelectedFrom(new, SDESItems, Len(SDESItems), wanted)
    <3> HIDE DEF wanted
    <3> QED BY <2>1, ItemsAre, Zenon
  <2>3. \A x \in wanted : \E i \in 1..Len(SDESItems) : SDESItems[i] = x
    BY ItemsAre DEF ItemNames, Range
  <2>4. /\ \A x \in wanted : \E j \in 1..Len(new) : new[j] = x
        /\ \A j \in 1..Len(new) : new[j] \in wanted
    <3> HIDE DEF wanted
    <3> QED BY <2>2, <2>3, Zenon DEF SelectedFrom
  <2>5. Distinct(new)
    BY <2>2, ItemsAre, Zenon DEF SelectedFrom
  <2> HIDE DEF wanted
  <2> QED BY <2>2, <2>4, <2>5, Zenon
<1>2. PICK m \in Nat : m = Len(new)
  OBVIOUS
<1> DEFINE First(n) == [k \in 1..n |-> length[new[k]]]
           V == {n \in 0..m : CanAddSDESItems(pack, First(n))}
<1>3. PICK a \in Nat : a = Max(V) /\ a <= m /\ CanAddSDESItems(pack, First(a))
                        /\ \A n \in 0..m : CanAddSDESItems(pack, First(n)) => n <= a
  <2>1. V \in SUBSET (0..m)
    OBVIOUS
  <2>2. V # {}
    <3>1. First(0) = <<>>
      <4>1. \A f : f = [k \in 1..0 |-> f[k]] => f = <<>>
        OBVIOUS
      <4>2. First(0) = [k \in 1..0 |-> First(0)[k]]
        OBVIOUS
      <4> QED BY <4>1, <4>2
    <3>2. CanAddSDESItems(pack, First(0))
      BY <3>1 DEF CanAddSDESItems
    <3>3. 0 \in V
      <4> HIDE DEF First
      <4> QED BY <3>2
    <3> QED BY <3>3
  <2>3. PICK a \in V : a = Max(V) /\ \A n \in V : n <= a
    <3> HIDE DEF V
    <3> QED BY <2>1, <2>2, MaxOfSome
  <2> HIDE DEF First
  <2>4. a \in 0..m /\ CanAddSDESItems(pack, First(a))
    OBVIOUS
  <2>5. \A n \in 0..m : CanAddSDESItems(pack, First(n)) => n <= a
    BY <2>3
  <2>6. a \in Nat /\ a <= m
    BY <2>4
  <2> HIDE DEF V
  <2> QED BY <2>3, <2>4, <2>5, <2>6, Zenon
<1>4. /\ sdes.pack = AddSDESNormalItems(pack, First(a))
      /\ sdes.flags = flags \cup {new[k] : k \in 1..a}
      /\ sdes.added = a /\ sdes.full = (a < m)
  <2> DEFINE Those(list, n) == [k \in 1..n |-> length[list[k]]]
             Accepted(list) == {n \in 0..Len(list) : CanAddSDESItems(pack, Those(list, n))}
             Result(list, n) ==
               [pack  |-> AddSDESNormalItems(pack, Those(list, n)),
                flags |-> flags \cup {list[k] : k \in 1..n},
                added |-> n,
                full  |-> n < Len(list)]
  <2>1. sdes = Result(Selected(SDESItems, wanted), Max(Accepted(Selected(SDESItems, wanted))))
    BY DEF FillInSDES
  <2>2. Accepted(new) = V
    BY <1>2
  <2>3. sdes = Result(new, Max(Accepted(new)))
    <3> HIDE DEF Result, Accepted, wanted, sdes
    <3> QED BY <1>1, <2>1
  <2>4. sdes = Result(new, a)
    <3> HIDE DEF Result, Accepted, V, sdes
    <3> QED BY <1>3, <2>2, <2>3
  <2>5. Those(new, a) = First(a)
    OBVIOUS
  <2> HIDE DEF sdes, Those, First
  <2> QED BY <1>2, <2>4, <2>5
<1>5. \A k \in 1..m : length[new[k]] \in 0..MaxItem
  BY <1>2
<1>6. WellBuilt(sdes.pack) /\ sdes.pack.blocks = pack.blocks
  <2>1. First(a) \in Seq(Nat)
    <3>1. \A k \in 1..a : length[new[k]] \in Nat
      BY <1>3, <1>5, SizeAssumption
    <3> QED BY <3>1
  <2> HIDE DEF First
  <2> QED BY <1>3, <1>4, <2>1, ItemsAdded
<1>7. sdes.full => items \ sdes.flags # {}
  <2> SUFFICES ASSUME a < m PROVE items \ sdes.flags # {}
    BY <1>4
  <2>1. a + 1 \in 1..Len(new) /\ \A k \in 1..a : k \in 1..Len(new) /\ k # a + 1
    BY <1>2
  <2>2. \A k \in 1..a : new[k] # new[a + 1]
    BY <1>1, <2>1 DEF Distinct
  <2>3. PICK x : x = new[a + 1] /\ x \in items \ flags
    BY <1>1, <2>1
  <2>4. \A k \in 1..a : new[k] # x
    BY <2>2, <2>3
  <2>5. sdes.flags = flags \cup {new[k] : k \in 1..a}
    BY <1>4
  <2> HIDE DEF sdes
  <2> QED BY <2>3, <2>4, <2>5, Zenon
<1>8. ASSUME \A l \in 0..MaxItem : CanAddSDESItems(pack, <<l>>), items \ flags # {}
      PROVE  a # 0
  <2>1. m >= 1
    <3>1. PICK x : x \in items \ flags
      BY <1>8
    <3>2. PICK j \in 1..Len(new) : new[j] = x
      BY <1>1, <3>1, Zenon
    <3> QED BY <1>2, <3>2
  <2>2. First(1) = <<length[new[1]]>>
    OBVIOUS
  <2>3. length[new[1]] \in 0..MaxItem
    BY <1>5, <2>1
  <2>4. CanAddSDESItems(pack, First(1))
    <3> HIDE DEF First
    <3> QED BY <1>8, <2>2, <2>3
  <2>5. 1 \in 0..m
    BY <2>1
  <2>6. 1 <= a
    <3> HIDE DEF First
    <3> QED BY <1>3, <2>4, <2>5
  <2> QED BY <2>6
<1>9. OnlyDue(pack) => OnlyDue(sdes.pack)
  <2> HIDE DEF sdes
  <2> QED BY <1>6 DEF OnlyDue
<1> HIDE DEF sdes
<1> QED BY <1>4, <1>6, <1>7, <1>8, <1>9 DEF sdes

-----------------------------------------------------------------------------
(* The packets of the session                                              *)

\* Nothing has failed for want of room, a round of SDES items that goes on has an
\* item left to send, and the packet built last was built well.
BuilderInv ==
  /\ table \in Seq(Source) /\ sender \in BOOLEAN /\ processingsdes \in BOOLEAN
  /\ length \in [ItemNames -> 0..MaxItem] /\ due \subseteq ItemNames
  /\ toosoon = FALSE
  /\ processingsdes => due \ sdesflags # {}
  /\ last.header = 0 \/ WellBuilt(last)

\* BuildNextPacket succeeds with such a packet and keeps the round going.
GoodOutcome(o) ==
  /\ o.ok = TRUE /\ WellBuilt(o.pack) /\ OnlyDue(o.pack) /\ o.processing \in BOOLEAN /\ o.items \subseteq ItemNames
  /\ o.processing => o.items \ o.flags # {}

\* An outcome is good if its parts are.
LEMMA OutcomeIs ==
  ASSUME NEW pack, NEW marked, NEW processing \in BOOLEAN, NEW count, NEW items, NEW flags, NEW sent,
         WellBuilt(pack), OnlyDue(pack), items \subseteq ItemNames, processing => items \ flags # {}
  PROVE  GoodOutcome(Outcome(pack, marked, processing, count, items, flags, sent))
<1> DEFINE o == Outcome(pack, marked, processing, count, items, flags, sent)
<1>1. o.ok = TRUE /\ o.pack = pack /\ o.processing = processing /\ o.items = items /\ o.flags = flags
  BY DEF Outcome
<1> HIDE DEF o
<1>2. GoodOutcome(o)
  BY <1>1 DEF GoodOutcome
<1> QED BY <1>2 DEF o

LEMMA BuiltIsGood == ASSUME BuilderInv PROVE GoodOutcome(Built)
<1> DEFINE pack == Begin(sender)
           walk == FillInReportBlocks(pack, processed, Len(table) + 1)
           sdes == FillInSDES(pack, due, sdesflags)
<1>1. WellBuilt(pack) /\ CanBegin(sender) /\ CanAddReportBlocks(pack, 1)
      /\ (\A l \in 0..MaxItem : CanAddSDESItems(pack, <<l>>)) /\ OnlyDue(pack)
  <2>1. pack.blocks = <<>>
    BY BeginWell DEF BuilderInv
  <2>2. OnlyDue(pack)
    <3> HIDE DEF pack
    <3> QED BY <2>1 DEF OnlyDue
  <2> QED BY <2>2, BeginWell, OneBlockFits, OneItemFits DEF BuilderInv
<1>2. PICK n \in Nat : n = Len(table) + 1
  BY DEF BuilderInv
<1>3. /\ WellBuilt(walk.pack) /\ walk.added \in Nat /\ walk.skipped \in Nat
      /\ walk.full => walk.added >= 1
      /\ OnlyDue(walk.pack)
  <2> HIDE DEF pack
  <2>1. /\ WellBuilt(FillInReportBlocks(pack, processed, n).pack)
        /\ FillInReportBlocks(pack, processed, n).added \in Nat
        /\ FillInReportBlocks(pack, processed, n).skipped \in Nat
        /\ FillInReportBlocks(pack, processed, n).full =>
             ~CanAddReportBlocks(pack, 1) \/ FillInReportBlocks(pack, processed, n).added >= 1
        /\ OnlyDue(FillInReportBlocks(pack, processed, n).pack)
    BY <1>1, BlocksFilledIn DEF BuilderInv
  <2> QED BY <1>1, <1>2, <2>1
<1>4. WellBuilt(sdes.pack) /\ OnlyDue(sdes.pack) /\ (sdes.full => due \ sdes.flags # {})
  <2> HIDE DEF pack
  <2> QED BY <1>1, ItemsFilledIn DEF BuilderInv
<1>5. processingsdes => sdes.added # 0
  <2> HIDE DEF pack
  <2> QED BY <1>1, ItemsFilledIn DEF BuilderInv
<1>6. GoodOutcome(StartSDES(walk))
  <2> HIDE DEF walk
  <2> DEFINE count == (sdesbuildcount + 1) % SDESCycle
             items == DueIn(count)
             more  == FillInSDES(walk.pack, items, sdesflags)
             again == FillInReportBlocks(more.pack, {}, walk.skipped)
  <2>1. items \subseteq ItemNames
    BY DEF DueIn
  <2> HIDE DEF items
  <2>2. WellBuilt(more.pack) /\ OnlyDue(more.pack) /\ (more.full => items \ more.flags # {})
    BY <1>3, <2>1, ItemsFilledIn DEF BuilderInv
  <2> HIDE DEF more
  <2>3. WellBuilt(again.pack) /\ OnlyDue(again.pack)
    BY <1>3, <2>2, BlocksFilledIn DEF BuilderInv
  <2> HIDE DEF again
  <2>4. ASSUME more.full
        PROVE  GoodOutcome(Outcome(more.pack, {}, TRUE, count, items, more.flags, more.flags))
    <3> HIDE DEF count
    <3>1. TRUE \in BOOLEAN
      OBVIOUS
    <3> QED BY <2>1, <2>2, <2>4, <3>1, OutcomeIs, Zenon
  <2>5. GoodOutcome(Outcome(more.pack, {}, FALSE, count, items, {}, more.flags))
    <3> HIDE DEF count
    <3>1. FALSE \in BOOLEAN
      OBVIOUS
    <3> QED BY <2>1, <2>2, <3>1, OutcomeIs, Zenon
  <2>6. GoodOutcome(Outcome(again.pack, again.marked, FALSE, count, items, {}, more.flags))
    <3> HIDE DEF count
    <3>1. FALSE \in BOOLEAN
      OBVIOUS
    <3> QED BY <2>1, <2>3, <3>1, OutcomeIs, Zenon
  <2> QED BY <2>4, <2>5, <2>6, Zenon DEF StartSDES, count, items, more, again
<1>7. GoodOutcome(ContinueSDES(sdes))
  <2> HIDE DEF sdes
  <2> DEFINE rest == FillInReportBlocks(sdes.pack, processed, Len(table) + 1)
             sent == sdes.flags \ sdesflags
             marked == IF AtEndOfList(rest) THEN {} ELSE rest.marked
  <2>1. due \subseteq ItemNames
    BY DEF BuilderInv
  <2>2. WellBuilt(rest.pack) /\ OnlyDue(rest.pack)
    <3>1. table \in Seq(Source)
      BY DEF BuilderInv
    <3>2. PICK p : p = sdes.pack /\ WellBuilt(p) /\ OnlyDue(p)
      BY <1>4
    <3>3. /\ WellBuilt(FillInReportBlocks(p, processed, n).pack)
          /\ OnlyDue(FillInReportBlocks(p, processed, n).pack)
      BY <3>1, <3>2, BlocksFilledIn, Zenon
    <3> QED BY <1>2, <3>2, <3>3
  <2> HIDE DEF rest, sent, marked
  <2>3. ASSUME sdes.full
        PROVE  GoodOutcome(Outcome(sdes.pack, processed, TRUE, sdesbuildcount, due, sdes.flags, sent))
    <3>1. TRUE \in BOOLEAN /\ (TRUE => due \ sdes.flags # {}) /\ WellBuilt(sdes.pack) /\ OnlyDue(sdes.pack)
      BY <1>4, <2>3
    <3> QED BY <2>1, <3>1, OutcomeIs, Zenon
  <2>4. GoodOutcome(Outcome(rest.pack, marked, FALSE, sdesbuildcount, due, {}, sent))
    <3>1. FALSE \in BOOLEAN
      OBVIOUS
    <3> QED BY <2>1, <2>2, <3>1, OutcomeIs, Zenon
  <2> QED BY <2>3, <2>4, Zenon DEF ContinueSDES, rest, sent, marked
<1>8. GoodOutcome(Outcome(walk.pack, walk.marked, FALSE, sdesbuildcount, due, sdesflags, {}))
  <2>1. FALSE \in BOOLEAN /\ due \subseteq ItemNames
    BY DEF BuilderInv
  <2> HIDE DEF walk
  <2> QED BY <1>3, <2>1, OutcomeIs, Zenon
<1>9. ~(~CanBegin(sender)) /\ ~(processingsdes /\ sdes.added = 0) /\ ~(walk.full /\ walk.added = 0)
  <2> HIDE DEF walk, sdes
  <2> QED BY <1>1, <1>3, <1>5
<1> QED BY <1>6, <1>7, <1>8, <1>9, Zenon DEF Built

\* A selection from the table is a list of participants.
LEMMA TableSelected ==
  ASSUME table \in Seq(Source), NEW S
  PROVE  Selected(table, S) \in Seq(Source)
<1>1. \A X : table \in Seq(X) => \A U : Selected(table, U) \in Seq(X)
  BY SelectedProperties
<1> QED BY <1>1, Zenon

\* The start of a session.
LEMMA BuilderStarts == ASSUME BuilderInit PROVE BuilderInv
<1>1. length \in [ItemNames -> 0..MaxItem]
  <2>1. \A i \in ItemNames : Lengths[i] \subseteq 0..MaxItem
    BY ReportsAssumption
  <2>2. PICK V : length \in [ItemNames -> V]
    BY DEF BuilderInit
  <2>3. \A i \in ItemNames : length[i] \in 0..MaxItem
    BY <2>1 DEF BuilderInit
  <2> QED BY <2>2, <2>3
<1>2. last.header = 0
  BY DEF BuilderInit, InitBuild
<1>3. table \in Seq(Source)
  BY ReportsAssumption DEF BuilderInit
<1> QED BY <1>1, <1>2, <1>3 DEF BuilderInit, BuilderInv

\* Every step keeps it.
LEMMA BuilderStep == ASSUME BuilderInv, [Next]_vars PROVE BuilderInv'
<1> USE DEF BuilderInv
<1>1. ASSUME UNCHANGED <<sourcevars, buildervars>> PROVE BuilderInv'
  BY <1>1 DEF sourcevars, buildervars
<1>2. CASE StartTimers \/ PostponeReport \/ SendLastBYE \/ SendBYE \/ TimePasses
  BY <1>1, <1>2 DEF StartTimers, PostponeReport, SendLastBYE, SendBYE, TimePasses
<1>3. CASE SendReport
  <2>1. BuildNextPacket
    BY <1>3 DEF SendReport
  <2>2. PICK o : o = Built /\ GoodOutcome(o)
    BY BuiltIsGood
  <2>3. o.ok
    BY <2>2 DEF GoodOutcome
  <2>4. /\ processingsdes' = o.processing /\ due' = o.items /\ sdesflags' = o.flags
        /\ last' = o.pack /\ toosoon' = toosoon
        /\ table' = table /\ sender' = sender /\ length' = length
    BY <2>1, <2>2, <2>3 DEF BuildNextPacket
  <2> QED BY <2>2, <2>4 DEF GoodOutcome, WellBuilt, NeededBytes, OtherBytes, ReportBytes,
                            ReportBytesWith
<1>4. CASE Collide
  <2>1. CanBuildBYE(sender, 0)
    <3>1. 0 \in 0..MaxItem
      BY SizeAssumption
    <3> QED BY <3>1, BYEFits
  <2> QED BY <1>4, <2>1 DEF Collide
<1>5. CASE HearBYE
  BY <1>1, <1>5 DEF HearBYE
<1>6. CASE SendData
  BY <1>6 DEF SendData, OwnSender, buildervars
<1>7. ASSUME NEW s \in Source, Arrive(s) PROVE BuilderInv'
  BY <1>7 DEF Arrive, Join, buildervars
<1>8. ASSUME NEW s \in Source, Depart(s) PROVE BuilderInv'
  <2>1. Selected(table, Source \ {s}) \in Seq(Source)
    BY TableSelected
  <2> QED BY <1>8, <2>1 DEF Depart, Forget
<1>9. ASSUME NEW s \in Source, HearData(s) \/ HearMixer(s) PROVE BuilderInv'
  BY <1>9 DEF HearData, HearMixer, Hear, SetCSRC, buildervars
<1>10. ASSUME NEW i \in ItemNames, ChangeItem(i) PROVE BuilderInv'
  <2>1. PICK l \in Lengths[i] : length' = [length EXCEPT ![i] = l]
    BY <1>10 DEF ChangeItem, SetLocal
  <2>2. l \in 0..MaxItem
    BY <2>1, ReportsAssumption
  <2> QED BY <1>10, <2>1, <2>2 DEF ChangeItem, SetLocal, sourcevars
<1>11. ASSUME NEW d \in APPSizes, SendAPP(d) PROVE BuilderInv'
  BY <1>1, <1>11 DEF SendAPP
<1>12. CASE UNCHANGED vars
  BY <1>1, <1>12 DEF vars
<1> QED BY <1>2, <1>3, <1>4, <1>5, <1>6, <1>7, <1>8, <1>9, <1>10, <1>11, <1>12 DEF Next

LEMMA BuilderInvariant == Spec => []BuilderInv
<1>1. Init => BuilderInv
  BY BuilderStarts DEF Init
<1>2. BuilderInv /\ [Next]_vars => BuilderInv'
  BY BuilderStep
<1> QED BY <1>1, <1>2, PTL DEF Spec

\* In every state a compound packet takes exactly the bytes EndBuild allocates, no
\* more than the maximum packet size, and ParseData reads all of it again: the
\* report that was built last, the BYE packets a collision would queue and the
\* application packets the user may send.
THEOREM SpecPacketsWellFormed == Spec => []PacketsWellFormed
<1>1. BuilderInv => PacketsWellFormed
  <2> SUFFICES ASSUME BuilderInv PROVE PacketsWellFormed
    OBVIOUS
  <2>1. last.header # 0 => WellFormed(last)
    BY WellBuiltIsWellFormed DEF BuilderInv
  <2>2. ASSUME NEW r \in {0, 1, MaxItem}, CanBuildBYE(sender, r) PROVE WellFormed(BYEPack(sender, r))
    <3>1. r \in Nat /\ sender \in BOOLEAN
      BY SizeAssumption DEF BuilderInv
    <3> QED BY <2>2, <3>1, BYEAdded, WellBuiltIsWellFormed
  <2>3. ASSUME NEW d \in APPSizes, CanAddAPP(Begin(FALSE), d) PROVE WellFormed(APPPack(d))
    <3>1. d \in Nat
      BY BoundsAssumption
    <3> QED BY <2>3, <3>1, APPAdded, WellBuiltIsWellFormed
  <2> QED BY <2>1, <2>2, <2>3 DEF PacketsWellFormed
<1> QED BY <1>1, BuilderInvariant, PTL

\* No call of BuildNextPacket or of BuildBYEPacket ever fails with
\* ERR_RTP_RTCPPACKETBUILDER_PACKETFILLEDTOOSOON when packets are as large as
\* RTP_MINPACKETSIZE: after the report header and the CNAME there is room for one
\* more block, item or BYE reason, and a round of items is only left open with an
\* item to send.
THEOREM SpecNeverFilledTooSoon == Spec => []NeverFilledTooSoon
<1>1. BuilderInv => NeverFilledTooSoon
  <2> SUFFICES ASSUME BuilderInv PROVE NeverFilledTooSoon
    OBVIOUS
  <2>1. MaxItem \in 0..MaxItem
    BY SizeAssumption
  <2> QED BY <2>1, BYEFits DEF BuilderInv, NeverFilledTooSoon
<1> QED BY <1>1, BuilderInvariant, PTL

-----------------------------------------------------------------------------
(* The intervals of the report blocks                                      *)

\* A source heard since the last report has packets in its interval, and until
\* the first report that is every source that has sent data: firstpacket alone
\* would have a block written for any of these.
CountedInv ==
  /\ fresh \subseteq counted /\ Busy \subseteq counted
  /\ heard \in [Source -> {"silent", "sender", "csrc"}]
  /\ firstpacket \in BOOLEAN
  /\ firstpacket => \A s \in Source : heard[s] = "sender" => s \in counted

\* A block is due only to a source with packets in its interval.
LEMMA DueIsCounted == ASSUME CountedInv PROVE ToReport \subseteq counted
BY DEF CountedInv, ToReport, ShouldProcess

\* The sources with a block in the packet are among those one was due to.
LEMMA ReportedWereDue ==
  ASSUME BuilderInv, SendReport PROVE Range(last'.blocks) \subseteq ToReport
<1>1. PICK o : o = Built /\ GoodOutcome(o)
  BY BuiltIsGood
<1>2. o.ok
  BY <1>1 DEF GoodOutcome
<1>3. last' = o.pack
  BY <1>1, <1>2 DEF SendReport, BuildNextPacket
<1>4. PICK blocks \in Seq(ToReport) : blocks = last'.blocks
  BY <1>1, <1>3 DEF GoodOutcome, OnlyDue
<1>5. Range(blocks) \subseteq ToReport
  BY DEF Range
<1> QED BY <1>4, <1>5

\* Every step keeps it.
LEMMA CountedStep == ASSUME CountedInv, BuilderInv, [Next]_vars PROVE CountedInv'
<1> USE DEF CountedInv
<1>1. ASSUME UNCHANGED sourcevars, UNCHANGED firstpacket PROVE CountedInv'
  BY <1>1 DEF sourcevars
<1>2. ASSUME UNCHANGED sourcevars, UNCHANGED buildervars PROVE CountedInv'
  BY <1>1, <1>2 DEF buildervars
<1>3. CASE StartTimers \/ PostponeReport \/ SendLastBYE \/ SendBYE \/ TimePasses \/ HearBYE
  BY <1>2, <1>3 DEF StartTimers, PostponeReport, SendLastBYE, SendBYE, TimePasses, HearBYE
<1>4. CASE SendReport
  <2>1. PICK o : o = Built /\ GoodOutcome(o)
    BY BuiltIsGood
  <2>2. o.ok
    BY <2>1 DEF GoodOutcome
  <2>3. /\ firstpacket' = FALSE /\ fresh' = Busy /\ heard' = heard
        /\ counted' = (counted \ Range(o.pack.blocks)) \cup Busy
    BY <1>4, <2>1, <2>2 DEF SendReport, BuildNextPacket, StartNewInterval
  <2> QED BY <2>3
<1>5. CASE Collide
  BY <1>5 DEF Collide
<1>6. CASE SendData
  BY <1>6 DEF SendData, OwnSender, buildervars
<1>7. ASSUME NEW s \in Source, Arrive(s) PROVE CountedInv'
  BY <1>7 DEF Arrive, Join, buildervars
<1>8. ASSUME NEW s \in Source, Depart(s) PROVE CountedInv'
  <2>1. /\ s \notin Busy /\ heard' = [heard EXCEPT ![s] = "silent"] /\ firstpacket' = firstpacket
        /\ fresh' = fresh \ {s} /\ counted' = counted \ {s}
    BY <1>8 DEF Depart, Forget
  <2> QED BY <2>1
<1>9. ASSUME NEW s \in Source, HearData(s) PROVE CountedInv'
  <2>1. /\ heard' = [heard EXCEPT ![s] = IF @ = "csrc" THEN @ ELSE "sender"]
        /\ fresh' = fresh \cup {s} /\ counted' = counted \cup {s} /\ firstpacket' = firstpacket
    BY <1>9 DEF HearData, Hear, buildervars
  <2> QED BY <2>1
<1>10. ASSUME NEW s \in Source, HearMixer(s) PROVE CountedInv'
  <2>1. /\ heard' = [heard EXCEPT ![s] = "csrc"]
        /\ fresh' = fresh /\ counted' = counted /\ firstpacket' = firstpacket
    BY <1>10 DEF HearMixer, SetCSRC, buildervars
  <2> QED BY <2>1
<1>11. ASSUME NEW i \in ItemNames, ChangeItem(i) PROVE CountedInv'
  BY <1>1, <1>11 DEF ChangeItem, SetLocal
<1>12. ASSUME NEW d \in APPSizes, SendAPP(d) PROVE CountedInv'
  BY <1>2, <1>12 DEF SendAPP
<1>13. CASE UNCHANGED vars
  BY <1>2, <1>13 DEF vars
<1> QED BY <1>3, <1>4, <1>5, <1>6, <1>7, <1>8, <1>9, <1>10, <1>11, <1>12, <1>13 DEF Next

LEMMA CountedInvariant == Spec => []CountedInv
<1>1. Init => CountedInv
  BY ReportsAssumption DEF Init, BuilderInit, CountedInv
<1>2. CountedInv /\ BuilderInv /\ [Next]_vars => CountedInv'
  BY CountedStep
<1> QED BY <1>1, <1>2, BuilderInvariant, PTL DEF Spec

\* A report block is only written for a source with packets in its interval: the
\* comparison with prevbuildtime never lets a source through whose interval
\* StartNewInterval has emptied, however many packets a round takes and whoever
\* leaves, comes back or is left out of a full packet in between.
THEOREM SpecIntervalsNotEmpty == Spec => IntervalsNotEmpty
<1>1. ASSUME CountedInv, BuilderInv, SendReport PROVE Range(last'.blocks) \subseteq counted
  BY <1>1, DueIsCounted, ReportedWereDue
<1>2. CountedInv /\ BuilderInv /\ [Next]_vars =>
        [SendReport => Range(last'.blocks) \subseteq counted]_vars
  BY <1>1
<1> QED BY <1>2, CountedInvariant, BuilderInvariant, PTL DEF Spec, IntervalsNotEmpty

-----------------------------------------------------------------------------
(* The distance between reports                                            *)

\* The timer never runs ahead of the time since the last packet while that is not
\* long enough, and the waiting rules for a BYE packet end with the last BYE packet
\* in the queue.
SpacingInv ==
  /\ since \in Nat /\ gap \in Nat /\ (since <= gap \/ Spaced(gap))
  /\ pmembers \in Nat /\ byes \in Nat
  /\ byes = 0 => byescheduled = FALSE

\* The number of members is a number.
LEMMA MembersNat == ASSUME NEW tab \in Seq(Source) PROVE Members(tab) \in Nat
BY DEF Members

\* Scaling a time down by the members that are left does not lengthen it.
LEMMA ScaledDown ==
  ASSUME NEW members \in Nat, NEW before \in Nat, members < before, NEW t \in Nat
  PROVE  (members * t) \div before \in Nat /\ (members * t) \div before <= t
<1>1. members * t \in Nat /\ members * t <= before * t /\ before > 0
  BY Products
<1>2. PICK x \in Nat, y \in Nat : x = members * t /\ y = before * t /\ x <= y
  BY <1>1
<1>3. PICK q \in Nat, r \in Nat : q = x \div before /\ x = (q * before) + r
  BY <1>1, Division
<1>4. ASSUME q > t PROVE FALSE
  <2>1. t + 1 \in Nat /\ t + 1 <= q
    BY <1>4
  <2>2. (t + 1) * before <= q * before
    BY <2>1, Products
  <2>3. (t + 1) * before = y + before
    BY <1>2
  <2> QED BY <1>1, <1>2, <1>3, <2>2, <2>3
<1> QED BY <1>2, <1>3, <1>4

\* Every step keeps the distance.
LEMMA SpacingStep ==
  ASSUME SpacingInv, BuilderInv, BuilderInv', [Next]_vars
  PROVE  SpacingInv'
<1> USE DEF SpacingInv
<1>1. MaxTime \in Nat
  BY ScheduleAssumption
<1>2. Members(table) \in Nat /\ Members(table') \in Nat
  BY MembersNat DEF BuilderInv
<1>3. ASSUME UNCHANGED schedvars, UNCHANGED <<byes, gap>> PROVE SpacingInv'
  BY <1>3 DEF schedvars, timers, byestate
<1>4. CASE StartTimers
  BY <1>2, <1>4 DEF StartTimers, FirstCall, sessionvars, byestate
<1>5. CASE PostponeReport
  BY <1>2, <1>5 DEF PostponeReport, Reconsider, sessionvars, byestate
<1>6. CASE SendReport \/ SendLastBYE
  BY <1>2, <1>6 DEF SendReport, SendLastBYE, TimeIsUp
<1>7. CASE SendBYE
  BY <1>2, <1>7 DEF SendBYE
<1>8. CASE TimePasses
  <2>1. since' = Capped(since + 1) /\ gap' = IF Spaced(gap) THEN gap ELSE gap + 1
    BY <1>8 DEF TimePasses, Tick
  <2>2. since' \in Nat /\ since' <= since + 1
    BY <1>1, <2>1 DEF Capped
  <2>3. gap' \in Nat /\ (since' <= gap' \/ Spaced(gap'))
    BY <2>1, <2>2
  <2> QED BY <1>8, <2>2, <2>3 DEF TimePasses, Tick, byestate
<1>9. CASE Collide
  <2>1. CanBuildBYE(sender, 0)
    <3>1. 0 \in 0..MaxItem
      BY SizeAssumption
    <3> QED BY <3>1, BYEFits DEF BuilderInv
  <2>2. byes' = byes + 1 /\ gap' = gap
        /\ (ScheduleBYEPacket(Members(table)) \/ UNCHANGED schedvars)
    BY <1>9, <2>1 DEF Collide
  <2>3. since' \in Nat /\ since' <= since /\ pmembers' \in Nat
    BY <1>2, <2>2 DEF ScheduleBYEPacket, schedvars, timers
  <2>4. since' <= gap' \/ Spaced(gap')
    BY <2>2, <2>3
  <2> QED BY <2>2, <2>3, <2>4
<1>10. CASE HearBYE
  BY <1>10 DEF HearBYE, CountBYE, sessionvars, timers
<1>11. CASE SendData
  BY <1>3, <1>11 DEF SendData
<1>12. ASSUME NEW s \in Source, Arrive(s) PROVE SpacingInv'
  BY <1>3, <1>12 DEF Arrive, sessionvars
<1>13. ASSUME NEW s \in Source, Depart(s) PROVE SpacingInv'
  <2>1. PICK m \in Nat : m = Members(table') /\ ActiveMemberDecrease(m) /\ byes' = byes /\ gap' = gap
    BY <1>2, <1>13 DEF Depart
  <2>2. CASE m >= pmembers \/ firstcall
    BY <1>3, <2>1, <2>2 DEF ActiveMemberDecrease
  <2>3. CASE ~(m >= pmembers \/ firstcall)
    <3>1. since' = (m * since) \div pmembers /\ pmembers' = m /\ byescheduled' = byescheduled
      BY <2>1, <2>3 DEF ActiveMemberDecrease, byestate
    <3>2. m < pmembers
      BY <2>1, <2>3
    <3>3. (m * since) \div pmembers \in Nat /\ (m * since) \div pmembers <= since
      BY <3>2, ScaledDown
    <3> QED BY <2>1, <3>1, <3>3
  <2> QED BY <2>2, <2>3
<1>14. ASSUME NEW s \in Source, HearData(s) \/ HearMixer(s) PROVE SpacingInv'
  BY <1>3, <1>14 DEF HearData, HearMixer, sessionvars
<1>15. ASSUME NEW i \in ItemNames, ChangeItem(i) PROVE SpacingInv'
  BY <1>3, <1>15 DEF ChangeItem, sessionvars
<1>16. ASSUME NEW d \in APPSizes, SendAPP(d) PROVE SpacingInv'
  BY <1>3, <1>16 DEF SendAPP
<1>17. CASE UNCHANGED vars
  BY <1>3, <1>17 DEF vars, sessionvars
<1> QED BY <1>4, <1>5, <1>6, <1>7, <1>8, <1>9, <1>10, <1>11, <1>12, <1>13, <1>14, <1>15, <1>16,
           <1>17 DEF Next

LEMMA SpacingInvariant == Spec => []SpacingInv
<1>1. Init => SpacingInv
  BY DEF Init, ScheduleInit, SpacingInv
<1>2. SpacingInv /\ BuilderInv /\ BuilderInv' /\ [Next]_vars => SpacingInv'
  BY SpacingStep
<1> QED BY <1>1, <1>2, BuilderInvariant, PTL DEF Spec

\* An interval drawn after the first packet is long enough.
LEMMA IntervalsLong ==
  ASSUME hassentrtcp, NEW aresender, NEW members \in Nat, NEW senders \in Nat,
         NEW t \in TransmissionIntervals(aresender, members, senders)
  PROVE  t \in Int /\ 121828 * (t + 1) > 50000 * MinInterval
<1>1. PICK z \in AvgSizes : t \in Randomized(DeterministicInterval(z, aresender, members, senders))
  BY DEF TransmissionIntervals
<1>2. PICK d : d = DeterministicInterval(z, aresender, members, senders)
  OBVIOUS
<1>3. z \in Nat /\ Bandwidth \in Nat /\ Bandwidth > 0 /\ MinInterval \in Nat
  BY ScheduleAssumption
<1>4. d \in Int /\ d >= MinInterval
  <2>1. PICK total \in Nat : total = Larger(members, 1)
    BY DEF Larger
  <2>2. PICK b \in Nat : b = 3 * Bandwidth /\ b > 0
    BY <1>3
  <2>3. PICK x \in Int, y \in Int, w \in Int :
          x = total * z /\ y = senders * z * 4 /\ w = (total - senders) * z * 4
    BY <1>3
  <2>4. x \div Bandwidth \in Int /\ y \div Bandwidth \in Int /\ w \div b \in Int
    BY <1>3, <2>2
  <2> DEFINE cost == IF senders * 4 > total THEN x \div Bandwidth
                     ELSE IF aresender THEN y \div Bandwidth ELSE w \div b
  <2>5. cost \in Int
    BY <2>4, Zenon
  <2>6. AtStartup(MinInterval, ~hassentrtcp) = MinInterval
    BY DEF AtStartup
  <2>7. d = Larger(MinInterval, cost)
    BY <1>2, <2>1, <2>2, <2>3, <2>6, Zenon DEF DeterministicInterval
  <2> HIDE DEF cost
  <2> QED BY <1>3, <2>5, <2>7 DEF Larger
<1>5. t \in Int /\ 121828 * (t + 1) > 50000 * d
  BY <1>1, <1>2, <1>4 DEF Randomized
<1> QED BY <1>3, <1>4, <1>5

\* Between a report and the report or BYE packet before it at least the smallest
\* randomised minimum interval passes: the interval drawn anew is compared with the
\* time since the timer was set, which departures only shorten, and the shorter
\* intervals for a BYE packet, or for the first packet of all, no longer count.
THEOREM SpecReportsSpaced == Spec => ReportsSpaced
<1>1. ASSUME SpacingInv, BuilderInv, hassentrtcp, SendReport
      PROVE  Spaced(gap)
  <2>1. byescheduled = FALSE
    BY <1>1 DEF SendReport, SpacingInv
  <2>2. PICK t \in TransmissionIntervals(sender, Members(table), Senders) : t <= since
    BY <1>1, <2>1 DEF SendReport, TimeIsUp
  <2>3. Members(table) \in Nat
    BY <1>1, MembersNat DEF BuilderInv
  <2>4. Senders \in Nat
    <3>1. IsFiniteSet(1..Len(table))
      BY <1>1, FS_Interval DEF BuilderInv
    <3>2. IsFiniteSet({i \in DOMAIN table : heard[table[i]] = "sender"})
      BY <1>1, <3>1, FS_Subset DEF BuilderInv
    <3>3. Cardinality({i \in DOMAIN table : heard[table[i]] = "sender"}) \in Nat
      BY <3>2, FS_CardinalityType
    <3> QED BY <3>3 DEF Senders
  <2>5. t \in Int /\ 121828 * (t + 1) > 50000 * MinInterval
    BY <1>1, <2>2, <2>3, <2>4, IntervalsLong
  <2> QED BY <1>1, <2>2, <2>5, ScheduleAssumption DEF SpacingInv, Spaced
<1>2. SpacingInv /\ BuilderInv /\ [Next]_vars =>
        [hassentrtcp /\ SendReport => Spaced(gap)]_vars
  BY <1>1
<1> QED BY <1>2, SpacingInvariant, BuilderInvariant, PTL DEF Spec, ReportsSpaced
=============================================================================
