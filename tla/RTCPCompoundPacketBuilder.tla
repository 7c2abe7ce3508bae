---------------------- MODULE RTCPCompoundPacketBuilder ----------------------
(***************************************************************************)
(* Building and parsing one compound RTCP packet.  A packet under          *)
(* construction is a record: the report (`header` is the length of its     *)
(* fixed part, 0 before it is started), the blocks in it, for each SDES    *)
(* chunk the bytes of its items, and the sizes of the APP and BYE packets. *)
(* Sizes are bytes.  Running out of memory is left out.                    *)
(***************************************************************************)
EXTENDS Lists

CONSTANTS
  MaxCount,      \* entries one RTCP packet can count: 31, a five-bit field
  MaxItem,       \* the longest SDES item or BYE reason: 255, the length is a byte
  MinPacketSize  \* RTP_MINPACKETSIZE: 600

CommonHeader == 4   \* sizeof(RTCPCommonHeader)
Word         == 4   \* sizeof(uint32_t)
SenderInfo   == 20  \* sizeof(RTCPSenderReport)
BlockSize    == 24  \* sizeof(RTCPReceiverReport)
ItemHeader   == 2   \* sizeof(RTCPSDESHeader)

Aligned(n) == n + ((Word - (n % Word)) % Word)
PacketsFor(n) == (n \div MaxCount) + (IF n % MaxCount = 0 THEN 0 ELSE 1)

\* In the smallest packet a sender report and the CNAME leave room for another
\* item, for a report block and for a BYE packet with a reason: 552, 320 and 560
\* bytes at most.
CNAMEBytes == CommonHeader + Word + SenderInfo + CommonHeader + Word
ASSUME SizeAssumption ==
  /\ MaxCount \in Nat \ {0} /\ MaxItem \in Nat /\ MinPacketSize \in Nat
  /\ CNAMEBytes + Aligned((2 * (ItemHeader + MaxItem)) + 1) <= MinPacketSize
  /\ CNAMEBytes + Aligned(ItemHeader + MaxItem + 1) + BlockSize <= MinPacketSize
  /\ CNAMEBytes + Aligned(ItemHeader + MaxItem + 1) + CommonHeader + Word
       + Aligned(1 + MaxItem) <= MinPacketSize

-----------------------------------------------------------------------------
(* How many bytes a part takes, or would take with one more entry          *)

ReportBytesWith(b, n) ==
  IF n = 0
  THEN IF b.header = 0 THEN 0 ELSE CommonHeader + b.header
  ELSE (n * BlockSize) + (PacketsFor(n) * (CommonHeader + Word))
         + (IF b.isSR THEN SenderInfo ELSE 0)

ReportBytes(b) == ReportBytesWith(b, Len(b.blocks))

\* A zero byte ends the items, the chunk ends at a word boundary.
ChunkBytes(totalitemsize) == Aligned(totalitemsize + 1) + Word
ChunksBytes(sdes) == Total([i \in DOMAIN sdes |-> ChunkBytes(sdes[i])])

SDESBytes(sdes) ==
  IF sdes = <<>> THEN 0 ELSE ChunksBytes(sdes) + (PacketsFor(Len(sdes)) * CommonHeader)

WithItems(sdes, ls) ==
  [sdes EXCEPT ![Len(sdes)] = @ + (Len(ls) * ItemHeader) + Total(ls)]
SDESBytesWithExtraItems(sdes, ls) == IF sdes = <<>> THEN 0 ELSE SDESBytes(WithItems(sdes, ls))

\* The first chunk is not counted.
SDESBytesWithExtraSource(sdes) ==
  IF sdes = <<>> THEN 0
  ELSE ChunksBytes(sdes) + (2 * Word) + (PacketsFor(Len(sdes) + 1) * CommonHeader)

OtherBytes(b) == b.appsize + b.byesize
NeededBytes(b) == OtherBytes(b) + ReportBytes(b) + SDESBytes(b.sdes)

-----------------------------------------------------------------------------
(* The calls: Can... is FALSE where the code returns NOTENOUGHBYTESLEFT    *)

InitBuild(maxsize) ==
  [max |-> maxsize, header |-> 0, isSR |-> FALSE, blocks |-> <<>>, sdes |-> <<>>,
   app |-> <<>>, appsize |-> 0, bye |-> <<>>, byesize |-> 0]

CanStart(b, header) ==
  CommonHeader + header <= b.max - (OtherBytes(b) + SDESBytes(b.sdes))
StartSenderReport(b)   == [b EXCEPT !.header = Word + SenderInfo, !.isSR = TRUE]
StartReceiverReport(b) == [b EXCEPT !.header = Word]

\* Without the SDES chunks, which come behind the report.
CanAddReportBlocksAlone(b, n) ==
  n = 0 \/ OtherBytes(b) + ReportBytesWith(b, Len(b.blocks) + n) <= b.max

\* Adding blocks one by one: each is accepted as long as all of them fit.
CanAddReportBlocks(b, n) ==
  n = 0 \/ OtherBytes(b) + SDESBytes(b.sdes) + ReportBytesWith(b, Len(b.blocks) + n) <= b.max
AddReportBlocks(b, ssrcs) == [b EXCEPT !.blocks = @ \o ssrcs]

CanAddSDESSource(b) ==
  OtherBytes(b) + ReportBytes(b) + SDESBytesWithExtraSource(b.sdes) <= b.max
AddSDESSource(b) == [b EXCEPT !.sdes = Append(@, 0)]

CanAddSDESItems(b, ls) ==
  ls = <<>> \/ OtherBytes(b) + ReportBytes(b) + SDESBytesWithExtraItems(b.sdes, ls) <= b.max
AddSDESNormalItems(b, ls) == [b EXCEPT !.sdes = WithItems(@, ls)]

BYEBytes(ssrcs, reason) ==
  CommonHeader + (Word * ssrcs) + (IF reason = 0 THEN 0 ELSE Aligned(1 + reason))
CanAddBYE(b, ssrcs, reason) ==
  ssrcs <= MaxCount /\ NeededBytes(b) + BYEBytes(ssrcs, reason) <= b.max
AddBYEPacket(b, ssrcs, reason) ==
  [b EXCEPT !.bye = Append(@, BYEBytes(ssrcs, reason)), !.byesize = @ + BYEBytes(ssrcs, reason)]

APPBytes(data) == CommonHeader + (2 * Word) + data
CanAddAPP(b, data) ==
  /\ data % Word = 0 /\ (data \div Word) + 2 <= 65535
  /\ NeededBytes(b) + APPBytes(data) <= b.max
AddAPPPacket(b, data) ==
  [b EXCEPT !.app = Append(@, APPBytes(data)), !.appsize = @ + APPBytes(data)]

-----------------------------------------------------------------------------
(* EndBuild writes the packets one after the other into a buffer of        *)
(* NeededBytes(b) bytes.                                                   *)

CountIn(n, k) == LET rest == n - ((k - 1) * MaxCount) IN IF rest < MaxCount THEN rest ELSE MaxCount

\* The first report packet carries the sender information, the others the SSRC.
ReportPackets(b) ==
  LET n == Len(b.blocks)
      packets == IF n = 0 THEN 1 ELSE PacketsFor(n)
      Fixed(k) == IF k = 1 THEN b.header ELSE Word
  IN  [k \in 1..packets |->
         [type |-> IF k = 1 /\ b.isSR THEN "SR" ELSE "RR", count |-> CountIn(n, k),
          bytes |-> CommonHeader + Fixed(k) + (CountIn(n, k) * BlockSize)]]

SDESPackets(b) ==
  [k \in 1..PacketsFor(Len(b.sdes)) |->
     LET chunks == SubSeq(b.sdes, ((k - 1) * MaxCount) + 1,
                                  ((k - 1) * MaxCount) + CountIn(Len(b.sdes), k))
     IN  [type |-> "SDES", count |-> Len(chunks), bytes |-> CommonHeader + ChunksBytes(chunks),
          chunks |-> chunks]]

Whole(type, sizes) == [k \in DOMAIN sizes |-> [type |-> type, count |-> 1, bytes |-> sizes[k]]]

EndBuild(b) ==
  ReportPackets(b) \o SDESPackets(b) \o Whole("APP", b.app) \o Whole("BYE", b.bye)

-----------------------------------------------------------------------------
(* Parsing what arrives                                                    *)

RTCPSRPacket(p) == p.bytes = CommonHeader + Word + SenderInfo + (BlockSize * p.count)
RTCPRRPacket(p) == p.bytes = CommonHeader + Word + (BlockSize * p.count)
\* The chunks are walked item by item; none may be left over or missing.
RTCPSDESPacket(p) ==
  p.count = Len(p.chunks) /\ p.bytes = CommonHeader + ChunksBytes(p.chunks)
RTCPBYEPacket(p) == p.bytes >= CommonHeader + (Word * p.count)
RTCPAPPPacket(p) == p.bytes >= CommonHeader + (2 * Word)

KnownFormat(p) ==
  CASE p.type = "SR"   -> RTCPSRPacket(p)
    [] p.type = "RR"   -> RTCPRRPacket(p)
    [] p.type = "SDES" -> RTCPSDESPacket(p)
    [] p.type = "BYE"  -> RTCPBYEPacket(p)
    [] p.type = "APP"  -> RTCPAPPPacket(p)

\* The stream is taken apart by the length fields, which count words: a report
\* comes first and the packets fill the datagram.
ParseData(packets, datalen) ==
  /\ datalen >= CommonHeader
  /\ packets[1].type \in {"SR", "RR"}
  /\ \A k \in DOMAIN packets : packets[k].bytes % Word = 0 /\ packets[k].bytes >= CommonHeader
  /\ Total([k \in DOMAIN packets |-> packets[k].bytes]) = datalen

\* What is written is what was computed, it fits, and the other side can read it.
WellFormed(b) ==
  LET packets == EndBuild(b)
  IN  /\ NeededBytes(b) <= b.max
      /\ ParseData(packets, NeededBytes(b))
      /\ \A k \in DOMAIN packets : KnownFormat(packets[k]) /\ packets[k].count <= MaxCount
=============================================================================
