----------------------------- MODULE RTPPacket -----------------------------
(***************************************************************************)
(* RTP packets: what RTPPacket writes on the wire and what it reads there. *)
(* A packet on the wire is the fixed header, the 32-bit words after it     *)
(* (contributing sources, header of the extension, its data), the payload  *)
(* and the length in octets.  The payload itself is opaque.                *)
(***************************************************************************)
EXTENDS Integers, Sequences

CONSTANT MaxCSRCs   \* RTP_MAXCSRCS, 15 in the code

HeaderSize == 12
WordSize   == 4
Version    == 2
RTCPTypes  == {72, 73}   \* a sender or receiver report without its high bit

NoExtension == [id |-> 0, words |-> <<>>, present |-> FALSE]

Refused(why) == [error |-> why]
IsError(x) == "error" \in DOMAIN x

\* The extension starts with one word: its identifier and its length in words.
ExtensionWords(e) == IF e.present THEN <<[extid |-> e.id, length |-> Len(e.words)]>> \o e.words ELSE <<>>

PacketLength(p) == HeaderSize + WordSize * Len(p.csrcs \o ExtensionWords(p.extension)) + p.payloadlength

Write(p, length) ==
  [version |-> Version, padding |-> 0, marker |-> IF p.marker THEN 1 ELSE 0,
   extension |-> IF p.extension.present THEN 1 ELSE 0, csrccount |-> Len(p.csrcs),
   payloadtype |-> p.payloadtype % 128, sequencenumber |-> p.seqnr,
   timestamp |-> p.timestamp, ssrc |-> p.ssrc,
   words |-> p.csrcs \o ExtensionWords(p.extension), payload |-> p.payload, length |-> length]

\* The header of the extension is counted as one of its words.
BuildPacket_CountsHeader(p, maxsize) ==
  LET w == Write(p, PacketLength(p))
      long == [w EXCEPT !.words = [i \in DOMAIN w.words |->
                 IF p.extension.present /\ i = Len(p.csrcs) + 1
                 THEN [w.words[i] EXCEPT !.length = @ + 1] ELSE w.words[i]]]
  IN IF PacketLength(p) > maxsize THEN Refused("DATAEXCEEDSMAXSIZE") ELSE long

\* What the packet p becomes; maxsize 0 is no limit.
BuildPacket(p, maxsize) ==
  CASE Len(p.csrcs) > MaxCSRCs -> Refused("TOOMANYCSRCS")
    [] p.payloadtype > 127 \/ p.payloadtype \in RTCPTypes -> Refused("BADPAYLOADTYPE")
    [] maxsize > 0 /\ PacketLength(p) > maxsize -> Refused("DATAEXCEEDSMAXSIZE")
    [] OTHER -> Write(p, PacketLength(p))

\* The contributing sources of a packet, one GetCSRC after the other.
GetCSRCs(w) == SubSeq(w.words, 1, w.csrccount)

\* The packet read from the wire.  padding is the number of octets its last
\* one says it ends with, 0 when the bit is not set.
ParseRawPacket(w) ==
  LET exthdrlen == IF w.extension = 1 THEN w.words[w.csrccount + 1].length ELSE 0
      payloadoffset == HeaderSize + WordSize * (w.csrccount + w.extension + exthdrlen)
      payloadlength == w.length - w.padding - payloadoffset
  IN IF \/ w.length < HeaderSize \/ w.version # Version
        \/ w.marker = 1 /\ w.payloadtype \in RTCPTypes
        \/ payloadlength < 0
     THEN Refused("INVALIDPACKET")
     ELSE [marker |-> w.marker = 1, payloadtype |-> w.payloadtype, seqnr |-> w.sequencenumber,
           timestamp |-> w.timestamp, ssrc |-> w.ssrc, csrcs |-> GetCSRCs(w),
           extension |-> IF w.extension = 0 THEN NoExtension
                         ELSE [present |-> TRUE, id |-> w.words[w.csrccount + 1].extid,
                               words |-> SubSeq(w.words, w.csrccount + 2, w.csrccount + 1 + exthdrlen)],
           payload |-> w.payload, payloadlength |-> payloadlength]
=============================================================================
