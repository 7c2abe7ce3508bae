-------------------------- MODULE RTPPacketBuilder --------------------------
(***************************************************************************)
(* RTPPacketBuilder: the numbers, defaults and contributing sources that   *)
(* go into the RTP packets of a session, and what its sender reports say   *)
(* of them.  A new SSRC is one no participant has, written as the next     *)
(* natural number; the first timestamp and sequence number are random.     *)
(***************************************************************************)
EXTENDS RTPPacket, Lists

CONSTANTS CSRC,
          SeqWidth, TsWidth,  \* 2^16 and 2^32 in the code
          MaxSSRC,            \* bound: SSRCs used
          MaxPackets          \* bound: packets built

ASSUME BuilderAssumption == SeqWidth \in Nat \ {0} /\ TsWidth \in Nat \ {0}

VARIABLES
  pb,      \* the members of the builder
  packet,  \* the wire form of the packet built last
  clock,   \* time, counted in packets built
  asked,   \* history: what the packet built last should say
  log      \* history: the packets built under the present SSRC

builderVars == <<pb, packet, clock, asked, log>>

Nothing == [none |-> TRUE]
Unset   == [set |-> FALSE]
To(v)   == [set |-> TRUE, value |-> v]

Uninitialised ==
  [init |-> FALSE, maxpacksize |-> 0, ssrc |-> 0, timestamp |-> 0, seqnr |-> 0,
   numpackets |-> 0, numpayloadbytes |-> 0, pt |-> Unset, mark |-> Unset, tsinc |-> Unset,
   csrcs |-> <<>>, lastwallclocktime |-> 0, lastrtptimestamp |-> 0, prevrtptimestamp |-> 0]

BuilderInit ==
  /\ pb = Uninitialised /\ packet = Nothing /\ clock = 0
  /\ asked = Nothing /\ log = <<>>

Set(new) == pb' = new /\ UNCHANGED <<packet, clock, asked, log>>

\* Initialised members only; every setter refuses before Init.
Setter(new) == pb.init /\ Set(new)

-----------------------------------------------------------------------------
\* The counts go on under the new SSRC.
WithNewSSRC_KeepsCount(b, ts, seq) == [b EXCEPT !.ssrc = @ + 1, !.timestamp = ts, !.seqnr = seq]

WithNewSSRC(b, ts, seq) ==
  [b EXCEPT !.ssrc = @ + 1, !.timestamp = ts, !.seqnr = seq, !.numpackets = 0, !.numpayloadbytes = 0]

InitBuilder(max, ts, seq) ==
  /\ ~pb.init /\ max > 0
  /\ pb' = [WithNewSSRC(pb, ts, seq) EXCEPT !.init = TRUE, !.maxpacksize = max, !.pt = Unset,
                                            !.mark = Unset, !.tsinc = Unset, !.csrcs = <<>>]
  /\ log' = <<>> /\ packet' = Nothing /\ asked' = Nothing
  /\ UNCHANGED clock

\* The buffer that holds the packet goes with the builder.
DestroyBuilder ==
  /\ pb' = [pb EXCEPT !.init = FALSE]
  /\ packet' = Nothing /\ asked' = Nothing
  /\ UNCHANGED <<clock, log>>

\* A new buffer of the new size, or none and nothing changes.
SetMaximumPacketSize(max) ==
  /\ pb' = [pb EXCEPT !.maxpacksize = max]
  /\ packet' = Nothing /\ asked' = Nothing
  /\ UNCHANGED <<clock, log>>

AddCSRC(c) ==
  /\ Len(pb.csrcs) < MaxCSRCs
  /\ \A i \in DOMAIN pb.csrcs : pb.csrcs[i] # c
  /\ Setter([pb EXCEPT !.csrcs = Append(@, c)])

\* The last one takes the place of the one deleted.
DeleteCSRC(c) ==
  \E i \in DOMAIN pb.csrcs :
    LET n == Len(pb.csrcs) IN
    /\ pb.csrcs[i] = c
    /\ Setter([pb EXCEPT !.csrcs = SubSeq([pb.csrcs EXCEPT ![i] = pb.csrcs[n]], 1, n - 1)])

ClearCSRCList == Setter([pb EXCEPT !.csrcs = <<>>])

SetDefaultPayloadType(pt) == Setter([pb EXCEPT !.pt = To(pt)])
SetDefaultMark(m) == Setter([pb EXCEPT !.mark = To(m)])
SetDefaultTimestampIncrement(inc) == Setter([pb EXCEPT !.tsinc = To(inc)])

IncrementTimestamp(inc) == Setter([pb EXCEPT !.timestamp = (@ + inc) % TsWidth])
IncrementTimestampDefault == pb.tsinc.set /\ IncrementTimestamp(pb.tsinc.value)

\* After a collision of SSRCs.
CreateNewSSRC(ts, seq) ==
  /\ pb.init /\ pb.ssrc < MaxSSRC
  /\ pb' = WithNewSSRC(pb, ts, seq)
  /\ log' = <<>>
  /\ UNCHANGED <<packet, clock, asked>>

-----------------------------------------------------------------------------
\* A request: payload, its length, payload type, marker, timestamp increment
\* and extension.
Request(data, len, pt, mark, inc, ext) ==
  [payload |-> data, payloadlength |-> len, pt |-> pt, mark |-> mark, inc |-> inc, extension |-> ext]

DefaultsSet == pb.pt.set /\ pb.mark.set /\ pb.tsinc.set
WithDefaults(data, len, ext) == Request(data, len, pb.pt.value, pb.mark.value, pb.tsinc.value, ext)

PacketFor(r) ==
  [marker |-> r.mark, payloadtype |-> r.pt, seqnr |-> pb.seqnr, timestamp |-> pb.timestamp,
   ssrc |-> pb.ssrc, csrcs |-> pb.csrcs, extension |-> r.extension, payload |-> r.payload,
   payloadlength |-> r.payloadlength]

Accepts(r) == pb.init /\ ~IsError(BuildPacket(PacketFor(r), pb.maxpacksize))

\* The time is taken anew for the first packet and whenever the timestamp has
\* moved on since the packet before.
PrivateBuildPacket(r) ==
  LET new == pb.numpackets = 0 \/ pb.timestamp # pb.prevrtptimestamp IN
  /\ Accepts(r) /\ clock < MaxPackets
  /\ packet' = BuildPacket(PacketFor(r), pb.maxpacksize)
  /\ asked' = PacketFor(r)
  /\ clock' = clock + 1
  /\ log' = Append(log, [timestamp |-> pb.timestamp, time |-> clock, len |-> r.payloadlength])
  /\ pb' = [pb EXCEPT !.lastwallclocktime = IF new THEN clock ELSE @,
                      !.lastrtptimestamp = IF new THEN pb.timestamp ELSE @,
                      !.prevrtptimestamp = IF new THEN pb.timestamp ELSE @,
                      !.numpayloadbytes = @ + r.payloadlength, !.numpackets = @ + 1,
                      !.timestamp = (@ + r.inc) % TsWidth, !.seqnr = (@ + 1) % SeqWidth]

BuildWithDefaults(data, len) == DefaultsSet /\ PrivateBuildPacket(WithDefaults(data, len, NoExtension))
BuildWithDefaultsEx(data, len, ext) == DefaultsSet /\ PrivateBuildPacket(WithDefaults(data, len, ext))
Build(data, len, pt, mark, inc) == PrivateBuildPacket(Request(data, len, pt, mark, inc, NoExtension))
BuildEx(data, len, pt, mark, inc, ext) == PrivateBuildPacket(Request(data, len, pt, mark, inc, ext))

-----------------------------------------------------------------------------
(* A program that uses the builder directly                                *)

Extensions == {[present |-> TRUE, id |-> 7, words |-> <<"x">>]}

BuilderNext ==
  \/ \E max \in {24, 32}, ts \in {0, TsWidth - 1} : InitBuilder(max, ts, SeqWidth - 1)
  \/ \E max \in {24, 32} : pb.init /\ SetMaximumPacketSize(max)
  \/ \E c \in CSRC : AddCSRC(c) \/ DeleteCSRC(c)
  \/ ClearCSRCList
  \/ \E pt \in {72, 96} : SetDefaultPayloadType(pt)
  \/ \E m \in BOOLEAN : SetDefaultMark(m)
  \/ SetDefaultTimestampIncrement(1)
  \/ IncrementTimestamp(1) \/ IncrementTimestampDefault
  \/ \E ts \in {0, TsWidth - 1} : CreateNewSSRC(ts, 0)
  \/ \E len \in {0, 8} :
       \/ BuildWithDefaults("d", len)
       \/ Build("d", len, 33, TRUE, 0)
       \/ \E ext \in Extensions : BuildWithDefaultsEx("d", len, ext) \/ BuildEx("d", len, 33, FALSE, 1, ext)

-----------------------------------------------------------------------------
(* Properties                                                              *)

\* The packet on the wire is read at the other end as what was asked for: the
\* contributing sources that were added and not deleted, the extension and
\* not a word more, all of the payload and nothing else.
SentReadsBack == packet # Nothing => ParseRawPacket(packet) = asked

Octets(s) == Total([i \in DOMAIN s |-> s[i].len])

\* What a sender report says comes from the packets of the present SSRC: how
\* many they are and their octets, and the pair of timestamp and time is that
\* of the first packet since which every one has carried the same timestamp.
ReportedTimeFits ==
  pb.init /\ pb.numpackets > 0 =>
    /\ pb.numpackets = Len(log) /\ pb.numpayloadbytes = Octets(log)
    /\ \E i \in DOMAIN log :
         /\ log[i].time = pb.lastwallclocktime /\ log[i].timestamp = pb.lastrtptimestamp
         /\ \A j \in i .. Len(log) : log[j].timestamp = pb.lastrtptimestamp
         /\ i = 1 \/ log[i - 1].timestamp # pb.lastrtptimestamp
=============================================================================
