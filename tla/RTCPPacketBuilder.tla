------------------------- MODULE RTCPPacketBuilder --------------------------
(***************************************************************************)
(* The session's RTCP packet builder: which sources get a report block and *)
(* which SDES items of our own go into the next compound packet.  A round  *)
(* of report blocks is followed by a round of SDES items; either may take  *)
(* several packets.  The own entry of the source table never gets a block  *)
(* and is left out of `table`.                                             *)
(*                                                                         *)
(* A source in Busy sends RTP packets between any two reports of ours.     *)
(***************************************************************************)
EXTENDS RTCPCompoundPacketBuilder, SequencesExt

CONSTANTS
  Source,       \* the other participants
  Busy,         \* those that send all the time
  FirstTable,   \* the source table when the session has just been joined
  MaxPacketSize,
  CNAMELength,
  Interval,     \* SDES item -> every how many rounds it is sent; below 1: never
  Lengths,      \* SDES item -> the lengths SetLocal... gives it
  SDESCycle     \* a common multiple of the intervals: sdesbuildcount counts modulo it

SDESItems == <<"name", "email", "location", "phone", "tool", "note">>
ItemNames == Range(SDESItems)

ASSUME ReportsAssumption ==
  /\ Busy \subseteq Source
  /\ FirstTable \in Seq(Source)
  /\ MaxPacketSize \in Nat /\ MaxPacketSize >= MinPacketSize
  /\ CNAMELength \in 0..MaxItem
  /\ Interval \in [ItemNames -> Int]
  /\ Lengths \in [ItemNames -> SUBSET (0..MaxItem)]
  /\ SDESCycle \in Nat \ {0}

VARIABLES
  table,           \* the source table, in the order it is walked
  heard,           \* source -> "silent", "sender" (has sent data) or "csrc"
  fresh,           \* sources heard since prevbuildtime
  counted,         \* sources with numnewpackets # 0: heard since their last block
  processed,       \* sources with processedinrtcp set
  sender,          \* the own source is a sender
  firstpacket, processingsdes, sdesbuildcount,
  due,             \* the items whose do... flag is set
  sdesflags,       \* the items with their processed flag set
  length,          \* SDES item -> its length
  last,            \* the compound packet built last
  lastitems,       \* the SDES items in it, besides the CNAME
  toosoon          \* a build has failed with PACKETFILLEDTOOSOON

sourcevars  == <<table, heard, fresh, counted, sender>>
buildervars == <<processed, firstpacket, processingsdes, sdesbuildcount, due,
                 sdesflags, length, last, lastitems, toosoon>>

BuilderTypeOK ==
  /\ table \in Seq(Source) /\ heard \in [Source -> {"silent", "sender", "csrc"}]
  /\ fresh \subseteq Source /\ counted \subseteq Source /\ processed \subseteq Source
  /\ {sender, firstpacket, processingsdes, toosoon} \subseteq BOOLEAN
  /\ sdesbuildcount \in 0..(SDESCycle - 1)
  /\ due \subseteq ItemNames /\ sdesflags \subseteq ItemNames
  /\ length \in [ItemNames -> 0..MaxItem]

BuilderInit ==
  /\ table = FirstTable /\ fresh = Busy /\ counted = Busy /\ sender = FALSE
  /\ heard = [s \in Source |-> IF s \in Busy THEN "sender" ELSE "silent"]
  /\ processed = {} /\ firstpacket = TRUE /\ processingsdes = FALSE
  /\ sdesbuildcount = 0 /\ due = {} /\ sdesflags = {}
  /\ length \in [ItemNames -> UNION Range(Lengths)] /\ \A i \in ItemNames : length[i] \in Lengths[i]
  /\ last = InitBuild(MaxPacketSize) /\ lastitems = {} /\ toosoon = FALSE

-----------------------------------------------------------------------------
(* The walks over the source table and over the items                      *)

\* Whenever the source has once sent data.
ShouldProcessSender(s) == heard[s] = "sender"

\* A report block is due to a source that has sent data since the last report
\* and is no mere contributor to a mixer's stream.
ShouldProcess(s) == heard[s] = "sender" /\ (firstpacket \/ s \in fresh)
ToReport == {s \in Source : ShouldProcess(s)}

\* Every packet begins with the first sources again.
FillInFirstBlocks(pack, marked, maxcount) ==
  LET new  == Selected(table, ToReport)
      room == Max({n \in 0..Len(new) : CanAddReportBlocks(pack, n)})
  IN  [pack |-> AddReportBlocks(pack, SubSeq(new, 1, room)), marked |-> marked,
       added |-> room, skipped |-> 0, full |-> room < Len(new)]

\* At most `maxcount` blocks, in the order of the table; a source that is marked
\* is skipped.  The walk ends early, with the packet full, at the first block
\* that is refused.
FillInReportBlocks(pack, marked, maxcount) ==
  LET new   == Selected(table, ToReport \ marked)
      room  == Max({n \in 0..Len(new) : CanAddReportBlocks(pack, n)})
      added == IF room < maxcount THEN room ELSE maxcount
  IN  [pack    |-> AddReportBlocks(pack, SubSeq(new, 1, added)),
       marked  |-> marked \cup {new[k] : k \in 1..added},
       added   |-> added,
       skipped |-> Cardinality({i \in DOMAIN table : table[i] \in ToReport \cap marked}),
       full    |-> room < Len(new) /\ room < maxcount]

\* Nothing that is due is left behind the point where the walk stopped.
AtEndOfList(walk) == ToReport \cap Range(table) \subseteq walk.marked

\* The items that are wanted and not marked, in their order, up to the first that
\* does not fit.
FillInSDES(pack, items, flags) ==
  LET new   == Selected(SDESItems, items \ flags)
      First(n) == [k \in 1..n |-> length[new[k]]]
      added == Max({n \in 0..Len(new) : CanAddSDESItems(pack, First(n))})
  IN  [pack  |-> AddSDESNormalItems(pack, First(added)),
       flags |-> flags \cup {new[k] : k \in 1..added},
       added |-> added,
       full  |-> added < Len(new)]

DueIn(count) == {i \in ItemNames : Interval[i] > 0 /\ count % Interval[i] = 0}

\* The report header and our CNAME begin every packet.
Begin(withSR) ==
  LET b == InitBuild(MaxPacketSize)
      r == IF withSR THEN StartSenderReport(b) ELSE StartReceiverReport(b)
  IN  AddSDESNormalItems(AddSDESSource(r), <<CNAMELength>>)

CanBegin(withSR) ==
  LET b == InitBuild(MaxPacketSize)
      r == IF withSR THEN StartSenderReport(b) ELSE StartReceiverReport(b)
  IN  /\ CanStart(b, r.header) /\ CanAddSDESSource(r)
      /\ CanAddSDESItems(AddSDESSource(r), <<CNAMELength>>)

-----------------------------------------------------------------------------
(* BuildNextPacket: the state of the builder after it, as a record         *)

Outcome(pack, marked, processing, count, items, flags, sent) ==
  [ok |-> TRUE, pack |-> pack, marked |-> marked, processing |-> processing, count |-> count,
   items |-> items, flags |-> flags, sent |-> sent]

\* The report blocks are all in: a round of SDES items begins.  When it ends in
\* the same packet, the sources that were skipped get a second chance.
StartSDES(walk) ==
  LET count == (sdesbuildcount + 1) % SDESCycle
      items == DueIn(count)
      sdes  == FillInSDES(walk.pack, items, sdesflags)
      again == FillInReportBlocks(sdes.pack, {}, walk.skipped)
  IN  IF sdes.full THEN Outcome(sdes.pack, {}, TRUE, count, items, sdes.flags, sdes.flags)
      ELSE IF walk.skipped = 0 THEN Outcome(sdes.pack, {}, FALSE, count, items, {}, sdes.flags)
      ELSE Outcome(again.pack, again.marked, FALSE, count, items, {}, sdes.flags)

\* The round of SDES items goes on; report blocks only after its end.
ContinueSDES(sdes) ==
  LET walk == FillInReportBlocks(sdes.pack, processed, Len(table) + 1)
      sent == sdes.flags \ sdesflags
  IN  IF sdes.full
      THEN Outcome(sdes.pack, processed, TRUE, sdesbuildcount, due, sdes.flags, sent)
      ELSE Outcome(walk.pack, IF AtEndOfList(walk) THEN {} ELSE walk.marked,
                   FALSE, sdesbuildcount, due, {}, sent)

\* PACKETFILLEDTOOSOON: the packet is full before any progress is made.
TooSoon == [ok |-> FALSE]

\* Report blocks first, even when a round of SDES items is under way.
BuiltBlocksFirst ==
  LET walk == FillInReportBlocks(Begin(sender), processed, Len(table) + 1)
      sdes == FillInSDES(walk.pack, due, sdesflags)
  IN  IF processingsdes
      THEN IF sdes.added = 0 THEN TooSoon ELSE ContinueSDES(sdes)
      ELSE IF ~walk.full THEN StartSDES(walk)
      ELSE Outcome(walk.pack, walk.marked, FALSE, sdesbuildcount, due, sdesflags, {})

Built ==
  LET pack == Begin(sender)
      walk == FillInReportBlocks(pack, processed, Len(table) + 1)
      sdes == FillInSDES(pack, due, sdesflags)
  IN  IF ~CanBegin(sender) THEN TooSoon
      ELSE IF processingsdes
      THEN IF sdes.added = 0 THEN TooSoon ELSE ContinueSDES(sdes)
      ELSE IF ~walk.full THEN StartSDES(walk)
      ELSE IF walk.added = 0 THEN TooSoon
      ELSE Outcome(walk.pack, walk.marked, FALSE, sdesbuildcount, due, sdesflags, {})

\* A block in the packet ends the interval of its source.
StartNewInterval(pack) == counted' = (counted \ Range(pack.blocks)) \cup Busy

\* The call either fails or hands out a packet; afterwards every source has to
\* be heard again before it is due again.
BuildNextPacket ==
  /\ LET o == Built
     IN  IF ~o.ok
         THEN /\ toosoon' = TRUE
              /\ UNCHANGED <<processed, processingsdes, sdesbuildcount, due, sdesflags, last,
                             lastitems, firstpacket, fresh, counted>>
         ELSE /\ processed' = o.marked /\ processingsdes' = o.processing
              /\ sdesbuildcount' = o.count /\ due' = o.items /\ sdesflags' = o.flags
              /\ last' = o.pack /\ lastitems' = o.sent
              /\ firstpacket' = FALSE /\ fresh' = Busy
              /\ StartNewInterval(o.pack)
              /\ UNCHANGED toosoon
  /\ UNCHANGED <<table, heard, sender, length>>

\* The packet for leaving: no report blocks.
BYEPack(withSR, reason) == AddBYEPacket(Begin(withSR), 1, reason)
CanBuildBYE(withSR, reason) == CanBegin(withSR) /\ CanAddBYE(Begin(withSR), 1, reason)

-----------------------------------------------------------------------------
(* What happens to the source table in between                             *)

\* A new entry is appended to the list and not marked.
Join(s) ==
  /\ s \notin Range(table)
  /\ table' = Append(table, s)
  /\ UNCHANGED <<heard, fresh, counted, sender, buildervars>>

\* The entry is deleted, with everything noted in it.
Forget(s) ==
  /\ s \in Range(table) \ Busy
  /\ table' = Selected(table, Source \ {s})
  /\ heard' = [heard EXCEPT ![s] = "silent"]
  /\ fresh' = fresh \ {s} /\ counted' = counted \ {s} /\ processed' = processed \ {s}
  /\ UNCHANGED <<sender, firstpacket, processingsdes, sdesbuildcount, due, sdesflags,
                 length, last, lastitems, toosoon>>

\* An RTP packet of the source is processed.
Hear(s) ==
  /\ s \in Range(table)
  /\ heard' = [heard EXCEPT ![s] = IF @ = "csrc" THEN @ ELSE "sender"]
  /\ fresh' = fresh \cup {s} /\ counted' = counted \cup {s}
  /\ UNCHANGED <<table, sender, buildervars>>

\* A mixer lists the source as contributing: the mark stays for good.
SetCSRC(s) ==
  /\ s \in Range(table) \ Busy
  /\ heard' = [heard EXCEPT ![s] = "csrc"]
  /\ UNCHANGED <<table, fresh, counted, sender, buildervars>>

\* We begin to send, or our sender timeout expires.
OwnSender ==
  /\ sender' = ~sender
  /\ UNCHANGED <<table, heard, fresh, counted, buildervars>>

\* SetLocalName, SetLocalEMail, ...
SetLocal(i) ==
  /\ \E l \in Lengths[i] : length' = [length EXCEPT ![i] = l]
  /\ UNCHANGED <<sourcevars, processed, firstpacket, processingsdes, sdesbuildcount, due,
                 sdesflags, last, lastitems, toosoon>>
=============================================================================
