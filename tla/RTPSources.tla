----------------------------- MODULE RTPSources -----------------------------
(***************************************************************************)
(* The table of participants of one RTP session: jrtplib's RTPSources with *)
(* the per-source data of RTPInternalSourceData, the collision handling of *)
(* RTPSession::ProcessPolledData and the destination bookkeeping that      *)
(* RTPSessionEx hangs on the table's callbacks.                            *)
(*                                                                         *)
(* A source is an SSRC of `table`; its boolean fields are the sets         *)
(* `validated`, `senders` and `byed` (stats.sentdata implies validated and *)
(* decides nothing more, so it is left out).  Packets are processed while  *)
(* the poll thread holds the sources mutex: `phase` says how far           *)
(* ProcessPolledData has come, and `from` is the sender of the raw packet  *)
(* in hand.                                                                *)
(*                                                                         *)
(* An address stands for a pair of ports: for RTP it is the port itself,   *)
(* for RTCP the port above it, so that the "port - 1" RTPSessionEx applies *)
(* to an RTCP address yields the address again.  Time is abstracted: a     *)
(* source becomes `quiet` when the general timeout has passed since its    *)
(* last message, and MultipleTimeouts chooses the BYEs and the senders     *)
(* whose shorter intervals have passed.                                    *)
(***************************************************************************)
EXTENDS Integers, FiniteSets

CONSTANTS
  SSRC,      \* synchronisation source identifiers
  Addr,      \* transport addresses of other participants
  Host,      \* [Addr -> host]: the IP part of an address
  Self,      \* the sender address of our own packets (a null pointer)
  Unset,     \* an address that has not been set
  NoSSRC,    \* owndata == 0
  MixerMode  \* TRUE iff incoming RTP packets may carry CSRC lists

RTP_PROBATIONCOUNT == 2

ASSUME ConstantsAssumption ==
  /\ Self \notin Addr /\ Unset \notin Addr /\ Self # Unset
  /\ NoSSRC \notin SSRC
  /\ IsFiniteSet(SSRC)
  /\ MixerMode \in BOOLEAN
  /\ DOMAIN Host = Addr

VARIABLES
  table,        \* sourcelist: the SSRCs that have an entry
  own,          \* the SSRC of owndata
  validated, senders, byed,            \* per-source flags
  probation,    \* stats.probation: packets still to arrive in sequence
  rtpaddr, rtcpaddr,                   \* per-source addresses
  quiet,        \* no message for the general timeout
  totalcount, sendercount, activecount,
  dests,        \* the transmitter's destination list
  collisions,   \* addresses of RTPCollisionList
  owncollision, \* RTPSessionSources::owncollision
  phase, from   \* where ProcessPolledData is, and the sender in hand

flags  == <<validated, senders, byed, probation>>
addrs  == <<rtpaddr, rtcpaddr>>
counts == <<totalcount, sendercount, activecount>>
poll   == <<phase, from>>
vars   == <<table, own, flags, addrs, quiet, counts, dests, collisions,
            owncollision, poll>>

Senders == Addr \cup {Self}

\* No raw packet in hand.
NoPacket == <<"rtp", Self>>

Phases == {"unlocked", "polling", "rtp", "csrc", "rtcp", "done"}

TypeOK ==
  /\ table \subseteq SSRC
  /\ own \in SSRC \cup {NoSSRC}
  /\ validated \subseteq table /\ senders \subseteq table /\ byed \subseteq table
  /\ probation \in [SSRC -> 0..RTP_PROBATIONCOUNT]
  /\ rtpaddr \in [SSRC -> Senders \cup {Unset}]
  /\ rtcpaddr \in [SSRC -> Senders \cup {Unset}]
  /\ quiet \subseteq table
  /\ totalcount \in Int /\ sendercount \in Int /\ activecount \in Int
  /\ dests \subseteq Addr
  /\ collisions \subseteq {"rtp", "rtcp"} \X Addr
  /\ owncollision \in BOOLEAN
  /\ phase \in Phases
  /\ from \in {"rtp", "rtcp"} \X Senders

-----------------------------------------------------------------------------
(* Helpers                                                                 *)

IsActive(s) == s \in validated /\ s \notin byed

Active == {s \in table : IsActive(s)}

One(b) == IF b THEN 1 ELSE 0

\* RTPIPv4Address::IsFromSameHost, null addresses included.
SameHost(a, b) ==
  IF a = Self \/ b = Self THEN a = b ELSE Host[a] = Host[b]

\* Mutant: the other port's address is not compared.
CollidesSamePortOnly(s, a, mine, other) ==
  mine[s] # Unset /\ mine[s] # a

\* CheckCollision: `mine` is the address for the kind of packet in hand,
\* `other` the one for the other kind.
Collides(s, a, mine, other) ==
  IF mine[s] # Unset THEN mine[s] # a
  ELSE other[s] # Unset /\ ~SameHost(other[s], a)

\* CheckCollision stores an address it did not have, creation stores it too.
Learn(s, a, mine) == [mine EXCEPT ![s] = IF @ = Unset THEN a ELSE @]

\* The address RTPSessionEx adds or deletes for a source.
DestOf(rtp, rtcp) ==
  IF rtp \in Addr THEN {rtp} ELSE IF rtcp \in Addr THEN {rtcp} ELSE {}

\* A bounded SSRC set keeps one identifier spare for CreateNewSSRC.
Room(s) == s \in table \/ \E x \in SSRC \ table : x # s

(* stats.ProcessPacket with ProbationStore: whether the packet is accepted. *)
Accepts(s, expected) ==
  \/ s \in validated
  \/ probation[s] = 1 /\ expected

Probation(s, expected) ==
  IF s \in validated THEN probation[s]
  ELSE IF probation[s] # 0 /\ expected THEN probation[s] - 1
  ELSE RTP_PROBATIONCOUNT

-----------------------------------------------------------------------------
(* Session creation and destruction                                        *)

Init ==
  /\ table = {} /\ own = NoSSRC
  /\ validated = {} /\ senders = {} /\ byed = {}
  /\ probation = [s \in SSRC |-> 0]
  /\ rtpaddr = [s \in SSRC |-> Unset] /\ rtcpaddr = [s \in SSRC |-> Unset]
  /\ quiet = {}
  /\ totalcount = 0 /\ sendercount = 0 /\ activecount = 0
  /\ dests = {} /\ collisions = {} /\ owncollision = FALSE
  /\ phase = "unlocked"
  /\ from = NoPacket

CreateOwnSSRC(n) ==
  /\ phase = "unlocked" /\ own = NoSSRC /\ n \notin table
  /\ table' = table \cup {n} /\ own' = n
  /\ validated' = validated \cup {n}
  /\ rtpaddr' = [rtpaddr EXCEPT ![n] = Self]
  /\ rtcpaddr' = [rtcpaddr EXCEPT ![n] = Self]
  /\ quiet' = quiet \cup {n}
  /\ totalcount' = totalcount + 1 /\ activecount' = activecount + 1
  /\ UNCHANGED <<senders, byed, probation,
                 sendercount, dests, collisions, owncollision, poll>>

\* BYEDestroy: sources.Clear, collisionlist.Clear, and the transmitter with
\* its destination list is deleted.
Destroy ==
  /\ phase = "unlocked" /\ own # NoSSRC
  /\ table' = {} /\ own' = NoSSRC
  /\ validated' = {} /\ senders' = {} /\ byed' = {}
  /\ probation' = [s \in SSRC |-> 0]
  /\ rtpaddr' = [s \in SSRC |-> Unset] /\ rtcpaddr' = [s \in SSRC |-> Unset]
  /\ quiet' = {}
  /\ totalcount' = 0 /\ sendercount' = 0 /\ activecount' = 0
  /\ dests' = {} /\ collisions' = {}
  /\ UNCHANGED <<owncollision, poll>>

-----------------------------------------------------------------------------
(* Outgoing data, and time                                                 *)

BecomesSender(s) == One(s \notin senders)

SentRTPPacket ==
  /\ phase = "unlocked" /\ own # NoSSRC
  /\ senders' = senders \cup {own}
  /\ sendercount' = sendercount + BecomesSender(own)
  /\ quiet' = quiet \ {own}
  /\ UNCHANGED <<table, own, validated, byed, probation, addrs,
                 totalcount, activecount, dests, collisions,
                 owncollision, poll>>

TimePasses(s) ==
  /\ phase = "unlocked" /\ s \in table
  /\ quiet' = quiet \cup {s}
  /\ UNCHANGED <<table, own, flags, addrs, counts, dests, collisions,
                 owncollision, poll>>

-----------------------------------------------------------------------------
(* ProcessPolledData: packets, then timeouts                               *)

BeginPoll ==
  /\ phase = "unlocked" /\ own # NoSSRC
  /\ phase' = "polling"
  /\ UNCHANGED <<table, own, flags, addrs, quiet, counts, dests, collisions,
                 owncollision, from>>

\* The next raw packet: the collision flag is cleared before it is processed.
NextRawPacket(kind, a) ==
  /\ phase = "polling"
  /\ phase' = kind /\ from' = <<kind, a>>
  /\ owncollision' = FALSE
  /\ UNCHANGED <<table, own, flags, addrs, quiet, counts, dests, collisions>>

\* A collision makes the packet (or item) have no other effect.
Ignored(s, a, mine, other) ==
  /\ s \in table /\ Collides(s, a, mine, other)
  /\ owncollision' = (owncollision \/ s = own)
  /\ UNCHANGED <<table, own, flags, addrs, quiet, counts, dests, collisions, from>>

ProcessRTPPacket(s, expected) ==
  LET a == from[2]
      accept == Accepts(s, expected)
      created == s \notin table
  IN
  /\ phase = "rtp"
  /\ \/ Ignored(s, a, rtpaddr, rtcpaddr) /\ phase' = "done"
     \/ /\ Room(s)
        /\ created \/ ~Collides(s, a, rtpaddr, rtcpaddr)
        /\ table' = table \cup {s}
        /\ totalcount' = totalcount + One(created)
        /\ rtpaddr' = Learn(s, a, rtpaddr)
        /\ probation' = [probation EXCEPT ![s] = Probation(s, expected)]
        /\ validated' = IF accept THEN validated \cup {s} ELSE validated
        /\ senders' = IF accept /\ s # own THEN senders \cup {s} ELSE senders
        /\ sendercount' = sendercount + One(accept /\ s # own /\ s \notin senders)
        /\ activecount' = activecount + One(accept /\ s \notin validated \cup byed)
        /\ quiet' = quiet \ {s}
        /\ dests' = IF created THEN dests \cup DestOf(a, Unset) ELSE dests
        /\ phase' = IF MixerMode /\ (accept \/ s \in validated) THEN "csrc" ELSE "done"
        /\ UNCHANGED <<own, byed, rtcpaddr, collisions, owncollision, from>>

\* One contributing source of a validated packet.  An entry that exists
\* already becomes validated without being counted as active.
ProcessCSRC(c) ==
  LET a == from[2]
      created == c \notin table
  IN
  /\ phase = "csrc"
  /\ \/ Ignored(c, a, rtpaddr, rtcpaddr)
     \/ /\ Room(c)
        /\ created \/ ~Collides(c, a, rtpaddr, rtcpaddr)
        /\ table' = table \cup {c}
        /\ totalcount' = totalcount + One(created)
        /\ validated' = validated \cup {c}
        /\ activecount' = activecount + One(created)
        /\ rtpaddr' = IF created THEN rtpaddr ELSE Learn(c, a, rtpaddr)
        /\ quiet' = IF created THEN quiet \cup {c} ELSE quiet
        /\ UNCHANGED <<own, senders, byed, probation, rtcpaddr, sendercount, dests, collisions,
                       owncollision, from>>
  /\ UNCHANGED phase

\* GetRTCPSourceData and the callback for a new source, shared by the items
\* of a compound packet that carry nothing more (SR, RR, reports, SDES items
\* other than CNAME).
RTCPSource(s) ==
  LET a == from[2] IN
  /\ Room(s)
  /\ s \notin table \/ ~Collides(s, a, rtcpaddr, rtpaddr)
  /\ table' = table \cup {s}
  /\ totalcount' = totalcount + One(s \notin table)
  /\ rtcpaddr' = Learn(s, a, rtcpaddr)

NewDests(s) == IF s \notin table THEN dests \cup DestOf(Unset, from[2]) ELSE dests

ProcessRTCPInfo(s) ==
  /\ phase = "rtcp"
  /\ \/ Ignored(s, from[2], rtcpaddr, rtpaddr)
     \/ /\ RTCPSource(s)
        /\ quiet' = quiet \ {s}
        /\ dests' = NewDests(s)
        /\ UNCHANGED <<own, flags, rtpaddr, sendercount,
                       activecount, collisions, owncollision, from>>
  /\ UNCHANGED phase

ProcessCNAME(s) ==
  /\ phase = "rtcp"
  /\ \/ Ignored(s, from[2], rtcpaddr, rtpaddr)
     \/ /\ RTCPSource(s)
        /\ validated' = validated \cup {s}
        /\ activecount' = activecount + One(s \notin validated \cup byed)
        /\ quiet' = quiet \ {s}
        /\ dests' = NewDests(s)
        /\ UNCHANGED <<own, senders, byed, probation, rtpaddr, sendercount, collisions,
                       owncollision, from>>
  /\ UNCHANGED phase

\* Mutant: a repeated BYE is counted again.
LeavesAgain(s) == One(s \in validated)

LeavesActive(s) == One(IsActive(s))

\* A BYE for our own SSRC is ignored once the address has been checked.
ProcessBYE(s) ==
  /\ phase = "rtcp"
  /\ \/ Ignored(s, from[2], rtcpaddr, rtpaddr)
     \/ /\ s = own /\ RTCPSource(s)
        /\ UNCHANGED <<own, flags, rtpaddr, quiet, sendercount, activecount,
                       dests, collisions, owncollision, from>>
     \/ /\ s # own /\ RTCPSource(s)
        /\ byed' = byed \cup {s}
        /\ activecount' = activecount - LeavesActive(s)
        /\ quiet' = quiet \ {s}
        /\ dests' = NewDests(s) \ DestOf(rtpaddr[s], rtcpaddr'[s])
        /\ UNCHANGED <<own, validated, senders, probation, rtpaddr,
                       sendercount, collisions, owncollision, from>>
  /\ UNCHANGED phase

\* One item of a compound packet: a report, a chunk or an item of SDES, or an
\* identifier of a BYE.
ProcessRTCPCompoundPacket(s) == ProcessRTCPInfo(s) \/ ProcessCNAME(s) \/ ProcessBYE(s)

\* DeleteOwnSSRC and CreateOwnSSRC(n) under the same lock.
ChangeOwnSSRC(n) ==
  /\ table' = (table \ {own}) \cup {n} /\ own' = n
  /\ validated' = (validated \ {own}) \cup {n}
  /\ senders' = senders \ {own} /\ byed' = byed \ {own}
  /\ probation' = [probation EXCEPT ![own] = 0]
  /\ rtpaddr' = [rtpaddr EXCEPT ![own] = Unset, ![n] = Self]
  /\ rtcpaddr' = [rtcpaddr EXCEPT ![own] = Unset, ![n] = Self]
  /\ quiet' = (quiet \ {own}) \cup {n}
  /\ sendercount' = sendercount - One(own \in senders)
  /\ activecount' = (activecount - One(IsActive(own))) + 1
  /\ UNCHANGED <<totalcount, dests, owncollision>>

\* Mutant: the collision list is not consulted.
AnyCollision == owncollision

FirstCollision == owncollision /\ from \notin collisions

\* The end of a raw packet: an own collision from an address that is not yet
\* in the collision list changes our SSRC.
EndRawPacket ==
  /\ phase \in {"csrc", "rtcp", "done"}
  /\ phase' = "polling" /\ from' = NoPacket
  /\ IF FirstCollision
     THEN /\ collisions' = collisions \cup {from}
          /\ \E n \in SSRC \ table : ChangeOwnSSRC(n)
     ELSE UNCHANGED <<table, own, flags, addrs, quiet, counts, dests,
                      collisions, owncollision>>

\* Mutants: we time out ourselves; only departed sources are timed out.
GoneWithOwn(old) == quiet \cup old
GoneByeOnly(old) == old \ {own}

\* The sources MultipleTimeouts removes, when the BYE timeout has passed for
\* the sources `old`.
Gone(old) == (quiet \cup old) \ {own}

\* Mutant: the running count is kept instead of the recount.
ActiveRunning(gone) == activecount - Cardinality(Active \cap gone)

ActiveLeft(gone) == Cardinality(Active \ gone)

\* Mutant: the BYE test of OnRemoveSource is inverted.
DestsRemovedInverted(gone) ==
  UNION {DestOf(rtpaddr[s], rtcpaddr[s]) : s \in gone \cap byed}

\* RTPSessionEx::OnRemoveSource does nothing for a source that said BYE.
DestsRemoved(gone) ==
  UNION {DestOf(rtpaddr[s], rtcpaddr[s]) : s \in gone \ byed}

Forget(f, S, v) == [s \in SSRC |-> IF s \in S THEN v ELSE f[s]]

\* MultipleTimeouts recounts what is left; the collision list is timed out
\* last.
MultipleTimeouts ==
  \E old \in SUBSET byed, idle \in SUBSET senders :
    LET gone == Gone(old) IN
    /\ phase = "polling" /\ phase' = "unlocked" /\ UNCHANGED from
    /\ table' = table \ gone
    /\ validated' = validated \ gone /\ byed' = byed \ gone
    /\ senders' = senders \ (gone \cup idle)
    /\ probation' = Forget(probation, gone, 0)
    /\ rtpaddr' = Forget(rtpaddr, gone, Unset)
    /\ rtcpaddr' = Forget(rtcpaddr, gone, Unset)
    /\ quiet' = quiet \ gone
    /\ totalcount' = Cardinality(table')
    /\ sendercount' = Cardinality(senders')
    /\ activecount' = ActiveLeft(gone)
    /\ dests' = dests \ DestsRemoved(gone)
    /\ collisions' \in SUBSET collisions
    /\ UNCHANGED <<own, owncollision>>

Next ==
  \/ \E n \in SSRC : CreateOwnSSRC(n)
  \/ Destroy
  \/ SentRTPPacket
  \/ \E s \in SSRC : TimePasses(s)
  \/ BeginPoll
  \/ \E kind \in {"rtp", "rtcp"}, a \in Senders : NextRawPacket(kind, a)
  \/ \E s \in SSRC, expected \in BOOLEAN : ProcessRTPPacket(s, expected)
  \/ \E s \in SSRC : ProcessCSRC(s) \/ ProcessRTCPCompoundPacket(s)
  \/ EndRawPacket
  \/ MultipleTimeouts

Spec == Init /\ [][Next]_vars

-----------------------------------------------------------------------------
(* Properties                                                              *)

\* The counters the scheduler divides the bandwidth by agree with the table:
\* every creation, removal, sender timeout and SSRC change keeps them exact.
TotalAndSenderCountExact ==
  /\ totalcount = Cardinality(table)
  /\ sendercount = Cardinality(senders)

\* What rtpsources.h says of GetActiveMemberCount: the number of members that
\* have been validated and have not sent a BYE packet yet.
ActiveCountExact == activecount = Cardinality(Active)

\* The active count is never too large, and it is exact again whenever the
\* sources mutex is free, so a thread between BeginDataAccess and
\* EndDataAccess sees the right number.
ActiveCountRepaired ==
  /\ activecount <= Cardinality(Active)
  /\ phase = "unlocked" => ActiveCountExact

\* What the sources mutex protects is never off when it is free: the counts
\* of members, of senders and of active members are those of the table.
CountsMatchTable == TotalAndSenderCountExact /\ ActiveCountRepaired

\* Our own entry survives everything the network sends and every timeout: it
\* is in the table, validated, never marked as gone, and no address of
\* another participant was ever stored in it.
OwnSourceIntact ==
  own # NoSSRC => /\ own \in validated /\ own \notin byed
                  /\ rtpaddr[own] = Self /\ rtcpaddr[own] = Self

\* RTP and RTCP packets credited to one source come from one host: a packet
\* from anywhere else is a collision and is ignored.
OneHostPerSource ==
  \A s \in table :
    rtpaddr[s] # Unset /\ rtcpaddr[s] # Unset => SameHost(rtpaddr[s], rtcpaddr[s])

\* We send to nobody who has left: every destination RTPSessionEx added still
\* belongs to a source of the table that has not said BYE.  This needs that
\* a host uses one pair of adjacent ports.
NoStaleDestination ==
  (\A a, b \in Addr : Host[a] = Host[b] => a = b) =>
    dests \subseteq UNION {DestOf(rtpaddr[s], rtcpaddr[s]) : s \in table \ (byed \cup {own})}

\* One collider makes us change our SSRC once: the change is paid for with an
\* entry in the collision list, and while the entry stays that address causes
\* no further change.  The new identifier belonged to nobody.
SSRCChangesOncePerCollider ==
  [][ own' # own /\ NoSSRC \notin {own, own'} =>
        /\ collisions' = collisions \cup {from} /\ from \notin collisions
        /\ own' \notin table /\ own \notin table' ]_vars

\* A participant that falls silent is removed from the table, unless it is
\* heard again first.
SilentSourceLeaves ==
  \A s \in SSRC : (s \in quiet /\ s # own) ~> (s \notin quiet \/ s = own)

\* The poll thread runs again and again, a raw packet has finitely many items,
\* and the list filled by one Poll is finite.
Fairness ==
  /\ WF_vars(BeginPoll)
  /\ WF_vars(\E s \in SSRC, expected \in BOOLEAN : ProcessRTPPacket(s, expected))
  /\ WF_vars(EndRawPacket)
  /\ SF_vars(MultipleTimeouts)

FairSpec == Spec /\ Fairness
=============================================================================
