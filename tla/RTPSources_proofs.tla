-------------------------- MODULE RTPSources_proofs --------------------------
(***************************************************************************)
(* Proofs about RTPSources, for every set of identifiers and addresses and *)
(* with or without mixers.  The properties of the runs are not inductive   *)
(* one by one: an address stored in our own entry would make the collision *)
(* list ill-typed, a stale address of a removed entry would survive its    *)
(* re-creation, and so on.  IndInv collects what they need of each other.  *)
(***************************************************************************)
EXTENDS RTPSources, FiniteSetTheorems, TLAPS

\* Where ProcessPolledData can be: packets are processed for a session that
\* exists, contributing sources only in sessions with mixers, and an own
\* collision noted while a packet is in hand was caused by another host.
PollInv ==
  /\ phase # "unlocked" => own # NoSSRC
  /\ own = NoSSRC => table = {}
  /\ phase = "csrc" => MixerMode
  /\ owncollision /\ phase \in {"rtp", "csrc", "rtcp", "done"} => from[2] \in Addr

\* A removed source leaves no address behind.
FreshInv == \A s \in SSRC \ table : rtpaddr[s] = Unset /\ rtcpaddr[s] = Unset

IndInv == TypeOK /\ PollInv /\ FreshInv /\ OwnSourceIntact /\ OneHostPerSource

-----------------------------------------------------------------------------
(* The inductive invariant                                                 *)

\* The initial state of a session object satisfies the invariant.
LEMMA InitIndInv == Init => IndInv
<1> SUFFICES ASSUME Init PROVE IndInv
  OBVIOUS
<1>1. TypeOK
  <2>1. from \in {"rtp", "rtcp"} \X Senders
    BY DEF Init, NoPacket, Senders
  <2>2. probation \in [SSRC -> 0..RTP_PROBATIONCOUNT]
    BY DEF Init, RTP_PROBATIONCOUNT
  <2>3. rtpaddr \in [SSRC -> Senders \cup {Unset}] /\ rtcpaddr \in [SSRC -> Senders \cup {Unset}]
    BY DEF Init
  <2>4. collisions \subseteq {"rtp", "rtcp"} \X Addr
    BY DEF Init
  <2>5. owncollision \in BOOLEAN /\ phase \in Phases
    BY DEF Init, Phases
  <2> QED BY <2>1, <2>2, <2>3, <2>4, <2>5 DEF Init, TypeOK
<1>2. PollInv /\ FreshInv
  BY DEF Init, PollInv, FreshInv
<1>3. OwnSourceIntact /\ OneHostPerSource
  BY DEF Init, OwnSourceIntact, OneHostPerSource
<1> QED BY <1>1, <1>2, <1>3 DEF IndInv

\* A packet that is ignored because of a collision changes nothing but the
\* collision flag, and that only for a packet of another participant.
LEMMA IgnoredIndInv ==
  ASSUME IndInv, phase \in {"rtp", "csrc", "rtcp"}, NEW s \in SSRC,
         \/ Ignored(s, from[2], rtpaddr, rtcpaddr)
         \/ Ignored(s, from[2], rtcpaddr, rtpaddr),
         phase' \in {phase, "done"}
  PROVE  IndInv'
<1>1. from[2] \in Senders
  BY DEF IndInv, TypeOK
<1>2. s = own => from[2] \in Addr
  BY <1>1, ConstantsAssumption DEF IndInv, OwnSourceIntact, Ignored, Collides, Senders
<1>3. TypeOK'
  BY DEF IndInv, TypeOK, Ignored, Phases, flags, addrs, counts
<1>4. PollInv'
  BY <1>2 DEF IndInv, PollInv, Ignored, flags, addrs, counts
<1>5. FreshInv' /\ OwnSourceIntact' /\ OneHostPerSource'
  BY DEF IndInv, FreshInv, OwnSourceIntact, OneHostPerSource, Ignored, SameHost, flags, addrs, counts
<1> QED BY <1>3, <1>4, <1>5 DEF IndInv

\* Steps that only move the poll thread, mark time or mark a sender.
LEMMA QuietIndInv ==
  ASSUME IndInv,
         \/ SentRTPPacket
         \/ \E s \in SSRC : TimePasses(s)
         \/ BeginPoll
         \/ \E kind \in {"rtp", "rtcp"}, a \in Senders : NextRawPacket(kind, a)
  PROVE  IndInv'
<1>1. CASE SentRTPPacket
  <2>1. TypeOK'
    BY <1>1 DEF IndInv, TypeOK, OwnSourceIntact, SentRTPPacket, BecomesSender, One, addrs, poll
  <2>2. PollInv' /\ FreshInv' /\ OwnSourceIntact' /\ OneHostPerSource'
    BY <1>1 DEF IndInv, PollInv, FreshInv, OwnSourceIntact, OneHostPerSource,
       SentRTPPacket, SameHost, addrs, poll
  <2> QED BY <2>1, <2>2 DEF IndInv
<1>2. CASE \E s \in SSRC : TimePasses(s)
  <2>1. TypeOK'
    BY <1>2 DEF IndInv, TypeOK, TimePasses, flags, addrs, counts, poll
  <2>2. PollInv' /\ FreshInv' /\ OwnSourceIntact' /\ OneHostPerSource'
    BY <1>2 DEF IndInv, PollInv, FreshInv, OwnSourceIntact, OneHostPerSource,
       TimePasses, SameHost, flags, addrs, poll
  <2> QED BY <2>1, <2>2 DEF IndInv
<1>3. CASE BeginPoll
  <2>1. TypeOK'
    BY <1>3 DEF IndInv, TypeOK, BeginPoll, Phases, flags, addrs, counts
  <2>2. PollInv' /\ FreshInv' /\ OwnSourceIntact' /\ OneHostPerSource'
    BY <1>3 DEF IndInv, PollInv, FreshInv, OwnSourceIntact, OneHostPerSource,
       BeginPoll, SameHost, flags, addrs
  <2> QED BY <2>1, <2>2 DEF IndInv
<1>4. ASSUME NEW kind \in {"rtp", "rtcp"}, NEW a \in Senders, NextRawPacket(kind, a)
      PROVE  IndInv'
  <2>1. TypeOK'
    <3>1. from' \in {"rtp", "rtcp"} \X Senders
      BY <1>4 DEF NextRawPacket
    <3> QED BY <1>4, <3>1 DEF IndInv, TypeOK, NextRawPacket, Phases, flags, addrs, counts
  <2>2. PollInv' /\ FreshInv' /\ OwnSourceIntact' /\ OneHostPerSource'
    BY <1>4 DEF IndInv, PollInv, FreshInv, OwnSourceIntact, OneHostPerSource,
       NextRawPacket, SameHost, flags, addrs
  <2> QED BY <2>1, <2>2 DEF IndInv
<1> QED BY <1>1, <1>2, <1>3, <1>4

\* Storing an address that does not collide keeps the two addresses of a
\* source on one host and never changes our own.
LEMMA LearnKeepsHosts ==
  ASSUME IndInv, NEW s \in SSRC, NEW a \in Senders,
         NEW mine, NEW other, <<mine, other>> \in {<<rtpaddr, rtcpaddr>>, <<rtcpaddr, rtpaddr>>},
         s \notin table \/ ~Collides(s, a, mine, other)
  PROVE  LET new == Learn(s, a, mine) IN
         /\ new \in [SSRC -> Senders \cup {Unset}]
         /\ \A x \in SSRC : x # s => new[x] = mine[x]
         /\ new[s] = a
         /\ mine[s] # Unset => new[s] = mine[s]
         /\ other[s] # Unset => SameHost(new[s], other[s])
         /\ s = own => a = Self
<1>1. /\ mine \in [SSRC -> Senders \cup {Unset}]
      /\ other \in [SSRC -> Senders \cup {Unset}]
  BY DEF IndInv, TypeOK
<1>2. CASE s \in table
  <2>1. a # Unset
    BY ConstantsAssumption DEF Senders
  <2>2. Learn(s, a, mine)[s] = a
    BY <1>1, <1>2 DEF Learn, Collides
  <2>3. ASSUME other[s] # Unset PROVE SameHost(a, other[s])
    <3>1. CASE mine[s] = Unset
      BY <1>1, <1>2, <2>3, <3>1 DEF Collides, SameHost
    <3>2. CASE mine[s] # Unset
      BY <1>1, <1>2, <2>3, <3>2 DEF Collides, SameHost, IndInv, OneHostPerSource
    <3> QED BY <3>1, <3>2
  <2>4. s = own => a = Self
    BY <1>2, ConstantsAssumption DEF Collides, IndInv, OwnSourceIntact, TypeOK
  <2> QED BY <1>1, <1>2, <2>2, <2>3, <2>4 DEF Learn, Collides
<1>3. CASE s \notin table
  <2>1. mine[s] = Unset /\ other[s] = Unset
    BY <1>3 DEF IndInv, FreshInv
  <2>2. s # own
    BY <1>3, ConstantsAssumption DEF IndInv, OwnSourceIntact, TypeOK
  <2> QED BY <1>1, <2>1, <2>2 DEF Learn
<1> QED BY <1>2, <1>3

\* An incoming RTP packet.
LEMMA RTPPacketIndInv ==
  ASSUME IndInv, NEW s \in SSRC, NEW expected \in BOOLEAN, ProcessRTPPacket(s, expected)
  PROVE  IndInv'
<1> DEFINE a == from[2]
<1>0. a \in Senders
  BY DEF IndInv, TypeOK
<1>1. CASE Ignored(s, a, rtpaddr, rtcpaddr) /\ phase' = "done"
  BY <1>1, IgnoredIndInv DEF ProcessRTPPacket
<1>2. CASE ~(Ignored(s, a, rtpaddr, rtcpaddr) /\ phase' = "done")
  <2>1. /\ s \notin table \/ ~Collides(s, a, rtpaddr, rtcpaddr)
        /\ table' = table \cup {s}
        /\ rtpaddr' = Learn(s, a, rtpaddr) /\ rtcpaddr' = rtcpaddr
        /\ own' = own /\ byed' = byed /\ from' = from
        /\ owncollision' = owncollision /\ collisions' = collisions
        /\ phase = "rtp" /\ phase' \in {"csrc", "done"} /\ (phase' = "csrc" => MixerMode)
        /\ validated' \in {validated, validated \cup {s}}
        /\ senders' \in {senders, senders \cup {s}}
        /\ quiet' = quiet \ {s}
        /\ dests' \in {dests, dests \cup DestOf(a, Unset)}
    BY <1>2 DEF ProcessRTPPacket
  <2>2. /\ rtpaddr' \in [SSRC -> Senders \cup {Unset}]
        /\ \A x \in SSRC : x # s => rtpaddr'[x] = rtpaddr[x]
        /\ rtcpaddr[s] # Unset => SameHost(rtpaddr'[s], rtcpaddr[s])
        /\ s = own => rtpaddr'[s] = Self
    BY <1>0, <2>1, LearnKeepsHosts
  <2>3. TypeOK'
    <3>1. probation' \in [SSRC -> 0..RTP_PROBATIONCOUNT]
      BY <1>2 DEF IndInv, TypeOK, ProcessRTPPacket, Probation, RTP_PROBATIONCOUNT
    <3>2. totalcount' \in Int /\ sendercount' \in Int /\ activecount' \in Int
      BY <1>2 DEF IndInv, TypeOK, ProcessRTPPacket, One
    <3>3. dests' \subseteq Addr
      BY <1>0, <2>1 DEF IndInv, TypeOK, DestOf
    <3> QED BY <2>1, <2>2, <3>1, <3>2, <3>3 DEF IndInv, TypeOK, Phases
  <2>4. PollInv'
    BY <2>1 DEF IndInv, PollInv
  <2>5. FreshInv'
    BY <2>1, <2>2 DEF IndInv, FreshInv
  <2>6. OwnSourceIntact'
    BY <2>1, <2>2 DEF IndInv, OwnSourceIntact, TypeOK
  <2>7. OneHostPerSource'
    BY <2>1, <2>2 DEF IndInv, OneHostPerSource, TypeOK, FreshInv, SameHost
  <2> QED BY <2>3, <2>4, <2>5, <2>6, <2>7 DEF IndInv
<1> QED BY <1>1, <1>2

\* A contributing source of a packet.
LEMMA CSRCIndInv ==
  ASSUME IndInv, NEW c \in SSRC, ProcessCSRC(c)
  PROVE  IndInv'
<1> DEFINE a == from[2]
<1>0. a \in Senders
  BY DEF IndInv, TypeOK
<1>1. CASE Ignored(c, a, rtpaddr, rtcpaddr)
  BY <1>1, IgnoredIndInv DEF ProcessCSRC
<1>2. CASE ~Ignored(c, a, rtpaddr, rtcpaddr)
  <2>1. /\ c \notin table \/ ~Collides(c, a, rtpaddr, rtcpaddr)
        /\ table' = table \cup {c} /\ validated' = validated \cup {c}
        /\ rtpaddr' \in {rtpaddr, Learn(c, a, rtpaddr)} /\ rtcpaddr' = rtcpaddr
        /\ own' = own /\ byed' = byed /\ from' = from /\ senders' = senders
        /\ owncollision' = owncollision /\ collisions' = collisions
        /\ phase' = phase /\ probation' = probation /\ dests' = dests
        /\ quiet' \in {quiet, quiet \cup {c}}
    BY <1>2 DEF ProcessCSRC
  <2>2. /\ rtpaddr' \in [SSRC -> Senders \cup {Unset}]
        /\ \A x \in SSRC : x # c => rtpaddr'[x] = rtpaddr[x]
        /\ rtpaddr'[c] # rtpaddr[c] /\ rtcpaddr[c] # Unset => SameHost(rtpaddr'[c], rtcpaddr[c])
        /\ c = own => rtpaddr'[c] = Self
    <3>1. CASE rtpaddr' = rtpaddr
      BY <3>1, ConstantsAssumption DEF IndInv, TypeOK, OwnSourceIntact
    <3>2. CASE rtpaddr' = Learn(c, a, rtpaddr)
      BY <1>0, <2>1, <3>2, LearnKeepsHosts
    <3> QED BY <2>1, <3>1, <3>2
  <2>3. TypeOK'
    <3>1. totalcount' \in Int /\ sendercount' \in Int /\ activecount' \in Int
      BY <1>2 DEF IndInv, TypeOK, ProcessCSRC, One
    <3> QED BY <2>1, <2>2, <3>1 DEF IndInv, TypeOK
  <2>4. PollInv'
    BY <1>2, <2>1 DEF IndInv, PollInv, ProcessCSRC
  <2>5. FreshInv'
    BY <2>1, <2>2 DEF IndInv, FreshInv
  <2>6. OwnSourceIntact'
    BY <2>1, <2>2 DEF IndInv, OwnSourceIntact, TypeOK
  <2>7. OneHostPerSource'
    BY <2>1, <2>2 DEF IndInv, OneHostPerSource, TypeOK, FreshInv, SameHost
  <2> QED BY <2>3, <2>4, <2>5, <2>6, <2>7 DEF IndInv
<1> QED BY <1>1, <1>2

\* The items of an RTCP packet: what they have in common.
LEMMA RTCPIndInv ==
  ASSUME IndInv, NEW s \in SSRC, ProcessRTCPInfo(s) \/ ProcessCNAME(s) \/ ProcessBYE(s)
  PROVE  IndInv'
<1> DEFINE a == from[2]
<1>0. a \in Senders
  BY DEF IndInv, TypeOK
<1>a. phase = "rtcp" /\ phase' = "rtcp"
  BY DEF ProcessRTCPInfo, ProcessCNAME, ProcessBYE
<1>1. CASE Ignored(s, a, rtcpaddr, rtpaddr)
  BY <1>1, <1>a, IgnoredIndInv
<1>2. CASE ~Ignored(s, a, rtcpaddr, rtpaddr)
  <2>1. /\ s \notin table \/ ~Collides(s, a, rtcpaddr, rtpaddr)
        /\ table' = table \cup {s}
        /\ rtcpaddr' = Learn(s, a, rtcpaddr) /\ rtpaddr' = rtpaddr
        /\ own' = own /\ from' = from /\ senders' = senders
        /\ owncollision' = owncollision /\ collisions' = collisions
        /\ probation' = probation /\ totalcount' = totalcount + One(s \notin table)
        /\ validated' \in {validated, validated \cup {s}}
        /\ byed' \in {byed, byed \cup {s}} /\ (byed' # byed => s # own)
        /\ quiet' \in {quiet, quiet \ {s}} /\ sendercount' = sendercount
    BY <1>2 DEF ProcessRTCPInfo, ProcessCNAME, ProcessBYE, RTCPSource, flags, addrs
  <2>2. /\ rtcpaddr' \in [SSRC -> Senders \cup {Unset}]
        /\ \A x \in SSRC : x # s => rtcpaddr'[x] = rtcpaddr[x]
        /\ rtpaddr[s] # Unset => SameHost(rtcpaddr'[s], rtpaddr[s])
        /\ s = own => rtcpaddr'[s] = Self
    BY <1>0, <2>1, LearnKeepsHosts
  <2>3. TypeOK'
    <3>1. activecount' \in Int
      BY <1>2 DEF IndInv, TypeOK, ProcessRTCPInfo, ProcessCNAME, ProcessBYE, One, LeavesActive
    <3>2. dests' \subseteq Addr
      BY <1>0, <1>2 DEF IndInv, TypeOK, ProcessRTCPInfo, ProcessCNAME, ProcessBYE,
         RTCPSource, NewDests, DestOf
    <3> QED BY <1>a, <2>1, <2>2, <3>1, <3>2 DEF IndInv, TypeOK, Phases, One
  <2>4. PollInv'
    BY <1>a, <2>1 DEF IndInv, PollInv
  <2>5. FreshInv'
    BY <2>1, <2>2 DEF IndInv, FreshInv
  <2>6. OwnSourceIntact'
    BY <2>1, <2>2 DEF IndInv, OwnSourceIntact, TypeOK
  <2>7. OneHostPerSource'
    BY <2>1, <2>2 DEF IndInv, OneHostPerSource, TypeOK, FreshInv, SameHost
  <2> QED BY <2>3, <2>4, <2>5, <2>6, <2>7 DEF IndInv
<1> QED BY <1>1, <1>2

\* Creating and destroying the session.
LEMMA SessionIndInv ==
  ASSUME IndInv, Destroy \/ \E n \in SSRC : CreateOwnSSRC(n)
  PROVE  IndInv'
<1>1. ASSUME NEW n \in SSRC, CreateOwnSSRC(n) PROVE IndInv'
  <2>1. TypeOK'
    BY <1>1 DEF IndInv, TypeOK, CreateOwnSSRC, Senders, poll
  <2>2. PollInv'
    BY <1>1, ConstantsAssumption DEF IndInv, PollInv, CreateOwnSSRC, poll
  <2>3. FreshInv' /\ OwnSourceIntact'
    BY <1>1 DEF IndInv, FreshInv, OwnSourceIntact, TypeOK, CreateOwnSSRC
  <2>4. OneHostPerSource'
    BY <1>1 DEF IndInv, OneHostPerSource, TypeOK, CreateOwnSSRC, SameHost
  <2> QED BY <2>1, <2>2, <2>3, <2>4 DEF IndInv
<1>2. CASE Destroy
  <2>1. TypeOK'
    <3>1. probation' \in [SSRC -> 0..RTP_PROBATIONCOUNT]
      BY <1>2 DEF Destroy, RTP_PROBATIONCOUNT
    <3>2. /\ rtpaddr' \in [SSRC -> Senders \cup {Unset}]
          /\ rtcpaddr' \in [SSRC -> Senders \cup {Unset}]
      BY <1>2 DEF Destroy
    <3> QED BY <1>2, <3>1, <3>2 DEF IndInv, TypeOK, Destroy, poll
  <2>2. PollInv'
    BY <1>2 DEF IndInv, PollInv, Destroy, poll
  <2>3. FreshInv' /\ OwnSourceIntact' /\ OneHostPerSource'
    BY <1>2 DEF FreshInv, OwnSourceIntact, OneHostPerSource, Destroy
  <2> QED BY <2>1, <2>2, <2>3 DEF IndInv
<1> QED BY <1>1, <1>2

\* The end of a packet, with or without a change of our SSRC.
LEMMA EndRawPacketIndInv ==
  ASSUME IndInv, EndRawPacket
  PROVE  IndInv'
<1>1. /\ phase \in {"csrc", "rtcp", "done"} /\ phase' = "polling"
      /\ from' = NoPacket /\ own # NoSSRC /\ own \in SSRC
  BY DEF EndRawPacket, IndInv, PollInv, TypeOK
<1>2. from' \in {"rtp", "rtcp"} \X Senders
  BY <1>1 DEF NoPacket, Senders
<1>3. CASE FirstCollision
  <2>1. PICK n \in SSRC \ table : ChangeOwnSSRC(n)
    BY <1>3 DEF EndRawPacket
  <2>2. collisions' \subseteq {"rtp", "rtcp"} \X Addr
    <3>1. from[2] \in Addr
      BY <1>1, <1>3 DEF IndInv, PollInv, FirstCollision
    <3>2. from \in {"rtp", "rtcp"} \X Addr
      BY <3>1 DEF IndInv, TypeOK
    <3> QED BY <1>3, <3>2 DEF EndRawPacket, IndInv, TypeOK
  <2>3. n # own /\ own \in table
    BY <1>1, <2>1 DEF IndInv, OwnSourceIntact, TypeOK
  <2>4. TypeOK'
    <3>1. probation' \in [SSRC -> 0..RTP_PROBATIONCOUNT]
      <4>1. probation \in [SSRC -> 0..RTP_PROBATIONCOUNT] /\ 0 \in 0..RTP_PROBATIONCOUNT
        BY DEF IndInv, TypeOK, RTP_PROBATIONCOUNT
      <4>2. probation' = [probation EXCEPT ![own] = 0]
        BY <2>1 DEF ChangeOwnSSRC
      <4> QED BY <4>1, <4>2
    <3>2. /\ rtpaddr' \in [SSRC -> Senders \cup {Unset}]
          /\ rtcpaddr' \in [SSRC -> Senders \cup {Unset}]
      BY <2>1 DEF ChangeOwnSSRC, IndInv, TypeOK, Senders
    <3> QED BY <1>1, <1>2, <2>1, <2>2, <3>1, <3>2
            DEF ChangeOwnSSRC, IndInv, TypeOK, Phases, One
  <2>5. PollInv'
    BY <1>1, <2>1, ConstantsAssumption DEF PollInv, ChangeOwnSSRC
  <2>6. FreshInv' /\ OwnSourceIntact'
    BY <1>1, <2>1, <2>3 DEF IndInv, FreshInv, OwnSourceIntact, TypeOK, ChangeOwnSSRC
  <2>7. OneHostPerSource'
    BY <1>1, <2>1, <2>3 DEF IndInv, OneHostPerSource, TypeOK, ChangeOwnSSRC, SameHost
  <2> QED BY <2>4, <2>5, <2>6, <2>7 DEF IndInv
<1>4. CASE ~FirstCollision
  <2>1. TypeOK'
    BY <1>1, <1>2, <1>4 DEF EndRawPacket, IndInv, TypeOK, Phases, flags, addrs, counts
  <2>2. PollInv' /\ FreshInv' /\ OwnSourceIntact' /\ OneHostPerSource'
    BY <1>1, <1>4 DEF EndRawPacket, IndInv, PollInv, FreshInv, OwnSourceIntact,
       OneHostPerSource, SameHost, flags, addrs, counts
  <2> QED BY <2>1, <2>2 DEF IndInv
<1> QED BY <1>3, <1>4

\* Timeouts never touch our own entry and erase what they remove.
LEMMA TimeoutsIndInv ==
  ASSUME IndInv, MultipleTimeouts
  PROVE  IndInv'
<1>1. PICK old \in SUBSET byed, idle \in SUBSET senders :
        LET gone == Gone(old) IN
        /\ phase = "polling" /\ phase' = "unlocked" /\ UNCHANGED from
        /\ table' = table \ gone
        /\ validated' = validated \ gone /\ byed' = byed \ gone
        /\ senders' = senders \ (gone \cup idle)
        /\ probation' = Forget(probation, gone, 0)
        /\ rtpaddr' = Forget(rtpaddr, gone, Unset)
        /\ rtcpaddr' = Forget(rtcpaddr, gone, Unset)
        /\ quiet' = quiet \ gone
        /\ totalcount' = Cardinality(table')
        /\ sendercount' = Cardinality(senders')
        /\ activecount' = ActiveLeft(gone)
        /\ dests' = dests \ DestsRemoved(gone)
        /\ collisions' \in SUBSET collisions
        /\ UNCHANGED <<own, owncollision>>
  BY DEF MultipleTimeouts
<1> DEFINE gone == Gone(old)
<1>2. own \notin gone /\ gone \subseteq table
  BY <1>1 DEF Gone, IndInv, TypeOK
<1>3. TypeOK'
  <2>1. IsFiniteSet(SSRC) /\ table \subseteq SSRC /\ senders \subseteq SSRC
    BY ConstantsAssumption DEF IndInv, TypeOK
  <2>2. IsFiniteSet(table') /\ IsFiniteSet(senders') /\ IsFiniteSet(Active \ gone)
    BY <1>1, <2>1, FS_Subset DEF gone, Active
  <2>3. totalcount' \in Int /\ sendercount' \in Int /\ activecount' \in Int
    BY <1>1, <2>2, FS_CardinalityType DEF ActiveLeft, gone
  <2>4. probation' \in [SSRC -> 0..RTP_PROBATIONCOUNT]
    BY <1>1 DEF IndInv, TypeOK, Forget, RTP_PROBATIONCOUNT
  <2>5. /\ rtpaddr' \in [SSRC -> Senders \cup {Unset}]
        /\ rtcpaddr' \in [SSRC -> Senders \cup {Unset}]
    BY <1>1 DEF IndInv, TypeOK, Forget
  <2> QED BY <1>1, <2>3, <2>4, <2>5 DEF IndInv, TypeOK, Phases
<1>4. PollInv'
  BY <1>1 DEF IndInv, PollInv
<1>5. /\ \A x \in SSRC : x \in gone => rtpaddr'[x] = Unset /\ rtcpaddr'[x] = Unset
      /\ \A x \in SSRC : x \notin gone => rtpaddr'[x] = rtpaddr[x] /\ rtcpaddr'[x] = rtcpaddr[x]
  BY <1>1 DEF Forget, gone
<1>6. table' = table \ gone /\ validated' = validated \ gone /\ byed' = byed \ gone /\ own' = own
  BY <1>1 DEF gone
<1>7. FreshInv'
  BY <1>5, <1>6 DEF IndInv, FreshInv
<1>8. OwnSourceIntact'
  BY <1>2, <1>5, <1>6, ConstantsAssumption DEF IndInv, OwnSourceIntact, TypeOK
<1>9. OneHostPerSource'
  BY <1>5, <1>6 DEF IndInv, OneHostPerSource, SameHost, TypeOK
<1> QED BY <1>3, <1>4, <1>7, <1>8, <1>9 DEF IndInv

\* Every step of the session keeps the invariant.
LEMMA NextIndInv == IndInv /\ [Next]_vars => IndInv'
<1> SUFFICES ASSUME IndInv, [Next]_vars PROVE IndInv'
  OBVIOUS
<1>1. CASE UNCHANGED vars
  <2>1. TypeOK'
    BY <1>1 DEF IndInv, TypeOK, vars, flags, addrs, counts, poll
  <2>2. PollInv' /\ FreshInv' /\ OwnSourceIntact' /\ OneHostPerSource'
    BY <1>1 DEF IndInv, PollInv, FreshInv, OwnSourceIntact, OneHostPerSource,
       SameHost, vars, flags, addrs, counts, poll
  <2> QED BY <2>1, <2>2 DEF IndInv
<1>2. CASE Next
  BY <1>2, SessionIndInv, QuietIndInv, RTPPacketIndInv, CSRCIndInv, RTCPIndInv,
     EndRawPacketIndInv, TimeoutsIndInv DEF Next, ProcessRTCPCompoundPacket
<1> QED BY <1>1, <1>2

\* The invariant holds throughout every behaviour of the session.
THEOREM Invariance == Spec => []IndInv
<1>1. Init => IndInv
  BY InitIndInv
<1>2. IndInv /\ [Next]_vars => IndInv'
  BY NextIndInv
<1> QED BY <1>1, <1>2, PTL DEF Spec

\* The table, its flags, addresses and the collision list keep their types:
\* in particular the collision list holds addresses of other hosts only.
THEOREM TypeCorrect == Spec => []TypeOK
<1>1. IndInv => TypeOK
  BY DEF IndInv
<1> QED BY <1>1, Invariance, PTL

\* No packet and no timeout takes our own entry out of the table, marks it as
\* gone or stores another participant's address in it.
THEOREM OwnSourceSafe == Spec => []OwnSourceIntact
<1>1. IndInv => OwnSourceIntact
  BY DEF IndInv
<1> QED BY <1>1, Invariance, PTL

\* What is credited to one source was sent by one host.
THEOREM SourcesHaveOneHost == Spec => []OneHostPerSource
<1>1. IndInv => OneHostPerSource
  BY DEF IndInv
<1> QED BY <1>1, Invariance, PTL

-----------------------------------------------------------------------------
(* The counters                                                            *)

\* The running total and sender counts are exact, the active count never too
\* large, and exact whenever the sources mutex is free or there are no mixers.
CountInv ==
  /\ TotalAndSenderCountExact
  /\ activecount <= Cardinality(Active)
  /\ phase = "unlocked" \/ ~MixerMode => activecount = Cardinality(Active)

\* Adding or removing one element changes a cardinality by one or not at all.
LEMMA CountOne ==
  ASSUME NEW S, IsFiniteSet(S), NEW x
  PROVE  /\ Cardinality(S) \in Nat
         /\ Cardinality(S \cup {x}) = Cardinality(S) + One(x \notin S)
         /\ Cardinality(S \ {x}) = Cardinality(S) - One(x \in S)
BY FS_CardinalityType, FS_AddElement, FS_RemoveElement DEF One

\* The sets that are counted are finite.
LEMMA Finite ==
  ASSUME IndInv
  PROVE  IsFiniteSet(table) /\ IsFiniteSet(senders) /\ IsFiniteSet(Active)
<1>1. IsFiniteSet(table)
  BY ConstantsAssumption, FS_Subset DEF IndInv, TypeOK
<1> QED BY <1>1, FS_Subset DEF IndInv, TypeOK, Active

\* A step that changes none of the counted sets and no counter.
LEMMA SameCounts ==
  ASSUME CountInv, phase' # "unlocked" \/ phase = "unlocked",
         UNCHANGED <<table, senders, validated, byed, totalcount, sendercount, activecount>>
  PROVE  CountInv'
<1>1. Active' = Active
  BY DEF Active, IsActive
<1> QED BY <1>1 DEF CountInv, TotalAndSenderCountExact

\* An incoming RTP packet is counted in all three.
LEMMA RTPPacketCounts ==
  ASSUME IndInv, CountInv, NEW s \in SSRC, NEW expected \in BOOLEAN,
         ProcessRTPPacket(s, expected)
  PROVE  CountInv'
<1> DEFINE a == from[2]
           accept == Accepts(s, expected)
<1>1. CASE Ignored(s, a, rtpaddr, rtcpaddr) /\ phase' = "done"
  BY <1>1, SameCounts DEF Ignored, flags, counts
<1>2. CASE ~(Ignored(s, a, rtpaddr, rtcpaddr) /\ phase' = "done")
  <2>1. /\ table' = table \cup {s} /\ totalcount' = totalcount + One(s \notin table)
        /\ senders' = IF accept /\ s # own THEN senders \cup {s} ELSE senders
        /\ sendercount' = sendercount + One(accept /\ s # own /\ s \notin senders)
        /\ validated' = IF accept THEN validated \cup {s} ELSE validated
        /\ activecount' = activecount + One(accept /\ s \notin validated \cup byed)
        /\ byed' = byed /\ phase' # "unlocked"
    BY <1>2 DEF ProcessRTPPacket
  <2>2. totalcount' = Cardinality(table')
    BY <2>1, Finite, CountOne DEF CountInv, TotalAndSenderCountExact
  <2>3. sendercount' = Cardinality(senders')
    <3>1. CASE accept /\ s # own
      BY <2>1, <3>1, Finite, CountOne DEF CountInv, TotalAndSenderCountExact
    <3>2. CASE ~(accept /\ s # own)
      BY <2>1, <3>2 DEF CountInv, TotalAndSenderCountExact, One, IndInv, TypeOK
    <3> QED BY <3>1, <3>2
  <2>4. Cardinality(Active') = Cardinality(Active) + One(accept /\ s \notin validated \cup byed)
    <3>1. CASE accept /\ s \notin byed
      <4>1. Active' = Active \cup {s} /\ (s \in Active <=> s \in validated)
        BY <2>1, <3>1 DEF Active, IsActive, IndInv, TypeOK
      <4> QED BY <3>1, <4>1, Finite, CountOne DEF One
    <3>2. CASE ~(accept /\ s \notin byed)
      <4>1. Active' = Active
        BY <2>1, <3>2 DEF Active, IsActive, IndInv, TypeOK
      <4> QED BY <3>2, <4>1, Finite, FS_CardinalityType DEF One
    <3> QED BY <3>1, <3>2
  <2>5. activecount \in Int /\ Cardinality(Active) \in Int
    BY Finite, FS_CardinalityType DEF IndInv, TypeOK
  <2> QED BY <2>1, <2>2, <2>3, <2>4, <2>5 DEF CountInv, TotalAndSenderCountExact, One
<1> QED BY <1>1, <1>2

\* A contributing source: here the active count may fall behind.
LEMMA CSRCCounts ==
  ASSUME IndInv, CountInv, NEW c \in SSRC, ProcessCSRC(c)
  PROVE  CountInv'
<1> DEFINE a == from[2]
<1>1. CASE Ignored(c, a, rtpaddr, rtcpaddr)
  BY <1>1, SameCounts DEF Ignored, flags, counts, ProcessCSRC
<1>2. CASE ~Ignored(c, a, rtpaddr, rtcpaddr)
  <2>1. /\ table' = table \cup {c} /\ totalcount' = totalcount + One(c \notin table)
        /\ senders' = senders /\ sendercount' = sendercount
        /\ validated' = validated \cup {c} /\ byed' = byed
        /\ activecount' = activecount + One(c \notin table)
        /\ phase = "csrc" /\ phase' = phase
    BY <1>2 DEF ProcessCSRC
  <2>2. totalcount' = Cardinality(table')
    BY <2>1, Finite, CountOne DEF CountInv, TotalAndSenderCountExact
  <2>3. /\ Cardinality(Active) \in Int /\ Cardinality(Active') \in Int
        /\ Cardinality(Active') >= Cardinality(Active) + One(c \notin table)
    <3>1. /\ Cardinality(Active) \in Nat
          /\ Cardinality(Active \cup {c}) = Cardinality(Active) + One(c \notin Active)
      BY Finite, CountOne
    <3>2. CASE c \notin byed
      <4>1. Active' = Active \cup {c} /\ (c \notin table => c \notin Active)
        BY <2>1, <3>2 DEF Active, IsActive, IndInv, TypeOK
      <4> QED BY <3>1, <4>1 DEF One
    <3>3. CASE c \in byed
      <4>1. Active' = Active /\ c \in table
        BY <2>1, <3>3 DEF Active, IsActive, IndInv, TypeOK
      <4> QED BY <3>1, <4>1 DEF One
    <3> QED BY <3>2, <3>3
  <2>4. activecount \in Int
    BY DEF IndInv, TypeOK
  <2>5. MixerMode
    BY <2>1 DEF IndInv, PollInv
  <2> QED BY <2>1, <2>2, <2>3, <2>4, <2>5 DEF CountInv, TotalAndSenderCountExact, One
<1> QED BY <1>1, <1>2

\* The items of an RTCP packet.
LEMMA RTCPCounts ==
  ASSUME IndInv, CountInv, NEW s \in SSRC,
         ProcessRTCPInfo(s) \/ ProcessCNAME(s) \/ ProcessBYE(s)
  PROVE  CountInv'
<1> DEFINE a == from[2]
<1>a. phase = "rtcp" /\ phase' = "rtcp"
  BY DEF ProcessRTCPInfo, ProcessCNAME, ProcessBYE
<1>1. CASE Ignored(s, a, rtcpaddr, rtpaddr)
  BY <1>1, <1>a, SameCounts DEF Ignored, flags, counts
<1>2. CASE ~Ignored(s, a, rtcpaddr, rtpaddr)
  <2>1. /\ table' = table \cup {s} /\ totalcount' = totalcount + One(s \notin table)
        /\ senders' = senders /\ sendercount' = sendercount
    BY <1>2 DEF ProcessRTCPInfo, ProcessCNAME, ProcessBYE, RTCPSource, flags
  <2>2. totalcount' = Cardinality(table')
    BY <2>1, Finite, CountOne DEF CountInv, TotalAndSenderCountExact
  <2>3. /\ Cardinality(Active) \in Nat /\ activecount \in Int
        /\ Cardinality(Active \cup {s}) = Cardinality(Active) + One(s \notin Active)
        /\ Cardinality(Active \ {s}) = Cardinality(Active) - One(s \in Active)
    BY Finite, CountOne DEF IndInv, TypeOK
  <2>4. activecount' - activecount = Cardinality(Active') - Cardinality(Active)
    <3>1. CASE UNCHANGED <<validated, byed, activecount>>
      <4>1. Active' = Active
        BY <2>1, <3>1 DEF Active, IsActive, IndInv, TypeOK
      <4> QED BY <2>3, <3>1, <4>1
    <3>2. CASE ProcessCNAME(s)
      <4>1. /\ validated' = validated \cup {s} /\ byed' = byed
            /\ activecount' = activecount + One(s \notin validated \cup byed)
        BY <1>2, <3>2 DEF ProcessCNAME
      <4>2. CASE s \in byed
        <5>1. Active' = Active
          BY <2>1, <4>1, <4>2 DEF Active, IsActive, IndInv, TypeOK
        <5> QED BY <2>3, <4>1, <4>2, <5>1 DEF One
      <4>3. CASE s \notin byed
        <5>1. Active' = Active \cup {s} /\ (s \in Active <=> s \in validated)
          BY <2>1, <4>1, <4>3 DEF Active, IsActive, IndInv, TypeOK
        <5> QED BY <2>3, <4>1, <4>3, <5>1 DEF One
      <4> QED BY <4>2, <4>3
    <3>3. CASE ProcessBYE(s) /\ s # own
      <4>1. /\ validated' = validated /\ byed' = byed \cup {s}
            /\ activecount' = activecount - One(IsActive(s))
        BY <1>2, <3>3 DEF ProcessBYE, LeavesActive
      <4>2. Active' = Active \ {s} /\ (s \in Active <=> IsActive(s))
        BY <2>1, <4>1 DEF Active, IsActive, IndInv, TypeOK
      <4> QED BY <2>3, <4>1, <4>2 DEF One
    <3> QED BY <1>2, <3>1, <3>2, <3>3 DEF ProcessRTCPInfo, ProcessBYE, flags
  <2>5. Cardinality(Active') \in Int /\ activecount' \in Int
    BY RTCPIndInv, ConstantsAssumption, FS_Subset, FS_CardinalityType DEF IndInv, TypeOK, Active
  <2> QED BY <1>a, <2>1, <2>2, <2>3, <2>4, <2>5 DEF CountInv, TotalAndSenderCountExact
<1> QED BY <1>1, <1>2

\* Creation, destruction and a change of our SSRC.
LEMMA OwnCounts ==
  ASSUME IndInv, CountInv,
         Destroy \/ EndRawPacket \/ SentRTPPacket \/ \E n \in SSRC : CreateOwnSSRC(n)
  PROVE  CountInv'
<1>0. /\ Cardinality(Active) \in Nat /\ activecount \in Int /\ totalcount \in Int
      /\ sendercount \in Int
  BY Finite, FS_CardinalityType DEF IndInv, TypeOK
<1>1. CASE Destroy
  <2>1. table' = {} /\ senders' = {} /\ Active' = {}
    BY <1>1 DEF Destroy, Active
  <2> QED BY <1>1, <2>1, FS_EmptySet DEF Destroy, CountInv, TotalAndSenderCountExact
<1>2. CASE SentRTPPacket
  <2>1. /\ senders' = senders \cup {own} /\ sendercount' = sendercount + One(own \notin senders)
        /\ UNCHANGED <<table, validated, byed, totalcount, activecount, phase>>
    BY <1>2 DEF SentRTPPacket, BecomesSender, poll
  <2>2. Active' = Active /\ sendercount' = Cardinality(senders')
    BY <2>1, Finite, CountOne DEF Active, IsActive, CountInv, TotalAndSenderCountExact
  <2> QED BY <2>1, <2>2 DEF CountInv, TotalAndSenderCountExact
<1>3. ASSUME NEW n \in SSRC, CreateOwnSSRC(n) PROVE CountInv'
  <2>1. Active' = Active \cup {n} /\ n \notin Active /\ n \notin table
    BY <1>3 DEF CreateOwnSSRC, Active, IsActive, IndInv, TypeOK
  <2>2. /\ Cardinality(table \cup {n}) = Cardinality(table) + 1
        /\ Cardinality(Active \cup {n}) = Cardinality(Active) + 1
    BY <2>1, Finite, CountOne DEF One
  <2> QED BY <1>0, <1>3, <2>1, <2>2 DEF CreateOwnSSRC, CountInv, TotalAndSenderCountExact, poll
<1>4. CASE EndRawPacket /\ ~FirstCollision
  BY <1>4, SameCounts DEF EndRawPacket, flags, counts
<1>5. CASE EndRawPacket /\ FirstCollision
  <2>1. PICK n \in SSRC \ table : ChangeOwnSSRC(n)
    BY <1>5 DEF EndRawPacket
  <2>2. own \in table /\ own # n /\ own \in Active /\ n \notin Active
    BY <1>5, <2>1 DEF EndRawPacket, IndInv, PollInv, OwnSourceIntact, TypeOK, Active, IsActive
  <2>3. /\ table' = (table \ {own}) \cup {n} /\ senders' = senders \ {own}
        /\ Active' = (Active \ {own}) \cup {n}
    BY <2>1, <2>2 DEF ChangeOwnSSRC, Active, IsActive, IndInv, TypeOK
  <2>4. IsFiniteSet(table \ {own}) /\ IsFiniteSet(Active \ {own})
    BY Finite, FS_RemoveElement
  <2>5. /\ Cardinality(table \ {own}) = Cardinality(table) - 1
        /\ Cardinality(Active \ {own}) = Cardinality(Active) - 1
        /\ Cardinality(senders \ {own}) = Cardinality(senders) - One(own \in senders)
    BY <2>2, Finite, CountOne DEF One
  <2>6. /\ Cardinality((table \ {own}) \cup {n}) = Cardinality(table \ {own}) + 1
        /\ Cardinality((Active \ {own}) \cup {n}) = Cardinality(Active \ {own}) + 1
    BY <2>1, <2>2, <2>4, CountOne DEF One
  <2>7. /\ totalcount' = totalcount /\ sendercount' = sendercount - One(own \in senders)
        /\ activecount' = (activecount - 1) + 1 /\ phase' = "polling"
    BY <1>5, <2>1, <2>2 DEF ChangeOwnSSRC, EndRawPacket, Active, One
  <2>8. Cardinality(table) \in Nat
    BY Finite, FS_CardinalityType
  <2> QED BY <1>0, <2>3, <2>5, <2>6, <2>7, <2>8 DEF CountInv, TotalAndSenderCountExact
<1> QED BY <1>1, <1>2, <1>3, <1>4, <1>5

\* MultipleTimeouts recounts everything.
LEMMA TimeoutsCounts ==
  ASSUME IndInv, MultipleTimeouts
  PROVE  CountInv'
<1>1. PICK old \in SUBSET byed :
        /\ table' = table \ Gone(old) /\ validated' = validated \ Gone(old)
        /\ byed' = byed \ Gone(old)
        /\ totalcount' = Cardinality(table') /\ sendercount' = Cardinality(senders')
        /\ activecount' = Cardinality(Active \ Gone(old))
  BY DEF MultipleTimeouts, ActiveLeft
<1>2. Active' = Active \ Gone(old)
  BY <1>1 DEF Active, IsActive
<1>3. Cardinality(Active') \in Nat
  BY <1>2, Finite, FS_Subset, FS_CardinalityType
<1> QED BY <1>1, <1>2, <1>3 DEF CountInv, TotalAndSenderCountExact

\* Every step keeps the counters as they should be.
LEMMA NextCounts == IndInv /\ CountInv /\ [Next]_vars => CountInv'
<1> SUFFICES ASSUME IndInv, CountInv, [Next]_vars PROVE CountInv'
  OBVIOUS
<1>1. CASE UNCHANGED vars
  BY <1>1, SameCounts DEF vars, flags, counts, poll
<1>2. CASE \/ BeginPoll
           \/ \E s \in SSRC : TimePasses(s)
           \/ \E kind \in {"rtp", "rtcp"}, a \in Senders : NextRawPacket(kind, a)
  BY <1>2, SameCounts DEF BeginPoll, TimePasses, NextRawPacket, flags, counts, poll
<1>3. CASE Destroy \/ EndRawPacket \/ SentRTPPacket \/ \E n \in SSRC : CreateOwnSSRC(n)
  BY <1>3, OwnCounts
<1>4. CASE \E s \in SSRC, expected \in BOOLEAN : ProcessRTPPacket(s, expected)
  BY <1>4, RTPPacketCounts
<1>5. CASE \E s \in SSRC : \/ ProcessCSRC(s) \/ ProcessRTCPInfo(s)
                           \/ ProcessCNAME(s) \/ ProcessBYE(s)
  BY <1>5, CSRCCounts, RTCPCounts
<1>6. CASE MultipleTimeouts
  BY <1>6, TimeoutsCounts
<1> QED BY <1>1, <1>2, <1>3, <1>4, <1>5, <1>6 DEF Next, ProcessRTCPCompoundPacket

\* The counter invariant holds throughout every behaviour.
THEOREM CountInvariance == Spec => []CountInv
<1>1. Init => CountInv
  <2> SUFFICES ASSUME Init PROVE CountInv
    OBVIOUS
  <2>1. Active = {}
    BY DEF Init, Active
  <2> QED BY <2>1, FS_EmptySet DEF Init, CountInv, TotalAndSenderCountExact
<1>2. IndInv /\ CountInv /\ [Next]_vars => CountInv'
  BY NextCounts
<1> QED BY <1>1, <1>2, Invariance, PTL DEF Spec

\* The member and sender counts are exact after every single step of packet
\* processing, timeouts and SSRC changes.
THEOREM TotalAndSenderCountCorrect == Spec => []TotalAndSenderCountExact
<1>1. CountInv => TotalAndSenderCountExact
  BY DEF CountInv
<1> QED BY <1>1, CountInvariance, PTL

\* The active count is never too large and exact when the mutex is free.
THEOREM ActiveCountCorrect == Spec => []ActiveCountRepaired
<1>1. CountInv => ActiveCountRepaired
  BY DEF CountInv, ActiveCountRepaired, ActiveCountExact
<1> QED BY <1>1, CountInvariance, PTL

\* All three counts agree with the table, whatever the network sends and
\* whichever timeout removes an entry.
THEOREM CountsCorrect == Spec => []CountsMatchTable
<1>1. TotalAndSenderCountExact /\ ActiveCountRepaired => CountsMatchTable
  BY DEF CountsMatchTable
<1> QED BY <1>1, TotalAndSenderCountCorrect, ActiveCountCorrect, PTL

\* Without contributing sources the active count is exact at every step.
THEOREM ActiveCountExactWithoutMixers ==
  ASSUME ~MixerMode
  PROVE  Spec => []ActiveCountExact
<1>1. CountInv => ActiveCountExact
  BY DEF CountInv, ActiveCountExact
<1> QED BY <1>1, CountInvariance, PTL

-----------------------------------------------------------------------------
(* Our SSRC                                                                *)

\* Every change of our SSRC is paid for with a new entry of the collision
\* list, goes to an identifier nobody in the table has, and takes the old
\* entry out of the table.
THEOREM SSRCChangesCorrect == Spec => SSRCChangesOncePerCollider
<1> DEFINE Change == own' # own /\ NoSSRC \notin {own, own'} =>
                       /\ collisions' = collisions \cup {from} /\ from \notin collisions
                       /\ own' \notin table /\ own \notin table'
<1>1. ASSUME IndInv, [Next]_vars PROVE [Change]_vars
  <2>1. CASE EndRawPacket
    <3>1. CASE FirstCollision
      <4>1. PICK n \in SSRC \ table : ChangeOwnSSRC(n)
        BY <2>1, <3>1 DEF EndRawPacket
      <4>2. own \in table
        BY <1>1, <2>1 DEF EndRawPacket, IndInv, PollInv, OwnSourceIntact, TypeOK
      <4> QED BY <2>1, <3>1, <4>1, <4>2 DEF EndRawPacket, FirstCollision, ChangeOwnSSRC
    <3>2. CASE ~FirstCollision
      BY <2>1, <3>2 DEF EndRawPacket
    <3> QED BY <3>1, <3>2
  <2>2. CASE Destroy \/ \E n \in SSRC : CreateOwnSSRC(n)
    BY <2>2 DEF Destroy, CreateOwnSSRC
  <2>3. CASE own' = own
    BY <2>3
  <2>4. CASE \/ SentRTPPacket \/ BeginPoll \/ MultipleTimeouts
             \/ \E s \in SSRC : TimePasses(s)
             \/ \E kind \in {"rtp", "rtcp"}, a \in Senders : NextRawPacket(kind, a)
    BY <2>3, <2>4 DEF SentRTPPacket, BeginPoll, MultipleTimeouts, TimePasses, NextRawPacket
  <2>5. CASE \E s \in SSRC, expected \in BOOLEAN : ProcessRTPPacket(s, expected)
    BY <2>3, <2>5 DEF ProcessRTPPacket, Ignored
  <2>6. CASE \E s \in SSRC : \/ ProcessCSRC(s) \/ ProcessRTCPInfo(s)
                             \/ ProcessCNAME(s) \/ ProcessBYE(s)
    BY <2>3, <2>6 DEF ProcessCSRC, ProcessRTCPInfo, ProcessCNAME, ProcessBYE, Ignored
  <2> QED BY <1>1, <2>1, <2>2, <2>4, <2>5, <2>6 DEF Next, ProcessRTCPCompoundPacket
<1> QED BY <1>1, Invariance, PTL DEF Spec, SSRCChangesOncePerCollider

-----------------------------------------------------------------------------
(* The destination list                                                    *)

\* The environment's side: a participant uses one pair of adjacent ports.
OnePortPerHost == \A a, b \in Addr : Host[a] = Host[b] => a = b

\* The participants we may send to.
Peers == table \ (byed \cup {own})

\* Every destination is the address of a participant that is still there.
DestInv == \A d \in dests : \E s \in Peers : d \in DestOf(rtpaddr[s], rtcpaddr[s])

\* A step keeps the destinations right when every participant either stays,
\* with its address, or takes its address with it, and when every destination
\* it adds belongs to somebody.
LEMMA DestStep ==
  ASSUME DestInv,
         \A s \in Peers :
           \/ s \in Peers' /\ DestOf(rtpaddr[s], rtcpaddr[s]) \subseteq DestOf(rtpaddr[s], rtcpaddr[s])'
           \/ dests' \cap DestOf(rtpaddr[s], rtcpaddr[s]) = {},
         \A d \in dests' \ dests : \E s \in Peers' : d \in DestOf(rtpaddr[s], rtcpaddr[s])'
  PROVE  DestInv'
BY DEF DestInv

\* A step that leaves the list, the participants and their addresses alone.
LEMMA DestSame ==
  ASSUME DestInv, UNCHANGED <<table, byed, own, rtpaddr, rtcpaddr, dests>>
  PROVE  DestInv'
BY DEF DestInv, Peers, DestOf

\* Learning an address that does not collide does not move a destination.
LEMMA LearnKeepsDest ==
  ASSUME IndInv, OnePortPerHost, NEW s \in table, NEW a \in Senders
  PROVE  /\ ~Collides(s, a, rtpaddr, rtcpaddr) =>
              DestOf(rtpaddr[s], rtcpaddr[s]) \subseteq DestOf(Learn(s, a, rtpaddr)[s], rtcpaddr[s])
         /\ ~Collides(s, a, rtcpaddr, rtpaddr) =>
              DestOf(rtpaddr[s], rtcpaddr[s]) \subseteq DestOf(rtpaddr[s], Learn(s, a, rtcpaddr)[s])
<1>0. /\ s \in SSRC /\ a # Unset
      /\ rtpaddr \in [SSRC -> Senders \cup {Unset}]
      /\ rtcpaddr \in [SSRC -> Senders \cup {Unset}]
  BY ConstantsAssumption DEF IndInv, TypeOK, Senders
<1>1. ASSUME ~Collides(s, a, rtpaddr, rtcpaddr)
      PROVE  DestOf(rtpaddr[s], rtcpaddr[s]) \subseteq DestOf(Learn(s, a, rtpaddr)[s], rtcpaddr[s])
  <2>1. CASE rtpaddr[s] # Unset
    BY <1>0, <2>1 DEF Learn
  <2>2. CASE rtpaddr[s] = Unset
    <3>1. Learn(s, a, rtpaddr)[s] = a
      BY <1>0, <2>2 DEF Learn
    <3>2. rtcpaddr[s] # Unset => SameHost(rtcpaddr[s], a)
      BY <1>1, <2>2 DEF Collides
    <3>3. rtcpaddr[s] \in Addr => rtcpaddr[s] = a
      BY <1>0, <3>2, ConstantsAssumption DEF SameHost, OnePortPerHost, Senders
    <3> QED BY <2>2, <3>1, <3>3, ConstantsAssumption DEF DestOf
  <2> QED BY <2>1, <2>2
<1>2. ASSUME ~Collides(s, a, rtcpaddr, rtpaddr)
      PROVE  DestOf(rtpaddr[s], rtcpaddr[s]) \subseteq DestOf(rtpaddr[s], Learn(s, a, rtcpaddr)[s])
  BY <1>0, ConstantsAssumption DEF DestOf, Learn
<1> QED BY <1>1, <1>2

\* A new source gets a destination, a known one keeps its own.
LEMMA PacketDest ==
  ASSUME IndInv, DestInv, OnePortPerHost, NEW s \in SSRC,
         \/ \E expected \in BOOLEAN : ProcessRTPPacket(s, expected)
         \/ ProcessCSRC(s) \/ ProcessRTCPInfo(s) \/ ProcessCNAME(s) \/ ProcessBYE(s)
  PROVE  DestInv'
<1> DEFINE a == from[2]
<1>0. a \in Senders /\ own' = own /\ Unset \notin Addr
  BY ConstantsAssumption DEF IndInv, TypeOK, ProcessRTPPacket, ProcessCSRC, ProcessRTCPInfo,
     ProcessCNAME, ProcessBYE, Ignored
<1>1. CASE Ignored(s, a, rtpaddr, rtcpaddr) \/ Ignored(s, a, rtcpaddr, rtpaddr)
  BY <1>1, DestSame DEF Ignored, flags, addrs
<1> DEFINE RTP == /\ rtpaddr' = Learn(s, a, rtpaddr) /\ rtcpaddr' = rtcpaddr
                  /\ s \notin table \/ ~Collides(s, a, rtpaddr, rtcpaddr)
           RTCP == /\ rtcpaddr' = Learn(s, a, rtcpaddr) /\ rtpaddr' = rtpaddr
                   /\ s \notin table \/ ~Collides(s, a, rtcpaddr, rtpaddr)
           Same == UNCHANGED addrs
<1>2. ASSUME RTP \/ RTCP \/ Same, NEW u \in table
      PROVE  DestOf(rtpaddr[u], rtcpaddr[u]) \subseteq DestOf(rtpaddr[u], rtcpaddr[u])'
  <2>0. u \in SSRC
    BY DEF IndInv, TypeOK
  <2>1. CASE Same
    BY <2>1 DEF addrs
  <2>2. CASE (RTP \/ RTCP) /\ u = s
    BY <1>0, <2>2, LearnKeepsDest
  <2>3. CASE (RTP \/ RTCP) /\ u # s
    <3>1. rtpaddr'[u] = rtpaddr[u] /\ rtcpaddr'[u] = rtcpaddr[u]
      BY <2>0, <2>3 DEF Learn, IndInv, TypeOK
    <3> QED BY <3>1
  <2> QED BY <1>2, <2>1, <2>2, <2>3
<1>3. ASSUME s \notin table
      PROVE  /\ s # own /\ s \notin byed
             /\ RTP => DestOf(rtpaddr'[s], rtcpaddr'[s]) = DestOf(a, Unset)
             /\ RTCP => DestOf(rtpaddr'[s], rtcpaddr'[s]) = DestOf(Unset, a)
  <2>1. rtpaddr[s] = Unset /\ rtcpaddr[s] = Unset
    BY <1>3 DEF IndInv, FreshInv
  <2>2. s # own /\ s \notin byed
    BY <1>3, ConstantsAssumption DEF IndInv, OwnSourceIntact, TypeOK
  <2> QED BY <2>1, <2>2 DEF Learn, IndInv, TypeOK
<1>4. ASSUME NEW expected \in BOOLEAN, ProcessRTPPacket(s, expected),
             ~(Ignored(s, a, rtpaddr, rtcpaddr))
      PROVE  DestInv'
  <2>1. /\ RTP /\ table' = table \cup {s} /\ byed' = byed
        /\ dests' = IF s \notin table THEN dests \cup DestOf(a, Unset) ELSE dests
    BY <1>4 DEF ProcessRTPPacket
  <2>2. \A u \in Peers : u \in Peers' /\ DestOf(rtpaddr[u], rtcpaddr[u]) \subseteq DestOf(rtpaddr[u], rtcpaddr[u])'
    BY <1>0, <1>2, <2>1 DEF Peers
  <2>3. \A d \in dests' \ dests : s \in Peers' /\ d \in DestOf(rtpaddr'[s], rtcpaddr'[s])
    BY <1>0, <1>3, <2>1 DEF Peers
  <2> QED BY <2>2, <2>3, DestStep
<1>5. CASE ProcessCSRC(s) /\ ~Ignored(s, a, rtpaddr, rtcpaddr)
  <2>1. /\ RTP \/ Same
        /\ table' = table \cup {s} /\ byed' = byed /\ dests' = dests
    BY <1>5 DEF ProcessCSRC, addrs
  <2>2. \A u \in Peers : u \in Peers' /\ DestOf(rtpaddr[u], rtcpaddr[u]) \subseteq DestOf(rtpaddr[u], rtcpaddr[u])'
    BY <1>0, <1>2, <2>1 DEF Peers
  <2> QED BY <2>1, <2>2, DestStep
<1>6. CASE (ProcessRTCPInfo(s) \/ ProcessCNAME(s)) /\ ~Ignored(s, a, rtcpaddr, rtpaddr)
  <2>1. /\ RTCP /\ table' = table \cup {s} /\ byed' = byed
        /\ dests' = IF s \notin table THEN dests \cup DestOf(Unset, a) ELSE dests
    BY <1>6 DEF ProcessRTCPInfo, ProcessCNAME, RTCPSource, NewDests, flags
  <2>2. \A u \in Peers : u \in Peers' /\ DestOf(rtpaddr[u], rtcpaddr[u]) \subseteq DestOf(rtpaddr[u], rtcpaddr[u])'
    BY <1>0, <1>2, <2>1 DEF Peers
  <2>3. \A d \in dests' \ dests : s \in Peers' /\ d \in DestOf(rtpaddr'[s], rtcpaddr'[s])
    BY <1>0, <1>3, <2>1 DEF Peers
  <2> QED BY <2>2, <2>3, DestStep
<1>7. CASE ProcessBYE(s) /\ s = own /\ ~Ignored(s, a, rtcpaddr, rtpaddr)
  <2>1. RTCP /\ table' = table \cup {s} /\ byed' = byed /\ dests' = dests
    BY <1>7 DEF ProcessBYE, RTCPSource, flags
  <2>2. \A u \in Peers : u \in Peers' /\ DestOf(rtpaddr[u], rtcpaddr[u]) \subseteq DestOf(rtpaddr[u], rtcpaddr[u])'
    BY <1>0, <1>2, <2>1 DEF Peers
  <2> QED BY <2>1, <2>2, DestStep
<1>8. CASE ProcessBYE(s) /\ s # own /\ ~Ignored(s, a, rtcpaddr, rtpaddr)
  <2>1. /\ RTCP /\ table' = table \cup {s} /\ byed' = byed \cup {s}
        /\ dests' = NewDests(s) \ DestOf(rtpaddr[s], rtcpaddr'[s])
    BY <1>8 DEF ProcessBYE, RTCPSource
  <2>2. dests' \subseteq dests
    <3>1. CASE s \in table
      BY <2>1, <3>1 DEF NewDests
    <3>2. CASE s \notin table
      BY <1>3, <2>1, <3>2 DEF NewDests
    <3> QED BY <3>1, <3>2
  <2>3. ASSUME NEW u \in Peers
        PROVE  \/ u \in Peers' /\ DestOf(rtpaddr[u], rtcpaddr[u]) \subseteq DestOf(rtpaddr[u], rtcpaddr[u])'
               \/ dests' \cap DestOf(rtpaddr[u], rtcpaddr[u]) = {}
    <3>1. DestOf(rtpaddr[u], rtcpaddr[u]) \subseteq DestOf(rtpaddr'[u], rtcpaddr'[u])
      BY <1>2, <2>1 DEF Peers
    <3>2. CASE u = s
      BY <2>1, <3>1, <3>2
    <3>3. CASE u # s
      BY <1>0, <2>1, <3>1, <3>3 DEF Peers
    <3> QED BY <3>2, <3>3
  <2> QED BY <2>2, <2>3, DestStep
<1> QED BY <1>1, <1>4, <1>5, <1>6, <1>7, <1>8

\* Our own entry has no destination; timeouts delete those of the participants
\* they remove, and a BYE has deleted its own already.
LEMMA OtherDest ==
  ASSUME IndInv, DestInv,
         EndRawPacket \/ MultipleTimeouts \/ Destroy \/ \E n \in SSRC : CreateOwnSSRC(n)
  PROVE  DestInv'
<1>1. CASE Destroy
  BY <1>1 DEF Destroy, DestInv
<1>2. ASSUME NEW n \in SSRC, CreateOwnSSRC(n) PROVE DestInv'
  <2>1. Peers = {} /\ dests' = dests
    BY <1>2 DEF CreateOwnSSRC, IndInv, PollInv, Peers
  <2> QED BY <2>1 DEF DestInv
<1>3. CASE EndRawPacket /\ ~FirstCollision
  BY <1>3, DestSame DEF EndRawPacket, flags, addrs
<1>4. CASE EndRawPacket /\ FirstCollision
  <2>1. PICK n \in SSRC \ table : ChangeOwnSSRC(n)
    BY <1>4 DEF EndRawPacket
  <2>2. \A u \in Peers : u \in Peers' /\ rtpaddr'[u] = rtpaddr[u] /\ rtcpaddr'[u] = rtcpaddr[u]
    BY <2>1 DEF ChangeOwnSSRC, Peers, IndInv, TypeOK
  <2>3. dests' = dests
    BY <2>1 DEF ChangeOwnSSRC
  <2> QED BY <2>2, <2>3, DestStep
<1>5. CASE MultipleTimeouts
  <2>1. PICK old \in SUBSET byed :
          /\ table' = table \ Gone(old) /\ byed' = byed \ Gone(old) /\ own' = own
          /\ rtpaddr' = Forget(rtpaddr, Gone(old), Unset)
          /\ rtcpaddr' = Forget(rtcpaddr, Gone(old), Unset)
          /\ dests' = dests \ DestsRemoved(Gone(old))
    BY <1>5 DEF MultipleTimeouts
  <2>2. ASSUME NEW u \in Peers
        PROVE  \/ u \in Peers' /\ DestOf(rtpaddr[u], rtcpaddr[u]) \subseteq DestOf(rtpaddr[u], rtcpaddr[u])'
               \/ dests' \cap DestOf(rtpaddr[u], rtcpaddr[u]) = {}
    <3>1. CASE u \in Gone(old)
      BY <2>1, <3>1 DEF DestsRemoved, Peers
    <3>2. CASE u \notin Gone(old)
      <4>1. rtpaddr'[u] = rtpaddr[u] /\ rtcpaddr'[u] = rtcpaddr[u] /\ u \in Peers'
        BY <2>1, <3>2 DEF Forget, Peers, IndInv, TypeOK
      <4> QED BY <4>1
    <3> QED BY <3>1, <3>2
  <2> QED BY <2>1, <2>2, DestStep
<1> QED BY <1>1, <1>2, <1>3, <1>4, <1>5

\* We keep no destination of a participant that has left, by BYE, by timeout
\* or by giving its SSRC up.
THEOREM DestinationsCorrect == Spec => []NoStaleDestination
<1> DEFINE Inv == OnePortPerHost => DestInv
<1>1. Init => Inv
  BY DEF Init, DestInv
<1>2. ASSUME IndInv, Inv, [Next]_vars PROVE Inv'
  <2> SUFFICES ASSUME OnePortPerHost PROVE DestInv'
    BY DEF OnePortPerHost
  <2>0. DestInv
    BY <1>2
  <2>1. CASE UNCHANGED vars
    BY <2>0, <2>1, DestSame DEF vars, flags, addrs
  <2>2. CASE \/ SentRTPPacket \/ BeginPoll \/ \E s \in SSRC : TimePasses(s)
             \/ \E kind \in {"rtp", "rtcp"}, a \in Senders : NextRawPacket(kind, a)
    BY <2>0, <2>2, DestSame DEF SentRTPPacket, BeginPoll, TimePasses, NextRawPacket, flags, addrs
  <2>3. CASE EndRawPacket \/ MultipleTimeouts \/ Destroy \/ \E n \in SSRC : CreateOwnSSRC(n)
    BY <1>2, <2>0, <2>3, OtherDest
  <2>4. CASE \E s \in SSRC :
               \/ \E expected \in BOOLEAN : ProcessRTPPacket(s, expected)
               \/ ProcessCSRC(s) \/ ProcessRTCPInfo(s) \/ ProcessCNAME(s) \/ ProcessBYE(s)
    BY <1>2, <2>0, <2>4, PacketDest
  <2> QED BY <1>2, <2>1, <2>2, <2>3, <2>4 DEF Next, ProcessRTCPCompoundPacket
<1>3. Inv => NoStaleDestination
  BY DEF DestInv, NoStaleDestination, OnePortPerHost, Peers
<1> QED BY <1>1, <1>2, <1>3, Invariance, PTL DEF Spec
=============================================================================
