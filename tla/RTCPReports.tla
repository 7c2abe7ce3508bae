---------------------------- MODULE RTCPReports -----------------------------
(***************************************************************************)
(* The sending of RTCP packets by a session: the poll thread asks the      *)
(* scheduler whether it is time (the end of RTPSession::ProcessPolledData) *)
(* and has the packet builder build the next packet, or takes the BYE      *)
(* packet that a collision has queued.  Both components look at the same   *)
(* source table, which changes in between.                                 *)
(*                                                                         *)
(* Everything here happens under the sources mutex; the threads and the    *)
(* other mutexes are the matter of RTPSession, and so is the failure of    *)
(* the transmitter, after which the poll thread ends.                      *)
(***************************************************************************)
EXTENDS RTCPPacketBuilder, RTCPScheduler

CONSTANTS
  APPSizes,       \* sizes of application data the user sends
  MaxCollisions,  \* bound: collisions that queue a BYE packet
  MaxDepartures   \* bound: participants that leave

ASSUME BoundsAssumption == APPSizes \subseteq Nat /\ MaxCollisions \in Nat /\ MaxDepartures \in Nat

VARIABLES
  byes,         \* how many packets byepackets holds
  sentpackets,  \* RTPSession::sentpackets
  gap,          \* history: ticks since the last report or BYE, until they are enough
  collisions, departures

sessionvars == <<byes, sentpackets, gap, collisions, departures>>
vars == <<sourcevars, buildervars, schedvars, sessionvars>>

TypeOK ==
  /\ BuilderTypeOK /\ ScheduleTypeOK
  /\ byes \in 0..MaxCollisions /\ sentpackets \in BOOLEAN /\ gap \in 0..MinInterval
  /\ collisions \in 0..MaxCollisions /\ departures \in 0..MaxDepartures

Init ==
  /\ BuilderInit /\ ScheduleInit
  /\ byes = 0 /\ sentpackets = FALSE /\ gap = 0 /\ collisions = 0 /\ departures = 0

\* So many ticks reach the smallest randomised minimum interval.
Spaced(ticks) == 121828 * (ticks + 1) > 50000 * MinInterval

Members(tab) == Len(tab) + 1
Senders ==
  Cardinality({i \in DOMAIN table : heard[table[i]] = "sender"}) + (IF sender THEN 1 ELSE 0)

-----------------------------------------------------------------------------
(* The poll thread                                                         *)

StartTimers ==
  /\ FirstCall(sender, Members(table), Senders)
  /\ UNCHANGED <<sourcevars, buildervars, sessionvars>>

PostponeReport ==
  /\ ~toosoon
  /\ Reconsider(sender, Members(table), Senders)
  /\ UNCHANGED <<sourcevars, buildervars, sessionvars>>

SendReport ==
  /\ ~toosoon /\ byes = 0
  /\ TimeIsUp(sender, Members(table), Senders)
  /\ BuildNextPacket
  /\ sentpackets' = TRUE /\ hassentrtcp' = TRUE /\ gap' = 0
  /\ UNCHANGED <<byes, collisions, departures>>

SendLastBYE ==
  /\ ~toosoon /\ byes = 1
  /\ TimeIsUp(sender, Members(table), Senders)
  /\ byes' = 0 /\ sentpackets' = TRUE /\ hassentrtcp' = TRUE /\ gap' = 0
  /\ UNCHANGED <<sourcevars, buildervars, collisions, departures>>

\* The next BYE packet in the queue is scheduled at once, which replaces the
\* timers IsTime has just started.
SendBYE ==
  /\ ~toosoon /\ byes > 1 /\ ~firstcall /\ left = 0
  /\ \E t \in IF byescheduled THEN BYETransmissionIntervals(byemembers, sendbyenow)
              ELSE TransmissionIntervals(sender, Members(table), Senders) : t <= since
  /\ byescheduled' = TRUE /\ byemembers' = 1
  /\ sendbyenow' = (ImmediateBYE /\ Members(table) < ImmediateMembers)
  /\ since' = 0 /\ pmembers' = Members(table)
  /\ \E t \in BYETransmissionIntervals(1, sendbyenow') : left' = Capped(t)
  /\ byes' = byes - 1 /\ sentpackets' = TRUE /\ hassentrtcp' = TRUE /\ gap' = 0
  /\ UNCHANGED <<sourcevars, buildervars, firstcall, collisions, departures>>

-----------------------------------------------------------------------------
(* What the packets that arrive bring about                                *)

\* Our SSRC collides: a BYE for it is queued and the own entry begins anew.
\* Without the BYE nothing of this is left to see here.
Collide ==
  /\ ~toosoon /\ sentpackets /\ collisions < MaxCollisions
  /\ collisions' = collisions + 1
  /\ IF CanBuildBYE(sender, 0)
     THEN /\ byes' = byes + 1 /\ UNCHANGED toosoon
          /\ IF byes = 0 THEN ScheduleBYEPacket(Members(table)) ELSE UNCHANGED schedvars
     ELSE toosoon' = TRUE /\ UNCHANGED <<byes, schedvars>>
  /\ sentpackets' = FALSE /\ sender' = FALSE
  /\ UNCHANGED <<table, heard, fresh, counted, processed, firstpacket, processingsdes,
                 sdesbuildcount, due, sdesflags, length, last, lastitems, gap, departures>>

Arrive(s) == Join(s) /\ UNCHANGED <<schedvars, sessionvars>>

Depart(s) ==
  /\ departures < MaxDepartures /\ departures' = departures + 1
  /\ Forget(s)
  /\ ActiveMemberDecrease(Members(table'))
  /\ UNCHANGED <<byes, sentpackets, gap, collisions>>

HearData(s) == Hear(s) /\ UNCHANGED <<schedvars, sessionvars>>
HearMixer(s) == SetCSRC(s) /\ UNCHANGED <<schedvars, sessionvars>>
HearBYE == CountBYE /\ UNCHANGED <<sourcevars, buildervars, sessionvars>>

\* We send RTP packets, or stop.
SendData ==
  /\ OwnSender
  /\ sentpackets' = (sentpackets \/ ~sender)
  /\ UNCHANGED <<schedvars, byes, gap, collisions, departures>>

\* SendRTCPAPPPacket, called by the user: the scheduler does not hear of it.
APPPack(data) == AddAPPPacket(Begin(FALSE), data)
SendAPP(data) ==
  /\ CanBegin(FALSE) /\ CanAddAPP(Begin(FALSE), data)
  /\ sentpackets' = TRUE
  /\ UNCHANGED <<sourcevars, buildervars, schedvars, byes, gap, collisions, departures>>

ChangeItem(i) == SetLocal(i) /\ UNCHANGED <<schedvars, sessionvars>>

TimePasses ==
  /\ Tick /\ gap' = IF Spaced(gap) THEN gap ELSE gap + 1
  /\ UNCHANGED <<sourcevars, buildervars, byes, sentpackets, collisions, departures>>

Next ==
  \/ StartTimers \/ PostponeReport \/ SendReport \/ SendLastBYE \/ SendBYE
  \/ TimePasses
  \/ Collide \/ HearBYE \/ SendData
  \/ \E s \in Source : Arrive(s) \/ Depart(s) \/ HearData(s) \/ HearMixer(s)
  \/ \E i \in ItemNames : ChangeItem(i)
  \/ \E d \in APPSizes : SendAPP(d)

Spec == Init /\ [][Next]_vars

\* The poll thread calls IsTime again and again, and time goes on.
CallIsTime == ~toosoon /\ byes < 2 /\ IsTime(sender, Members(table), Senders)
FairSpec == Spec /\ WF_timers(CallIsTime) /\ WF_vars(SendBYE) /\ WF_vars(TimePasses)

-----------------------------------------------------------------------------
(* Properties                                                              *)

\* The compound packet takes exactly the bytes EndBuild has allocated for it, no
\* more than the maximum, and ParseData reads every packet in it: a report, a
\* BYE or an application packet.
PacketsWellFormed ==
  /\ last.header # 0 => WellFormed(last)
  /\ \A r \in {0, 1, MaxItem} : CanBuildBYE(sender, r) => WellFormed(BYEPack(sender, r))
  /\ \A d \in APPSizes : CanAddAPP(Begin(FALSE), d) => WellFormed(APPPack(d))

\* With packets of at least RTP_MINPACKETSIZE bytes there is always room for a
\* step forward: neither BuildNextPacket nor BuildBYEPacket, whatever its reason,
\* ever fails with PACKETFILLEDTOOSOON.
NeverFilledTooSoon == ~toosoon /\ CanBuildBYE(sender, MaxItem)

\* Reports are not sent in bursts: between a report and the report or BYE packet
\* before it at least the smallest randomised minimum interval passes, although
\* the timer of the first one was started with half of it and departures move the
\* timers.  A BYE or an APP packet may follow sooner.
ReportsSpaced == [][ hassentrtcp /\ SendReport => Spaced(gap) ]_vars

\* A block is only written for a source with packets in its interval: the interval
\* of a source that a full packet left out goes on, and apart from the second chance
\* (see NoBlockTwice) no fraction lost is computed as 0/0.
IntervalsNotEmpty == [][ SendReport => Range(last'.blocks) \subseteq counted ]_vars

\* Our BYE packet waits and so many of others have been counted that its interval
\* may never pass; until it has left there are no reports either.
TooManyBYEs == byescheduled /\ byemembers = MaxByeMembers

\* Every source that keeps sending is reported on again and again, and so is
\* every SDES item that is enabled, however many packets a round takes, unless
\* BYE packets of others keep coming while one of ours waits.
EverythingReported ==
  /\ \A s \in Busy : []<>(s \in Range(last.blocks) \/ s \notin Range(table) \/ TooManyBYEs)
  /\ \A i \in ItemNames : Interval[i] > 0 => []<>(i \in lastitems \/ TooManyBYEs)

\* A BYE packet that was queued is sent, however often its time is reconsidered,
\* unless BYE packets of others keep coming: every one of them lengthens the
\* interval, and from MaxByeMembers on ours may wait for ever.
QueuedBYELeaves == (byes > 0) ~> (byes = 0 \/ TooManyBYEs)

\* The sources that get a second chance in a packet are "sources that we already
\* got in a previous packet": no source has two blocks in one packet.
NoBlockTwice == \A i, j \in DOMAIN last.blocks : i # j => last.blocks[i] # last.blocks[j]
=============================================================================
