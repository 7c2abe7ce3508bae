--------------------------- MODULE RTCPScheduler ----------------------------
(***************************************************************************)
(* When the next RTCP packet is sent.  Times are relative to the present:  *)
(* `since` is the time passed since prevrtcptime and `left` the time until *)
(* nextrtcptime, 0 when it has passed.  The average packet size is not     *)
(* tracked: every computation of an interval may see any of AvgSizes.      *)
(*                                                                         *)
(* The members and senders of the source table are parameters.             *)
(***************************************************************************)
EXTENDS Integers

CONSTANTS
  MinInterval,      \* the minimum transmission interval, in ticks
  Bandwidth,        \* the RTCP bandwidth, bytes per tick
  AvgSizes,         \* values of avgrtcppacksize and avgbyepacketsize
  HalfAtStartup,    \* RTCPSchedulerParams::usehalfatstartup
  ImmediateBYE,     \* RTCPSchedulerParams::immediatebye
  ImmediateMembers, \* 50: above it a BYE is never sent at once
  MaxTime,          \* bound: times at or above it are not told apart
  MaxByeMembers     \* bound: so many BYE packets and more are not told apart

ASSUME ScheduleAssumption ==
  /\ MinInterval \in Nat \ {0} /\ Bandwidth \in Nat \ {0} /\ AvgSizes \subseteq Nat
  /\ MaxTime \in Nat /\ MaxByeMembers \in Nat \ {0} /\ ImmediateMembers \in Nat
  /\ HalfAtStartup \in BOOLEAN /\ ImmediateBYE \in BOOLEAN

VARIABLES since, left, pmembers, byemembers, byescheduled, sendbyenow, firstcall,
          hassentrtcp

timers    == <<since, left, pmembers>>
byestate  == <<byemembers, byescheduled, sendbyenow>>
schedvars == <<timers, byestate, firstcall, hassentrtcp>>

ScheduleTypeOK ==
  /\ since \in 0..MaxTime /\ left \in 0..MaxTime /\ pmembers \in Nat
  /\ byemembers \in 0..MaxByeMembers
  /\ {byescheduled, sendbyenow, firstcall, hassentrtcp} \subseteq BOOLEAN

\* RTCPScheduler::Reset
ScheduleInit ==
  /\ since = 0 /\ left = 0 /\ pmembers = 0 /\ byemembers = 0
  /\ byescheduled = FALSE /\ sendbyenow = FALSE /\ firstcall = TRUE /\ hassentrtcp = FALSE

-----------------------------------------------------------------------------
(* Intervals                                                               *)

Larger(x, y) == IF x > y THEN x ELSE y
Capped(t) == IF t > MaxTime THEN MaxTime ELSE t
AtStartup(t, startup) == IF HalfAtStartup /\ startup THEN t \div 2 ELSE t

\* A quarter of the bandwidth is for the senders while they are at most a
\* quarter of the members.
DeterministicInterval(size, aresender, members, senders) ==
  LET total == Larger(members, 1)
      cost ==
        IF senders * 4 > total THEN (total * size) \div Bandwidth
        ELSE IF aresender THEN (senders * size * 4) \div Bandwidth
        ELSE ((total - senders) * size * 4) \div (3 * Bandwidth)
  IN  Larger(AtStartup(MinInterval, ~hassentrtcp), cost)

\* Half to one and a half of it, divided by 1.21828, in whole ticks.
Randomized(t) ==
  {x \in 0..(2 * t) : 121828 * (x + 1) > 50000 * t /\ 121828 * x <= 150000 * t}

TransmissionIntervals(aresender, members, senders) ==
  UNION {Randomized(DeterministicInterval(z, aresender, members, senders)) : z \in AvgSizes}

\* The interval of a BYE packet grows with the BYE packets counted, without
\* limit: from MaxByeMembers on it may be any, also one that never passes.
BYETransmissionIntervals(count, now) ==
  IF now THEN {0}
  ELSE IF count = MaxByeMembers THEN 0..(MaxTime + 1)
  ELSE UNION {Randomized(Larger(AtStartup(MinInterval, TRUE),
                                (count * z * 4) \div (3 * Bandwidth))) : z \in AvgSizes}

-----------------------------------------------------------------------------
(* The operations                                                          *)

\* The first call of IsTime or of GetTransmissionDelay starts the timers.
FirstCall(aresender, members, senders) ==
  /\ firstcall /\ firstcall' = FALSE
  /\ since' = 0 /\ pmembers' = members
  /\ \E t \in TransmissionIntervals(aresender, members, senders) : left' = Capped(t)
  /\ UNCHANGED <<byestate, hassentrtcp>>

\* The timer has run out, but the interval computed anew has not passed yet.
Reconsider(aresender, members, senders) ==
  /\ ~firstcall /\ left = 0
  /\ \E t \in IF byescheduled THEN BYETransmissionIntervals(byemembers, sendbyenow)
              ELSE TransmissionIntervals(aresender, members, senders) :
       t > since /\ left' = Capped(t - since)
  /\ pmembers' = members
  /\ UNCHANGED <<since, byestate, firstcall, hassentrtcp>>

\* The timer looked at only once, with the interval drawn when it was started.
TimerRanOut(aresender, members, senders) ==
  /\ ~firstcall /\ left = 0
  /\ byescheduled' = FALSE /\ byemembers' = 0
  /\ since' = 0 /\ pmembers' = members
  /\ \E t \in TransmissionIntervals(aresender, members, senders) : left' = Capped(t)
  /\ UNCHANGED <<sendbyenow, firstcall>>

\* IsTime returns TRUE: the timers start again.  byemembers says nothing until
\* ScheduleBYEPacket sets it; the model forgets it here.
TimeIsUp(aresender, members, senders) ==
  /\ ~firstcall /\ left = 0
  /\ \E t \in IF byescheduled THEN BYETransmissionIntervals(byemembers, sendbyenow)
              ELSE TransmissionIntervals(aresender, members, senders) : t <= since
  /\ byescheduled' = FALSE /\ byemembers' = 0
  /\ since' = 0 /\ pmembers' = members
  /\ \E t \in TransmissionIntervals(aresender, members, senders) : left' = Capped(t)
  /\ UNCHANGED <<sendbyenow, firstcall>>

IsTime(aresender, members, senders) ==
  \/ FirstCall(aresender, members, senders)
  \/ Reconsider(aresender, members, senders)
  \/ TimeIsUp(aresender, members, senders)

\* Called when the number of active members has changed.
ActiveMemberDecrease(members) ==
  IF members >= pmembers \/ firstcall THEN UNCHANGED schedvars
  ELSE /\ left' = (members * left) \div pmembers
       /\ since' = (members * since) \div pmembers
       /\ pmembers' = members
       /\ UNCHANGED <<byestate, firstcall, hassentrtcp>>

ScheduleBYEPacket(members) ==
  IF byescheduled THEN UNCHANGED schedvars
  ELSE /\ firstcall' = FALSE
       /\ pmembers' = IF firstcall THEN members ELSE pmembers
       /\ byescheduled' = TRUE /\ byemembers' = 1
       /\ sendbyenow' = (ImmediateBYE /\ members < ImmediateMembers)
       /\ since' = 0
       /\ \E t \in BYETransmissionIntervals(1, sendbyenow') : left' = Capped(t)
       /\ UNCHANGED hassentrtcp

\* Every BYE that is heard starts the wait anew.
CountBYEAndWait ==
  /\ since' = IF byescheduled THEN 0 ELSE since
  /\ UNCHANGED <<left, pmembers, byestate, firstcall, hassentrtcp>>

\* AnalyseIncoming of a packet with a BYE: the others leave, too.  The count
\* goes on for ever; at MaxByeMembers it stands for all larger numbers.
CountBYE ==
  /\ IF byescheduled /\ byemembers < MaxByeMembers
     THEN byemembers' = byemembers + 1 ELSE UNCHANGED byemembers
  /\ UNCHANGED <<timers, byescheduled, sendbyenow, firstcall, hassentrtcp>>

Tick ==
  /\ since' = Capped(since + 1)
  /\ left' = Larger(left - 1, 0)
  /\ UNCHANGED <<pmembers, byestate, firstcall, hassentrtcp>>
=============================================================================
