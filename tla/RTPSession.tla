----------------------------- MODULE RTPSession -----------------------------
(***************************************************************************)
(* The threads of one RTP session and the four mutexes they share: the     *)
(* poll thread (RTPPollThread::Thread and RTPSession::ProcessPolledData)   *)
(* and the user threads that send packets, read received data or change    *)
(* parameters.  Every lock and unlock is a step of its own.                *)
(*                                                                         *)
(* The data is what the collision handling is about: the SSRC the packet   *)
(* builder puts into packets, the SSRC of the own entry in the source      *)
(* table, the flag `sentpackets` and the queue of BYE packets.  `used`,    *)
(* `byesent`, `raced`, `kept` and `late` are history variables.            *)
(***************************************************************************)
EXTENDS Integers, Sequences, FiniteSets

CONSTANTS
  SSRC,    \* identifiers CreateNewSSRC may draw; the set bounds the changes
  Users,   \* user threads
  Poll,    \* the poll thread
  Free     \* the owner of an unlocked mutex

ASSUME ThreadsAssumption == Poll \notin Users /\ Free \notin Users \cup {Poll}

VARIABLES
  pc,          \* where each thread is
  lock,        \* the owner of each mutex
  own,         \* SSRC of owndata in the source table
  bssrc,       \* packetbuilder.ssrc
  sentpackets, \* RTPSession::sentpackets
  byes,        \* byepackets: the SSRCs the queued BYEs are for
  pending,     \* the SSRC of the packet a user thread is sending
  past,        \* history: every SSRC the session has had
  used,        \* history: SSRCs of the RTP and RTCP packets sent
  byesent,     \* history: SSRCs whose BYE was handed to the transmitter
  raced,       \* history: SSRCs with which a call was under way while they changed
  kept,        \* history: SSRCs given up while a SendRTCPAPPPacket call had them
  late         \* history: SSRCs a packet went out with after their BYE

ssrcs   == <<own, bssrc, past>>
history == <<used, byesent, raced, kept, late>>
vars    == <<pc, lock, ssrcs, sentpackets, byes, pending, history>>

Threads == Users \cup {Poll}
Mutexes == {"sources", "sched", "builder", "packsent"}

UserPC == {"idle", "s_build", "s_sent", "s_src", "s_marked", "s_pack",
           "a_read", "a_pack", "a_cname", "a_send", "r_access", "c_sched", "c_builder"}
PollPC == {"p_top", "p_sched", "p_delay", "p_wait", "p_next", "p_raw", "p_first",
           "p_hassent", "p_bye", "p_build", "p_queued", "p_schedule", "p_new",
           "p_newssrc", "p_changed", "p_reset", "p_interval", "p_time",
           "p_istime", "p_rtcp", "p_compound", "p_rtcpsend", "p_sendbye",
           "p_mark", "p_marked", "p_more", "p_reschedule", "p_out",
           "p_analyse", "p_leave", "p_dead"}

TypeOK ==
  /\ pc \in [Threads -> UserPC \cup PollPC]
  /\ pc[Poll] \in PollPC
  /\ \A t \in Users : pc[t] \in UserPC
  /\ lock \in [Mutexes -> Threads \cup {Free}]
  /\ own \in SSRC /\ bssrc \in SSRC
  /\ sentpackets \in BOOLEAN
  /\ byes \in Seq(SSRC)
  /\ pending \in [Users -> SSRC]
  /\ past \subseteq SSRC /\ used \subseteq SSRC
  /\ byesent \subseteq SSRC /\ raced \subseteq SSRC
  /\ kept \subseteq SSRC /\ late \subseteq SSRC

\* The poll thread from its look at `sentpackets` to the moment it clears it.
MidChange == {"p_bye", "p_build", "p_queued", "p_schedule", "p_new", "p_newssrc",
              "p_changed", "p_reset"}

\* User threads whose packet is out and whose `sentpackets = true` is not.
Unmarked == {t \in Users : pc[t] \in {"s_sent", "s_src", "s_marked", "s_pack"}}

\* User threads with the SSRC of an APP packet that is not out yet.
Reading == {t \in Users : pc[t] \in {"a_pack", "a_cname", "a_send"}}

\* Threads that send, or have sent, a packet the flag does not know of.
InFlight == Unmarked \cup Reading

-----------------------------------------------------------------------------
(* Steps                                                                   *)

Goto(t, a, b) == pc[t] = a /\ pc' = [pc EXCEPT ![t] = b]

Acquire(t, m) == lock[m] = Free /\ lock' = [lock EXCEPT ![m] = t]

Release(m) == lock' = [lock EXCEPT ![m] = Free]

\* A packet with SSRC x goes out.
Sent(x) ==
  /\ used' = used \cup {x}
  /\ late' = late \cup ({x} \cap byesent)

\* A step that only locks a mutex and goes on.
Lock(t, m, a, b) ==
  /\ Goto(t, a, b) /\ Acquire(t, m)
  /\ UNCHANGED <<ssrcs, sentpackets, byes, pending, history>>

\* A step that only unlocks a mutex and goes on.
Unlock(t, m, a, b) ==
  /\ Goto(t, a, b) /\ Release(m)
  /\ UNCHANGED <<ssrcs, sentpackets, byes, pending, history>>

Init ==
  /\ pc = [t \in Threads |-> IF t = Poll THEN "p_top" ELSE "idle"]
  /\ lock = [m \in Mutexes |-> Free]
  /\ own \in SSRC /\ bssrc = own /\ past = {own}
  /\ sentpackets = FALSE /\ byes = <<>>
  /\ pending = [t \in Users |-> own]
  /\ used = {} /\ byesent = {} /\ raced = {} /\ kept = {} /\ late = {}

-----------------------------------------------------------------------------
(* User threads                                                            *)

\* Mutant: the builder mutex is kept until the table has been told.
SendBuiltKeepingLock(t) ==
  /\ pc[t] = "s_build" /\ UNCHANGED lock
  /\ pc' = [pc EXCEPT ![t] = "s_sent"]
  /\ pending' = [pending EXCEPT ![t] = bssrc]
  /\ Sent(bssrc)
  /\ UNCHANGED <<ssrcs, sentpackets, byes, byesent, raced, kept>>

\* SendPacket and SendPacketEx: the packet is built and sent under the builder
\* mutex; an error ends the call there.
SendBuilt(t) ==
  /\ pc[t] = "s_build" /\ Release("builder")
  /\ \/ /\ pc' = [pc EXCEPT ![t] = "s_sent"]
        /\ pending' = [pending EXCEPT ![t] = bssrc]
        /\ Sent(bssrc)
     \/ pc' = [pc EXCEPT ![t] = "idle"] /\ UNCHANGED <<pending, used, late>>
  /\ UNCHANGED <<ssrcs, sentpackets, byes, byesent, raced, kept>>

SetSentPackets(t) ==
  /\ Goto(t, "s_pack", "idle") /\ Release("packsent")
  /\ sentpackets' = TRUE
  /\ UNCHANGED <<ssrcs, byes, pending, history>>

SendPacket(t) ==
  \/ Lock(t, "builder", "idle", "s_build")
  \/ SendBuilt(t)
  \/ Lock(t, "sources", "s_sent", "s_src")
  \/ Unlock(t, "sources", "s_src", "s_marked")
  \/ Lock(t, "packsent", "s_marked", "s_pack")
  \/ SetSentPackets(t)

\* The SSRC is read under the builder mutex, which is given back before the
\* packet is made: from here on the poll thread may change the SSRC.
ReadSSRC(t) ==
  /\ Goto(t, "a_read", "a_pack") /\ Release("builder")
  /\ pending' = [pending EXCEPT ![t] = bssrc]
  /\ UNCHANGED <<ssrcs, sentpackets, byes, history>>

\* InitBuild, the receiver report and the SDES source may fail, and so may the
\* CNAME item, which is copied under the builder mutex.
APPError(t) ==
  \/ /\ Goto(t, "a_pack", "idle")
     /\ UNCHANGED <<lock, ssrcs, sentpackets, byes, pending, history>>
  \/ Unlock(t, "builder", "a_cname", "idle")

\* The APP item and the sending, with no mutex held; either may fail.  A packet
\* that goes out in the middle of a change of SSRC may be missed by the flag.
SendAPP(t) ==
  /\ pc[t] = "a_send"
  /\ \/ /\ pc' = [pc EXCEPT ![t] = "s_marked"] /\ Sent(pending[t])
        /\ raced' = IF pc[Poll] \in MidChange THEN raced \cup {pending[t]} ELSE raced
     \/ pc' = [pc EXCEPT ![t] = "idle"] /\ UNCHANGED <<used, late, raced>>
  /\ UNCHANGED <<lock, ssrcs, sentpackets, byes, pending, byesent, kept>>

\* The packet sets the flag like any other, but the source table is not told.
SendRTCPAPPPacket(t) ==
  \/ Lock(t, "builder", "idle", "a_read")
  \/ ReadSSRC(t)
  \/ Lock(t, "builder", "a_pack", "a_cname")
  \/ Unlock(t, "builder", "a_cname", "a_send")
  \/ APPError(t)
  \/ SendAPP(t)

\* BeginDataAccess and EndDataAccess.
DataAccess(t) ==
  \/ Lock(t, "sources", "idle", "r_access")
  \/ Unlock(t, "sources", "r_access", "idle")

SetSessionBandwidth(t) ==
  \/ Lock(t, "sched", "idle", "c_sched")
  \/ Unlock(t, "sched", "c_sched", "idle")

\* SetTimestampUnit, the intervals and the texts of the SDES items.
SetSDES(t) ==
  \/ Lock(t, "builder", "idle", "c_builder")
  \/ Unlock(t, "builder", "c_builder", "idle")

-----------------------------------------------------------------------------
(* The poll thread                                                         *)

\* The delay until the next RTCP packet: scheduler first, then sources.
TransmissionDelay ==
  \/ Lock(Poll, "sched", "p_top", "p_sched")
  \/ Lock(Poll, "sources", "p_sched", "p_delay")
  \/ /\ Goto(Poll, "p_delay", "p_wait")
     /\ lock' = [lock EXCEPT !["sources"] = Free, !["sched"] = Free]
     /\ UNCHANGED <<ssrcs, sentpackets, byes, pending, history>>

\* One raw packet, or the end of the list.  Only an own collision from an
\* address the collision list does not have leads on to "p_first".
RawPacket ==
  \/ Lock(Poll, "sources", "p_wait", "p_next")
  \/ Lock(Poll, "sched", "p_next", "p_raw")
  \/ Unlock(Poll, "sched", "p_raw", "p_next")
  \/ SSRC \ past # {} /\ Unlock(Poll, "sched", "p_raw", "p_first")
  \/ Lock(Poll, "sched", "p_next", "p_interval")
  \/ Unlock(Poll, "sched", "p_interval", "p_time")

\* hassentpackets is read under its mutex and decides whether a BYE is built.
ReadSentPackets ==
  /\ pc[Poll] = "p_hassent" /\ Release("packsent")
  /\ pc' = [pc EXCEPT ![Poll] = IF sentpackets THEN "p_bye" ELSE "p_new"]
  /\ raced' = IF \E t \in InFlight : pending[t] = bssrc
              THEN raced \cup {bssrc} ELSE raced
  /\ UNCHANGED <<ssrcs, sentpackets, byes, pending, used, byesent, kept, late>>

BuildBYEPacket ==
  /\ pc[Poll] = "p_build" /\ Release("builder")
  /\ byes' = Append(byes, bssrc)
  /\ pc' = [pc EXCEPT ![Poll] = IF byes = <<>> THEN "p_queued" ELSE "p_new"]
  /\ UNCHANGED <<ssrcs, sentpackets, pending, history>>

\* Mutant: the identifier drawn may be the one being given up.
CreateAnySSRC(n) ==
  /\ Goto(Poll, "p_newssrc", "p_changed") /\ Release("builder")
  /\ bssrc' = n /\ past' = past \cup {n}
  /\ UNCHANGED <<own, sentpackets, byes, pending, history>>

\* The loop of CreateNewSSRC skips identifiers of the table; that a random
\* 32-bit identifier is not one given up earlier is an assumption.
CreateNewSSRC(n) ==
  /\ Goto(Poll, "p_newssrc", "p_changed") /\ Release("builder")
  /\ n \notin past
  /\ bssrc' = n /\ past' = past \cup {n}
  /\ raced' = IF \E t \in InFlight : pending[t] = bssrc
              THEN raced \cup {bssrc} ELSE raced
  /\ kept' = IF \E t \in Reading : pending[t] = bssrc THEN kept \cup {bssrc} ELSE kept
  /\ UNCHANGED <<own, sentpackets, byes, pending, used, byesent, late>>

\* Mutant: the own entry of the source table is left as it was.
ResetFlagOnly ==
  /\ Goto(Poll, "p_reset", "p_next") /\ Release("packsent")
  /\ sentpackets' = FALSE
  /\ UNCHANGED <<ssrcs, byes, pending, history>>

\* The flag is cleared, then the own entry is replaced in the source table.
ResetSentPackets ==
  /\ Goto(Poll, "p_reset", "p_next") /\ Release("packsent")
  /\ sentpackets' = FALSE
  /\ own' = bssrc
  /\ UNCHANGED <<bssrc, past, byes, pending, history>>

Collision ==
  \/ Lock(Poll, "packsent", "p_first", "p_hassent")
  \/ ReadSentPackets
  \/ Lock(Poll, "builder", "p_bye", "p_build")
  \/ BuildBYEPacket
  \/ Lock(Poll, "sched", "p_queued", "p_schedule")
  \/ Unlock(Poll, "sched", "p_schedule", "p_new")
  \/ Lock(Poll, "builder", "p_new", "p_newssrc")
  \/ \E n \in SSRC : CreateNewSSRC(n)
  \/ Lock(Poll, "packsent", "p_changed", "p_reset")
  \/ ResetSentPackets

\* After the packets and the timeouts: is it time for RTCP, and for which?
IsTime ==
  /\ pc[Poll] = "p_istime" /\ Release("sched")
  /\ \/ pc' = [pc EXCEPT ![Poll] = IF byes = <<>> THEN "p_rtcp" ELSE "p_sendbye"]
     \/ pc' = [pc EXCEPT ![Poll] = "p_leave"]
  /\ UNCHANGED <<ssrcs, sentpackets, byes, pending, history>>

SendCompound ==
  /\ Goto(Poll, "p_rtcpsend", "p_mark")
  /\ Sent(bssrc)
  /\ UNCHANGED <<lock, ssrcs, sentpackets, byes, pending, byesent, raced, kept>>

\* The first BYE of the queue is sent; a transmitter error loses it and ends
\* the poll thread.
SendBYE ==
  /\ pc[Poll] = "p_sendbye" /\ byes # <<>>
  /\ byes' = Tail(byes) /\ byesent' = byesent \cup {Head(byes)}
  /\ \/ pc' = [pc EXCEPT ![Poll] = "p_mark"] /\ UNCHANGED lock
     \/ pc' = [pc EXCEPT ![Poll] = "p_dead"] /\ Release("sources")
  /\ UNCHANGED <<ssrcs, sentpackets, pending, used, raced, kept, late>>

\* Mutant: sending an RTCP packet does not set the flag.
PollForgetsSentPackets ==
  /\ pc[Poll] = "p_marked" /\ Release("packsent")
  /\ pc' = [pc EXCEPT ![Poll] = IF byes = <<>> THEN "p_out" ELSE "p_more"]
  /\ UNCHANGED <<ssrcs, sentpackets, byes, pending, history>>

\* Either kind of packet sets the flag; queued BYEs are scheduled.
PollSetSentPackets ==
  /\ pc[Poll] = "p_marked" /\ Release("packsent")
  /\ sentpackets' = TRUE
  /\ pc' = [pc EXCEPT ![Poll] = IF byes = <<>> THEN "p_out" ELSE "p_more"]
  /\ UNCHANGED <<ssrcs, byes, pending, history>>

OutgoingRTCP ==
  \/ Lock(Poll, "sched", "p_time", "p_istime")
  \/ IsTime
  \/ Lock(Poll, "builder", "p_rtcp", "p_compound")
  \/ Unlock(Poll, "builder", "p_compound", "p_rtcpsend")
  \/ SendCompound
  \/ SendBYE
  \/ Lock(Poll, "packsent", "p_mark", "p_marked")
  \/ PollSetSentPackets
  \/ Lock(Poll, "sched", "p_more", "p_reschedule")
  \/ Unlock(Poll, "sched", "p_reschedule", "p_out")
  \/ Lock(Poll, "sched", "p_out", "p_analyse")
  \/ Unlock(Poll, "sched", "p_analyse", "p_leave")
  \/ Unlock(Poll, "sources", "p_leave", "p_top")

\* The early returns of ProcessPolledData on an error: every mutex the thread
\* holds is released and the thread ends.
PollError ==
  /\ pc[Poll] \in {"p_raw", "p_first", "p_build", "p_compound", "p_rtcpsend"}
  /\ pc' = [pc EXCEPT ![Poll] = "p_dead"]
  /\ lock' = [m \in Mutexes |-> IF lock[m] = Poll THEN Free ELSE lock[m]]
  /\ UNCHANGED <<ssrcs, sentpackets, byes, pending, history>>

Next ==
  \/ \E t \in Users : \/ SendPacket(t) \/ SendRTCPAPPPacket(t) \/ DataAccess(t)
                     \/ SetSessionBandwidth(t) \/ SetSDES(t)
  \/ TransmissionDelay \/ RawPacket \/ Collision \/ OutgoingRTCP \/ PollError

Spec == Init /\ [][Next]_vars

-----------------------------------------------------------------------------
(* Properties                                                              *)

\* The mutexes a thread holds at a program point.
Held(p) ==
  CASE p \in {"s_build", "a_read", "a_cname", "c_builder"} -> {"builder"}
    [] p \in {"s_src", "r_access", "p_next", "p_first", "p_bye", "p_queued", "p_new",
              "p_changed", "p_time", "p_rtcp", "p_rtcpsend", "p_sendbye",
              "p_mark", "p_more", "p_out", "p_leave"} -> {"sources"}
    [] p \in {"s_pack"} -> {"packsent"}
    [] p \in {"c_sched", "p_sched"} -> {"sched"}
    [] p \in {"p_delay", "p_raw", "p_schedule", "p_interval", "p_istime",
              "p_reschedule", "p_analyse"} -> {"sources", "sched"}
    [] p \in {"p_hassent", "p_reset", "p_marked"} -> {"sources", "packsent"}
    [] p \in {"p_build", "p_newssrc", "p_compound"} -> {"sources", "builder"}
    [] OTHER -> {}

\* The mutex a thread blocks on at a program point.
Wants(p) ==
  CASE p \in {"s_sent", "p_sched", "p_wait"} -> {"sources"}
    [] p \in {"p_top", "p_next", "p_queued", "p_time", "p_more", "p_out"} -> {"sched"}
    [] p \in {"a_pack", "p_bye", "p_new", "p_rtcp"} -> {"builder"}
    [] p \in {"s_marked", "p_first", "p_changed", "p_mark"} -> {"packsent"}
    [] OTHER -> {}

\* A mutex belongs to exactly the thread whose program point says so: no path
\* through ProcessPolledData, its error returns included, leaves one locked
\* or unlocks one it does not hold.
LocksMatchProgram ==
  \A m \in Mutexes, t \in Threads : lock[m] = t <=> m \in Held(pc[t])

\* No group of threads waits for each other, although the poll thread takes
\* the scheduler before the sources in one place and after them in others.
NoCircularWait ==
  ~ \E S \in SUBSET Threads :
      /\ S # {}
      /\ \A t \in S : \E m \in Wants(pc[t]), u \in S : lock[m] = u

\* Every mutex comes free: its owner is at a place that still has to unlock
\* it, and is not waiting for itself or for others in a circle.
MutexesComeFree == LocksMatchProgram /\ NoCircularWait

\* Outside the poll thread's own critical section the packet builder and the
\* source table agree on our SSRC, so that a thread holding the sources mutex
\* never sees a half-done change.
SSRCsAgree == pc[Poll] \notin {"p_changed", "p_reset"} => own = bssrc

\* Once a BYE for an SSRC has been sent, the packet builder has another, so no
\* RTP packet and no report carries it.  Only an APP packet still may, when its
\* SendRTCPAPPPacket call had read the SSRC before the change.
BYEIsFinal == bssrc \notin byesent /\ late \subseteq kept

\* An SSRC that was given up after packets had been sent with it gets its BYE,
\* unless a SendPacket or SendRTCPAPPPacket call with it was under way during a
\* change of SSRC: to another, or from the one before.
MissedBYEOnlyByRace ==
  \A x \in used \ {bssrc} :
    \/ x \in byesent \cup raced
    \/ \E i \in DOMAIN byes : byes[i] = x

\* "Only send BYE packet if we've actually sent data using this SSRC."
BYEOnlyAfterData ==
  /\ byesent \subseteq used
  /\ \A i \in DOMAIN byes : byes[i] \in used
=============================================================================
