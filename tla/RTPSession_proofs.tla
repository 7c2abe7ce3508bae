-------------------------- MODULE RTPSession_proofs --------------------------
(***************************************************************************)
(* Proofs about RTPSession, for any number of user threads and any set of  *)
(* identifiers: which thread holds which mutex, that no threads wait for   *)
(* each other, and what the collision handling guarantees about SSRCs and  *)
(* BYE packets.                                                            *)
(***************************************************************************)
EXTENDS RTPSession, TLAPS

-----------------------------------------------------------------------------
(* Which mutexes a program point holds                                     *)

\* The mutexes of user threads.
LEMMA HeldByUsers ==
  /\ Held("idle") = {} /\ Held("s_build") = {"builder"} /\ Held("s_sent") = {}
  /\ Held("s_src") = {"sources"} /\ Held("s_marked") = {}
  /\ Held("s_pack") = {"packsent"} /\ Held("r_access") = {"sources"}
  /\ Held("c_sched") = {"sched"} /\ Held("c_builder") = {"builder"}
  /\ Held("a_read") = {"builder"} /\ Held("a_pack") = {}
  /\ Held("a_cname") = {"builder"} /\ Held("a_send") = {}
BY DEF Held

\* The mutexes of the poll thread, outside RTCP.
LEMMA HeldByPoll ==
  /\ Held("p_top") = {} /\ Held("p_sched") = {"sched"} /\ Held("p_delay") = {"sources", "sched"}
  /\ Held("p_wait") = {} /\ Held("p_next") = {"sources"} /\ Held("p_raw") = {"sources", "sched"}
  /\ Held("p_first") = {"sources"} /\ Held("p_hassent") = {"sources", "packsent"}
  /\ Held("p_bye") = {"sources"} /\ Held("p_build") = {"sources", "builder"}
  /\ Held("p_queued") = {"sources"} /\ Held("p_schedule") = {"sources", "sched"}
  /\ Held("p_new") = {"sources"} /\ Held("p_newssrc") = {"sources", "builder"}
  /\ Held("p_changed") = {"sources"} /\ Held("p_reset") = {"sources", "packsent"}
  /\ Held("p_interval") = {"sources", "sched"} /\ Held("p_time") = {"sources"}
BY DEF Held

\* The mutexes of the poll thread while it sends RTCP packets.
LEMMA HeldForRTCP ==
  /\ Held("p_istime") = {"sources", "sched"} /\ Held("p_rtcp") = {"sources"}
  /\ Held("p_compound") = {"sources", "builder"} /\ Held("p_rtcpsend") = {"sources"}
  /\ Held("p_sendbye") = {"sources"} /\ Held("p_mark") = {"sources"}
  /\ Held("p_marked") = {"sources", "packsent"} /\ Held("p_more") = {"sources"}
  /\ Held("p_reschedule") = {"sources", "sched"} /\ Held("p_out") = {"sources"}
  /\ Held("p_analyse") = {"sources", "sched"} /\ Held("p_leave") = {"sources"}
  /\ Held("p_dead") = {}
BY DEF Held

\* A thread that holds a mutex and waits for another is the poll thread, and
\* it never waits for a mutex it holds.
LEMMA HoldAndWait ==
  /\ \A p \in UserPC : Held(p) = {} \/ Wants(p) = {}
  /\ \A p \in PollPC : Held(p) \cap Wants(p) = {}
<1>1. ASSUME NEW p \in UserPC PROVE Held(p) = {} \/ Wants(p) = {}
  BY DEF UserPC, Held, Wants
<1>2. ASSUME NEW p \in PollPC PROVE Held(p) \cap Wants(p) = {}
  BY DEF PollPC, Held, Wants
<1> QED BY <1>1, <1>2

\* Every program point holds mutexes of the session only.
LEMMA HeldMutexes == \A p \in UserPC \cup PollPC : Held(p) \subseteq Mutexes
<1> SUFFICES ASSUME NEW p \in UserPC \cup PollPC PROVE Held(p) \subseteq Mutexes
  OBVIOUS
<1>1. CASE p \in UserPC
  BY <1>1, HeldByUsers DEF UserPC, Mutexes
<1>2. CASE p \in PollPC
  BY <1>2, HeldByPoll, HeldForRTCP DEF PollPC, Mutexes
<1> QED BY <1>1, <1>2

-----------------------------------------------------------------------------
(* Types and locks                                                         *)

LockInv == TypeOK /\ LocksMatchProgram

\* A step of one thread that goes from a to b keeps the locks right when the
\* mutexes it takes were free and it releases only its own.
LEMMA ThreadStep ==
  ASSUME LockInv, NEW t \in Threads, NEW b \in UserPC \cup PollPC,
         pc' = [pc EXCEPT ![t] = b],
         t \in Users => b \in UserPC, t = Poll => b \in PollPC,
         lock' \in [Mutexes -> Threads \cup {Free}],
         \A m \in Mutexes : m \in Held(b) => lock'[m] = t /\ lock[m] \in {t, Free},
         \A m \in Mutexes : m \notin Held(b) =>
             lock'[m] = IF lock[m] = t THEN Free ELSE lock[m]
  PROVE  /\ pc' \in [Threads -> UserPC \cup PollPC]
         /\ pc'[Poll] \in PollPC /\ \A u \in Users : pc'[u] \in UserPC
         /\ LocksMatchProgram'
<1>1. /\ pc' \in [Threads -> UserPC \cup PollPC]
      /\ pc'[Poll] \in PollPC /\ \A u \in Users : pc'[u] \in UserPC
  BY ThreadsAssumption DEF LockInv, TypeOK, Threads
<1>2. ASSUME NEW m \in Mutexes, NEW u \in Threads
      PROVE  lock'[m] = u <=> m \in Held(pc'[u])
  <2>0. Free \notin Threads /\ (lock[m] = u <=> m \in Held(pc[u]))
    BY ThreadsAssumption DEF LockInv, LocksMatchProgram, Threads
  <2>1. CASE u = t
    <3>1. pc'[u] = b
      BY <2>1 DEF LockInv, TypeOK
    <3> QED BY <2>0, <2>1, <3>1
  <2>2. CASE u # t
    <3>1. pc'[u] = pc[u]
      BY <2>2 DEF LockInv, TypeOK
    <3> QED BY <2>0, <2>2, <3>1
  <2> QED BY <2>1, <2>2
<1> QED BY <1>1, <1>2 DEF LocksMatchProgram

\* What a step leaves alone or changes apart from program points and locks.
DataType ==
  /\ own \in SSRC /\ bssrc \in SSRC /\ sentpackets \in BOOLEAN
  /\ byes \in Seq(SSRC) /\ pending \in [Users -> SSRC]
  /\ past \subseteq SSRC /\ used \subseteq SSRC
  /\ byesent \subseteq SSRC /\ raced \subseteq SSRC
  /\ kept \subseteq SSRC /\ late \subseteq SSRC

\* Locking one mutex.
LEMMA LockStep ==
  ASSUME LockInv, NEW t \in Threads, NEW m \in Mutexes, NEW a, NEW b \in UserPC \cup PollPC,
         Lock(t, m, a, b), Held(b) = Held(a) \cup {m},
         t \in Users => b \in UserPC, t = Poll => b \in PollPC
  PROVE  LockInv'
<1>1. /\ pc[t] = a /\ pc' = [pc EXCEPT ![t] = b]
      /\ lock[m] = Free /\ lock' = [lock EXCEPT ![m] = t]
  BY DEF Lock, Goto, Acquire
<1>2. lock' \in [Mutexes -> Threads \cup {Free}]
  BY <1>1 DEF LockInv, TypeOK
<1>3. ASSUME NEW k \in Mutexes
      PROVE  /\ k \in Held(b) => lock'[k] = t /\ lock[k] \in {t, Free}
             /\ k \notin Held(b) => lock'[k] = IF lock[k] = t THEN Free ELSE lock[k]
  <2>1. lock[k] = t <=> k \in Held(a)
    BY <1>1 DEF LockInv, LocksMatchProgram
  <2>2. lock'[k] = IF k = m THEN t ELSE lock[k]
    BY <1>1 DEF LockInv, TypeOK
  <2> QED BY <1>1, <2>1, <2>2
<1>4. DataType'
  BY DEF DataType, LockInv, TypeOK, Lock, ssrcs, history
<1> QED BY <1>1, <1>2, <1>3, <1>4, ThreadStep DEF LockInv, TypeOK, DataType

\* Unlocking the mutexes of D, whatever else the step does to the data.
LEMMA UnlockStep ==
  ASSUME LockInv, NEW t \in Threads, NEW D \in SUBSET Mutexes, NEW b \in UserPC \cup PollPC,
         pc' = [pc EXCEPT ![t] = b], D \subseteq Held(pc[t]), Held(b) = Held(pc[t]) \ D,
         lock' = [m \in Mutexes |-> IF m \in D THEN Free ELSE lock[m]],
         t \in Users => b \in UserPC, t = Poll => b \in PollPC, DataType'
  PROVE  LockInv'
<1>1. lock' \in [Mutexes -> Threads \cup {Free}]
  BY DEF LockInv, TypeOK
<1>2. ASSUME NEW k \in Mutexes
      PROVE  /\ k \in Held(b) => lock'[k] = t /\ lock[k] \in {t, Free}
             /\ k \notin Held(b) => lock'[k] = IF lock[k] = t THEN Free ELSE lock[k]
  <2>1. lock[k] = t <=> k \in Held(pc[t])
    BY DEF LockInv, LocksMatchProgram
  <2>2. lock'[k] = IF k \in D THEN Free ELSE lock[k]
    OBVIOUS
  <2> QED BY <2>1, <2>2
<1> QED BY <1>1, <1>2, ThreadStep DEF LockInv, TypeOK, DataType

\* Unlocking one mutex.
LEMMA ReleaseStep ==
  ASSUME LockInv, NEW t \in Threads, NEW m \in Mutexes, NEW b \in UserPC \cup PollPC,
         pc' = [pc EXCEPT ![t] = b], Release(m), m \in Held(pc[t]), Held(b) = Held(pc[t]) \ {m},
         t \in Users => b \in UserPC, t = Poll => b \in PollPC, DataType'
  PROVE  LockInv'
<1>1. lock' = [k \in Mutexes |-> IF k \in {m} THEN Free ELSE lock[k]]
  BY DEF Release, LockInv, TypeOK
<1> QED BY <1>1, UnlockStep

\* A step that touches no mutex.
LEMMA KeepStep ==
  ASSUME LockInv, NEW t \in Threads, NEW b \in UserPC \cup PollPC,
         pc' = [pc EXCEPT ![t] = b], UNCHANGED lock, Held(b) = Held(pc[t]),
         t \in Users => b \in UserPC, t = Poll => b \in PollPC, DataType'
  PROVE  LockInv'
<1>1. lock' = [k \in Mutexes |-> IF k \in {} THEN Free ELSE lock[k]]
  BY DEF LockInv, TypeOK
<1>2. {} \in SUBSET Mutexes /\ {} \subseteq Held(pc[t]) /\ Held(b) = Held(pc[t]) \ {}
  OBVIOUS
<1> QED BY <1>1, <1>2, UnlockStep

\* A step that only unlocks keeps the data's types.
LEMMA PlainUnlock ==
  ASSUME LockInv, NEW t \in Threads, NEW m \in Mutexes, NEW a, NEW b \in UserPC \cup PollPC,
         Unlock(t, m, a, b), m \in Held(a), Held(b) = Held(a) \ {m},
         t \in Users => b \in UserPC, t = Poll => b \in PollPC
  PROVE  LockInv'
<1>1. DataType'
  BY DEF DataType, LockInv, TypeOK, Unlock, ssrcs, history
<1> QED BY <1>1, ReleaseStep DEF Unlock, Goto

\* The steps of a user thread.
LEMMA UserLocks ==
  ASSUME LockInv, NEW t \in Users,
         \/ SendPacket(t) \/ SendRTCPAPPPacket(t) \/ DataAccess(t)
         \/ SetSessionBandwidth(t) \/ SetSDES(t)
  PROVE  LockInv'
<1>0. t \in Threads /\ t # Poll /\ UserPC \subseteq UserPC \cup PollPC
  BY ThreadsAssumption DEF Threads
<1>1. CASE \/ Lock(t, "builder", "idle", "s_build") \/ Lock(t, "sources", "s_sent", "s_src")
           \/ Lock(t, "packsent", "s_marked", "s_pack") \/ Lock(t, "sources", "idle", "r_access")
           \/ Lock(t, "sched", "idle", "c_sched") \/ Lock(t, "builder", "idle", "c_builder")
           \/ Lock(t, "builder", "idle", "a_read") \/ Lock(t, "builder", "a_pack", "a_cname")
  BY <1>0, <1>1, LockStep, HeldByUsers DEF Mutexes, UserPC
<1>2. CASE \/ Unlock(t, "sources", "s_src", "s_marked") \/ Unlock(t, "sources", "r_access", "idle")
           \/ Unlock(t, "sched", "c_sched", "idle") \/ Unlock(t, "builder", "c_builder", "idle")
           \/ Unlock(t, "builder", "a_cname", "a_send") \/ Unlock(t, "builder", "a_cname", "idle")
  BY <1>0, <1>2, PlainUnlock, HeldByUsers DEF Mutexes, UserPC
<1>3. CASE SendBuilt(t)
  <2>1. DataType'
    BY <1>3 DEF SendBuilt, Sent, DataType, LockInv, TypeOK, ssrcs
  <2>2. PICK b \in {"s_sent", "idle"} : pc' = [pc EXCEPT ![t] = b]
    BY <1>3 DEF SendBuilt
  <2>3. pc[t] = "s_build" /\ Release("builder")
    BY <1>3 DEF SendBuilt
  <2> QED BY <1>0, <2>1, <2>2, <2>3, ReleaseStep, HeldByUsers DEF Mutexes, UserPC
<1>4. CASE SetSentPackets(t)
  <2>1. DataType'
    BY <1>4 DEF SetSentPackets, DataType, LockInv, TypeOK, ssrcs, history
  <2> QED BY <1>0, <1>4, <2>1, ReleaseStep, HeldByUsers DEF Mutexes, UserPC, SetSentPackets, Goto
<1>5. CASE ReadSSRC(t)
  <2>1. DataType'
    BY <1>5 DEF ReadSSRC, DataType, LockInv, TypeOK, ssrcs, history
  <2> QED BY <1>0, <1>5, <2>1, ReleaseStep, HeldByUsers DEF Mutexes, UserPC, ReadSSRC, Goto
<1>6. CASE SendAPP(t)
  <2>1. DataType'
    BY <1>6 DEF SendAPP, Sent, DataType, LockInv, TypeOK, ssrcs
  <2>2. PICK b \in {"s_marked", "idle"} : pc' = [pc EXCEPT ![t] = b]
    BY <1>6 DEF SendAPP
  <2> QED BY <1>0, <1>6, <2>1, <2>2, KeepStep, HeldByUsers DEF UserPC, SendAPP
<1>7. CASE /\ Goto(t, "a_pack", "idle")
           /\ UNCHANGED <<lock, ssrcs, sentpackets, byes, pending, history>>
  <2>1. DataType'
    BY <1>7 DEF DataType, LockInv, TypeOK, ssrcs, history
  <2> QED BY <1>0, <1>7, <2>1, KeepStep, HeldByUsers DEF UserPC, Goto
<1> QED BY <1>1, <1>2, <1>3, <1>4, <1>5, <1>6, <1>7
        DEF SendPacket, SendRTCPAPPPacket, APPError, DataAccess, SetSessionBandwidth, SetSDES

\* The poll thread: the RTCP delay, raw packets, and locking in general.
LEMMA PollLocks ==
  ASSUME LockInv,
         \/ TransmissionDelay \/ RawPacket
         \/ Lock(Poll, "packsent", "p_first", "p_hassent") \/ Lock(Poll, "builder", "p_bye", "p_build")
         \/ Lock(Poll, "sched", "p_queued", "p_schedule") \/ Unlock(Poll, "sched", "p_schedule", "p_new")
         \/ Lock(Poll, "builder", "p_new", "p_newssrc") \/ Lock(Poll, "packsent", "p_changed", "p_reset")
         \/ Lock(Poll, "sched", "p_time", "p_istime") \/ Lock(Poll, "builder", "p_rtcp", "p_compound")
         \/ Unlock(Poll, "builder", "p_compound", "p_rtcpsend")
         \/ Lock(Poll, "packsent", "p_mark", "p_marked") \/ Lock(Poll, "sched", "p_more", "p_reschedule")
         \/ Unlock(Poll, "sched", "p_reschedule", "p_out") \/ Lock(Poll, "sched", "p_out", "p_analyse")
         \/ Unlock(Poll, "sched", "p_analyse", "p_leave") \/ Unlock(Poll, "sources", "p_leave", "p_top")
  PROVE  LockInv'
<1>0. Poll \in Threads /\ Poll \notin Users
  BY ThreadsAssumption DEF Threads
<1>1. CASE \/ Lock(Poll, "sched", "p_top", "p_sched") \/ Lock(Poll, "sources", "p_sched", "p_delay")
           \/ Lock(Poll, "sources", "p_wait", "p_next") \/ Lock(Poll, "sched", "p_next", "p_raw")
           \/ Lock(Poll, "sched", "p_next", "p_interval")
           \/ Lock(Poll, "packsent", "p_first", "p_hassent") \/ Lock(Poll, "builder", "p_bye", "p_build")
           \/ Lock(Poll, "sched", "p_queued", "p_schedule")
           \/ Lock(Poll, "builder", "p_new", "p_newssrc") \/ Lock(Poll, "packsent", "p_changed", "p_reset")
  BY <1>0, <1>1, LockStep, HeldByPoll DEF Mutexes, PollPC
<1>2. CASE \/ Lock(Poll, "sched", "p_time", "p_istime") \/ Lock(Poll, "builder", "p_rtcp", "p_compound")
           \/ Lock(Poll, "packsent", "p_mark", "p_marked") \/ Lock(Poll, "sched", "p_more", "p_reschedule")
           \/ Lock(Poll, "sched", "p_out", "p_analyse")
  BY <1>0, <1>2, LockStep, HeldByPoll, HeldForRTCP DEF Mutexes, PollPC
<1>3. CASE \/ Unlock(Poll, "sched", "p_raw", "p_next") \/ Unlock(Poll, "sched", "p_raw", "p_first")
           \/ Unlock(Poll, "sched", "p_interval", "p_time") \/ Unlock(Poll, "sched", "p_schedule", "p_new")
  BY <1>0, <1>3, PlainUnlock, HeldByPoll DEF Mutexes, PollPC
<1>4. CASE \/ Unlock(Poll, "builder", "p_compound", "p_rtcpsend")
           \/ Unlock(Poll, "sched", "p_reschedule", "p_out") \/ Unlock(Poll, "sched", "p_analyse", "p_leave")
           \/ Unlock(Poll, "sources", "p_leave", "p_top")
  BY <1>0, <1>4, PlainUnlock, HeldByPoll, HeldForRTCP DEF Mutexes, PollPC
<1>5. CASE /\ Goto(Poll, "p_delay", "p_wait")
           /\ lock' = [lock EXCEPT !["sources"] = Free, !["sched"] = Free]
           /\ UNCHANGED <<ssrcs, sentpackets, byes, pending, history>>
  <2>1. DataType'
    BY <1>5 DEF DataType, LockInv, TypeOK, ssrcs, history
  <2>2. lock' = [k \in Mutexes |-> IF k \in {"sources", "sched"} THEN Free ELSE lock[k]]
    BY <1>5 DEF LockInv, TypeOK, Mutexes
  <2>3. /\ {"sources", "sched"} \in SUBSET Mutexes /\ {"sources", "sched"} \subseteq Held(pc[Poll])
        /\ Held("p_wait") = Held(pc[Poll]) \ {"sources", "sched"}
        /\ pc' = [pc EXCEPT ![Poll] = "p_wait"] /\ "p_wait" \in PollPC
    BY <1>5, HeldByPoll DEF Mutexes, PollPC, Goto
  <2> QED BY <1>0, <2>1, <2>2, <2>3, UnlockStep
<1> QED BY <1>1, <1>2, <1>3, <1>4, <1>5 DEF TransmissionDelay, RawPacket

\* The poll thread's steps that change data, error returns included.
LEMMA PollDataLocks ==
  ASSUME LockInv,
         \/ ReadSentPackets \/ BuildBYEPacket \/ (\E n \in SSRC : CreateNewSSRC(n)) \/ ResetSentPackets
         \/ IsTime \/ SendCompound \/ SendBYE \/ PollSetSentPackets \/ PollError
  PROVE  LockInv'
<1>0. Poll \in Threads /\ Poll \notin Users
  BY ThreadsAssumption DEF Threads
<1>a. DataType
  BY DEF DataType, LockInv, TypeOK
<1>1. CASE ReadSentPackets
  <2>1. DataType'
    BY <1>1, <1>a DEF ReadSentPackets, DataType, ssrcs
  <2>2. PICK b \in {"p_bye", "p_new"} : pc' = [pc EXCEPT ![Poll] = b]
    BY <1>1 DEF ReadSentPackets
  <2>3. /\ Release("packsent") /\ "packsent" \in Mutexes /\ "packsent" \in Held(pc[Poll])
        /\ b \in PollPC /\ Held(b) = Held(pc[Poll]) \ {"packsent"}
    BY <1>1, <2>2, HeldByPoll, HeldForRTCP DEF ReadSentPackets, Mutexes, PollPC
  <2> QED BY <1>0, <2>1, <2>2, <2>3, ReleaseStep
<1>2. CASE BuildBYEPacket
  <2>1. DataType'
    BY <1>2, <1>a DEF BuildBYEPacket, DataType, ssrcs, history
  <2>2. PICK b \in {"p_queued", "p_new"} : pc' = [pc EXCEPT ![Poll] = b]
    BY <1>2 DEF BuildBYEPacket
  <2>3. /\ Release("builder") /\ "builder" \in Mutexes /\ "builder" \in Held(pc[Poll])
        /\ b \in PollPC /\ Held(b) = Held(pc[Poll]) \ {"builder"}
    BY <1>2, <2>2, HeldByPoll, HeldForRTCP DEF BuildBYEPacket, Mutexes, PollPC
  <2> QED BY <1>0, <2>1, <2>2, <2>3, ReleaseStep
<1>3. ASSUME NEW n \in SSRC, CreateNewSSRC(n) PROVE LockInv'
  <2>1. DataType'
    BY <1>3, <1>a DEF CreateNewSSRC, DataType
  <2>2. /\ Release("builder") /\ "builder" \in Mutexes /\ "builder" \in Held(pc[Poll])
        /\ pc' = [pc EXCEPT ![Poll] = "p_changed"] /\ "p_changed" \in PollPC
        /\ Held("p_changed") = Held(pc[Poll]) \ {"builder"}
    BY <1>3, HeldByPoll DEF CreateNewSSRC, Goto, Mutexes, PollPC
  <2> QED BY <1>0, <2>1, <2>2, ReleaseStep
<1>4. CASE ResetSentPackets
  <2>1. DataType'
    BY <1>4, <1>a DEF ResetSentPackets, DataType, history
  <2>2. /\ Release("packsent") /\ "packsent" \in Mutexes /\ "packsent" \in Held(pc[Poll])
        /\ pc' = [pc EXCEPT ![Poll] = "p_next"] /\ "p_next" \in PollPC
        /\ Held("p_next") = Held(pc[Poll]) \ {"packsent"}
    BY <1>4, HeldByPoll DEF ResetSentPackets, Goto, Mutexes, PollPC
  <2> QED BY <1>0, <2>1, <2>2, ReleaseStep
<1>5. CASE IsTime
  <2>1. DataType'
    BY <1>5, <1>a DEF IsTime, DataType, ssrcs, history
  <2>2. PICK b \in {"p_rtcp", "p_sendbye", "p_leave"} : pc' = [pc EXCEPT ![Poll] = b]
    BY <1>5 DEF IsTime
  <2>3. /\ Release("sched") /\ "sched" \in Mutexes /\ "sched" \in Held(pc[Poll])
        /\ b \in PollPC /\ Held(b) = Held(pc[Poll]) \ {"sched"}
    BY <1>5, <2>2, HeldByPoll, HeldForRTCP DEF IsTime, Mutexes, PollPC
  <2> QED BY <1>0, <2>1, <2>2, <2>3, ReleaseStep
<1>6. CASE SendCompound
  <2>1. DataType'
    BY <1>6, <1>a DEF SendCompound, Sent, DataType, ssrcs
  <2> QED BY <1>0, <1>6, <2>1, KeepStep, HeldForRTCP DEF SendCompound, Goto, PollPC
<1>7. CASE SendBYE
  <2>1. DataType'
    BY <1>7, <1>a DEF SendBYE, DataType, ssrcs
  <2>2. CASE pc' = [pc EXCEPT ![Poll] = "p_mark"] /\ UNCHANGED lock
    BY <1>0, <1>7, <2>1, <2>2, KeepStep, HeldForRTCP DEF SendBYE, PollPC
  <2>3. CASE pc' = [pc EXCEPT ![Poll] = "p_dead"] /\ Release("sources")
    <3>1. /\ "sources" \in Mutexes /\ "sources" \in Held(pc[Poll])
          /\ "p_dead" \in PollPC /\ Held("p_dead") = Held(pc[Poll]) \ {"sources"}
      BY <1>7, HeldForRTCP DEF SendBYE, Mutexes, PollPC
    <3> QED BY <1>0, <2>1, <2>3, <3>1, ReleaseStep
  <2> QED BY <1>7, <2>2, <2>3 DEF SendBYE
<1>8. CASE PollSetSentPackets
  <2>1. DataType'
    BY <1>8, <1>a DEF PollSetSentPackets, DataType, ssrcs, history
  <2>2. PICK b \in {"p_out", "p_more"} : pc' = [pc EXCEPT ![Poll] = b]
    BY <1>8 DEF PollSetSentPackets
  <2>3. /\ Release("packsent") /\ "packsent" \in Mutexes /\ "packsent" \in Held(pc[Poll])
        /\ b \in PollPC /\ Held(b) = Held(pc[Poll]) \ {"packsent"}
    BY <1>8, <2>2, HeldByPoll, HeldForRTCP DEF PollSetSentPackets, Mutexes, PollPC
  <2> QED BY <1>0, <2>1, <2>2, <2>3, ReleaseStep
<1>9. CASE PollError
  <2>1. DataType'
    BY <1>9, <1>a DEF PollError, DataType, ssrcs, history
  <2>2. pc[Poll] \in PollPC /\ \A m \in Mutexes : lock[m] = Poll <=> m \in Held(pc[Poll])
    BY <1>0 DEF LockInv, TypeOK, LocksMatchProgram
  <2>3. /\ Held(pc[Poll]) \in SUBSET Mutexes
        /\ lock' = [m \in Mutexes |-> IF m \in Held(pc[Poll]) THEN Free ELSE lock[m]]
    BY <1>9, <2>2, HeldMutexes DEF PollError
  <2>4. pc' = [pc EXCEPT ![Poll] = "p_dead"] /\ "p_dead" \in PollPC
        /\ Held("p_dead") = Held(pc[Poll]) \ Held(pc[Poll])
    BY <1>9, HeldForRTCP DEF PollError, PollPC
  <2> QED BY <1>0, <2>1, <2>3, <2>4, UnlockStep
<1> QED BY <1>1, <1>2, <1>3, <1>4, <1>5, <1>6, <1>7, <1>8, <1>9

\* Every step keeps types and locks right.
LEMMA NextLocks == LockInv /\ [Next]_vars => LockInv'
<1> SUFFICES ASSUME LockInv, [Next]_vars PROVE LockInv'
  OBVIOUS
<1>1. CASE UNCHANGED vars
  BY <1>1 DEF LockInv, TypeOK, LocksMatchProgram, vars, ssrcs, history
<1>2. CASE Next
  BY <1>2, UserLocks, PollLocks, PollDataLocks DEF Next, Collision, OutgoingRTCP
<1> QED BY <1>1, <1>2

\* Types and locks are right in every state.
THEOREM LockInvariance == Spec => []LockInv
<1>1. Init => LockInv
  <2> SUFFICES ASSUME Init PROVE LockInv
    OBVIOUS
  <2>1. TypeOK
    <3>1. /\ pc \in [Threads -> UserPC \cup PollPC]
          /\ pc[Poll] \in PollPC /\ \A t \in Users : pc[t] \in UserPC
      BY ThreadsAssumption DEF Init, Threads, UserPC, PollPC
    <3>2. lock \in [Mutexes -> Threads \cup {Free}] /\ byes \in Seq(SSRC) /\ pending \in [Users -> SSRC]
      BY DEF Init
    <3> QED BY <3>1, <3>2 DEF Init, TypeOK
  <2>2. \A t \in Threads : Held(pc[t]) = {}
    BY HeldByUsers, HeldByPoll DEF Init
  <2>3. \A m \in Mutexes, t \in Threads : lock[m] # t
    BY ThreadsAssumption DEF Init, Threads
  <2> QED BY <2>1, <2>2, <2>3 DEF LockInv, LocksMatchProgram
<1>2. LockInv /\ [Next]_vars => LockInv'
  BY NextLocks
<1> QED BY <1>1, <1>2, PTL DEF Spec

\* Program points, locks and data of the session keep their types.
THEOREM TypeCorrect == Spec => []TypeOK
<1>1. LockInv => TypeOK
  BY DEF LockInv
<1> QED BY <1>1, LockInvariance, PTL

\* A mutex belongs to exactly the thread whose program point says so, however
\* many user threads there are and whichever error return is taken.
THEOREM LocksCorrect == Spec => []LocksMatchProgram
<1>1. LockInv => LocksMatchProgram
  BY DEF LockInv
<1> QED BY <1>1, LockInvariance, PTL

\* No set of threads waits for each other: only the poll thread ever holds a
\* mutex while it waits for one.
THEOREM NoDeadlock == Spec => []NoCircularWait
<1>1. LockInv => NoCircularWait
  <2> SUFFICES ASSUME LockInv, NEW S \in SUBSET Threads, S # {},
                      \A t \in S : \E m \in Wants(pc[t]), u \in S : lock[m] = u
               PROVE  FALSE
    BY DEF NoCircularWait
  <2>1. \A p, m : m \in Wants(p) => m \in Mutexes
    BY DEF Wants, Mutexes
  <2>2. ASSUME NEW u \in S, Held(pc[u]) # {} PROVE u = Poll
    <3>1. Wants(pc[u]) # {}
      OBVIOUS
    <3>2. pc[u] \notin UserPC
      BY <2>2, <3>1, HoldAndWait
    <3> QED BY <3>2 DEF LockInv, TypeOK, Threads
  <2>3. \A t \in S : \E m \in Wants(pc[t]), u \in S : m \in Held(pc[u])
    BY <2>1 DEF LockInv, LocksMatchProgram
  <2>4. Poll \in S
    BY <2>2, <2>3
  <2>5. PICK m \in Wants(pc[Poll]), u \in S : m \in Held(pc[u])
    BY <2>3, <2>4
  <2>6. u = Poll
    BY <2>2, <2>5, Zenon
  <2> QED BY <2>5, <2>6, HoldAndWait DEF LockInv, TypeOK
<1> QED BY <1>1, LockInvariance, PTL

\* ProcessPolledData and the calls of any number of user threads leave no mutex
\* locked for good.
THEOREM MutexesCorrect == Spec => []MutexesComeFree
<1>1. LocksMatchProgram /\ NoCircularWait => MutexesComeFree
  BY DEF MutexesComeFree
<1> QED BY <1>1, LocksCorrect, NoDeadlock, PTL

-----------------------------------------------------------------------------
(* SSRCs and BYE packets                                                   *)

Queued(x) == \E i \in DOMAIN byes : byes[i] = x

\* A user thread has sent a packet with our SSRC and has not yet been able to
\* tell the source table.
Unrecorded == \E t \in Users : pc[t] = "s_sent" /\ pending[t] = bssrc

\* The stages of a change of SSRC, and of recording an RTCP packet.
Leaving   == {"p_queued", "p_schedule", "p_new", "p_newssrc"}
Changing  == {"p_changed", "p_reset"}
Recording == {"p_mark", "p_marked"}

\* Identifiers in use, given up and queued are told apart.
SSRCInv ==
  /\ SSRCsAgree
  /\ bssrc \in past /\ used \subseteq past /\ byesent \subseteq past
  /\ \A x \in SSRC : Queued(x) => x \in past
  /\ BYEIsFinal
  /\ Queued(bssrc) => pc[Poll] \in Leaving

\* A call that sends an APP packet has an SSRC of the session: ours, or one that
\* the change has noted.
AppInv ==
  /\ \A t \in Users : pending[t] \in past
  /\ \A t \in Reading : pending[t] # bssrc => pending[t] \in raced \cap kept

\* `sentpackets` is right about our SSRC up to the calls that are under way.
FlagInv ==
  /\ bssrc \in used => \/ sentpackets
                       \/ \E t \in Unmarked : pending[t] = bssrc
                       \/ pc[Poll] \in Recording
                       \/ bssrc \in raced
  /\ pc[Poll] \in Changing => (bssrc \in used => bssrc \in raced \/ Unrecorded)
  /\ pc[Poll] \in Leaving => (bssrc \in used => bssrc \in raced \/ Queued(bssrc) \/ Unrecorded)
  /\ MissedBYEOnlyByRace

ByeInv == SSRCInv /\ AppInv /\ FlagInv

Holds(q, x) == \E i \in DOMAIN q : q[i] = x

\* What appending to and taking from the queue of BYE packets does.
LEMMA QueueSteps ==
  ASSUME NEW q \in Seq(SSRC), NEW e \in SSRC, NEW x
  PROVE  /\ Holds(Append(q, e), x) <=> x = e \/ Holds(q, x)
         /\ q # <<>> => /\ Head(q) \in SSRC
                        /\ Holds(q, x) <=> x = Head(q) \/ Holds(Tail(q), x)
<1>1. (\E i \in DOMAIN Append(q, e) : Append(q, e)[i] = x)
        <=> x = e \/ \E i \in DOMAIN q : q[i] = x
  <2>1. /\ DOMAIN q = 1..Len(q) /\ Len(q) \in Nat
        /\ DOMAIN Append(q, e) = 1..(Len(q) + 1)
        /\ Append(q, e)[Len(q) + 1] = e
        /\ \A i \in 1..Len(q) : Append(q, e)[i] = q[i]
    OBVIOUS
  <2>2. \A i \in 1..(Len(q) + 1) : i \in 1..Len(q) \/ i = Len(q) + 1
    BY <2>1
  <2>3. 1..Len(q) \subseteq 1..(Len(q) + 1) /\ Len(q) + 1 \in 1..(Len(q) + 1)
    BY <2>1
  <2> QED BY <2>1, <2>2, <2>3
<1>2. ASSUME q # <<>>
      PROVE  /\ Head(q) \in SSRC
             /\ (\E i \in DOMAIN q : q[i] = x)
                   <=> x = Head(q) \/ \E i \in DOMAIN Tail(q) : Tail(q)[i] = x
  <2>1. /\ DOMAIN q = 1..Len(q) /\ Len(q) \in Nat /\ Len(q) >= 1
        /\ Head(q) = q[1] /\ Head(q) \in SSRC
        /\ DOMAIN Tail(q) = 1..(Len(q) - 1)
        /\ \A i \in 1..(Len(q) - 1) : Tail(q)[i] = q[i + 1]
    BY <1>2
  <2>2. ASSUME NEW i \in 1..Len(q), q[i] = x
        PROVE  x = Head(q) \/ \E j \in DOMAIN Tail(q) : Tail(q)[j] = x
    <3>1. CASE i = 1
      BY <2>1, <2>2, <3>1
    <3>2. CASE i # 1
      <4>1. i - 1 \in 1..(Len(q) - 1) /\ (i - 1) + 1 = i
        BY <2>1, <3>2
      <4> QED BY <2>1, <2>2, <4>1
    <3> QED BY <3>1, <3>2
  <2>3. \A j \in 1..(Len(q) - 1) : j + 1 \in 1..Len(q)
    BY <2>1
  <2>4. 1 \in 1..Len(q)
    BY <2>1
  <2> QED BY <2>1, <2>2, <2>3, <2>4
<1> QED BY <1>1, <1>2, Zenon DEF Holds

\* The poll thread moves within a stage and leaves the data alone.
LEMMA PollMoves ==
  ASSUME ByeInv, LockInv, NEW b \in PollPC, pc' = [pc EXCEPT ![Poll] = b],
         pc[Poll] \in Leaving <=> b \in Leaving,
         pc[Poll] \in Changing <=> b \in Changing,
         pc[Poll] \in Recording <=> b \in Recording,
         UNCHANGED <<own, bssrc, past, sentpackets, byes, pending, used, byesent, raced, kept, late>>
  PROVE  ByeInv'
<1>1. /\ pc'[Poll] = b /\ \A t \in Users : pc'[t] = pc[t]
  BY ThreadsAssumption DEF LockInv, TypeOK, Threads
<1>2. /\ Unmarked' = Unmarked /\ Reading' = Reading /\ (Unrecorded' <=> Unrecorded)
      /\ \A x : Queued(x)' <=> Queued(x)
  BY <1>1 DEF Unmarked, Reading, Unrecorded, Queued
<1>3. SSRCInv' /\ AppInv'
  BY <1>1, <1>2 DEF ByeInv, SSRCInv, AppInv, SSRCsAgree, BYEIsFinal, Changing
<1>4. MissedBYEOnlyByRace'
  BY DEF ByeInv, FlagInv, MissedBYEOnlyByRace
<1>5. FlagInv'
  BY <1>1, <1>2, <1>4 DEF ByeInv, FlagInv
<1> QED BY <1>3, <1>5 DEF ByeInv

\* The poll thread's steps that only lock, unlock or decide.
LEMMA PollMovesBye ==
  ASSUME ByeInv, LockInv,
         \/ TransmissionDelay \/ RawPacket \/ IsTime \/ PollError
         \/ Lock(Poll, "packsent", "p_first", "p_hassent") \/ Lock(Poll, "builder", "p_bye", "p_build")
         \/ Lock(Poll, "sched", "p_queued", "p_schedule") \/ Unlock(Poll, "sched", "p_schedule", "p_new")
         \/ Lock(Poll, "builder", "p_new", "p_newssrc") \/ Lock(Poll, "packsent", "p_changed", "p_reset")
         \/ Lock(Poll, "sched", "p_time", "p_istime") \/ Lock(Poll, "builder", "p_rtcp", "p_compound")
         \/ Unlock(Poll, "builder", "p_compound", "p_rtcpsend")
         \/ Lock(Poll, "packsent", "p_mark", "p_marked") \/ Lock(Poll, "sched", "p_more", "p_reschedule")
         \/ Unlock(Poll, "sched", "p_reschedule", "p_out") \/ Lock(Poll, "sched", "p_out", "p_analyse")
         \/ Unlock(Poll, "sched", "p_analyse", "p_leave") \/ Unlock(Poll, "sources", "p_leave", "p_top")
  PROVE  ByeInv'
<1>1. UNCHANGED <<own, bssrc, past, sentpackets, byes, pending, used, byesent, raced, kept, late>>
  BY DEF TransmissionDelay, RawPacket, IsTime, PollError, Lock, Unlock, ssrcs, history
<1>2. \E b \in PollPC :
        /\ pc' = [pc EXCEPT ![Poll] = b]
        /\ pc[Poll] \in Leaving <=> b \in Leaving
        /\ pc[Poll] \in Changing <=> b \in Changing
        /\ pc[Poll] \in Recording <=> b \in Recording
  <2> USE DEF PollPC, Leaving, Changing, Recording, Lock, Unlock, Goto
  <2>1. CASE TransmissionDelay
    BY <2>1 DEF TransmissionDelay
  <2>2. CASE RawPacket
    BY <2>2 DEF RawPacket
  <2>3. CASE IsTime \/ PollError
    BY <2>3 DEF IsTime, PollError
  <2>4. CASE \/ Lock(Poll, "packsent", "p_first", "p_hassent") \/ Lock(Poll, "builder", "p_bye", "p_build")
             \/ Lock(Poll, "sched", "p_queued", "p_schedule") \/ Unlock(Poll, "sched", "p_schedule", "p_new")
             \/ Lock(Poll, "builder", "p_new", "p_newssrc") \/ Lock(Poll, "packsent", "p_changed", "p_reset")
    BY <2>4
  <2>5. CASE \/ Lock(Poll, "sched", "p_time", "p_istime") \/ Lock(Poll, "builder", "p_rtcp", "p_compound")
             \/ Unlock(Poll, "builder", "p_compound", "p_rtcpsend")
             \/ Lock(Poll, "packsent", "p_mark", "p_marked") \/ Lock(Poll, "sched", "p_more", "p_reschedule")
    BY <2>5
  <2>6. CASE \/ Unlock(Poll, "sched", "p_reschedule", "p_out") \/ Lock(Poll, "sched", "p_out", "p_analyse")
             \/ Unlock(Poll, "sched", "p_analyse", "p_leave") \/ Unlock(Poll, "sources", "p_leave", "p_top")
    BY <2>6
  <2> HIDE DEF PollPC, Leaving, Changing, Recording, Lock, Unlock, Goto
  <2> QED BY <2>1, <2>2, <2>3, <2>4, <2>5, <2>6
<1> QED BY <1>1, <1>2, PollMoves

\* While our SSRC changes the poll thread holds the sources mutex.
LEMMA ChangeHoldsSources ==
  ASSUME LockInv, pc[Poll] \in Leaving \cup Changing
  PROVE  lock["sources"] = Poll
<1>1. "sources" \in Held(pc[Poll])
  BY HeldByPoll DEF Leaving, Changing
<1>2. "sources" \in Mutexes /\ Poll \in Threads
  BY DEF Mutexes, Threads
<1> QED BY <1>1, <1>2 DEF LockInv, LocksMatchProgram

\* The steps of a user thread.
LEMMA UserBye ==
  ASSUME ByeInv, LockInv, NEW t \in Users,
         \/ SendPacket(t) \/ SendRTCPAPPPacket(t) \/ DataAccess(t)
         \/ SetSessionBandwidth(t) \/ SetSDES(t)
  PROVE  ByeInv'
<1>0. t # Poll /\ t \in Threads /\ Poll \in Threads
  BY ThreadsAssumption DEF Threads
<1>1. CASE SendBuilt(t) /\ pc' = [pc EXCEPT ![t] = "s_sent"]
  <2>0. /\ pending' = [pending EXCEPT ![t] = bssrc]
        /\ used' = used \cup {bssrc} /\ late' = late \cup ({bssrc} \cap byesent)
        /\ UNCHANGED <<own, bssrc, past, sentpackets, byes, byesent, raced, kept>>
    BY <1>1, <1>0 DEF SendBuilt, Sent, ssrcs, LockInv, TypeOK
  <2>1. /\ pc'[Poll] = pc[Poll] /\ pc'[t] = "s_sent" /\ pending'[t] = bssrc
        /\ \A u \in Users \ {t} : pc'[u] = pc[u] /\ pending'[u] = pending[u]
        /\ \A x : Queued(x)' <=> Queued(x)
    BY <1>0, <1>1, <2>0 DEF LockInv, TypeOK, Queued, Threads
  <2>2. Unrecorded' /\ \E u \in Unmarked' : pending'[u] = bssrc'
    BY <2>0, <2>1 DEF Unrecorded, Unmarked
  <2>3. SSRCInv' /\ AppInv'
    <3>1. SSRCInv'
      BY <2>0, <2>1 DEF ByeInv, SSRCInv, SSRCsAgree, BYEIsFinal
    <3>2. AppInv'
      BY <2>0, <2>1 DEF ByeInv, AppInv, SSRCInv, Reading
    <3> QED BY <3>1, <3>2
  <2>4. MissedBYEOnlyByRace'
    BY <2>0 DEF ByeInv, FlagInv, MissedBYEOnlyByRace
  <2>5. FlagInv'
    BY <2>0, <2>1, <2>2, <2>4 DEF FlagInv
  <2> QED BY <2>3, <2>5 DEF ByeInv
<1>2. CASE SetSentPackets(t)
  <2>0. /\ sentpackets' = TRUE /\ pc[t] = "s_pack" /\ pc' = [pc EXCEPT ![t] = "idle"]
        /\ UNCHANGED <<own, bssrc, past, byes, pending, used, byesent, raced, kept, late>>
    BY <1>2 DEF SetSentPackets, Goto, ssrcs, history
  <2>1. /\ pc'[Poll] = pc[Poll] /\ (Unrecorded => Unrecorded')
        /\ Reading' = Reading /\ \A x : Queued(x)' <=> Queued(x)
    BY <1>0, <2>0 DEF LockInv, TypeOK, Queued, Unrecorded, Reading, Threads
  <2>2. SSRCInv' /\ AppInv'
    BY <2>0, <2>1 DEF ByeInv, SSRCInv, AppInv, SSRCsAgree, BYEIsFinal
  <2>3. MissedBYEOnlyByRace'
    BY <2>0 DEF ByeInv, FlagInv, MissedBYEOnlyByRace
  <2>4. FlagInv'
    BY <2>0, <2>1, <2>3 DEF ByeInv, FlagInv
  <2> QED BY <2>2, <2>4 DEF ByeInv
<1>3. ASSUME UNCHANGED <<own, bssrc, past, sentpackets, byes, pending, used, byesent, raced, kept, late>>,
             NEW b, pc' = [pc EXCEPT ![t] = b],
             pc[t] \in {"s_sent", "s_src", "s_marked", "s_pack"} => b \in {"s_sent", "s_src", "s_marked", "s_pack"},
             b \in {"a_pack", "a_cname", "a_send"} => pc[t] \in {"a_pack", "a_cname", "a_send"},
             pc[t] = "s_sent" => lock["sources"] = Free
      PROVE  ByeInv'
  <2>1. /\ pc'[Poll] = pc[Poll] /\ \A x : Queued(x)' <=> Queued(x)
    BY <1>0, <1>3 DEF LockInv, TypeOK, Queued
  <2>2. (\E u \in Unmarked : pending[u] = bssrc) => (\E u \in Unmarked' : pending'[u] = bssrc')
    <3>1. Unmarked \subseteq Unmarked'
      BY <1>0, <1>3 DEF Unmarked, LockInv, TypeOK, Threads
    <3> QED BY <1>3, <3>1
  <2>3. pc[Poll] \in Leaving \cup Changing => (Unrecorded => Unrecorded')
    <3>1. pc[Poll] \in Leaving \cup Changing => pc[t] # "s_sent"
      BY <1>0, <1>3, ChangeHoldsSources, ThreadsAssumption DEF Threads
    <3> QED BY <1>0, <1>3, <3>1 DEF Unrecorded, LockInv, TypeOK, Threads
  <2>4. SSRCInv' /\ AppInv'
    <3>1. Reading' \subseteq Reading
      BY <1>0, <1>3 DEF Reading, LockInv, TypeOK, Threads
    <3> QED BY <1>3, <2>1, <3>1 DEF ByeInv, SSRCInv, AppInv, SSRCsAgree, BYEIsFinal
  <2>5. MissedBYEOnlyByRace'
    BY <1>3 DEF ByeInv, FlagInv, MissedBYEOnlyByRace
  <2>6. FlagInv'
    BY <1>3, <2>1, <2>2, <2>3, <2>5 DEF ByeInv, FlagInv
  <2> QED BY <2>4, <2>6 DEF ByeInv
<1>4. CASE SendBuilt(t) /\ ~(pc' = [pc EXCEPT ![t] = "s_sent"])
  BY <1>3, <1>4 DEF SendBuilt, ssrcs
<1>5. CASE \/ Lock(t, "builder", "idle", "s_build") \/ Lock(t, "sources", "s_sent", "s_src")
           \/ Lock(t, "packsent", "s_marked", "s_pack") \/ Lock(t, "sources", "idle", "r_access")
           \/ Lock(t, "sched", "idle", "c_sched") \/ Lock(t, "builder", "idle", "c_builder")
           \/ Lock(t, "builder", "idle", "a_read") \/ Lock(t, "builder", "a_pack", "a_cname")
  BY <1>3, <1>5 DEF Lock, Goto, Acquire, ssrcs, history
<1>6. CASE \/ Unlock(t, "sources", "s_src", "s_marked") \/ Unlock(t, "sources", "r_access", "idle")
           \/ Unlock(t, "sched", "c_sched", "idle") \/ Unlock(t, "builder", "c_builder", "idle")
           \/ Unlock(t, "builder", "a_cname", "a_send") \/ Unlock(t, "builder", "a_cname", "idle")
  BY <1>3, <1>6 DEF Unlock, Goto, ssrcs, history
<1>7. CASE ReadSSRC(t)
  <2>0. /\ pc[t] = "a_read" /\ pc' = [pc EXCEPT ![t] = "a_pack"]
        /\ pending' = [pending EXCEPT ![t] = bssrc]
        /\ UNCHANGED <<own, bssrc, past, sentpackets, byes, used, byesent, raced, kept, late>>
    BY <1>7 DEF ReadSSRC, Goto, ssrcs, history
  <2>1. /\ pc'[Poll] = pc[Poll] /\ pc'[t] = "a_pack" /\ pending'[t] = bssrc
        /\ \A u \in Users \ {t} : pc'[u] = pc[u] /\ pending'[u] = pending[u]
        /\ \A x : Queued(x)' <=> Queued(x)
    BY <1>0, <2>0 DEF LockInv, TypeOK, Queued, Threads
  <2>2. /\ (\E u \in Unmarked : pending[u] = bssrc) => (\E u \in Unmarked' : pending'[u] = bssrc')
        /\ Unrecorded => Unrecorded'
    BY <2>0, <2>1 DEF Unmarked, Unrecorded
  <2>3. SSRCInv'
    BY <2>0, <2>1 DEF ByeInv, SSRCInv, SSRCsAgree, BYEIsFinal
  <2>4. AppInv'
    BY <2>0, <2>1 DEF ByeInv, SSRCInv, AppInv, Reading
  <2>5. MissedBYEOnlyByRace'
    BY <2>0 DEF ByeInv, FlagInv, MissedBYEOnlyByRace
  <2>6. FlagInv'
    BY <2>0, <2>1, <2>2, <2>5 DEF ByeInv, FlagInv
  <2> QED BY <2>3, <2>4, <2>6 DEF ByeInv
<1>8. CASE SendAPP(t) /\ pc' = [pc EXCEPT ![t] = "s_marked"]
  <2>0. /\ pc[t] = "a_send"
        /\ used' = used \cup {pending[t]} /\ late' = late \cup ({pending[t]} \cap byesent)
        /\ raced' = IF pc[Poll] \in MidChange THEN raced \cup {pending[t]} ELSE raced
        /\ UNCHANGED <<own, bssrc, past, sentpackets, byes, pending, byesent, kept>>
    BY <1>0, <1>8 DEF SendAPP, Sent, ssrcs, LockInv, TypeOK
  <2>1. /\ pc'[Poll] = pc[Poll] /\ pc'[t] = "s_marked"
        /\ \A u \in Users \ {t} : pc'[u] = pc[u]
        /\ \A x : Queued(x)' <=> Queued(x)
    BY <1>0, <1>8, <2>0 DEF LockInv, TypeOK, Queued, Threads
  <2>2. /\ Unmarked' = Unmarked \cup {t} /\ Reading' \subseteq Reading /\ t \in Reading
        /\ Unrecorded => Unrecorded'
    BY <2>0, <2>1 DEF Unmarked, Reading, Unrecorded
  <2>3. pending[t] \in past /\ (pending[t] # bssrc => pending[t] \in raced \cap kept)
    BY <2>2 DEF ByeInv, AppInv
  <2>4. SSRCInv'
    BY <2>0, <2>1, <2>3 DEF ByeInv, SSRCInv, SSRCsAgree, BYEIsFinal
  <2>5. AppInv'
    BY <2>0, <2>2 DEF ByeInv, AppInv
  <2>6. MissedBYEOnlyByRace'
    BY <2>0, <2>3 DEF ByeInv, FlagInv, MissedBYEOnlyByRace
  <2>7. FlagInv'
    <3>1. Leaving \cup Changing \subseteq MidChange
      BY DEF Leaving, Changing, MidChange
    <3>2. bssrc \in used' => bssrc \in used \/ pending'[t] = bssrc'
      BY <2>0
    <3>3. bssrc' = bssrc /\ raced \subseteq raced' /\ sentpackets' = sentpackets
      BY <2>0
    <3>4. CASE pending[t] = bssrc
      BY <2>0, <2>1, <2>2, <2>6, <3>1, <3>4 DEF ByeInv, FlagInv
    <3>5. CASE pending[t] # bssrc
      BY <2>0, <2>1, <2>2, <2>6, <3>2, <3>3, <3>5 DEF ByeInv, FlagInv
    <3> QED BY <3>4, <3>5
  <2> QED BY <2>4, <2>5, <2>7 DEF ByeInv
<1>9. CASE SendAPP(t) /\ ~(pc' = [pc EXCEPT ![t] = "s_marked"])
  BY <1>3, <1>9 DEF SendAPP, ssrcs
<1>10. CASE /\ Goto(t, "a_pack", "idle")
            /\ UNCHANGED <<lock, ssrcs, sentpackets, byes, pending, history>>
  BY <1>3, <1>10 DEF Goto, ssrcs, history
<1> QED BY <1>1, <1>2, <1>4, <1>5, <1>6, <1>7, <1>8, <1>9, <1>10
        DEF SendPacket, SendRTCPAPPPacket, APPError, DataAccess, SetSessionBandwidth, SetSDES

\* The poll thread's steps that change SSRCs, the flag or the queue.
LEMMA PollDataBye ==
  ASSUME ByeInv, LockInv,
         \/ ReadSentPackets \/ BuildBYEPacket \/ (\E n \in SSRC : CreateNewSSRC(n)) \/ ResetSentPackets
         \/ SendCompound \/ SendBYE \/ PollSetSentPackets
  PROVE  ByeInv'
<1>0. /\ bssrc \in SSRC /\ byes \in Seq(SSRC) /\ used \subseteq SSRC
      /\ Poll \notin Users
  BY ThreadsAssumption DEF LockInv, TypeOK
<1>a. ASSUME NEW b, pc' = [pc EXCEPT ![Poll] = b]
      PROVE  /\ pc'[Poll] = b /\ InFlight' = InFlight
             /\ Unmarked' = Unmarked /\ Reading' = Reading
             /\ \A t \in Users : pc'[t] = pc[t]
  BY <1>0, <1>a DEF LockInv, TypeOK, Threads, InFlight, Unmarked, Reading
<1>1. CASE ReadSentPackets
  <2>0. /\ pc[Poll] = "p_hassent"
        /\ pc' = [pc EXCEPT ![Poll] = IF sentpackets THEN "p_bye" ELSE "p_new"]
        /\ raced' = IF \E t \in InFlight : pending[t] = bssrc THEN raced \cup {bssrc} ELSE raced
        /\ UNCHANGED <<own, bssrc, past, sentpackets, byes, pending, used, byesent, kept, late>>
    BY <1>1 DEF ReadSentPackets, ssrcs
  <2>1. /\ pc'[Poll] = IF sentpackets THEN "p_bye" ELSE "p_new"
        /\ Unmarked' = Unmarked /\ Reading' = Reading /\ \A x : Queued(x)' <=> Queued(x)
    BY <1>a, <2>0 DEF Queued
  <2>2. SSRCInv' /\ AppInv'
    BY <2>0, <2>1 DEF ByeInv, SSRCInv, AppInv, SSRCsAgree, BYEIsFinal, Leaving
  <2>3. ~sentpackets => (bssrc \in used => bssrc \in raced')
    BY <2>0 DEF ByeInv, FlagInv, Recording, InFlight
  <2>4. MissedBYEOnlyByRace'
    BY <2>0 DEF ByeInv, FlagInv, MissedBYEOnlyByRace
  <2>5. FlagInv'
    BY <2>0, <2>1, <2>3, <2>4 DEF ByeInv, FlagInv, Recording, Leaving, Changing
  <2> QED BY <2>2, <2>5 DEF ByeInv
<1>2. CASE BuildBYEPacket
  <2>0. /\ pc[Poll] = "p_build" /\ byes' = Append(byes, bssrc)
        /\ pc' = [pc EXCEPT ![Poll] = IF byes = <<>> THEN "p_queued" ELSE "p_new"]
        /\ UNCHANGED <<own, bssrc, past, sentpackets, pending, used, byesent, raced, kept, late>>
    BY <1>2 DEF BuildBYEPacket, ssrcs, history
  <2>1. /\ pc'[Poll] \in {"p_queued", "p_new"} /\ Unmarked' = Unmarked /\ Reading' = Reading
        /\ \A x : Queued(x)' <=> x = bssrc \/ Queued(x)
    <3>1. ASSUME NEW x
          PROVE  Queued(x)' <=> x = bssrc \/ Queued(x)
      <4>1. Holds(Append(byes, bssrc), x) <=> x = bssrc \/ Holds(byes, x)
        BY <1>0, QueueSteps, Zenon
      <4> QED BY <2>0, <4>1 DEF Queued, Holds
    <3>2. pc'[Poll] = (IF byes = <<>> THEN "p_queued" ELSE "p_new")
            /\ Unmarked' = Unmarked /\ Reading' = Reading
      BY <1>a, <2>0
    <3> QED BY <3>1, <3>2
  <2>2. SSRCInv' /\ AppInv'
    BY <1>0, <2>0, <2>1 DEF ByeInv, SSRCInv, AppInv, SSRCsAgree, BYEIsFinal, Leaving
  <2>3. MissedBYEOnlyByRace'
    <3>1. \A x \in used \ {bssrc} : x \in byesent \cup raced \/ Queued(x)'
      BY <2>1 DEF ByeInv, FlagInv, MissedBYEOnlyByRace, Queued
    <3> QED BY <2>0, <3>1 DEF MissedBYEOnlyByRace, Queued
  <2>4. FlagInv'
    BY <2>0, <2>1, <2>3 DEF ByeInv, FlagInv, Recording, Leaving, Changing
  <2> QED BY <2>2, <2>4 DEF ByeInv
<1>3. ASSUME NEW n \in SSRC, CreateNewSSRC(n) PROVE ByeInv'
  <2>0. /\ pc[Poll] = "p_newssrc" /\ pc' = [pc EXCEPT ![Poll] = "p_changed"]
        /\ n \notin past /\ bssrc' = n /\ past' = past \cup {n}
        /\ raced' = IF \E t \in InFlight : pending[t] = bssrc THEN raced \cup {bssrc} ELSE raced
        /\ kept' = IF \E t \in Reading : pending[t] = bssrc THEN kept \cup {bssrc} ELSE kept
        /\ UNCHANGED <<own, sentpackets, byes, pending, used, byesent, late>>
    BY <1>3 DEF CreateNewSSRC, Goto
  <2>1. /\ pc'[Poll] = "p_changed" /\ Unmarked' = Unmarked /\ Reading' = Reading
        /\ \A x : Queued(x)' <=> Queued(x)
    BY <1>a, <2>0 DEF Queued
  <2>2. SSRCInv' /\ AppInv'
    <3>1. SSRCInv'
      BY <2>0, <2>1 DEF ByeInv, SSRCInv, SSRCsAgree, BYEIsFinal, Leaving
    <3>2. Reading \subseteq InFlight /\ Reading \subseteq Users
      BY DEF InFlight, Reading
    <3>3. AppInv'
      BY <2>0, <2>1, <3>2 DEF ByeInv, AppInv
    <3> QED BY <3>1, <3>3
  <2>3. n \notin used
    BY <2>0 DEF ByeInv, SSRCInv
  <2>4. bssrc \in used => bssrc \in raced' \/ Queued(bssrc)
    <3>1. Unrecorded => \E t \in InFlight : pending[t] = bssrc
      BY DEF Unrecorded, InFlight, Unmarked
    <3> QED BY <2>0, <3>1 DEF ByeInv, FlagInv, Leaving
  <2>5. MissedBYEOnlyByRace'
    <3>1. \A x \in used : x \in byesent \cup raced' \/ Queued(x)
      BY <2>0, <2>4 DEF ByeInv, FlagInv, MissedBYEOnlyByRace, Queued
    <3> QED BY <2>0, <3>1 DEF MissedBYEOnlyByRace, Queued
  <2>6. FlagInv'
    BY <2>0, <2>3, <2>5 DEF FlagInv
  <2> QED BY <2>2, <2>6 DEF ByeInv
<1>4. CASE ResetSentPackets
  <2>0. /\ pc[Poll] = "p_reset" /\ pc' = [pc EXCEPT ![Poll] = "p_next"] /\ own' = bssrc
        /\ UNCHANGED <<bssrc, past, byes, pending, used, byesent, raced, kept, late>>
    BY <1>4 DEF ResetSentPackets, Goto, history
  <2>1. /\ pc'[Poll] = "p_next" /\ Unmarked' = Unmarked /\ Reading' = Reading
        /\ \A x : Queued(x)' <=> Queued(x)
    BY <1>a, <2>0 DEF Queued
  <2>2. SSRCInv' /\ AppInv'
    BY <2>0, <2>1 DEF ByeInv, SSRCInv, AppInv, SSRCsAgree, BYEIsFinal, Leaving
  <2>3. bssrc \in used => bssrc \in raced \/ \E t \in Unmarked : pending[t] = bssrc
    BY <2>0 DEF ByeInv, FlagInv, Changing, Unrecorded, Unmarked
  <2>4. MissedBYEOnlyByRace'
    BY <2>0 DEF ByeInv, FlagInv, MissedBYEOnlyByRace
  <2>5. FlagInv'
    BY <2>0, <2>1, <2>3, <2>4 DEF FlagInv, Recording, Leaving, Changing
  <2> QED BY <2>2, <2>5 DEF ByeInv
<1>5. CASE SendCompound
  <2>0. /\ pc[Poll] = "p_rtcpsend" /\ pc' = [pc EXCEPT ![Poll] = "p_mark"] /\ used' = used \cup {bssrc}
        /\ late' = late \cup ({bssrc} \cap byesent)
        /\ UNCHANGED <<own, bssrc, past, sentpackets, byes, pending, byesent, raced, kept>>
    BY <1>5 DEF SendCompound, Sent, Goto, ssrcs
  <2>1. /\ pc'[Poll] = "p_mark" /\ Unmarked' = Unmarked /\ Reading' = Reading
        /\ \A x : Queued(x)' <=> Queued(x)
    BY <1>a, <2>0 DEF Queued
  <2>2. SSRCInv' /\ AppInv'
    BY <2>0, <2>1 DEF ByeInv, SSRCInv, AppInv, SSRCsAgree, BYEIsFinal, Leaving
  <2>3. MissedBYEOnlyByRace'
    BY <2>0 DEF ByeInv, FlagInv, MissedBYEOnlyByRace
  <2>4. FlagInv'
    BY <2>1, <2>3 DEF FlagInv, Recording, Leaving, Changing
  <2> QED BY <2>2, <2>4 DEF ByeInv
<1>6. CASE SendBYE
  <2>0. /\ pc[Poll] = "p_sendbye" /\ byes # <<>> /\ byes' = Tail(byes)
        /\ byesent' = byesent \cup {Head(byes)}
        /\ UNCHANGED <<own, bssrc, past, sentpackets, pending, used, raced, kept, late>>
    BY <1>6 DEF SendBYE, ssrcs
  <2>1. PICK b \in {"p_mark", "p_dead"} : pc' = [pc EXCEPT ![Poll] = b]
    BY <1>6 DEF SendBYE
  <2>2. /\ pc'[Poll] = b /\ Unmarked' = Unmarked /\ Reading' = Reading
    BY <1>a, <2>1
  <2>3. Head(byes) \in SSRC /\ \A x : Queued(x) <=> x = Head(byes) \/ Queued(x)'
    <3>1. ASSUME NEW x
          PROVE  Head(byes) \in SSRC /\ (Queued(x) <=> x = Head(byes) \/ Queued(x)')
      <4>1. Head(byes) \in SSRC /\ (Holds(byes, x) <=> x = Head(byes) \/ Holds(Tail(byes), x))
        BY <1>0, <2>0, QueueSteps, Zenon
      <4> QED BY <2>0, <4>1 DEF Queued, Holds
    <3> QED BY <3>1
  <2>4. SSRCInv' /\ AppInv'
    BY <2>0, <2>2, <2>3 DEF ByeInv, SSRCInv, AppInv, SSRCsAgree, BYEIsFinal, Leaving
  <2>5. MissedBYEOnlyByRace'
    <3>1. \A x \in used \ {bssrc} : x \in byesent' \cup raced \/ Queued(x)'
      BY <2>0, <2>3, Zenon DEF ByeInv, FlagInv, MissedBYEOnlyByRace, Queued
    <3> QED BY <2>0, <3>1 DEF MissedBYEOnlyByRace, Queued
  <2>6. FlagInv'
    BY <2>0, <2>2, <2>5 DEF ByeInv, FlagInv, Recording, Leaving, Changing
  <2> QED BY <2>4, <2>6 DEF ByeInv
<1>7. CASE PollSetSentPackets
  <2>0. /\ pc[Poll] = "p_marked" /\ sentpackets' = TRUE
        /\ pc' = [pc EXCEPT ![Poll] = IF byes = <<>> THEN "p_out" ELSE "p_more"]
        /\ UNCHANGED <<own, bssrc, past, byes, pending, used, byesent, raced, kept, late>>
    BY <1>7 DEF PollSetSentPackets, ssrcs, history
  <2>1. /\ pc'[Poll] \in {"p_out", "p_more"} /\ Unmarked' = Unmarked /\ Reading' = Reading
        /\ \A x : Queued(x)' <=> Queued(x)
    BY <1>a, <2>0 DEF Queued
  <2>2. SSRCInv' /\ AppInv'
    BY <2>0, <2>1 DEF ByeInv, SSRCInv, AppInv, SSRCsAgree, BYEIsFinal, Leaving
  <2>3. MissedBYEOnlyByRace'
    BY <2>0 DEF ByeInv, FlagInv, MissedBYEOnlyByRace
  <2>4. FlagInv'
    BY <2>0, <2>1, <2>3 DEF FlagInv, Leaving, Changing
  <2> QED BY <2>2, <2>4 DEF ByeInv
<1> QED BY <1>1, <1>2, <1>3, <1>4, <1>5, <1>6, <1>7

\* SSRCs, flag and BYE queue are right in every state.
THEOREM ByeInvariance == Spec => []ByeInv
<1>1. Init => ByeInv
  <2> SUFFICES ASSUME Init PROVE ByeInv
    OBVIOUS
  <2>1. \A x : ~Queued(x)
    BY DEF Init, Queued
  <2>2. pc[Poll] = "p_top"
    BY DEF Init, Threads
  <2>3. SSRCInv
    BY <2>1, <2>2 DEF Init, SSRCInv, SSRCsAgree, BYEIsFinal
  <2>4. AppInv
    BY DEF Init, AppInv, Reading
  <2>5. FlagInv
    BY <2>2 DEF Init, FlagInv, MissedBYEOnlyByRace
  <2> QED BY <2>3, <2>4, <2>5 DEF ByeInv
<1>2. ByeInv /\ LockInv /\ [Next]_vars => ByeInv'
  <2> SUFFICES ASSUME ByeInv, LockInv, [Next]_vars PROVE ByeInv'
    OBVIOUS
  <2>1. CASE UNCHANGED vars
    BY <2>1 DEF ByeInv, SSRCInv, AppInv, FlagInv, SSRCsAgree, BYEIsFinal, MissedBYEOnlyByRace, Queued,
       Unrecorded, Unmarked, Reading, vars, ssrcs, history
  <2>2. CASE \E t \in Users : \/ SendPacket(t) \/ SendRTCPAPPPacket(t) \/ DataAccess(t)
                              \/ SetSessionBandwidth(t) \/ SetSDES(t)
    BY <2>2, UserBye
  <2>3. CASE TransmissionDelay \/ RawPacket \/ Collision \/ OutgoingRTCP \/ PollError
    BY <2>3, PollMovesBye, PollDataBye DEF Collision, OutgoingRTCP
  <2> QED BY <2>1, <2>2, <2>3 DEF Next
<1> QED BY <1>1, <1>2, LockInvariance, PTL DEF Spec

\* Outside the poll thread's critical section, source table and packet builder
\* agree on our SSRC.
THEOREM SSRCsAgreeCorrect == Spec => []SSRCsAgree
<1>1. ByeInv => SSRCsAgree
  BY DEF ByeInv, SSRCInv
<1> QED BY <1>1, ByeInvariance, PTL

\* The packet builder never has an SSRC whose BYE has been sent, and only a
\* SendRTCPAPPPacket call that had read it before still sends a packet with it.
THEOREM BYEIsFinalCorrect == Spec => []BYEIsFinal
<1>1. ByeInv => BYEIsFinal
  BY DEF ByeInv, SSRCInv
<1> QED BY <1>1, ByeInvariance, PTL

\* A BYE is missing only for an SSRC with which a SendPacket or
\* SendRTCPAPPPacket call was under way during a change of SSRC.
THEOREM MissedBYECorrect == Spec => []MissedBYEOnlyByRace
<1>1. ByeInv => MissedBYEOnlyByRace
  BY DEF ByeInv, FlagInv
<1> QED BY <1>1, ByeInvariance, PTL
=============================================================================
