-------------------------- MODULE RtpReceive_proofs --------------------------
(***************************************************************************)
(* The safety properties of the receiver that its runs check, for a        *)
(* source table of any size.  DataAccessExclusive needs to know which      *)
(* thread owns the mutex wherever it uses the table, also on the path on   *)
(* which BeginDataAccess found no session and locked nothing;              *)
(* LockLeakOnlyAtStop needs that the callback is registered wherever a     *)
(* packet is looked at: it is registered after the session is created, and *)
(* with the poll thread running, but before the receive thread starts.     *)
(* The last part is about the handshake with which the poll thread starts  *)
(* and what Stop can rely on when it ends.                                 *)
(***************************************************************************)
EXTENDS RtpReceive, TLAPS

\* The table is used under the mutex only.  A receive thread that skipped the
\* lock because there was no session never unlocks: sessions are not created
\* while it runs.
OwnerInv ==
  /\ poll \in {"delay", "process"} => lock = "poll"
  /\ recv \in {"access", "packet", "callback"} => lock = "recv"
  /\ recv = "leave" /\ created => lock = "recv"

\* What is started when, and which thread can rely on the callback.
StartInv ==
  /\ jni = "new" => recv = "none" /\ poll = "none" /\ ~created
  /\ jni \in {"start", "started", "codec"} => recv = "none"
  /\ created => registered
  /\ recv \in {"want", "access", "packet", "callback"} => registered
  /\ recv = "exited" => ~mRunning

IndInv == TypeOK /\ OwnerInv /\ StartInv

LEMMA InitInv == Init => IndInv
<1> SUFFICES ASSUME Init PROVE IndInv
  OBVIOUS
<1>1. queue \in 0..MaxQueue
  BY QueueAssumption DEF Init
<1>2. TypeOK
  BY <1>1 DEF Init, TypeOK, PlacesOK, FlagsOK, JniPC, RecvPC, PollPC
<1>3. OwnerInv
  BY DEF Init, OwnerInv
<1>4. StartInv
  BY DEF Init, StartInv
<1> QED BY <1>2, <1>3, <1>4 DEF IndInv

\* The JNI thread clears flags and the table without the mutex; it never takes
\* the mutex away from a thread that is at work.
LEMMA JniStep ==
  ASSUME IndInv, Jni
  PROVE  IndInv'
<1> USE DEF IndInv, TypeOK, JniPC, flags, shake, stops, sched
<1>1. CASE CreateCodec
  <2>1. PlacesOK'
    BY <1>1 DEF CreateCodec, PlacesOK, PollPC
  <2>2. FlagsOK'
    BY <1>1, Zenon DEF CreateCodec, FlagsOK
  <2>3. OwnerInv' /\ StartInv'
    BY <1>1 DEF CreateCodec, OwnerInv, StartInv
  <2> QED BY <2>1, <2>2, <2>3
<1>11. CASE JThreadStart
  <2>1. PlacesOK'
    BY <1>11 DEF JThreadStart, PlacesOK
  <2>2. FlagsOK'
    BY <1>11, Zenon DEF JThreadStart, FlagsOK
  <2>3. OwnerInv' /\ StartInv'
    BY <1>11 DEF JThreadStart, OwnerInv, StartInv
  <2> QED BY <2>1, <2>2, <2>3
<1>2. CASE StartVideo
  <2>1. PlacesOK'
    BY <1>2 DEF StartVideo, PlacesOK, RecvPC
  <2>2. FlagsOK'
    BY <1>2, Zenon DEF StartVideo, FlagsOK
  <2>3. OwnerInv' /\ StartInv'
    BY <1>2 DEF StartVideo, OwnerInv, StartInv
  <2> QED BY <2>1, <2>2, <2>3
<1>3. CASE stopThread
  <2>1. PlacesOK'
    BY <1>3 DEF stopThread, PlacesOK
  <2>2. FlagsOK'
    BY <1>3, Zenon DEF stopThread, FlagsOK
  <2>3. OwnerInv' /\ StartInv'
    BY <1>3 DEF stopThread, OwnerInv, StartInv
  <2> QED BY <2>1, <2>2, <2>3
<1>4. CASE StopCodec
  <2>1. PlacesOK'
    BY <1>4 DEF StopCodec, PlacesOK
  <2>2. FlagsOK'
    BY <1>4, Zenon DEF StopCodec, FlagsOK
  <2>3. OwnerInv' /\ StartInv'
    BY <1>4 DEF StopCodec, OwnerInv, StartInv
  <2> QED BY <2>1, <2>2, <2>3
<1>5. CASE StopPollThread
  <2>1. PlacesOK'
    BY <1>5 DEF StopPollThread, PlacesOK
  <2>2. FlagsOK'
    BY <1>5, Zenon DEF StopPollThread, FlagsOK
  <2>3. OwnerInv' /\ StartInv'
    BY <1>5 DEF StopPollThread, OwnerInv, StartInv
  <2> QED BY <2>1, <2>2, <2>3
<1>6. CASE AbortWait
  <2>1. PlacesOK'
    BY <1>6 DEF AbortWait, PlacesOK
  <2>2. FlagsOK'
    BY <1>6, Zenon DEF AbortWait, FlagsOK
  <2>3. OwnerInv' /\ StartInv'
    BY <1>6 DEF AbortWait, OwnerInv, StartInv
  <2> QED BY <2>1, <2>2, <2>3
<1>7. CASE Join
  <2>1. PlacesOK'
    BY <1>7 DEF Join, PlacesOK
  <2>2. FlagsOK'
    BY <1>7, Zenon DEF Join, FlagsOK
  <2>3. OwnerInv' /\ StartInv'
    BY <1>7 DEF Join, OwnerInv, StartInv
  <2> QED BY <2>1, <2>2, <2>3
<1>8. CASE FlushBYE
  <2>1. PlacesOK'
    BY <1>8 DEF FlushBYE, PlacesOK
  <2>2. FlagsOK'
    BY <1>8, Zenon DEF FlushBYE, FlagsOK
  <2>3. OwnerInv' /\ StartInv'
    BY <1>8 DEF FlushBYE, OwnerInv, StartInv
  <2> QED BY <2>1, <2>2, <2>3
<1>9. CASE ClearSources
  <2>0. queue' \in 0..MaxQueue
    BY <1>9, QueueAssumption DEF ClearSources, PlacesOK
  <2>1. PlacesOK'
    BY <1>9, <2>0 DEF ClearSources, PlacesOK
  <2>2. FlagsOK'
    BY <1>9, Zenon DEF ClearSources, FlagsOK
  <2>3. OwnerInv' /\ StartInv'
    BY <1>9 DEF ClearSources, OwnerInv, StartInv
  <2> QED BY <2>1, <2>2, <2>3
<1>10. CASE DeleteReceive
  <2>1. PlacesOK'
    BY <1>10 DEF DeleteReceive, PlacesOK
  <2>2. FlagsOK'
    BY <1>10, Zenon DEF DeleteReceive, FlagsOK
  <2>3. OwnerInv' /\ StartInv'
    BY <1>10 DEF DeleteReceive, OwnerInv, StartInv
  <2> QED BY <2>1, <2>2, <2>3
<1> QED BY <1>1, <1>2, <1>3, <1>4, <1>5, <1>6, <1>7, <1>8, <1>9, <1>10, <1>11 DEF Jni

\* The receive thread leaves the loop at its head, or in the middle of it with
\* the mutex held, but never while the receiver runs.
LEMMA RecvStep ==
  ASSUME IndInv, Recv
  PROVE  IndInv'
<1> USE DEF IndInv, TypeOK, RecvPC, RecvGoto, flags, shake, stops, sched
<1>1. CASE LoopHead
  <2>1. PlacesOK'
    BY <1>1 DEF LoopHead, PlacesOK
  <2>2. FlagsOK'
    BY <1>1, Zenon DEF LoopHead, FlagsOK
  <2>3. OwnerInv' /\ StartInv'
    BY <1>1 DEF LoopHead, OwnerInv, StartInv
  <2> QED BY <2>1, <2>2, <2>3
<1>2. CASE BeginDataAccess
  <2>1. PlacesOK'
    BY <1>2 DEF BeginDataAccess, PlacesOK
  <2>2. FlagsOK'
    BY <1>2, Zenon DEF BeginDataAccess, FlagsOK
  <2>3. OwnerInv' /\ StartInv'
    BY <1>2 DEF BeginDataAccess, OwnerInv, StartInv
  <2> QED BY <2>1, <2>2, <2>3
<1>3. CASE SourcesLock
  <2>1. PlacesOK'
    BY <1>3 DEF SourcesLock, PlacesOK
  <2>2. FlagsOK'
    BY <1>3, Zenon DEF SourcesLock, FlagsOK
  <2>3. OwnerInv' /\ StartInv'
    BY <1>3 DEF SourcesLock, OwnerInv, StartInv
  <2> QED BY <2>1, <2>2, <2>3
<1>4. CASE GetNextPacket
  <2>0. queue' \in 0..MaxQueue
    BY <1>4, QueueAssumption DEF GetNextPacket, PlacesOK
  <2>1. PlacesOK'
    BY <1>4, <2>0 DEF GetNextPacket, PlacesOK
  <2>2. FlagsOK'
    BY <1>4, Zenon DEF GetNextPacket, FlagsOK
  <2>3. OwnerInv' /\ StartInv'
    BY <1>4 DEF GetNextPacket, OwnerInv, StartInv
  <2> QED BY <2>1, <2>2, <2>3
<1>5. CASE HandlePacket
  <2>1. PlacesOK'
    BY <1>5 DEF HandlePacket, PlacesOK
  <2>2. FlagsOK'
    BY <1>5, Zenon DEF HandlePacket, FlagsOK
  <2>3. OwnerInv' /\ StartInv'
    BY <1>5 DEF HandlePacket, OwnerInv, StartInv
  <2> QED BY <2>1, <2>2, <2>3
<1>6. CASE ReceiveSource
  <2>1. PlacesOK'
    BY <1>6 DEF ReceiveSource, PlacesOK
  <2>2. FlagsOK'
    BY <1>6, Zenon DEF ReceiveSource, FlagsOK
  <2>3. OwnerInv' /\ StartInv'
    BY <1>6 DEF ReceiveSource, OwnerInv, StartInv
  <2> QED BY <2>1, <2>2, <2>3
<1>7. CASE EndDataAccess
  <2>1. PlacesOK'
    BY <1>7 DEF EndDataAccess, PlacesOK
  <2>2. FlagsOK'
    BY <1>7, Zenon DEF EndDataAccess, FlagsOK
  <2>3. OwnerInv' /\ StartInv'
    BY <1>7 DEF EndDataAccess, OwnerInv, StartInv
  <2> QED BY <2>1, <2>2, <2>3
<1> QED BY <1>1, <1>2, <1>3, <1>4, <1>5, <1>6, <1>7 DEF Recv

LEMMA PollStep ==
  ASSUME IndInv, PollThread
  PROVE  IndInv'
<1> USE DEF IndInv, TypeOK, PollPC, PollGoto, flags, shake, stops, sched
<1>6. CASE TheThread
  <2>1. PlacesOK'
    BY <1>6 DEF TheThread, PlacesOK
  <2>2. FlagsOK'
    BY <1>6, Zenon DEF TheThread, FlagsOK
  <2>3. OwnerInv' /\ StartInv'
    BY <1>6 DEF TheThread, OwnerInv, StartInv
  <2> QED BY <2>1, <2>2, <2>3
<1>1. CASE CheckStop
  <2>1. PlacesOK'
    BY <1>1 DEF CheckStop, PlacesOK
  <2>2. FlagsOK'
    BY <1>1, Zenon DEF CheckStop, FlagsOK
  <2>3. OwnerInv' /\ StartInv'
    BY <1>1 DEF CheckStop, OwnerInv, StartInv
  <2> QED BY <2>1, <2>2, <2>3
<1>2. CASE GetTransmissionDelay
  <2>1. PlacesOK'
    BY <1>2 DEF GetTransmissionDelay, PlacesOK
  <2>2. FlagsOK'
    BY <1>2, Zenon DEF GetTransmissionDelay, FlagsOK
  <2>3. OwnerInv' /\ StartInv'
    BY <1>2 DEF GetTransmissionDelay, OwnerInv, StartInv
  <2> QED BY <2>1, <2>2, <2>3
<1>3. CASE WaitForIncomingData
  <2>1. PlacesOK'
    BY <1>3 DEF WaitForIncomingData, PlacesOK
  <2>2. FlagsOK'
    BY <1>3, Zenon DEF WaitForIncomingData, FlagsOK
  <2>3. OwnerInv' /\ StartInv'
    BY <1>3 DEF WaitForIncomingData, OwnerInv, StartInv
  <2> QED BY <2>1, <2>2, <2>3
<1>4. CASE ProcessPolledData
  <2>0. queue' \in 0..MaxQueue
    BY <1>4, QueueAssumption DEF ProcessPolledData, PlacesOK
  <2>1. PlacesOK'
    BY <1>4, <2>0 DEF ProcessPolledData, PlacesOK
  <2>2. FlagsOK'
    BY <1>4, Zenon DEF ProcessPolledData, NextRTCP, FlagsOK
  <2>3. OwnerInv' /\ StartInv'
    BY <1>4 DEF ProcessPolledData, OwnerInv, StartInv
  <2> QED BY <2>1, <2>2, <2>3
<1>5. CASE PollThreadError
  <2>1. PlacesOK'
    BY <1>5 DEF PollThreadError, PlacesOK
  <2>2. FlagsOK'
    BY <1>5, Zenon DEF PollThreadError, FlagsOK
  <2>3. OwnerInv' /\ StartInv'
    BY <1>5 DEF PollThreadError, OwnerInv, StartInv
  <2> QED BY <2>1, <2>2, <2>3
<1> QED BY <1>1, <1>2, <1>3, <1>4, <1>5, <1>6 DEF PollThread

\* The inductive invariant holds of every state of the receiver.
THEOREM Invariance == Spec => []IndInv
<1>1. IndInv /\ [Next]_vars => IndInv'
  <2> SUFFICES ASSUME IndInv, [Next]_vars PROVE IndInv'
    OBVIOUS
  <2>1. CASE UNCHANGED vars
    BY <2>1 DEF vars, flags, shake, stops, sched, IndInv, TypeOK, PlacesOK, FlagsOK, OwnerInv, StartInv
  <2>2. CASE Next
    BY <2>2, JniStep, RecvStep, PollStep DEF Next
  <2> QED BY <2>1, <2>2
<1> QED BY InitInv, <1>1, PTL DEF Spec

\* The poll thread and the receive thread are never in the source table at the
\* same time, whatever the JNI thread does to the session meanwhile.
THEOREM DataAccessCorrect == Spec => []DataAccessExclusive
<1>1. IndInv => DataAccessExclusive
  BY DEF IndInv, OwnerInv, DataAccessExclusive, InTable
<1> QED BY Invariance, <1>1, PTL

\* The early return of threadLoop never blocks the poll thread of a receiver
\* that is running.
THEOREM LockLeakCorrect == Spec => []LockLeakOnlyAtStop
<1>1. IndInv => LockLeakOnlyAtStop
  BY DEF IndInv, StartInv, LockLeakOnlyAtStop
<1> QED BY Invariance, <1>1, PTL

-----------------------------------------------------------------------------
(* The handshake of JThread, and what Stop can conclude from `running`     *)

\* continuemutex is held as long as Start waits for the thread, continuemutex2
\* from before `running` is set until ThreadStarted; so the thread cannot pass
\* Start, nor Start the thread.  `running` tells a thread at work from one that
\* has ended once Start has returned, and Stop is called for created sessions.
HandshakeInv ==
  /\ continuemutex = "jni" <=> jni = "start"
  /\ continuemutex2 = "poll" <=> poll \in {"running", "begun"}
  /\ jni = "start" => poll \in {"born", "running"}
  /\ jni = "started" => poll \notin {"none", "born"}
  /\ running => poll \notin {"none", "born", "ended"}
  /\ ~running => poll \in {"none", "born", "ended"} \/ killed
  /\ jni \in {"abort", "joining", "flush", "clear"} => created

WaitsInv == HandshakeInv /\ StartWaitsForThread /\ StopWaitsForThread

\* Start and the new thread let each other go on in turn.
LEMMA HandshakeJni ==
  ASSUME IndInv, WaitsInv, Jni
  PROVE  WaitsInv'
<1> USE DEF IndInv, TypeOK, PlacesOK, FlagsOK, StartInv, flags, shake, stops, sched
<1>1. CASE CreateCodec
  BY <1>1 DEF CreateCodec, WaitsInv, HandshakeInv, StartWaitsForThread, StopWaitsForThread
<1>2. CASE JThreadStart
  BY <1>2 DEF JThreadStart, WaitsInv, HandshakeInv, StartWaitsForThread, StopWaitsForThread
<1>3. CASE StartVideo \/ stopThread \/ StopCodec
  BY <1>3 DEF StartVideo, stopThread, StopCodec, WaitsInv, HandshakeInv, StartWaitsForThread,
              StopWaitsForThread
<1>4. CASE StopPollThread
  BY <1>4 DEF StopPollThread, WaitsInv, HandshakeInv, StartWaitsForThread, StopWaitsForThread
<1>5. CASE AbortWait
  BY <1>5 DEF AbortWait, WaitsInv, HandshakeInv, StartWaitsForThread, StopWaitsForThread
<1>6. CASE Join
  BY <1>6 DEF Join, WaitsInv, HandshakeInv, StartWaitsForThread, StopWaitsForThread
<1>7. CASE FlushBYE \/ ClearSources \/ DeleteReceive
  BY <1>7 DEF FlushBYE, ClearSources, DeleteReceive, WaitsInv, HandshakeInv,
              StartWaitsForThread, StopWaitsForThread
<1> QED BY <1>1, <1>2, <1>3, <1>4, <1>5, <1>6, <1>7 DEF Jni

\* The receive thread has no part in it.
LEMMA HandshakeRecv ==
  ASSUME WaitsInv, Recv
  PROVE  WaitsInv'
<1>1. UNCHANGED <<jni, poll, created, running, continuemutex, continuemutex2, killed>>
  BY DEF Recv, LoopHead, BeginDataAccess, SourcesLock, GetNextPacket, HandlePacket, ReceiveSource,
         EndDataAccess, flags, shake, stops
<1> QED BY <1>1 DEF WaitsInv, HandshakeInv, StartWaitsForThread, StopWaitsForThread

\* A thread that goes on was born, one that ends has cleared `running`.
LEMMA HandshakePoll ==
  ASSUME IndInv, WaitsInv, PollThread
  PROVE  WaitsInv'
<1> USE DEF IndInv, TypeOK, PlacesOK, FlagsOK, PollGoto, flags, shake, stops, sched
<1>1. CASE TheThread
  BY <1>1 DEF TheThread, WaitsInv, HandshakeInv, StartWaitsForThread, StopWaitsForThread
<1>2. CASE CheckStop
  BY <1>2 DEF CheckStop, WaitsInv, HandshakeInv, StartWaitsForThread, StopWaitsForThread
<1>3. CASE GetTransmissionDelay \/ WaitForIncomingData \/ ProcessPolledData
  BY <1>3 DEF GetTransmissionDelay, WaitForIncomingData, ProcessPolledData, WaitsInv, HandshakeInv,
              StartWaitsForThread, StopWaitsForThread
<1>4. CASE PollThreadError
  BY <1>4 DEF PollThreadError, WaitsInv, HandshakeInv, StartWaitsForThread, StopWaitsForThread
<1> QED BY <1>1, <1>2, <1>3, <1>4 DEF PollThread

LEMMA WaitsInvariance == Spec => []WaitsInv
<1>1. Init => WaitsInv
  BY DEF Init, WaitsInv, HandshakeInv, StartWaitsForThread, StopWaitsForThread
<1>2. IndInv /\ WaitsInv /\ [Next]_vars => WaitsInv'
  <2>1. ASSUME UNCHANGED vars, WaitsInv PROVE WaitsInv'
    BY <2>1 DEF vars, flags, shake, stops, WaitsInv, HandshakeInv, StartWaitsForThread,
                StopWaitsForThread
  <2> QED BY <2>1, HandshakeJni, HandshakeRecv, HandshakePoll DEF Next
<1> QED BY <1>1, <1>2, Invariance, PTL DEF Spec

\* Whatever the two threads' turns at the flag and the two mutexes, JThread::Start
\* returns only when the new thread has called ThreadStarted.
THEOREM StartWaitsCorrect == Spec => []StartWaitsForThread
<1>1. WaitsInv => StartWaitsForThread
  BY DEF WaitsInv
<1> QED BY WaitsInvariance, <1>1, PTL

\* After RTPPollThread::Stop the poll thread has ended or was given up, also when
\* it died of an error before or was stopped in its very first round.
THEOREM StopWaitsCorrect == Spec => []StopWaitsForThread
<1>1. WaitsInv => StopWaitsForThread
  BY DEF WaitsInv
<1> QED BY WaitsInvariance, <1>1, PTL
=============================================================================
