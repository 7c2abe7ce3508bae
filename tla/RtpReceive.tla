----------------------------- MODULE RtpReceive -----------------------------
(***************************************************************************)
(* The receiving side from StartCodecRecver to StopCodecRecver: the JNI    *)
(* thread, the detached receive thread of RtpReceive and the poll thread   *)
(* of its RTP session, which share the source table, the sources mutex and *)
(* a few flags that no mutex protects.  The poll thread is born with the   *)
(* handshake of JThread.                                                   *)
(*                                                                         *)
(* Time is abstracted to its effect: the 5 seconds RTPPollThread::Stop     *)
(* waits are over exactly when the poll thread cannot come to an end by    *)
(* itself that fast (PollStuck).  The object is deleted when `jni` is      *)
(* "deleted"; what a thread does with it afterwards is undefined and not   *)
(* modelled.                                                               *)
(***************************************************************************)
EXTENDS Integers

CONSTANT MaxQueue   \* bound: packets stored in the source table at a time

ASSUME QueueAssumption == MaxQueue \in Nat \ {0}

VARIABLES
  jni, recv, poll,  \* where the three threads are
  lock,             \* the owner of sourcesmutex
  mRunning,         \* RtpReceive::mRunning
  registered,       \* mStreamBase # NULL
  created,          \* RTPSession::created
  codec,            \* "none", "running", "stopped"
  running,          \* JThread::running
  continuemutex,    \* the owners of the two mutexes of the handshake
  continuemutex2,
  stop,             \* RTPPollThread::stop
  aborted,          \* a byte written by AbortWait is in the pipe
  killed,           \* JThread::Kill was called
  hassentrtcp,      \* RTCPScheduler::hassentrtcp
  longdelay,        \* the next RTCP packet is due in more than 5 seconds
  queue             \* packets waiting in the source table

flags == <<mRunning, registered, created, codec>>
shake == <<continuemutex, continuemutex2>>
stops == <<stop, aborted, killed>>
sched == <<hassentrtcp, longdelay>>
vars  == <<jni, recv, poll, lock, flags, running, shake, stops, sched, queue>>

JniPC  == {"new", "start", "started", "codec", "up", "stopping", "deinit",
           "abort", "joining", "flush", "clear", "delete", "deleted"}
RecvPC == {"none", "top", "begin", "want", "access", "packet", "callback",
           "leave", "exited"}
PollPC == {"none", "born", "running", "begun", "top", "delay", "select", "wait",
           "got", "process", "check", "ended"}

PlacesOK ==
  /\ jni \in JniPC /\ recv \in RecvPC /\ poll \in PollPC
  /\ lock \in {"free", "recv", "poll"}
  /\ continuemutex \in {"free", "jni"} /\ continuemutex2 \in {"free", "poll"}
  /\ codec \in {"none", "running", "stopped"}
  /\ queue \in 0..MaxQueue

FlagsOK ==
  /\ mRunning \in BOOLEAN /\ registered \in BOOLEAN /\ created \in BOOLEAN
  /\ running \in BOOLEAN
  /\ stop \in BOOLEAN /\ aborted \in BOOLEAN /\ killed \in BOOLEAN
  /\ hassentrtcp \in BOOLEAN /\ longdelay \in BOOLEAN

TypeOK == PlacesOK /\ FlagsOK

Init ==
  /\ jni = "new" /\ recv = "none" /\ poll = "none" /\ lock = "free"
  /\ mRunning = FALSE /\ registered = FALSE /\ created = FALSE /\ codec = "none"
  /\ running = FALSE /\ continuemutex = "free" /\ continuemutex2 = "free"
  /\ stop = FALSE /\ aborted = FALSE /\ killed = FALSE
  /\ hassentrtcp = FALSE /\ longdelay = FALSE
  /\ queue = 0

-----------------------------------------------------------------------------
(* The JNI thread: StartCodecRecver, then StopCodecRecver                  *)

\* initSession ends with the birth of the poll thread; JThread::Start holds
\* continuemutex meanwhile.  A failed initSession is logged and otherwise
\* ignored: there is no session, no poll thread and no callback, and
\* everything is started all the same.
CreateCodec ==
  /\ jni = "new"
  /\ \/ jni' = "start" /\ poll' = "born" /\ continuemutex' = "jni"
     \/ jni' = "codec" /\ UNCHANGED <<poll, continuemutex>>
  /\ UNCHANGED <<recv, lock, flags, running, continuemutex2, stops, sched, queue>>

\* Start looks at `running` again and again, lets the thread go on and passes
\* continuemutex2 when the thread has called ThreadStarted.  Only then is the
\* session marked created and the callback registered.
JThreadStart ==
  /\ \/ /\ jni = "start" /\ running /\ jni' = "started"
        /\ continuemutex' = "free" /\ UNCHANGED <<created, registered>>
     \/ /\ jni = "started" /\ continuemutex2 = "free" /\ jni' = "codec"
        /\ created' = TRUE /\ registered' = TRUE /\ UNCHANGED continuemutex
  /\ UNCHANGED <<recv, poll, lock, mRunning, codec, running, continuemutex2, stops,
                 sched, queue>>

\* The result of pthread_create is not looked at.
StartVideo ==
  /\ jni = "codec" /\ jni' = "up"
  /\ codec' = "running" /\ mRunning' = TRUE
  /\ recv' \in {"top", "none"}
  /\ UNCHANGED <<poll, lock, registered, created, running, shake, stops, sched,
                 queue>>

stopThread ==
  /\ jni = "up" /\ jni' = "stopping"
  /\ mRunning' = FALSE
  /\ UNCHANGED <<recv, poll, lock, registered, created, codec, running, shake,
                 stops, sched, queue>>

\* DeInit calls StopVideo again, which finds nothing left to do.
StopCodec ==
  /\ jni = "stopping" /\ jni' = "deinit"
  /\ codec' = "stopped"
  /\ UNCHANGED <<recv, poll, lock, mRunning, registered, created, running,
                 shake, stops, sched, queue>>

\* BYEDestroy up to the point where the poll thread is told to stop.
StopPollThread ==
  /\ jni = "deinit"
  /\ IF created /\ running
     THEN jni' = "abort" /\ stop' = TRUE
     ELSE jni' = (IF created THEN "flush" ELSE "delete") /\ UNCHANGED stop
  /\ UNCHANGED <<recv, poll, lock, flags, running, shake, aborted, killed,
                 sched, queue>>

\* AbortWait does nothing when the poll thread is not inside select.
AbortWait ==
  /\ jni = "abort" /\ jni' = "joining"
  /\ aborted' = (poll = "wait")
  /\ UNCHANGED <<recv, poll, lock, flags, running, shake, stop, killed, sched,
                 queue>>

\* The poll thread cannot end within 5 seconds: it is inside select with
\* nothing to wake it before the next RTCP packet is due, or it waits for a
\* mutex whose owner is gone.
PollStuck ==
  \/ poll = "wait" /\ ~aborted /\ longdelay
  \/ poll \in {"top", "got"} /\ lock = "recv" /\ recv = "exited"

\* Mutant: Stop waits until the thread has ended.
JoinWithoutLimit ==
  /\ jni = "joining" /\ jni' = "flush" /\ stop' = FALSE
  /\ ~running /\ UNCHANGED <<killed, running>>
  /\ UNCHANGED <<recv, poll, lock, flags, shake, aborted, sched, queue>>

\* Mutant: Stop waits no longer than until it has asked the thread to stop.
JoinAtOnce ==
  /\ jni = "joining" /\ jni' = "flush" /\ stop' = FALSE
  /\ \/ stop /\ UNCHANGED <<killed, running>>
     \/ running /\ PollStuck /\ killed' = TRUE /\ running' = FALSE
  /\ UNCHANGED <<recv, poll, lock, flags, shake, aborted, sched, queue>>

\* Stop ends when the thread has, or kills it: pthread_kill(SIGUSR1) does not
\* end a thread, but `running` is cleared and the thread object deleted.
Join ==
  /\ jni = "joining" /\ jni' = "flush" /\ stop' = FALSE
  /\ \/ ~running /\ UNCHANGED <<killed, running>>
     \/ running /\ PollStuck /\ killed' = TRUE /\ running' = FALSE
  /\ UNCHANGED <<recv, poll, lock, flags, shake, aborted, sched, queue>>

\* The BYE packet (at most 1 second), then the transmitter is deleted.
FlushBYE ==
  /\ jni = "flush" /\ jni' = "clear"
  /\ UNCHANGED <<recv, poll, lock, flags, running, shake, stops, sched, queue>>

\* sources.Clear, without the sources mutex.
ClearSources ==
  /\ jni = "clear" /\ jni' = "delete"
  /\ queue' = 0 /\ created' = FALSE
  /\ UNCHANGED <<recv, poll, lock, mRunning, registered, codec, running, shake,
                 stops, sched>>

DeleteReceive ==
  /\ jni = "delete" /\ jni' = "deleted"
  /\ UNCHANGED <<recv, poll, lock, flags, running, shake, stops, sched, queue>>

Jni == \/ CreateCodec \/ JThreadStart \/ StartVideo \/ stopThread \/ StopCodec
       \/ StopPollThread \/ AbortWait \/ Join \/ FlushBYE \/ ClearSources
       \/ DeleteReceive

-----------------------------------------------------------------------------
(* The receive thread: RtpReceive::threadLoop                              *)

RecvGoto(from, to) == jni # "deleted" /\ recv = from /\ recv' = to

LoopHead ==
  /\ \/ mRunning /\ RecvGoto("top", "begin")
     \/ ~mRunning /\ RecvGoto("top", "exited")
  /\ UNCHANGED <<jni, poll, lock, flags, running, shake, stops, sched, queue>>

\* BeginDataAccess looks at `created` first and locks the mutex then; without
\* a session nothing is locked and every table operation returns at once.
BeginDataAccess ==
  /\ \/ created /\ RecvGoto("begin", "want")
     \/ ~created /\ RecvGoto("begin", "leave")
  /\ UNCHANGED <<jni, poll, lock, flags, running, shake, stops, sched, queue>>

\* Mutant: the mutex is not taken.
NoSourcesLock ==
  /\ RecvGoto("want", "access")
  /\ UNCHANGED <<lock, jni, poll, flags, running, shake, stops, sched, queue>>

SourcesLock ==
  /\ RecvGoto("want", "access")
  /\ lock = "free" /\ lock' = "recv"
  /\ UNCHANGED <<jni, poll, flags, running, shake, stops, sched, queue>>

\* GotoFirstSourceWithData, GotoNextSourceWithData and GetNextPacket.
GetNextPacket ==
  /\ \/ mRunning /\ created /\ queue > 0 /\ RecvGoto("access", "packet") /\ queue' = queue - 1
     \/ ~(mRunning /\ created /\ queue > 0) /\ RecvGoto("access", "leave") /\ UNCHANGED queue
  /\ UNCHANGED <<jni, poll, lock, flags, running, shake, stops, sched>>

\* Mutant: a packet without payload ends the thread too.
ReturnOnEmpty ==
  /\ \/ registered /\ mRunning /\ RecvGoto("packet", "callback")
     \/ RecvGoto("packet", "exited")
  /\ UNCHANGED <<jni, poll, lock, flags, running, shake, stops, sched, queue>>

\* A packet without payload is dropped; a packet nobody wants any more ends
\* the thread, which then keeps the mutex.
HandlePacket ==
  /\ \/ RecvGoto("packet", "access")
     \/ registered /\ mRunning /\ RecvGoto("packet", "callback")
     \/ ~(registered /\ mRunning) /\ RecvGoto("packet", "exited")
  /\ UNCHANGED <<jni, poll, lock, flags, running, shake, stops, sched, queue>>

\* ReceiveSource returns.  Inside it addBuffer may wait for an input buffer
\* as long as the codec runs.
ReceiveSource ==
  /\ RecvGoto("callback", "access")
  /\ UNCHANGED <<jni, poll, lock, flags, running, shake, stops, sched, queue>>

\* Mutant: the mutex is released only when the loop is about to end.
EndDataAccessLate ==
  /\ RecvGoto("leave", "top")
  /\ lock' = IF created /\ ~mRunning THEN "free" ELSE lock
  /\ UNCHANGED <<jni, poll, flags, running, shake, stops, sched, queue>>

\* EndDataAccess unlocks nothing when there is no session (any more).
EndDataAccess ==
  /\ RecvGoto("leave", "top")
  /\ lock' = IF created THEN "free" ELSE lock
  /\ UNCHANGED <<jni, poll, flags, running, shake, stops, sched, queue>>

Recv == \/ LoopHead \/ BeginDataAccess \/ SourcesLock \/ GetNextPacket
        \/ HandlePacket \/ ReceiveSource \/ EndDataAccess

-----------------------------------------------------------------------------
(* The poll thread                                                         *)

PollGoto(from, to) == jni # "deleted" /\ poll = from /\ poll' = to

\* Mutant: `running` is set before continuemutex2 is locked.
RunningBeforeLock ==
  /\ \/ PollGoto("born", "running") /\ running' = TRUE /\ UNCHANGED continuemutex2
     \/ /\ PollGoto("running", "begun") /\ continuemutex = "free" /\ continuemutex2 = "free"
        /\ continuemutex2' = "poll" /\ UNCHANGED running
     \/ PollGoto("begun", "check") /\ continuemutex2' = "free" /\ UNCHANGED running
  /\ UNCHANGED <<jni, recv, lock, flags, continuemutex, stops, sched, queue>>

\* JThread::TheThread: continuemutex2 is locked before `running` is set, which
\* Start waits for, and unlocked by ThreadStarted once Start let go of
\* continuemutex.
TheThread ==
  /\ \/ /\ PollGoto("born", "running") /\ continuemutex2 = "free"
        /\ continuemutex2' = "poll" /\ running' = TRUE
     \/ /\ PollGoto("running", "begun") /\ continuemutex = "free"
        /\ UNCHANGED <<continuemutex2, running>>
     \/ PollGoto("begun", "check") /\ continuemutex2' = "free" /\ UNCHANGED running
  /\ UNCHANGED <<jni, recv, lock, flags, continuemutex, stops, sched, queue>>

\* The thread looks at `stop` when it starts and after every round; once Stop
\* has returned, the object is gone and the answer is arbitrary.
CheckStop ==
  /\ \/ (stop \/ killed) /\ PollGoto("check", "ended") /\ running' = FALSE
     \/ (~stop \/ killed) /\ PollGoto("check", "top") /\ UNCHANGED running
  /\ UNCHANGED <<jni, recv, lock, flags, shake, stops, sched, queue>>

\* The delay until the next RTCP packet is read under the sources mutex.
GetTransmissionDelay ==
  /\ \/ lock = "free" /\ PollGoto("top", "delay") /\ lock' = "poll"
     \/ PollGoto("delay", "select") /\ lock' = "free"
  /\ UNCHANGED <<jni, recv, flags, running, shake, stops, sched, queue>>

\* select ends when a packet arrives, the delay is over or Stop aborts it.
WaitForIncomingData ==
  /\ \/ PollGoto("select", "wait") /\ UNCHANGED aborted
     \/ PollGoto("wait", "got") /\ aborted' = FALSE
  /\ UNCHANGED <<jni, recv, lock, flags, running, shake, stop, killed, sched, queue>>

\* Sending an RTCP packet draws the next interval, between 0.5 and 1.5 times
\* 5.0 / 1.21828 seconds, half of that before the first packet is out.
NextRTCP ==
  \/ hassentrtcp' = TRUE /\ longdelay' \in {FALSE, hassentrtcp}
  \/ UNCHANGED hassentrtcp /\ longdelay' \in {FALSE, longdelay}

ProcessPolledData ==
  /\ \/ lock = "free" /\ PollGoto("got", "process") /\ lock' = "poll" /\ UNCHANGED <<sched, queue>>
     \/ PollGoto("process", "check") /\ lock' = "free" /\ queue' \in queue..MaxQueue /\ NextRTCP
  /\ UNCHANGED <<jni, recv, flags, running, shake, stops>>

\* An error of the transmitter or of ProcessPolledData ends the thread; the
\* session stays created and nobody is told.
PollThreadError ==
  /\ \/ PollGoto("wait", "ended") /\ UNCHANGED lock
     \/ PollGoto("process", "ended") /\ lock' = "free"
  /\ running' = FALSE
  /\ UNCHANGED <<jni, recv, flags, shake, stops, sched, queue>>

PollThread == \/ TheThread \/ CheckStop \/ GetTransmissionDelay \/ WaitForIncomingData
              \/ ProcessPolledData \/ PollThreadError

-----------------------------------------------------------------------------

Next == Jni \/ Recv \/ PollThread

Spec == Init /\ [][Next]_vars

\* The scheduler runs every thread that can run and the mutex starves nobody;
\* a select comes to an end.  addBuffer returns once the codec has stopped.
\* Nothing makes the application start or stop a receiver.
Fairness ==
  /\ WF_vars(JThreadStart) /\ WF_vars(StartVideo) /\ WF_vars(TheThread)
  /\ WF_vars(StopCodec) /\ WF_vars(StopPollThread) /\ WF_vars(AbortWait)
  /\ WF_vars(Join) /\ WF_vars(FlushBYE) /\ WF_vars(ClearSources)
  /\ WF_vars(DeleteReceive)
  /\ WF_vars(LoopHead) /\ WF_vars(BeginDataAccess) /\ SF_vars(SourcesLock)
  /\ WF_vars(GetNextPacket) /\ WF_vars(HandlePacket) /\ WF_vars(EndDataAccess)
  /\ WF_vars(codec = "stopped" /\ ReceiveSource)
  /\ WF_vars(CheckStop) /\ WF_vars(WaitForIncomingData)
  /\ SF_vars(GetTransmissionDelay) /\ SF_vars(ProcessPolledData)

FairSpec == Spec /\ Fairness

-----------------------------------------------------------------------------
(* Properties                                                              *)

\* The threads that are working on the source table.
InTable == (IF recv \in {"access", "packet", "callback"} /\ created THEN {"recv"} ELSE {})
           \cup (IF poll \in {"delay", "process"} THEN {"poll"} ELSE {})

\* What BeginDataAccess promises: the poll thread does not touch the source
\* table while the receive thread uses it, from the first packet to the
\* moment the session is destroyed.
DataAccessExclusive == InTable # {"recv", "poll"}

\* The receive thread's early return leaves the sources mutex locked for good
\* only while the receiver is being stopped: the callback is always there
\* when a session is, so a running receiver never blocks its poll thread.
LockLeakOnlyAtStop == recv = "exited" /\ lock = "recv" => ~mRunning

\* JThread::Start returns with the new thread at work: where a session is created,
\* Thread has called ThreadStarted, so that Stop never takes a thread that is not
\* yet running for one that has ended.
StartWaitsForThread == created => poll \notin {"none", "born", "running", "begun"}

\* RTPPollThread::Stop returns when the poll thread has ended or was killed: the
\* rest of BYEDestroy has no other poll thread beside it, whichever of the two
\* comes to its end first.
StopWaitsForThread == jni \in {"flush", "clear"} => poll = "ended" \/ killed

\* StartCodecRecver and StopCodecRecver return: the handshake of the poll
\* thread ends with both sides gone on, and the stop comes to its end whatever
\* the two other threads are doing, the leaked mutex and the decoder that is
\* out of buffers included.
CallsReturn ==
  /\ jni \in {"start", "codec"} ~> jni = "up"
  /\ jni = "stopping" ~> jni = "deleted"

\* Received packets get to the decoder as long as nobody stops the receiver:
\* the poll thread gets at the table unless the decoder holds up the receive
\* thread, and a packet in the table is fetched by it.
PacketsReachCodec ==
  /\ poll = "got" ~> (poll # "got" \/ recv = "callback" \/ ~mRunning)
  /\ (recv = "top" /\ queue > 0) ~> (recv = "callback" \/ queue = 0 \/ ~mRunning)

\* "first, stop the thread so we have full control over all components": when
\* BYEDestroy clears the source table the poll thread has come to an end and
\* nobody else works on the table.
FullControl == jni = "clear" => poll = "ended" /\ InTable = {}
=============================================================================
