------------------------- MODULE TransmitterThreads -------------------------
(***************************************************************************)
(* The threads of a transmitter: mainmutex around every call, waitmutex    *)
(* around a wait, the flag waitingfordata and the pipe that ends a select. *)
(* The UDP transmitters share this protocol word for word; the external    *)
(* one differs in three places: a wait returns at once when packets are    *)
(* there, the end of a wait empties the pipe instead of reading one byte,  *)
(* and an injected packet writes a byte whether somebody waits or not.     *)
(*                                                                         *)
(* What a call does to the data is one step of it (see the modules of the  *)
(* transmitters); here it is a number of packets.  A transmitter is        *)
(* created again only when no call is under way: RTPSession lets nobody in *)
(* before it is created.                                                   *)
(***************************************************************************)
EXTENDS TransmitterConstants

VARIABLES
  external,        \* an RTPExternalTransmitter
  pc, main, wait,  \* the threads and the owners of the two mutexes
  created, waitingfordata,
  pipe,            \* bytes in the pipe
  data,            \* packets in the sockets, or in rawpacketlist if external
  sees,            \* select reported the pipe to this thread
  asked,           \* history: this wait has been aborted by a call
  stray            \* history: Destroy has unlocked a mutex of another thread

vars == <<external, pc, main, wait, created, waitingfordata, pipe, data, sees, asked, stray>>

PC == {"idle", "call", "create", "inject", "w_wait", "w_select", "w_up", "w_end",
       "d_wait", "d_waited", "d_end"}

TypeOK ==
  /\ external \in BOOLEAN
  /\ pc \in [Threads -> PC]
  /\ main \in Threads \cup {Free} /\ wait \in Threads \cup {Free}
  /\ created \in BOOLEAN /\ waitingfordata \in BOOLEAN
  /\ pipe \in 0..PipeSize /\ data \in 0..MaxData
  /\ sees \in [Threads -> BOOLEAN] /\ asked \in BOOLEAN /\ stray \in BOOLEAN

Init ==
  /\ external \in BOOLEAN
  /\ pc = [t \in Threads |-> "idle"] /\ main = Free /\ wait = Free
  /\ created = FALSE /\ waitingfordata = FALSE /\ pipe = 0 /\ data = 0
  /\ sees = [t \in Threads |-> FALSE] /\ asked = FALSE /\ stray = FALSE

Goto(t, a, b) == pc[t] = a /\ pc' = [pc EXCEPT ![t] = b]

\* A call that finds mainmutex free and releases it again, in one step.
Briefly(t) == main = Free /\ UNCHANGED main

-----------------------------------------------------------------------------
(* Calls under mainmutex                                                   *)

\* Any other call: lock, work, unlock.  Poll and GetNextPacket take packets.
Call(t) ==
  \/ /\ Goto(t, "idle", "call") /\ main = Free /\ main' = t
     /\ UNCHANGED data
  \/ /\ Goto(t, "call", "idle") /\ main' = Free
     /\ data' \in {d \in 0..data : created \/ d = data}

Create(t) ==
  \/ /\ Goto(t, "idle", "create") /\ main = Free /\ main' = t
     /\ ~created /\ \A u \in Threads : pc[u] = "idle"
     /\ stray' = FALSE /\ UNCHANGED <<created, waitingfordata, pipe>>
  \/ /\ Goto(t, "create", "idle") /\ main' = Free
     /\ created' = TRUE /\ waitingfordata' = FALSE /\ pipe' = 0 /\ UNCHANGED stray

\* A datagram reaches one of the sockets.
Arrive ==
  /\ ~external /\ created /\ data < MaxData /\ data' = data + 1
  /\ UNCHANGED <<pc, main>>

\* Mutant: an injected packet does not wake the waiting thread.
InjectQuietly(t) ==
  /\ external /\ created /\ data < MaxData /\ Briefly(t)
  /\ pc[t] = "idle" /\ data' = data + 1 /\ UNCHANGED <<pc, pipe>>

\* The packet is stored and a byte written, with mainmutex locked; a full
\* pipe makes the write block.
Inject(t) ==
  \/ /\ external /\ created /\ data < MaxData /\ Briefly(t)
     /\ pc[t] = "idle" /\ pipe < PipeSize
     /\ data' = data + 1 /\ pipe' = pipe + 1 /\ UNCHANGED pc
  \/ /\ external /\ created /\ data < MaxData
     /\ Goto(t, "idle", "inject") /\ pipe = PipeSize
     /\ main = Free /\ main' = t
     /\ data' = data + 1 /\ UNCHANGED pipe
  \/ /\ Goto(t, "inject", "idle") /\ pipe < PipeSize
     /\ main' = Free /\ pipe' = pipe + 1 /\ UNCHANGED data

-----------------------------------------------------------------------------
(* WaitForIncomingData and AbortWait                                       *)

\* waitmutex is taken with mainmutex locked.  The external transmitter with
\* packets at hand returns here.
BeginWait(t) ==
  \/ /\ Goto(t, "idle", "w_wait") /\ main = Free /\ main' = t
     /\ created /\ ~waitingfordata /\ ~(external /\ data > 0)
     /\ waitingfordata' = TRUE /\ asked' = FALSE /\ UNCHANGED wait
  \/ /\ Goto(t, "w_wait", "w_select") /\ wait = Free
     /\ wait' = t /\ main' = Free /\ UNCHANGED <<waitingfordata, asked>>

\* Mutant: Destroy neither writes into the pipe nor closes it.
SelectDeaf(t) ==
  /\ Goto(t, "w_select", "w_up")
  /\ pipe > 0 \/ (data > 0 /\ ~external)
  /\ sees' = [sees EXCEPT ![t] = created /\ pipe > 0]

\* select ends because of the pipe, a socket or a closed descriptor.
Select(t) ==
  /\ Goto(t, "w_select", "w_up")
  /\ pipe > 0 \/ (data > 0 /\ ~external) \/ ~created
  /\ sees' = [sees EXCEPT ![t] = created /\ pipe > 0]

\* select ends because the delay is over.
Timeout(t) ==
  /\ Goto(t, "w_select", "w_up")
  /\ sees' = [sees EXCEPT ![t] = FALSE]

\* Back under mainmutex: the flag is cleared and, unless Destroy was called,
\* the pipe read.
Wake(t) ==
  /\ Goto(t, "w_up", "w_end") /\ Briefly(t)
  /\ waitingfordata' = FALSE /\ asked' = FALSE
  /\ pipe' = IF ~(created /\ sees[t]) THEN pipe
             ELSE IF external THEN 0 ELSE pipe - 1

EndWait(t) == Goto(t, "w_end", "idle") /\ wait' = Free

\* An error when nobody waits; otherwise a byte into the pipe.  Bound: one
\* wait is not aborted more often than the pipe holds bytes (RTPPollThread
\* asks at most 500 times).
AbortWait(t) ==
  /\ pc[t] = "idle" /\ Briefly(t) /\ created /\ waitingfordata /\ pipe < PipeSize
  /\ asked' = TRUE /\ pipe' = pipe + 1

-----------------------------------------------------------------------------
(* Destroy                                                                 *)

\* With a thread waiting, its select is ended by a byte and by the closed
\* descriptors, mainmutex is unlocked, and waitmutex locked and unlocked;
\* then mainmutex is unlocked a second time, whoever holds it.
Destroy(t) ==
  \/ /\ pc[t] = "idle" /\ Briefly(t) /\ created
     /\ created' = FALSE /\ data' = 0 /\ pipe' = 0
     /\ pc' = [pc EXCEPT ![t] = IF waitingfordata THEN "d_wait" ELSE "idle"]
     /\ UNCHANGED <<wait, stray>>
  \/ /\ Goto(t, "d_wait", "d_waited") /\ wait = Free /\ wait' = t
     /\ UNCHANGED <<main, created, data, pipe, stray>>
  \/ /\ Goto(t, "d_waited", "d_end") /\ wait' = Free
     /\ UNCHANGED <<main, created, data, pipe, stray>>
  \/ /\ Goto(t, "d_end", "idle")
     /\ main' = Free /\ stray' = (stray \/ main # Free)
     /\ UNCHANGED <<wait, created, data, pipe>>

-----------------------------------------------------------------------------
Step(t) ==
  \/ Call(t) /\ UNCHANGED <<wait, created, waitingfordata, pipe, sees, asked, stray>>
  \/ Create(t) /\ UNCHANGED <<wait, data, sees, asked>>
  \/ Inject(t) /\ UNCHANGED <<wait, created, waitingfordata, sees, asked, stray>>
  \/ BeginWait(t) /\ UNCHANGED <<created, pipe, data, sees, stray>>
  \/ Select(t) /\ UNCHANGED <<main, wait, created, waitingfordata, pipe, data, asked, stray>>
  \/ Wake(t) /\ UNCHANGED <<wait, created, data, sees, stray>>
  \/ EndWait(t) /\ UNCHANGED <<main, created, waitingfordata, pipe, data, sees, asked, stray>>
  \/ AbortWait(t) /\ UNCHANGED <<pc, wait, created, waitingfordata, data, sees, stray>>
  \/ Destroy(t) /\ UNCHANGED <<waitingfordata, sees, asked>>

Next ==
  /\ \/ \E t \in Threads : Step(t)
     \/ \E t \in Threads :
          Timeout(t) /\ UNCHANGED <<main, wait, created, waitingfordata, pipe, data, asked, stray>>
     \/ Arrive /\ UNCHANGED <<wait, created, waitingfordata, pipe, sees, asked, stray>>
  /\ UNCHANGED external

Spec == Init /\ [][Next]_vars

-----------------------------------------------------------------------------
(* Properties                                                              *)

\* A request to stop waiting, and a packet injected meanwhile, is never lost
\* once waitingfordata is set: while the thread is on its way into select or
\* inside it there is something to read for it.
NoLostWakeup ==
  \A t \in Threads :
    pc[t] \in {"w_wait", "w_select"} /\ created /\ (asked \/ (external /\ data > 0))
      => pipe > 0

\* Destroy does return, however long the delay of the wait it met.
DestroyReturns == \A t \in Threads : pc[t] = "d_wait" ~> pc[t] = "idle"

\* An aborted wait of a UDP transmitter ends, however long its delay.
AbortedWaitEnds == (asked /\ ~external) ~> ~waitingfordata

\* InjectRTP "can be called to insert an RTP packet into the transmission
\* component": the call comes back.
InjectReturns == \A t \in Threads : pc[t] = "inject" ~> pc[t] = "idle"
=============================================================================
