------------------------- MODULE Transmitters_proofs -------------------------
(***************************************************************************)
(* Proofs about the transmitters, the threads that call into them and the  *)
(* session that makes them.  The kinds of Transmitters never meet in one   *)
(* behaviour, so each part has its own invariant and its own step lemmas;  *)
(* they are put together at the end.                                       *)
(***************************************************************************)
EXTENDS Transmitters, Lists_proofs, FiniteSetTheorems, TLAPS

Parts == {"transmitter", "packetbuilder", "sources", "rtcpbuilder", "pollthread",
          "running", "session"}

SessionTypes ==
  /\ threaded \in BOOLEAN /\ owned \in BOOLEAN /\ lowered \in BOOLEAN
  /\ parts \subseteq Parts
  /\ at \in Session!Steps \cup {"idle", "set", "setrtcp", "restore"}
  /\ limit \in [Session!Copies -> Nat] /\ wanted \in Nat /\ compound \in Nat

-----------------------------------------------------------------------------
(* What is there at each step of RTPSession::Create                     *)

Ours == IF owned THEN {"transmitter"} ELSE {}

\* The parts made before a step is taken.
Before(step) ==
  CASE step \in {"new", "setsize"}     -> {}
    [] step \in {"init", "create"}     -> {"transmitter"}
    [] step = "packetbuilder"          -> Ours
    [] step = "ownssrc"                -> Ours \cup {"packetbuilder"}
    [] step \in {"receivemode", "cname", "rtcpbuilder"} ->
         Ours \cup {"packetbuilder", "sources"}
    [] step \in {"schedparams", "mutexes", "pollthread"} ->
         Ours \cup {"packetbuilder", "sources", "rtcpbuilder"}
    [] step = "start" -> Ours \cup {"packetbuilder", "sources", "rtcpbuilder", "pollthread"}

\* The parts of a session that has been created; a poll thread may have ended.
Whole ==
  Ours \cup {"packetbuilder", "sources", "rtcpbuilder", "session"}
       \cup IF threaded THEN {"pollthread"} ELSE {}

PartsInv ==
  /\ at \in Session!Steps => parts = Before(at) /\ compound = 0
  /\ at \in {"new", "init", "create"} => owned
  /\ at = "setsize" => ~owned
  /\ at \in {"mutexes", "pollthread", "start"} => threaded
  /\ at \in {"set", "setrtcp", "restore"} => Session!active
  /\ Session!active => parts \ {"running"} = Whole
  /\ ~threaded => "running" \notin parts
  /\ at = "idle" /\ ~Session!active => parts = {} /\ compound = 0

-----------------------------------------------------------------------------
(* The copies of the maximum packet size                                   *)

Same(c) == limit[c] = limit["session"]

SizesInv ==
  /\ at \in Session!Steps \ {"new", "init", "create", "setsize"} => Same("transmitter")
  /\ at \in Session!Steps \ {"new", "init", "create", "setsize", "packetbuilder"}
       => Same("packetbuilder")
  /\ at \in {"schedparams", "mutexes", "pollthread", "start"} => Same("rtcpbuilder")
  /\ Session!active /\ at = "idle" => Same("transmitter") /\ Same("packetbuilder")
  /\ Session!active /\ at # "idle" => limit["transmitter"] = wanted \/ at = "restore"
  /\ at \in {"set", "restore"} => Same("packetbuilder")
  /\ at = "setrtcp" => limit["packetbuilder"] = wanted
  /\ Session!active => Same("rtcpbuilder")

\* As long as nobody has asked for less, every RTCP packet fits.
FitsInv ==
  /\ at \in {"set", "setrtcp"} /\ ~lowered => wanted >= limit["session"]
  /\ Session!active /\ ~lowered => limit["transmitter"] >= limit["session"]
  /\ Session!active /\ ~lowered => compound <= limit["session"]
  /\ at \in Session!Steps => ~lowered
  /\ Session!active /\ threaded /\ "running" \notin parts => lowered

SessionInv == SessionTypes /\ PartsInv /\ SizesInv /\ FitsInv

-----------------------------------------------------------------------------
(* RTPSession::Create as a table                                           *)

\* Sizes are numbers.
LEMMA SizeNat == ASSUME NEW size \in Size PROVE size \in Nat
BY AddressAssumption

\* The table of Made, one line for each step.
LEMMA MadeTable ==
  /\ Session!Made("new") = {"transmitter"} /\ Session!Made("init") = {} /\ Session!Made("create") = {}
  /\ Session!Made("setsize") = {} /\ Session!Made("packetbuilder") = {"packetbuilder"}
  /\ Session!Made("ownssrc") = {"sources"} /\ Session!Made("receivemode") = {} /\ Session!Made("cname") = {}
  /\ Session!Made("rtcpbuilder") = {"rtcpbuilder"}
  /\ Session!Made("schedparams") = IF threaded THEN {} ELSE {"session"}
  /\ Session!Made("mutexes") = {} /\ Session!Made("pollthread") = {"pollthread"}
  /\ Session!Made("start") = {"running", "session"}
BY DEF Session!Made, Session!After

\* What the next step of Create finds is what this one leaves.
LEMMA NextStep ==
  ASSUME NEW step \in Session!Steps, PartsInv, at = step
  PROVE  /\ Session!After(step) \in Session!Steps \cup {"idle"}
         /\ Session!After(step) \in Session!Steps => parts \cup Session!Made(step) = Before(Session!After(step))
         /\ Session!After(step) \notin Session!Steps => (parts \cup Session!Made(step)) \ {"running"} = Whole
<1>1. parts = Before(step)
  BY DEF PartsInv
<1>2. CASE step = "new"
  BY <1>1, <1>2, MadeTable DEF Session!Steps, Session!After, Before, Ours, PartsInv
<1>3. CASE step = "init"
  BY <1>1, <1>3, MadeTable DEF Session!Steps, Session!After, Before, Ours, PartsInv
<1>4. CASE step = "create"
  BY <1>1, <1>4, MadeTable DEF Session!Steps, Session!After, Before, Ours, PartsInv
<1>5. CASE step = "setsize"
  BY <1>1, <1>5, MadeTable DEF Session!Steps, Session!After, Before, Ours, PartsInv
<1>6. CASE step = "packetbuilder"
  BY <1>1, <1>6, MadeTable DEF Session!Steps, Session!After, Before, Ours, PartsInv
<1>7. CASE step = "ownssrc"
  BY <1>1, <1>7, MadeTable DEF Session!Steps, Session!After, Before, Ours, PartsInv
<1>8. CASE step = "receivemode"
  BY <1>1, <1>8, MadeTable DEF Session!Steps, Session!After, Before, Ours, PartsInv
<1>9. CASE step = "cname"
  BY <1>1, <1>9, MadeTable DEF Session!Steps, Session!After, Before, Ours, PartsInv
<1>10. CASE step = "rtcpbuilder"
  BY <1>1, <1>10, MadeTable DEF Session!Steps, Session!After, Before, Ours, PartsInv
<1>11. CASE step = "mutexes"
  BY <1>1, <1>11, MadeTable DEF Session!Steps, Session!After, Before, Ours, PartsInv
<1>12. CASE step = "pollthread"
  BY <1>1, <1>12, MadeTable DEF Session!Steps, Session!After, Before, Ours, PartsInv
<1>13. CASE step = "schedparams"
  BY <1>1, <1>13, MadeTable DEF Session!Steps, Session!After, Before, Ours, PartsInv, Whole
<1>14. CASE step = "start"
  BY <1>1, <1>14, MadeTable DEF Session!Steps, Session!After, Before, Ours, PartsInv, Whole
<1> QED BY <1>2, <1>3, <1>4, <1>5, <1>6, <1>7, <1>8, <1>9, <1>10, <1>11, <1>12, <1>13, <1>14 DEF Session!Steps

\* The error path of a step undoes what was made before it.
LEMMA ErrorPath ==
  ASSUME NEW step \in Session!Steps, PartsInv, at = step
  PROVE  parts \ Session!Undone(step) = {}
BY SMTT(60) DEF Session!Steps, PartsInv, Before, Session!Undone, Ours

-----------------------------------------------------------------------------
(* The actions                                                             *)

\* Create starts over nothing.
LEMMA CreateStep ==
  ASSUME SessionInv, NEW size \in Size, Session!Create(size)
  PROVE  SessionInv'
<1>1. SessionTypes'
  BY SizeNat DEF SessionInv, SessionTypes, Session!Create, Session!Steps, Session!Copies
<1>2. PartsInv'
  BY DEF SessionInv, SessionTypes, PartsInv, Session!Create, Session!Steps, Before, Session!active
<1>3. SizesInv' /\ FitsInv'
  BY DEF SessionInv, PartsInv, SizesInv, FitsInv, Session!Create, Session!Steps, Session!active
<1> QED BY <1>1, <1>2, <1>3 DEF SessionInv

\* Each step of Create keeps the list of what is there; the last one makes
\* the session whole.
LEMMA SucceedStep ==
  ASSUME SessionInv, NEW step \in Session!Steps, Session!Succeed(step)
  PROVE  SessionInv'
<1>1. /\ Session!After(step) \in Session!Steps \cup {"idle"}
      /\ Session!After(step) \in Session!Steps => parts \cup Session!Made(step) = Before(Session!After(step))
      /\ Session!After(step) \notin Session!Steps => (parts \cup Session!Made(step)) \ {"running"} = Whole
  BY NextStep DEF SessionInv, Session!Succeed
<1>2. Session!Made(step) \subseteq Parts
  BY MadeTable DEF Session!Steps, Parts
<1>3. parts = Before(step)
  BY DEF SessionInv, PartsInv, Session!Succeed
<1>4. "session" \notin parts /\ "running" \notin parts
  BY <1>3 DEF Before, Session!Steps, Ours
<1>5. Session!After(step) = "idle" <=> "session" \in parts'
  BY <1>4, MadeTable DEF Session!Succeed, Session!After, Session!Steps
<1>6. SessionTypes'
  BY <1>1, <1>2 DEF SessionInv, SessionTypes, Session!Succeed, Session!Steps, Session!Copies
<1>7. PartsInv'
  <2>1. at' \in Session!Steps => parts' = Before(at)' /\ compound' = 0
    BY <1>1 DEF SessionInv, PartsInv, Session!Succeed, Before, Ours
  <2>2. Session!active' => (parts \ {"running"} = Whole)'
    BY <1>1, <1>5 DEF Session!Succeed, Whole, Ours, Session!active, Session!Steps
  <2>3. ~threaded' => "running" \notin parts'
    BY <1>4, MadeTable DEF SessionInv, PartsInv, Session!Succeed, Session!Steps
  <2>4. /\ at' \in {"new", "init", "create"} => owned'
        /\ at' = "setsize" => ~owned'
        /\ at' \in {"mutexes", "pollthread", "start"} => threaded'
    BY DEF SessionInv, PartsInv, Session!Succeed, Session!After, Session!Steps
  <2>5. at' \notin {"set", "setrtcp", "restore"}
    BY <1>1 DEF Session!Succeed, Session!Steps
  <2> QED BY <1>5, <2>1, <2>2, <2>3, <2>4, <2>5 DEF PartsInv, Session!Succeed, Session!active
<1>8. SizesInv'
  BY <1>1, <1>4, <1>5 DEF SessionInv, SessionTypes, SizesInv, Session!Succeed, Session!Sets, Session!After, Session!Steps, Same, Session!active, Session!Copies
<1>9. FitsInv'
  BY <1>1, <1>4, <1>5, <1>8, MadeTable
     DEF SessionInv, SessionTypes, PartsInv, SizesInv, FitsInv, Session!Succeed, Session!After, Session!Steps, Same, Session!active, Session!Copies
<1> QED BY <1>6, <1>7, <1>8, <1>9 DEF SessionInv

\* A step that fails leaves nothing.
LEMMA FailStep ==
  ASSUME SessionInv, NEW step \in Session!Steps, Session!Fail(step)
  PROVE  SessionInv'
<1>1. parts' = {}
  BY ErrorPath DEF SessionInv, Session!Fail
<1>2. SessionTypes'
  BY <1>1 DEF SessionInv, SessionTypes, Session!Fail
<1>3. PartsInv'
  BY <1>1 DEF SessionInv, PartsInv, Session!Fail, Session!active, Session!Steps
<1>4. SizesInv' /\ FitsInv'
  BY <1>1 DEF SizesInv, FitsInv, Session!Fail, Session!active, Session!Steps
<1> QED BY <1>2, <1>3, <1>4 DEF SessionInv

\* Destroy leaves nothing, and no packet.
LEMMA DestroyStep ==
  ASSUME SessionInv, Session!Destroy
  PROVE  SessionInv'
<1>1. parts' = {}
  BY DEF SessionInv, PartsInv, Whole, Ours, Session!Destroy
<1>2. SessionTypes'
  BY <1>1 DEF SessionInv, SessionTypes, Session!Destroy
<1>3. PartsInv' /\ SizesInv' /\ FitsInv'
  BY <1>1 DEF PartsInv, SizesInv, FitsInv, Session!Destroy, Session!active, Session!Steps
<1> QED BY <1>2, <1>3 DEF SessionInv

\* A change sets the transmitter before the builders, so that a larger size
\* is allowed before it is used, and a failed one restores what it had set.
LEMMA ChangeSizeStep ==
  ASSUME SessionInv,
         \/ \E size \in Size : Session!SetTransmitter(size)
         \/ Session!SetPacketBuilder \/ Session!SetRTCPBuilder \/ Session!RestoreTransmitter
  PROVE  SessionInv'
<1>1. CASE \E size \in Size : Session!SetTransmitter(size)
  <2> PICK size \in Size : Session!SetTransmitter(size)
    BY <1>1
  <2>1. SessionTypes'
    BY SizeNat DEF SessionInv, SessionTypes, Session!SetTransmitter, Session!Copies
  <2>2. PartsInv'
    BY DEF SessionInv, PartsInv, Session!SetTransmitter, Session!active, Session!Steps, Whole, Ours
  <2>3. SizesInv'
    BY DEF SessionInv, SessionTypes, SizesInv, Session!SetTransmitter, Session!active, Same, Session!Steps, Session!Copies
  <2>4. /\ at' = "set" /\ Session!active' /\ wanted' = size /\ parts' = parts
        /\ limit'["session"] = limit["session"] /\ limit'["transmitter"] = size
        /\ lowered' = (lowered \/ size < limit["session"])
        /\ compound' = compound /\ threaded' = threaded
    BY DEF SessionInv, SessionTypes, Session!SetTransmitter, Session!active, Session!Copies
  <2>5. /\ limit["session"] \in Nat /\ size \in Nat /\ lowered \in BOOLEAN /\ Session!active
    BY SizeNat DEF SessionInv, SessionTypes, Session!SetTransmitter, Session!Copies
  <2>6. ~lowered' => ~lowered /\ size >= limit["session"]
    <3>1. ~lowered' => ~lowered /\ ~(size < limit["session"])
      BY <2>4, Zenon
    <3>2. ~(size < limit["session"]) => size >= limit["session"]
      BY <2>5
    <3> QED BY <3>1, <3>2
  <2>7. FitsInv'
    BY <2>4, <2>5, <2>6 DEF SessionInv, FitsInv, Session!Steps, Session!active
  <2> QED BY <2>1, <2>2, <2>3, <2>7 DEF SessionInv
<1>2. CASE Session!SetPacketBuilder
  BY <1>2 DEF SessionInv, SessionTypes, PartsInv, SizesInv, FitsInv, Session!SetPacketBuilder,
     Session!active, Same, Session!Steps, Whole, Ours, Session!Copies
<1>3. CASE Session!SetRTCPBuilder
  BY <1>3 DEF SessionInv, SessionTypes, PartsInv, SizesInv, FitsInv, Session!SetRTCPBuilder,
     Session!active, Same, Session!Steps, Whole, Ours, Session!Copies
<1>4. CASE Session!RestoreTransmitter
  BY <1>4 DEF SessionInv, SessionTypes, PartsInv, SizesInv, FitsInv, Session!RestoreTransmitter,
     Session!active, Same, Session!Steps, Whole, Ours, Session!Copies
<1> QED BY <1>1, <1>2, <1>3, <1>4

\* No packet is longer than the RTCP builder allows.
LEMMA PacketStep ==
  ASSUME SessionInv, (\E size \in Size : Session!BuildRTCP(size)) \/ Session!SendRTCP
  PROVE  SessionInv'
<1>1. CASE \E size \in Size : Session!BuildRTCP(size)
  <2> PICK size \in Size : Session!BuildRTCP(size)
    BY <1>1
  <2>1. SessionTypes'
    BY SizeNat DEF SessionInv, SessionTypes, Session!BuildRTCP
  <2>2. at \notin Session!Steps /\ Session!active
    BY DEF SessionInv, PartsInv, Session!BuildRTCP, Session!Polls, Session!active, Session!Steps, Before, Ours
  <2>3. PartsInv'
    BY <2>2 DEF SessionInv, PartsInv, Session!BuildRTCP, Session!active, Whole, Ours
  <2>4. SizesInv'
    BY DEF SessionInv, SizesInv, Session!BuildRTCP, Session!active, Same
  <2>5. compound' <= limit'["session"]
    BY DEF SessionInv, SizesInv, Session!BuildRTCP, Session!Polls, Same
  <2>6. FitsInv'
    BY <2>2, <2>5 DEF SessionInv, FitsInv, Session!BuildRTCP, Session!active
  <2> QED BY <2>1, <2>3, <2>4, <2>6 DEF SessionInv
<1>2. CASE Session!SendRTCP
  BY <1>2 DEF SessionInv, SessionTypes, PartsInv, SizesInv, FitsInv, Session!SendRTCP,
     Session!Polls, Session!active, Same, Session!Steps, Whole, Ours, Session!Copies
<1> QED BY <1>1, <1>2

\* The session's part of every step.
LEMMA SessionStep == ASSUME SessionInv, [Next]_vars PROVE SessionInv'
<1>1. CASE UNCHANGED session
  BY <1>1, ZenonT(30) DEF session, SessionInv, SessionTypes, PartsInv, SizesInv, FitsInv, Before, Whole,
     Ours, Same, Session!active
<1>2. CASE Session!Next
  BY <1>2, CreateStep, SucceedStep, FailStep, DestroyStep, ChangeSizeStep, PacketStep
     DEF Session!Next
<1>3. Session!Next \/ UNCHANGED session
  BY DEF Next, vars, session
<1> QED BY <1>1, <1>2, <1>3

\* There is no session yet.
LEMMA SessionInit == ASSUME Init PROVE SessionInv
<1>1. SessionTypes
  BY DEF Init, Session!Init, SessionTypes, Parts, Session!Copies
<1>2. PartsInv /\ SizesInv /\ FitsInv
  BY DEF Init, Session!Init, PartsInv, SizesInv, FitsInv, Session!Steps, Session!active
<1> QED BY <1>1, <1>2 DEF SessionInv

-----------------------------------------------------------------------------
(* The threads of a transmitter                                            *)

Waiting(t) == pc[t] \in {"w_wait", "w_select", "w_up"}

ThreadTypes ==
  /\ pc \in [Threads -> Calls!PC] /\ main \in Threads \cup {Free}
  /\ alive \in BOOLEAN /\ waitingfordata \in BOOLEAN /\ external \in BOOLEAN
  /\ pipe \in Nat /\ data \in Nat /\ asked \in BOOLEAN /\ sees \in [Threads -> BOOLEAN]

\* waitingfordata stands for one waiting thread: nobody begins a second wait,
\* and whoever clears the flag was that thread.
OneWait ==
  /\ \A t \in Threads : Waiting(t) => waitingfordata
  /\ \A t, u \in Threads : Waiting(t) /\ Waiting(u) => t = u

\* A transmitter is created with no call under way, and no call begins
\* before it is.
CreateAlone ==
  \A t \in Threads : pc[t] = "create" =>
    ~alive /\ main = t /\ \A u \in Threads \ {t} : pc[u] = "idle"

\* The byte a select has reported is still there when the thread reads it.
ByteSeen == \A t \in Threads : pc[t] = "w_up" /\ sees[t] /\ alive => pipe > 0

ThreadsInv == ThreadTypes /\ OneWait /\ CreateAlone /\ ByteSeen /\ Calls!NoLostWakeup

\* Calls under mainmutex that are not waits.
LEMMA CallStep ==
  ASSUME ThreadsInv, NEW t \in Threads,
         \/ Calls!Call(t) /\ UNCHANGED <<wait, alive, waitingfordata, pipe, sees, asked, stray>>
         \/ Calls!Create(t) /\ UNCHANGED <<wait, data, sees, asked>>
         \/ Calls!Inject(t) /\ UNCHANGED <<wait, alive, waitingfordata, sees, asked, stray>>,
         UNCHANGED external
  PROVE  ThreadsInv'
<1> USE ThreadsAssumption DEF ThreadsInv, Calls!Goto, Calls!Briefly
<1>1. CASE Calls!Call(t) /\ UNCHANGED <<wait, alive, waitingfordata, pipe, sees, asked, stray>>
  <2>1. ThreadTypes'
    BY <1>1 DEF Calls!Call, ThreadTypes, Calls!PC
  <2>2. OneWait' /\ CreateAlone'
    BY <1>1 DEF Calls!Call, ThreadTypes, OneWait, CreateAlone, Waiting
  <2>3. Calls!NoLostWakeup' /\ ByteSeen'
    BY <1>1 DEF Calls!Call, ThreadTypes, ByteSeen, Calls!NoLostWakeup
  <2> QED BY <2>1, <2>2, <2>3
<1>2. CASE Calls!Create(t) /\ UNCHANGED <<wait, data, sees, asked>>
  <2>1. ThreadTypes'
    <3>1. pipe' \in Nat /\ data' \in Nat
      BY <1>2 DEF Calls!Create, ThreadTypes
    <3>2. /\ pc' \in [Threads -> Calls!PC] /\ main' \in Threads \cup {Free}
          /\ alive' \in BOOLEAN /\ waitingfordata' \in BOOLEAN
      BY <1>2 DEF Calls!Create, ThreadTypes, Calls!PC
    <3> QED BY <1>2, <3>1, <3>2 DEF ThreadTypes
  <2>2. \A u \in Threads \ {t} : pc[u] = "idle" /\ pc'[u] = "idle"
    BY <1>2 DEF Calls!Create, ThreadTypes, CreateAlone
  <2>3. pc'[t] \in {"create", "idle"}
    BY <1>2 DEF Calls!Create, ThreadTypes
  <2>4. OneWait' /\ ByteSeen' /\ Calls!NoLostWakeup'
    BY <2>2, <2>3 DEF OneWait, Waiting, ByteSeen, Calls!NoLostWakeup
  <2>5. CreateAlone'
    BY <1>2, <2>2, <2>3 DEF Calls!Create, ThreadTypes, CreateAlone
  <2> QED BY <2>1, <2>4, <2>5
<1>3. CASE Calls!Inject(t) /\ UNCHANGED <<wait, alive, waitingfordata, sees, asked, stray>>
  <2>1. ThreadTypes'
    BY <1>3 DEF Calls!Inject, ThreadTypes, Calls!PC
  <2>2. OneWait' /\ CreateAlone'
    BY <1>3 DEF Calls!Inject, ThreadTypes, OneWait, CreateAlone, Waiting
  <2>3. Calls!NoLostWakeup' /\ ByteSeen'
    BY <1>3 DEF Calls!Inject, ThreadTypes, ByteSeen, Calls!NoLostWakeup
  <2> QED BY <2>1, <2>2, <2>3
<1> QED BY <1>1, <1>2, <1>3

\* A wait begins only when there is nothing it could miss, and the thread
\* that clears the flag was the only one to wait.
LEMMA WaitStep ==
  ASSUME ThreadsInv, NEW t \in Threads,
         \/ Calls!BeginWait(t) /\ UNCHANGED <<alive, pipe, data, sees, stray>>
         \/ (Calls!Select(t) \/ Calls!Timeout(t))
              /\ UNCHANGED <<main, wait, alive, waitingfordata, pipe, data, asked, stray>>
         \/ Calls!Wake(t) /\ UNCHANGED <<wait, alive, data, sees, stray>>
         \/ Calls!EndWait(t)
              /\ UNCHANGED <<main, alive, waitingfordata, pipe, data, sees, asked, stray>>,
         UNCHANGED external
  PROVE  ThreadsInv'
<1> USE ThreadsAssumption DEF ThreadsInv, Calls!Goto, Calls!Briefly
<1>1. CASE Calls!BeginWait(t) /\ UNCHANGED <<alive, pipe, data, sees, stray>>
  <2>1. ThreadTypes'
    BY <1>1 DEF Calls!BeginWait, ThreadTypes, Calls!PC
  <2>2. OneWait'
    BY <1>1 DEF Calls!BeginWait, ThreadTypes, OneWait, Waiting
  <2>3. CreateAlone'
    BY <1>1 DEF Calls!BeginWait, ThreadTypes, CreateAlone
  <2>4. Calls!NoLostWakeup' /\ ByteSeen'
    BY <1>1 DEF Calls!BeginWait, ThreadTypes, ByteSeen, Calls!NoLostWakeup
  <2> QED BY <2>1, <2>2, <2>3, <2>4
<1>2. CASE (Calls!Select(t) \/ Calls!Timeout(t))
              /\ UNCHANGED <<main, wait, alive, waitingfordata, pipe, data, asked, stray>>
  <2>1. pc[t] = "w_select" /\ pc' = [pc EXCEPT ![t] = "w_up"]
    BY <1>2 DEF Calls!Select, Calls!Timeout
  <2>2. sees' \in [Threads -> BOOLEAN]
    BY <1>2 DEF ThreadTypes, Calls!Select, Calls!Timeout
  <2>3. ThreadTypes'
    BY <1>2, <2>1, <2>2 DEF ThreadTypes, Calls!PC
  <2>4. OneWait' /\ CreateAlone' /\ Calls!NoLostWakeup'
    BY <1>2, <2>1 DEF ThreadTypes, OneWait, CreateAlone, Waiting, Calls!NoLostWakeup
  <2>5. ByteSeen'
    <3>1. sees'[t] => pipe > 0
      BY <1>2 DEF ThreadTypes, Calls!Select, Calls!Timeout
    <3>2. \A u \in Threads \ {t} : sees'[u] = sees[u] /\ pc'[u] = pc[u]
      BY <1>2, <2>1 DEF ThreadTypes, Calls!Select, Calls!Timeout
    <3> QED BY <1>2, <3>1, <3>2 DEF ByteSeen
  <2> QED BY <2>3, <2>4, <2>5
<1>3. CASE Calls!Wake(t) /\ UNCHANGED <<wait, alive, data, sees, stray>>
  <2>1. Calls!NoLostWakeup' /\ ByteSeen'
    BY <1>3 DEF Calls!Wake, ThreadTypes, OneWait, Waiting, ByteSeen, Calls!NoLostWakeup
  <2>2. OneWait' /\ CreateAlone'
    BY <1>3 DEF Calls!Wake, ThreadTypes, OneWait, CreateAlone, Waiting
  <2>3. ThreadTypes'
    <3>1. alive /\ sees[t] => pipe > 0
      BY <1>3 DEF Calls!Wake, ByteSeen
    <3>2. pipe' \in Nat
      BY <1>3, <3>1 DEF Calls!Wake, ThreadTypes
    <3>3. pc' \in [Threads -> Calls!PC] /\ waitingfordata' \in BOOLEAN /\ asked' \in BOOLEAN
      BY <1>3 DEF Calls!Wake, ThreadTypes, Calls!PC
    <3> QED BY <1>3, <3>2, <3>3 DEF Calls!Wake, ThreadTypes
  <2> QED BY <2>1, <2>2, <2>3
<1>4. CASE Calls!EndWait(t)
              /\ UNCHANGED <<main, alive, waitingfordata, pipe, data, sees, asked, stray>>
  BY <1>4 DEF Calls!EndWait, ThreadTypes, OneWait, CreateAlone, Waiting, ByteSeen,
     Calls!NoLostWakeup, Calls!PC
<1> QED BY <1>1, <1>2, <1>3, <1>4

\* An abort leaves a byte; Destroy leaves nobody to be woken by one.
LEMMA EndStep ==
  ASSUME ThreadsInv, NEW t \in Threads,
         \/ Calls!AbortWait(t) /\ UNCHANGED <<pc, wait, alive, waitingfordata, data, sees, stray>>
         \/ Calls!Destroy(t) /\ UNCHANGED <<waitingfordata, sees, asked>>,
         UNCHANGED external
  PROVE  ThreadsInv'
<1> USE ThreadsAssumption DEF ThreadsInv, Calls!Goto, Calls!Briefly
<1>1. CASE Calls!AbortWait(t) /\ UNCHANGED <<pc, wait, alive, waitingfordata, data, sees, stray>>
  BY <1>1 DEF Calls!AbortWait, ThreadTypes, OneWait, CreateAlone, Waiting, ByteSeen,
     Calls!NoLostWakeup
<1>2. CASE Calls!Destroy(t) /\ UNCHANGED <<waitingfordata, sees, asked>>
  <2>1. ThreadTypes'
    <3>1. pipe' \in Nat /\ data' \in Nat
      BY <1>2 DEF Calls!Destroy, ThreadTypes
    <3>2. /\ pc' \in [Threads -> Calls!PC] /\ main' \in Threads \cup {Free}
          /\ alive' \in BOOLEAN
      BY <1>2 DEF Calls!Destroy, ThreadTypes, Calls!PC
    <3> QED BY <1>2, <3>1, <3>2 DEF ThreadTypes
  <2>2. OneWait'
    BY <1>2 DEF Calls!Destroy, ThreadTypes, OneWait, Waiting
  <2>3. CreateAlone'
    BY <1>2 DEF Calls!Destroy, ThreadTypes, CreateAlone
  <2>4. Calls!NoLostWakeup' /\ ByteSeen'
    BY <1>2 DEF Calls!Destroy, ThreadTypes, ByteSeen, Calls!NoLostWakeup
  <2> QED BY <2>1, <2>2, <2>3, <2>4
<1> QED BY <1>1, <1>2

\* The threads' part of every step.
LEMMA ThreadsStep == ASSUME ThreadsInv, [Next]_vars PROVE ThreadsInv'
<1>1. CASE UNCHANGED threads
  BY <1>1 DEF threads, ThreadsInv, ThreadTypes, OneWait, CreateAlone, Waiting, ByteSeen,
     Calls!NoLostWakeup
<1>2. CASE Calls!Next
  <2>1. ASSUME NEW t \in Threads, Calls!Step(t) PROVE ThreadsInv'
    BY <1>2, <2>1, CallStep, WaitStep, EndStep DEF Calls!Step, Calls!Next
  <2>2. ASSUME NEW t \in Threads, Calls!Timeout(t),
               UNCHANGED <<main, wait, alive, waitingfordata, pipe, data, asked, stray>>
        PROVE  ThreadsInv'
    BY <1>2, <2>2, WaitStep DEF Calls!Next
  <2>3. ASSUME Calls!Arrive, UNCHANGED <<wait, alive, waitingfordata, pipe, sees, asked, stray>>
        PROVE  ThreadsInv'
    BY <1>2, <2>3 DEF Calls!Next, Calls!Arrive, ThreadsInv, ThreadTypes, OneWait, CreateAlone,
       Waiting, ByteSeen, Calls!NoLostWakeup
  <2> QED BY <1>2, <2>1, <2>2, <2>3 DEF Calls!Next
<1>3. Calls!Next \/ UNCHANGED threads
  BY DEF Next, vars, threads
<1> QED BY <1>1, <1>2, <1>3

\* Nobody has called yet.
LEMMA ThreadsInit == ASSUME Init PROVE ThreadsInv
BY DEF Init, Calls!Init, ThreadsInv, ThreadTypes, OneWait, CreateAlone, Waiting,
   ByteSeen, Calls!NoLostWakeup, Calls!PC

-----------------------------------------------------------------------------
(* Descriptors and memberships                                             *)

\* A descriptor is open exactly while the transmitter is created, and both
\* sockets are members of the listed groups.
TablesInv ==
  /\ created \in BOOLEAN
  /\ open = IF created THEN Needed ELSE {}
  /\ member = [s \in {"rtp", "rtcp"} |-> groups]

\* What all kinds have in common: steps that touch neither.
LEMMA SameTables ==
  ASSUME TablesInv, UNCHANGED <<kind, created, open, member, groups>>
  PROVE  TablesInv'
BY DEF TablesInv, Needed

\* The IPv4 transmitter: what CreateFails has opened it closes, and a failed
\* join leaves the group again.
LEMMA IPv4Tables ==
  ASSUME TablesInv, kind = "IPv4", IPv4!Next, UNCHANGED kind
  PROVE  TablesInv'
<1> USE DEF IPv4!lists, IPv4!fixed
<1>1. CASE IPv4!Destroy
  BY <1>1 DEF TablesInv, Needed, IPv4!Destroy, IPv4!NoGroups, IPv4!Sockets
<1>2. CASE \E size \in Size : IPv4!Create(size)
  BY <1>2 DEF TablesInv, Needed, IPv4!Create, IPv4!Sockets
<1>3. CASE \E size \in Size, at_ \in DOMAIN IPv4!OpenAt : IPv4!CreateFails(at_, size)
  BY <1>3 DEF TablesInv, IPv4!CreateFails, IPv4!OpenAt, IPv4!ClosedAt, IPv4!Sockets
<1>4. CASE IPv4!Groups
  BY <1>4 DEF TablesInv, Needed, IPv4!Groups, IPv4!JoinMulticastGroup, IPv4!LeaveMulticastGroup,
     IPv4!LeaveAllMulticastGroups, IPv4!Sockets
<1>5. CASE IPv4!Lists \/ IPv4!Destinations
  BY <1>5, SameTables DEF IPv4!Lists, IPv4!Destinations, IPv4!SetReceiveMode, IPv4!AddToIgnoreList,
     IPv4!DeleteFromIgnoreList, IPv4!AddToAcceptList, IPv4!DeleteFromAcceptList,
     IPv4!ClearIgnoreList, IPv4!ClearAcceptList, IPv4!ChangeList, IPv4!ClearList,
     IPv4!AddDestination, IPv4!DeleteDestination, IPv4!ClearDestinations
<1>6. CASE IPv4!GetLocalHostName \/ IPv4!Traffic \/ \E size \in Size : IPv4!SetMaximumPacketSize(size)
  BY <1>6, SameTables DEF IPv4!Traffic, IPv4!GetLocalHostName, IPv4!SetMaximumPacketSize,
     IPv4!SendRTPData, IPv4!SendRTCPData, IPv4!Arrive, IPv4!Poll, IPv4!GetNextPacket
<1> QED BY <1>1, <1>2, <1>3, <1>4, <1>5, <1>6 DEF IPv4!Next

\* The IPv6 transmitter does the same with another type of address.
LEMMA IPv6Tables ==
  ASSUME TablesInv, kind = "IPv6", IPv6!Next, UNCHANGED kind
  PROVE  TablesInv'
<1> USE DEF IPv6!V4!lists, IPv6!V4!fixed
<1>1. CASE IPv6!Destroy
  BY <1>1 DEF TablesInv, Needed, IPv6!Destroy, IPv6!V4!Destroy, IPv6!V4!NoGroups, IPv6!V4!Sockets
<1>2. CASE \E size \in Size : IPv6!Create(size)
  BY <1>2 DEF TablesInv, Needed, IPv6!Create, IPv6!V4!Create, IPv6!V4!Sockets
<1>3. CASE \E size \in Size, at_ \in DOMAIN IPv6!V4!OpenAt : IPv6!CreateFails(at_, size)
  BY <1>3 DEF TablesInv, IPv6!CreateFails, IPv6!V4!CreateFails, IPv6!V4!OpenAt,
     IPv6!V4!ClosedAt, IPv6!V4!Sockets
<1>4. CASE \/ \E g \in Multicast : IPv6!JoinMulticastGroup(g) \/ IPv6!LeaveMulticastGroup(g)
           \/ IPv6!LeaveAllMulticastGroups
  BY <1>4, SMTT(30) DEF TablesInv, Needed, IPv6!JoinMulticastGroup, IPv6!LeaveMulticastGroup,
     IPv6!LeaveAllMulticastGroups, IPv6!V4!JoinMulticastGroup, IPv6!V4!LeaveMulticastGroup,
     IPv6!V4!LeaveAllMulticastGroups, IPv6!V4!Sockets
<1>5. CASE IPv6!Lists
  BY <1>5, SameTables DEF IPv6!Lists, IPv6!SetReceiveMode, IPv6!AddToIgnoreList,
     IPv6!DeleteFromIgnoreList, IPv6!AddToAcceptList, IPv6!DeleteFromAcceptList,
     IPv6!ClearIgnoreList, IPv6!ClearAcceptList, IPv6!V4!SetReceiveMode,
     IPv6!V4!ClearIgnoreList, IPv6!V4!ClearAcceptList, IPv6!V4!ChangeList, IPv6!V4!ClearList
<1>6. CASE \/ \E d \in Dest : IPv6!AddDestination(d) \/ IPv6!DeleteDestination(d)
           \/ IPv6!ClearDestinations
           \/ \E len \in Size : \/ IPv6!SendRTPData(len) \/ IPv6!SendRTCPData(len)
                                \/ IPv6!SetMaximumPacketSize(len)
  BY <1>6, SameTables DEF IPv6!AddDestination, IPv6!DeleteDestination, IPv6!ClearDestinations,
     IPv6!SendRTPData, IPv6!SendRTCPData, IPv6!SetMaximumPacketSize, IPv6!V4!AddDestination,
     IPv6!V4!DeleteDestination, IPv6!V4!ClearDestinations, IPv6!V4!SendRTPData,
     IPv6!V4!SendRTCPData, IPv6!V4!SetMaximumPacketSize
<1>7. CASE \/ IPv6!GetLocalHostName \/ IPv6!Poll \/ IPv6!GetNextPacket
           \/ \E s \in IPv6!V4!Sockets, d \in IPv6!V4!Datagram : IPv6!V4!Arrive(s, d)
  BY <1>7, SameTables DEF IPv6!GetLocalHostName, IPv6!Poll, IPv6!GetNextPacket,
     IPv6!V4!GetLocalHostName, IPv6!V4!Arrive
<1> QED BY <1>1, <1>2, <1>3, <1>4, <1>5, <1>6, <1>7 DEF IPv6!Next, IPv6!Sending

\* The external transmitter has the pipe only, and no groups.
LEMMA ExternalTables ==
  ASSUME TablesInv, kind = "External", External!Next, UNCHANGED kind
  PROVE  TablesInv'
<1> USE DEF External!lists
<1>1. CASE External!Destroy
  BY <1>1 DEF TablesInv, Needed, External!Destroy
<1>2. CASE \E size \in Size, sender \in {{}} \cup {{d} : d \in Dest} : External!Create(size, sender)
  BY <1>2 DEF TablesInv, Needed, External!Create
<1>3. CASE ~External!Destroy /\ ~\E size \in Size, sender \in {{}} \cup {{d} : d \in Dest} :
                                   External!Create(size, sender)
  BY <1>3, SameTables DEF External!Next, External!SendRTPData, External!SendRTCPData,
     External!SetMaximumPacketSize, External!Inject, External!InjectRTP, External!InjectRTCP,
     External!InjectRTPorRTCP, External!GetNextPacket, External!GetLocalHostName
<1> QED BY <1>1, <1>2, <1>3

\* The fake one has nothing to close, and no groups.
LEMMA FakeTables ==
  ASSUME TablesInv, kind = "UserDefined", Fake!Next, UNCHANGED kind
  PROVE  TablesInv'
<1>1. UNCHANGED <<open, member, groups>> /\ created' \in BOOLEAN
  <2>1. CASE Fake!Lists
    BY <2>1 DEF TablesInv, Fake!Lists, Fake!SetReceiveMode, Fake!AddToIgnoreList,
       Fake!DeleteFromIgnoreList, Fake!AddToAcceptList, Fake!DeleteFromAcceptList,
       Fake!ClearIgnoreList, Fake!ClearAcceptList, Fake!V4!SetReceiveMode,
       Fake!V4!ClearIgnoreList, Fake!V4!ClearAcceptList, Fake!V4!ChangeList,
       Fake!V4!ClearList, Fake!V4!fixed
  <2>2. CASE Fake!Sending
    BY <2>2 DEF TablesInv, Fake!Sending, Fake!AddDestination, Fake!DeleteDestination,
       Fake!ClearDestinations, Fake!SendRTPData, Fake!SendRTCPData, Fake!SetMaximumPacketSize,
       Fake!V4!AddDestination, Fake!V4!DeleteDestination, Fake!V4!ClearDestinations,
       Fake!V4!SendRTPData, Fake!V4!SendRTCPData, Fake!V4!SetMaximumPacketSize,
       Fake!V4!fixed, Fake!V4!lists
  <2>3. CASE \/ \E size \in Size : Fake!Create(size)
             \/ Fake!Destroy \/ Fake!GetLocalHostName \/ Fake!Poll \/ Fake!GetNextPacket
             \/ \E s \in Fake!V4!Sockets, d \in Fake!V4!Datagram : Fake!SetCurrentData(s, d)
    BY <2>3 DEF TablesInv, Fake!Create, Fake!Destroy, Fake!GetLocalHostName, Fake!Poll,
       Fake!GetNextPacket, Fake!SetCurrentData, Fake!V4!GetLocalHostName, Fake!V4!fixed,
       Fake!V4!lists
  <2> QED BY <2>1, <2>2, <2>3 DEF Fake!Next
<1> QED BY <1>1 DEF TablesInv, Needed

\* The tables' part of every step.
LEMMA TablesStep == ASSUME TablesInv, [Next]_vars PROVE TablesInv'
<1>1. CASE UNCHANGED <<kind, tables>>
  BY <1>1, SameTables DEF tables
<1>2. CASE Next /\ ~UNCHANGED tables
  <2>1. \/ kind = "IPv4" /\ IPv4!Next
        \/ kind = "IPv6" /\ IPv6!Next
        \/ kind = "External" /\ External!Next
        \/ kind = "UserDefined" /\ Fake!Next
    BY <1>2, Zenon DEF Next, tables
  <2>2. UNCHANGED kind
    BY <1>2, Zenon DEF Next
  <2>3. CASE kind = "IPv4" /\ IPv4!Next
    BY <2>3, <2>2, IPv4Tables
  <2>4. CASE kind = "IPv6" /\ IPv6!Next
    BY <2>4, <2>2, IPv6Tables
  <2>5. CASE kind = "External" /\ External!Next
    BY <2>5, <2>2, ExternalTables
  <2>6. CASE kind = "UserDefined" /\ Fake!Next
    BY <2>6, <2>2, FakeTables
  <2> QED BY <2>1, <2>3, <2>4, <2>5, <2>6
<1>3. CASE Next /\ UNCHANGED tables
  <2>1. kind' = kind
    BY <1>3, Zenon DEF Next
  <2> QED BY <1>1, <1>3, <2>1
<1>4. UNCHANGED vars => UNCHANGED <<kind, tables>>
  BY DEF vars
<1> QED BY <1>1, <1>2, <1>3, <1>4

\* There is no transmitter yet.
LEMMA TablesInit == ASSUME Init PROVE TablesInv
BY DEF Init, IPv4!Init, IPv4!NoGroups, IPv4!Sockets, TablesInv

-----------------------------------------------------------------------------
(* What RTPTransmitter promises                                            *)

Entries == [all : BOOLEAN, ports : SUBSET Port]
Modes   == {"AcceptAll", "AcceptSome", "IgnoreSome"}
Data    == [src : Source, len : {0, 1}]

DataTypes ==
  /\ info \in [IP -> Entries] /\ mode \in Modes
  /\ queue \in [{"rtp", "rtcp"} -> Seq(Data)]
  /\ raw \in Seq([src : Source, rtp : BOOLEAN])

\* What a transmitter that is not created has, and what two kinds never use.
DataInv ==
  /\ DataTypes
  /\ ~created => dests = {} /\ out = {}
  /\ kind \in {"External", "UserDefined"} => groups = {}
  /\ kind = "External" => mode = "AcceptAll" /\ \A ip \in IP : info[ip] = IPv4!NoEntry

\* An entry for all ports, or for one more.
LEMMA AddEntry ==
  ASSUME DataTypes, NEW ip \in IP, NEW port \in Port \cup {0}, created, mode # "AcceptAll",
         info' = [info EXCEPT ![ip] = IPv4!ProcessAddAcceptIgnoreEntry(info[ip], port)],
         out' = {}, UNCHANGED <<created, dests, groups, mode, maxsize, raw>>
  PROVE  IPv4!Interface!AddToList(ip, port) /\ info' \in [IP -> Entries]
<1> DEFINE Add(e) == IPv4!ProcessAddAcceptIgnoreEntry(e, port)
           L(i) == {a \in IPv4!Address : (a.port \in i[a.ip].ports) # i[a.ip].all}
           W(i) == {h \in IP : i[h].all}
<1>1. /\ Add(info[ip]) \in Entries
      /\ port = 0 => Add(info[ip]).all /\ Add(info[ip]).ports = {}
      /\ port # 0 => Add(info[ip]).all = info[ip].all
      /\ port # 0 /\ info[ip].all => Add(info[ip]).ports = info[ip].ports
      /\ port # 0 /\ ~info[ip].all => Add(info[ip]).ports = info[ip].ports \cup {port}
  BY DEF DataTypes, Entries, IPv4!ProcessAddAcceptIgnoreEntry
<1>2. /\ info' \in [IP -> Entries] /\ info'[ip] = Add(info[ip])
      /\ \A h \in IP \ {ip} : info'[h] = info[h]
  BY <1>1 DEF DataTypes
<1> HIDE DEF Add
<1>3. L(info') = IF port # 0 /\ ip \in W(info) THEN L(info) ELSE L(info) \cup IPv4!Interface!Covered(ip, port)
  BY <1>1, <1>2, AddressAssumption DEF DataTypes, Entries, IPv4!Address, IPv4!Interface!Covered
<1>4. W(info') = IF port = 0 THEN W(info) \cup {ip} ELSE W(info)
  BY <1>1, <1>2
<1> QED BY <1>2, <1>3, <1>4 DEF IPv4!Interface!AddToList, IPv4!Interface!Nothing

\* All ports taken off the list, or one of them.
LEMMA DeleteEntry ==
  ASSUME DataTypes, NEW ip \in IP, NEW port \in Port \cup {0}, created, mode # "AcceptAll",
         info' = [info EXCEPT ![ip] = IPv4!ProcessDeleteAcceptIgnoreEntry(info[ip], port)],
         out' = {}, UNCHANGED <<created, dests, groups, mode, maxsize, raw>>
  PROVE  IPv4!Interface!DeleteFromList(ip, port) /\ info' \in [IP -> Entries]
<1> DEFINE Del(e) == IPv4!ProcessDeleteAcceptIgnoreEntry(e, port)
           L(i) == {a \in IPv4!Address : (a.port \in i[a.ip].ports) # i[a.ip].all}
           W(i) == {h \in IP : i[h].all}
<1>1. /\ Del(info[ip]) \in Entries
      /\ port = 0 => ~Del(info[ip]).all /\ Del(info[ip]).ports = {}
      /\ port # 0 => Del(info[ip]).all = info[ip].all
      /\ port # 0 /\ info[ip].all => Del(info[ip]).ports = info[ip].ports \cup {port}
      /\ port # 0 /\ ~info[ip].all => Del(info[ip]).ports = info[ip].ports \ {port}
  BY DEF DataTypes, Entries, IPv4!ProcessDeleteAcceptIgnoreEntry
<1>2. /\ info' \in [IP -> Entries] /\ info'[ip] = Del(info[ip])
      /\ \A h \in IP \ {ip} : info'[h] = info[h]
  BY <1>1 DEF DataTypes
<1> HIDE DEF Del
<1>3. L(info') = L(info) \ IPv4!Interface!Covered(ip, port)
  BY <1>1, <1>2, AddressAssumption DEF DataTypes, Entries, IPv4!Address, IPv4!Interface!Covered
<1>4. W(info') = IF port = 0 THEN W(info) \ {ip} ELSE W(info)
  BY <1>1, <1>2
<1> QED BY <1>2, <1>3, <1>4 DEF IPv4!Interface!DeleteFromList, IPv4!Interface!Nothing

\* An empty list lists nothing.
LEMMA EmptyList ==
  ASSUME info' = IPv4!NoInfo
  PROVE  /\ info' \in [IP -> Entries]
         /\ {a \in IPv4!Address : (a.port \in info'[a.ip].ports) # info'[a.ip].all} = {}
         /\ {h \in IP : info'[h].all} = {}
<1>1. \A ip \in IP : info'[ip].ports = {} /\ info'[ip].all = FALSE
  BY DEF IPv4!NoInfo, IPv4!NoEntry
<1>2. info' \in [IP -> Entries]
  BY DEF IPv4!NoInfo, IPv4!NoEntry, Entries
<1>3. \A a \in IPv4!Address : (a.port \in info'[a.ip].ports) = FALSE /\ info'[a.ip].all = FALSE
  BY <1>1 DEF IPv4!Address
<1> QED BY <1>1, <1>2, <1>3

\* A source passes exactly when the promise lets it.
LEMMA AcceptsListed ==
  ASSUME DataTypes, NEW src \in Source, IPv4!ShouldAcceptData(src)
  PROVE  IPv4!Interface!Accepts(src)
<1>1. src \in IPv4!Address /\ src.ip \in IP /\ info[src.ip] \in Entries
  BY AddressAssumption DEF DataTypes, IPv4!Address, Address
<1>2. info[src.ip].all \in BOOLEAN
  BY <1>1 DEF Entries
<1>3. CASE mode = "AcceptAll"
  BY <1>3 DEF IPv4!Interface!Accepts
<1>4. CASE mode = "AcceptSome"
  <2>1. IF info[src.ip].all THEN src.port \notin info[src.ip].ports ELSE src.port \in info[src.ip].ports
    BY <1>4 DEF IPv4!ShouldAcceptData
  <2>2. (src.port \in info[src.ip].ports) # info[src.ip].all
    BY <1>2, <2>1
  <2> QED BY <1>1, <1>4, <2>2 DEF IPv4!Interface!Accepts
<1>5. CASE mode = "IgnoreSome"
  <2>1. ~(IF info[src.ip].all THEN src.port \notin info[src.ip].ports ELSE src.port \in info[src.ip].ports)
    BY <1>5 DEF IPv4!ShouldAcceptData
  <2>2. ~((src.port \in info[src.ip].ports) # info[src.ip].all)
    BY <1>2, <2>1
  <2> QED BY <1>1, <1>5, <2>2 DEF IPv4!Interface!Accepts
<1> QED BY <1>3, <1>4, <1>5 DEF DataTypes, Modes

Packets == [src : Source, rtp : BOOLEAN]

\* The packets made of the accepted datagrams.
LEMMA ListOfFunction ==
  ASSUME NEW X, NEW n \in Nat, NEW f \in [1..n -> X]
  PROVE  f \in Seq(X) /\ Len(f) = n
<1>1. f \in Seq(X)
  BY SeqDef
<1>2. Len(f) \in Nat /\ DOMAIN f = 1..Len(f)
  BY <1>1, LenProperties
<1>3. DOMAIN f = 1..n
  OBVIOUS
<1> QED BY <1>1, <1>2, <1>3

\* What Poll makes of them is what the promise receives.
LEMMA TakenAccepted ==
  ASSUME DataTypes, NEW list \in Seq(Data), NEW S, \A d \in S : IPv4!ShouldAcceptData(d.src),
         NEW rtp \in BOOLEAN, NEW taken,
         taken = [i \in 1..Len(Selected(list, S)) |-> [src |-> Selected(list, S)[i].src, rtp |-> rtp]]
  PROVE  /\ taken \in Seq(Packets)
         /\ \A i \in 1..Len(taken) : IPv4!Interface!Accepts(taken[i].src)
<1>1. PICK sel \in Seq(Data) : sel = Selected(list, S) /\ SelectedFrom(sel, list, Len(list), S)
  BY SelectedProperties
<1>2. \A i \in 1..Len(sel) : sel[i] \in S /\ sel[i] \in Data
  BY <1>1 DEF SelectedFrom
<1>3. \A i \in 1..Len(sel) : sel[i].src \in Source /\ IPv4!Interface!Accepts(sel[i].src)
  BY <1>2, AcceptsListed DEF Data
<1>4. taken = [i \in 1..Len(sel) |-> [src |-> sel[i].src, rtp |-> rtp]]
  BY <1>1
<1>5. Len(sel) \in Nat
  BY <1>1
<1>6. taken \in Seq(Packets) /\ Len(taken) = Len(sel)
  <2>1. taken \in [1..Len(sel) -> Packets]
    BY <1>3, <1>4 DEF Packets
  <2> QED BY <1>5, <2>1, ListOfFunction, ZenonT(30)
<1> QED BY <1>3, <1>4, <1>6, SMTT(30)

\* What Poll appends.
LEMMA ReceiveBoth ==
  ASSUME DataTypes, NEW a \in Seq(Packets), NEW b \in Seq(Packets), created,
         \A i \in 1..Len(a) : IPv4!Interface!Accepts(a[i].src),
         \A i \in 1..Len(b) : IPv4!Interface!Accepts(b[i].src),
         raw' = raw \o a \o b, out' = {},
         UNCHANGED <<created, dests, groups, mode, info, maxsize>>
  PROVE  IPv4!Interface!Receive /\ raw' \in Seq(Packets)
<1>1. PICK r \in Seq(Packets) : r = raw
  BY DEF DataTypes, Packets
<1>2. /\ (r \o a) \o b \in Seq(Packets)
      /\ Len((r \o a) \o b) = Len(r) + Len(a) + Len(b)
      /\ Len(r) \in Nat /\ Len(a) \in Nat /\ Len(b) \in Nat
  OBVIOUS
<1>3. \A i \in 1..Len(r) : ((r \o a) \o b)[i] = r[i]
  OBVIOUS
<1>4. \A i \in (Len(r) + 1)..(Len(r) + Len(a) + Len(b)) :
         IPv4!Interface!Accepts(((r \o a) \o b)[i].src)
  <2> TAKE i \in (Len(r) + 1)..(Len(r) + Len(a) + Len(b))
  <2>1. CASE i <= Len(r) + Len(a)
    <3>1. ((r \o a) \o b)[i] = a[i - Len(r)] /\ i - Len(r) \in 1..Len(a)
      BY <1>2, <2>1
    <3> QED BY <3>1
  <2>2. CASE i > Len(r) + Len(a)
    <3>1. /\ ((r \o a) \o b)[i] = b[i - (Len(r) + Len(a))]
          /\ i - (Len(r) + Len(a)) \in 1..Len(b)
      BY <1>2, <2>2
    <3> QED BY <3>1
  <2> QED BY <1>2, <2>1, <2>2
<1> QED BY <1>1, <1>2, <1>3, <1>4 DEF IPv4!Interface!Receive, IPv4!Interface!Nothing

-----------------------------------------------------------------------------
(* The kinds of steps the transmitters have in common                      *)

Promise == IPv4!Interface!Next \/ UNCHANGED IPv4!Interface!vars

\* What a call changes in the lists of sources.
ListStep ==
  /\ created /\ out' = {} /\ UNCHANGED <<created, dests, groups, maxsize, raw, queue>>
  /\ \/ \E m \in Modes : m # mode /\ mode' = m /\ info' = IPv4!NoInfo
     \/ /\ mode' = mode /\ mode # "AcceptAll"
        /\ \/ info' = IPv4!NoInfo
           \/ \E ip \in IP, port \in Port \cup {0} :
                \/ info' = [info EXCEPT ![ip] = IPv4!ProcessAddAcceptIgnoreEntry(info[ip], port)]
                \/ info' = [info EXCEPT ![ip] = IPv4!ProcessDeleteAcceptIgnoreEntry(info[ip], port)]

\* Changing the list of sources.
LEMMA ListPromise ==
  ASSUME DataInv, ListStep, kind # "External", UNCHANGED kind
  PROVE  Promise /\ DataInv'
<1> USE DEF ListStep
<1>1. CASE \E m \in Modes : m # mode /\ mode' = m /\ info' = IPv4!NoInfo
  <2> PICK m \in Modes : m # mode /\ mode' = m /\ info' = IPv4!NoInfo
    BY <1>1
  <2>1. IPv4!Interface!SetReceiveMode(m)
    BY EmptyList DEF IPv4!Interface!SetReceiveMode, IPv4!Interface!Nothing
  <2>2. IPv4!Interface!Next
    BY <2>1 DEF IPv4!Interface!Next, IPv4!Interface!Modes, Modes
  <2>3. DataTypes'
    BY EmptyList DEF DataInv, DataTypes
  <2> QED BY <2>2, <2>3 DEF Promise, DataInv
<1>2. CASE mode' = mode /\ info' = IPv4!NoInfo
  <2>1. IPv4!Interface!ClearList
    BY <1>2, EmptyList DEF IPv4!Interface!ClearList, IPv4!Interface!Nothing
  <2>2. DataTypes'
    BY <1>2, EmptyList DEF DataInv, DataTypes
  <2> QED BY <2>1, <2>2 DEF Promise, DataInv, IPv4!Interface!Next
<1>3. ASSUME mode' = mode, mode # "AcceptAll", NEW ip \in IP, NEW port \in Port \cup {0},
             \/ info' = [info EXCEPT ![ip] = IPv4!ProcessAddAcceptIgnoreEntry(info[ip], port)]
             \/ info' = [info EXCEPT ![ip] = IPv4!ProcessDeleteAcceptIgnoreEntry(info[ip], port)]
      PROVE  Promise /\ DataInv'
  <2>1. /\ IPv4!Interface!AddToList(ip, port) \/ IPv4!Interface!DeleteFromList(ip, port)
        /\ info' \in [IP -> Entries]
    BY <1>3, AddEntry, DeleteEntry DEF DataInv
  <2>2. DataTypes'
    BY <1>3, <2>1 DEF DataInv, DataTypes
  <2> QED BY <1>3, <2>1, <2>2 DEF Promise, DataInv, IPv4!Interface!Next
<1> QED BY <1>1, <1>2, <1>3

\* As long as info is the same, so is what it stands for.
LEMMA SameList ==
  ASSUME info' = info
  PROVE  /\ {a \in IPv4!Address : (a.port \in info'[a.ip].ports) # info'[a.ip].all}
              = {a \in IPv4!Address : (a.port \in info[a.ip].ports) # info[a.ip].all}
         /\ {ip \in IP : info'[ip].all} = {ip \in IP : info[ip].all}
BY Zenon

\* Sending, asking, and the tables of destinations and groups.
SendStep ==
  /\ created /\ UNCHANGED <<created, mode, info, raw, queue>>
  /\ \/ /\ \E type \in {"rtp", "rtcp"}, len \in Size :
              len <= maxsize /\ out' = {<<type, d, len>> : d \in dests}
        /\ UNCHANGED <<dests, groups, maxsize>>
     \/ /\ \E n : out' = {<<"name", n>>}
        /\ UNCHANGED <<dests, groups, maxsize>>
     \/ /\ maxsize' \in Size /\ out' = {} /\ UNCHANGED <<dests, groups>>
     \/ /\ \/ \E d \in Dest : dests' \in {dests \cup {d}, dests \ {d}}
           \/ dests' = {}
        /\ out' = {} /\ UNCHANGED <<groups, maxsize>>
     \/ /\ \/ \E g \in Multicast : groups' \in {groups \cup {g}, groups \ {g}}
           \/ groups' = {}
        /\ kind \notin {"External", "UserDefined"}
        /\ out' = {} /\ UNCHANGED <<dests, maxsize>>

\* Sending, and changing the destinations and the groups.
LEMMA SendPromise == ASSUME DataInv, SendStep, UNCHANGED kind PROVE Promise /\ DataInv'
<1>1. DataInv'
  BY DEF SendStep, DataInv, DataTypes
<1>2. CASE /\ \E type \in {"rtp", "rtcp"}, len \in Size :
                 len <= maxsize /\ out' = {<<type, d, len>> : d \in dests}
           /\ UNCHANGED <<dests, groups, maxsize>>
  BY SameList, <1>1, <1>2 DEF SendStep, Promise, IPv4!Interface!Next, IPv4!Interface!SendData
<1>3. CASE (\E n : out' = {<<"name", n>>}) /\ UNCHANGED <<dests, groups, maxsize>>
  <2>1. CASE out' = out
    BY SameList, <1>1, <1>3, <2>1 DEF SendStep, Promise, IPv4!Interface!vars
  <2>2. CASE out' # out
    BY SameList, <1>1, <1>3, <2>2 DEF SendStep, Promise, IPv4!Interface!Next, IPv4!Interface!Query
  <2> QED BY <2>1, <2>2
<1>4. CASE maxsize' \in Size /\ out' = {} /\ UNCHANGED <<dests, groups>>
  BY SameList, <1>1, <1>4 DEF SendStep, Promise, IPv4!Interface!Next, IPv4!Interface!SetMaximumPacketSize,
     IPv4!Interface!Nothing
<1>5. CASE /\ \/ \E d \in Dest : dests' \in {dests \cup {d}, dests \ {d}}
              \/ dests' = {}
           /\ out' = {} /\ UNCHANGED <<groups, maxsize>>
  <2>1. \A d \in Dest : d \in IPv4!Interface!Address
    BY AddressAssumption DEF IPv4!Interface!Address, Address
  <2>2. IPv4!Interface!SetDestinations
    BY SameList, <1>1, <1>5, <2>1 DEF SendStep, IPv4!Interface!SetDestinations, IPv4!Interface!Nothing
  <2> QED BY <1>1, <2>2 DEF Promise, IPv4!Interface!Next
<1>6. CASE /\ \/ \E g \in Multicast : groups' \in {groups \cup {g}, groups \ {g}}
              \/ groups' = {}
           /\ out' = {} /\ UNCHANGED <<dests, maxsize>>
  <2>1. IPv4!Interface!SetGroups
    BY SameList, <1>1, <1>6 DEF SendStep, IPv4!Interface!SetGroups, IPv4!Interface!Nothing
  <2> QED BY <1>1, <2>1 DEF Promise, IPv4!Interface!Next
<1> QED BY <1>1, <1>2, <1>3, <1>4, <1>5, <1>6 DEF SendStep

\* Packets that come in, or are handed out.
PacketsStep ==
  /\ created /\ UNCHANGED <<created, dests, groups, mode, info, maxsize>>
  /\ queue' \in [{"rtp", "rtcp"} -> Seq(Data)]
  /\ \/ raw' = raw /\ out' = {}
     \/ /\ \E a, b \in Seq(Packets) :
             /\ raw' = raw \o a \o b
             /\ \A i \in 1..Len(a) : IPv4!Interface!Accepts(a[i].src)
             /\ \A i \in 1..Len(b) : IPv4!Interface!Accepts(b[i].src)
        /\ out' = {}
     \/ /\ raw # <<>> /\ raw' = Tail(raw)
        /\ \E own \in BOOLEAN : out' = {<<"packet", Head(raw), own>>}

\* Receiving packets and handing them over.
LEMMA PacketsPromise == ASSUME DataInv, PacketsStep, UNCHANGED kind PROVE Promise /\ DataInv'
<1>1. raw \in Seq(Packets)
  BY DEF DataInv, DataTypes, Packets
<1>2. CASE raw' = raw /\ out' = {}
  <2>1. Len(raw) \in Nat
    BY <1>1
  <2>2. IPv4!Interface!Receive
    BY SameList, <1>2, <2>1 DEF PacketsStep, IPv4!Interface!Receive, IPv4!Interface!Nothing
  <2> QED BY <1>2, <2>2 DEF PacketsStep, Promise, DataInv, DataTypes, IPv4!Interface!Next
<1>3. ASSUME NEW a \in Seq(Packets), NEW b \in Seq(Packets), raw' = raw \o a \o b,
             \A i \in 1..Len(a) : IPv4!Interface!Accepts(a[i].src),
             \A i \in 1..Len(b) : IPv4!Interface!Accepts(b[i].src), out' = {}
      PROVE  Promise /\ DataInv'
  <2>1. IPv4!Interface!Receive /\ raw' \in Seq(Packets)
    BY <1>3, ReceiveBoth DEF PacketsStep, DataInv
  <2> QED BY SameList, <1>3, <2>1 DEF PacketsStep, Promise, DataInv, DataTypes, IPv4!Interface!Next, Packets
<1>4. ASSUME raw # <<>>, raw' = Tail(raw), NEW own \in BOOLEAN, out' = {<<"packet", Head(raw), own>>}
      PROVE  Promise /\ DataInv'
  <2>1. IPv4!Interface!GetNextPacket
    BY SameList, <1>4 DEF PacketsStep, IPv4!Interface!GetNextPacket
  <2>2. raw' \in Seq(Packets)
    BY <1>1, <1>4
  <2> QED BY <1>4, <2>1, <2>2 DEF PacketsStep, Promise, DataInv, DataTypes, IPv4!Interface!Next, Packets
<1> QED BY <1>2, <1>3, <1>4 DEF PacketsStep

\* Create, a Create that fails, and Destroy.
LifeStep ==
  /\ UNCHANGED raw \/ raw' = <<>>
  /\ queue' \in [{"rtp", "rtcp"} -> Seq(Data)]
  /\ \/ /\ ~created /\ created' = TRUE /\ maxsize' \in Size /\ mode' = "AcceptAll" /\ out' = {}
        /\ \/ UNCHANGED dests \/ \E d \in Dest : dests' = {d}
        /\ UNCHANGED <<groups, info, raw>>
     \/ /\ ~created /\ out' = {} /\ UNCHANGED <<created, dests, groups, mode, info, maxsize, raw>>
     \/ /\ created /\ created' = FALSE /\ dests' = {} /\ groups' = {} /\ raw' = <<>>
        /\ out' = {} /\ UNCHANGED <<mode, maxsize>>
        /\ info' \in [IP -> Entries] /\ \A ip \in IP : info'[ip] = IPv4!NoEntry

\* Creating and destroying the transmitter, and changing what it accepts.
LEMMA LifePromise == ASSUME DataInv, LifeStep, UNCHANGED kind PROVE Promise /\ DataInv'
<1>1. DataTypes'
  <2>1. raw' \in Seq(Packets)
    <3>1. raw \in Seq(Packets) /\ <<>> \in Seq(Packets)
      BY DEF DataInv, DataTypes, Packets
    <3> QED BY <3>1 DEF LifeStep
  <2>2. info' \in [IP -> Entries] /\ mode' \in Modes
    BY DEF LifeStep, DataInv, DataTypes, Modes
  <2> QED BY <2>1, <2>2 DEF LifeStep, DataTypes, Data, Packets
<1>2. DataInv'
  BY <1>1 DEF LifeStep, DataInv
<1>3. CASE /\ ~created /\ created' = TRUE /\ maxsize' \in Size /\ mode' = "AcceptAll" /\ out' = {}
           /\ \/ UNCHANGED dests \/ \E d \in Dest : dests' = {d}
           /\ UNCHANGED <<groups, info, raw>>
  <2>1. \A d \in Dest : d \in IPv4!Interface!Address
    BY AddressAssumption DEF IPv4!Interface!Address, Address
  <2>2. dests' \in {dests} \cup {{d} : d \in IPv4!Interface!Address}
    BY <1>3, <2>1
  <2> QED BY <1>2, <1>3, <2>2 DEF Promise, IPv4!Interface!Next, IPv4!Interface!Create, IPv4!Interface!Nothing
<1>4. CASE ~created /\ out' = {} /\ UNCHANGED <<created, dests, groups, mode, info, maxsize, raw>>
  BY SameList, <1>2, <1>4 DEF Promise, DataInv, IPv4!Interface!vars
<1>5. CASE /\ created /\ created' = FALSE /\ dests' = {} /\ groups' = {} /\ raw' = <<>>
           /\ out' = {} /\ UNCHANGED <<mode, maxsize>>
           /\ info' \in [IP -> Entries] /\ \A ip \in IP : info'[ip] = IPv4!NoEntry
  <2>1. \A ip \in IP : info'[ip].ports = {} /\ info'[ip].all = FALSE
    BY <1>5 DEF IPv4!NoEntry
  <2>2. \A a \in IPv4!Address : (a.port \in info'[a.ip].ports) = FALSE /\ info'[a.ip].all = FALSE
    BY <2>1 DEF IPv4!Address
  <2>3. IPv4!Interface!Destroy
    BY <1>5, <2>1, <2>2 DEF IPv4!Interface!Destroy, IPv4!Interface!Nothing
  <2> QED BY <1>2, <2>3 DEF Promise, IPv4!Interface!Next
<1> QED BY <1>3, <1>4, <1>5 DEF LifeStep

-----------------------------------------------------------------------------
(* The transmitters one by one                                             *)

\* PollSocket reads a beginning of the queue.
LEMMA ReadableList ==
  ASSUME DataTypes, NEW s \in {"rtp", "rtcp"}
  PROVE  /\ queue[s] \in Seq(Data)
         /\ IPv4!Readable(s) \in Seq(Data) /\ Len(IPv4!Readable(s)) \in Nat
         /\ SubSeq(queue[s], Len(IPv4!Readable(s)) + 1, Len(queue[s])) \in Seq(Data)
<1>1. PICK q \in Seq(Data) : q = queue[s]
  BY DEF DataTypes
<1> DEFINE I == {i \in 1..Len(q) : q[i].len = 0}
           n == IF I # {} THEN IPv4!Min(I) ELSE 0
<1>2. IPv4!Readable(s) = IF n = 0 THEN q ELSE SubSeq(q, 1, n - 1)
  BY <1>1 DEF IPv4!Readable, IPv4!SelectInSeq
<1>3. n \in 0..Len(q)
  <2>1. CASE I # {}
    <3>1. I \in SUBSET Nat
      OBVIOUS
    <3>2. \E x \in I : \A y \in I : x <= y
      <4> HIDE DEF I
      <4> QED BY <2>1, <3>1, LeastElement
    <3>3. IPv4!Min(I) \in I
      <4> HIDE DEF I
      <4> QED BY <3>2 DEF IPv4!Min
    <3> QED BY <2>1, <3>3
  <2>2. CASE I = {}
    BY <2>2
  <2> QED BY <2>1, <2>2
<1> HIDE DEF n
<1>4. PICK r \in Seq(Data) : r = IPv4!Readable(s)
  <2>1. CASE n = 0
    BY <1>2, <2>1
  <2>2. CASE n # 0
    <3>1. \A i \in 1..(n - 1) : i \in 1..Len(q)
      BY <1>3
    <3>2. SubSeq(q, 1, n - 1) \in Seq(Data)
      BY <1>3, <3>1
    <3> QED BY <1>2, <2>2, <3>2, Zenon
  <2> QED BY <2>1, <2>2
<1>5. SubSeq(q, Len(r) + 1, Len(q)) \in Seq(Data)
  OBVIOUS
<1> QED BY <1>1, <1>4, <1>5

\* The datagrams PollSocket takes are accepted ones, in order.
LEMMA IPv4Taken ==
  ASSUME DataTypes, NEW s \in {"rtp", "rtcp"}
  PROVE  /\ IPv4!PollSocket(s) \in Seq(Packets)
         /\ \A i \in 1..Len(IPv4!PollSocket(s)) : IPv4!Interface!Accepts(IPv4!PollSocket(s)[i].src)
<1> DEFINE S == {d \in IPv4!Datagram : IPv4!ShouldAcceptData(d.src)}
<1>1. IPv4!Selected(IPv4!Readable(s), S) = Selected(IPv4!Readable(s), S)
  BY Zenon DEF IPv4!Selected, Selected
<1>2. IPv4!PollSocket(s) = [i \in 1..Len(Selected(IPv4!Readable(s), S)) |->
                              [src |-> Selected(IPv4!Readable(s), S)[i].src, rtp |-> (s = "rtp")]]
  BY <1>1, Zenon DEF IPv4!PollSocket
<1>3. \A d \in S : IPv4!ShouldAcceptData(d.src)
  OBVIOUS
<1>4. IPv4!Readable(s) \in Seq(Data) /\ (s = "rtp") \in BOOLEAN
  BY ReadableList
<1> HIDE DEF S
<1> QED BY <1>2, <1>3, <1>4, TakenAccepted, Zenon

\* Every operation of the IPv4 transmitter is one of those kinds.
LEMMA IPv4Promise ==
  ASSUME DataInv, TablesInv, kind = "IPv4", IPv4!Next, UNCHANGED kind
  PROVE  Promise /\ DataInv'
<1> USE DEF IPv4!lists, IPv4!fixed
<1>0. queue \in [{"rtp", "rtcp"} -> Seq(Data)] /\ \A s \in {"rtp", "rtcp"} : queue[s] \in Seq(Data)
  BY DEF DataInv, DataTypes
<1>1. CASE IPv4!Lists
  <2>1. ListStep
    BY <1>1 DEF IPv4!Lists, IPv4!SetReceiveMode, IPv4!AddToIgnoreList,
     IPv4!DeleteFromIgnoreList, IPv4!AddToAcceptList, IPv4!DeleteFromAcceptList,
     IPv4!ClearIgnoreList, IPv4!ClearAcceptList, IPv4!ChangeList, IPv4!ClearList, ListStep,
     IPv4!Modes, Modes
  <2> QED BY <2>1, ListPromise
<1>2. CASE IPv4!Destinations \/ IPv4!Groups \/ IPv4!GetLocalHostName
           \/ \E size \in Size : IPv4!SetMaximumPacketSize(size)
  <2>1. SendStep
    <3>1. CASE IPv4!Destinations
      BY <3>1 DEF SendStep, IPv4!Destinations, IPv4!AddDestination, IPv4!DeleteDestination, IPv4!ClearDestinations
    <3>2. CASE IPv4!Groups
      BY <3>2 DEF SendStep, IPv4!Groups, IPv4!JoinMulticastGroup, IPv4!LeaveMulticastGroup, IPv4!LeaveAllMulticastGroups
    <3>3. CASE IPv4!GetLocalHostName \/ \E size \in Size : IPv4!SetMaximumPacketSize(size)
      BY <3>3 DEF SendStep, IPv4!GetLocalHostName, IPv4!SetMaximumPacketSize
    <3> QED BY <1>2, <3>1, <3>2, <3>3
  <2> QED BY <2>1, SendPromise
<1>3. CASE \E len \in Size : IPv4!SendRTPData(len) \/ IPv4!SendRTCPData(len)
  <2>1. SendStep
    BY <1>3 DEF SendStep, IPv4!SendRTPData, IPv4!SendRTCPData
  <2> QED BY <2>1, SendPromise
<1>4. CASE \E s \in IPv4!Sockets, d \in IPv4!Datagram : IPv4!Arrive(s, d)
  <2> PICK s \in IPv4!Sockets, d \in IPv4!Datagram : IPv4!Arrive(s, d)
    BY <1>4
  <2>1. created
    BY DEF TablesInv, IPv4!Arrive
  <2>2. Append(queue[s], d) \in Seq(Data)
    BY <1>0 DEF IPv4!Sockets, IPv4!Datagram, Data
  <2>3. queue' \in [{"rtp", "rtcp"} -> Seq(Data)]
    BY <1>0, <2>2 DEF IPv4!Arrive
  <2>4. PacketsStep
    BY <2>1, <2>3 DEF PacketsStep, IPv4!Arrive
  <2> QED BY <2>4, PacketsPromise
<1>5. CASE IPv4!Poll
  <2>1. queue' \in [{"rtp", "rtcp"} -> Seq(Data)]
    BY <1>5, ReadableList DEF DataInv, IPv4!Poll, IPv4!Sockets
  <2>2. PacketsStep
    BY <1>5, <2>1, IPv4Taken DEF DataInv, PacketsStep, IPv4!Poll
  <2> QED BY <2>2, PacketsPromise
<1>6. CASE IPv4!GetNextPacket
  <2>1. PacketsStep
    BY <1>0, <1>6 DEF PacketsStep, IPv4!GetNextPacket, IPv4!ComesFromThisTransmitter
  <2> QED BY <2>1, PacketsPromise
<1>7. CASE IPv4!Destroy
  <2>1. /\ info' \in [IP -> Entries] /\ \A ip \in IP : info'[ip] = IPv4!NoEntry
        /\ queue' \in [{"rtp", "rtcp"} -> Seq(Data)]
    BY <1>7, EmptyList DEF IPv4!Destroy, IPv4!NoInfo, IPv4!NoQueue, IPv4!Sockets
  <2>2. LifeStep
    BY <1>7, <2>1 DEF LifeStep, IPv4!Destroy
  <2> QED BY <2>2, LifePromise
<1>8. CASE \E size \in Size : IPv4!Create(size)
  <2>1. LifeStep
    BY <1>0, <1>8 DEF LifeStep, IPv4!Create
  <2> QED BY <2>1, LifePromise
<1>9. CASE \E size \in Size, at_ \in DOMAIN IPv4!OpenAt : IPv4!CreateFails(at_, size)
  <2>1. LifeStep
    BY <1>0, <1>9 DEF LifeStep, IPv4!CreateFails
  <2> QED BY <2>1, LifePromise
<1> QED BY <1>1, <1>2, <1>3, <1>4, <1>5, <1>6, <1>7, <1>8, <1>9 DEF IPv4!Next, IPv4!Traffic

\* The same of the IPv6 transmitter.
LEMMA IPv6Taken ==
  ASSUME DataTypes, NEW s \in {"rtp", "rtcp"}
  PROVE  /\ IPv6!V4!Readable(s) = IPv4!Readable(s)
         /\ IPv6!PollSocket(s) \in Seq(Packets)
         /\ \A i \in 1..Len(IPv6!PollSocket(s)) : IPv4!Interface!Accepts(IPv6!PollSocket(s)[i].src)
<1> DEFINE S == {d \in IPv6!V4!Datagram : IPv6!ShouldAcceptData(d.src)}
<1>1. IPv6!V4!Selected(IPv6!V4!Readable(s), S) = Selected(IPv6!V4!Readable(s), S)
  BY Zenon DEF IPv6!V4!Selected, Selected
<1>2. IPv6!PollSocket(s) = [i \in 1..Len(Selected(IPv6!V4!Readable(s), S)) |->
                              [src |-> Selected(IPv6!V4!Readable(s), S)[i].src, rtp |-> (s = "rtp")]]
  BY <1>1, Zenon DEF IPv6!PollSocket
<1>3. \A d \in S : IPv4!ShouldAcceptData(d.src)
  BY DEF IPv6!ShouldAcceptData, IPv6!V4!ShouldAcceptData, IPv4!ShouldAcceptData
<1>4. IPv6!V4!Readable(s) = IPv4!Readable(s)
  BY Zenon DEF IPv6!V4!Readable, IPv6!V4!SelectInSeq, IPv6!V4!Min, IPv4!Readable, IPv4!SelectInSeq, IPv4!Min
<1>5. IPv6!V4!Readable(s) \in Seq(Data) /\ (s = "rtp") \in BOOLEAN
  BY <1>4, ReadableList
<1> HIDE DEF S
<1>6. /\ IPv6!PollSocket(s) \in Seq(Packets)
      /\ \A i \in 1..Len(IPv6!PollSocket(s)) : IPv4!Interface!Accepts(IPv6!PollSocket(s)[i].src)
  BY <1>2, <1>3, <1>5, TakenAccepted, Zenon
<1> QED BY <1>4, <1>6

\* Every operation of the IPv6 transmitter.
LEMMA IPv6Promise ==
  ASSUME DataInv, TablesInv, kind = "IPv6", IPv6!Next, UNCHANGED kind
  PROVE  Promise /\ DataInv'
<1> USE DEF IPv6!V4!lists, IPv6!V4!fixed
<1>0. queue \in [{"rtp", "rtcp"} -> Seq(Data)] /\ \A s \in {"rtp", "rtcp"} : queue[s] \in Seq(Data)
  BY DEF DataInv, DataTypes
<1>1. CASE IPv6!Lists
  <2>1. ListStep
    BY <1>1 DEF IPv6!Lists, IPv6!SetReceiveMode, IPv6!V4!SetReceiveMode, IPv6!AddToIgnoreList,
     IPv6!DeleteFromIgnoreList, IPv6!AddToAcceptList, IPv6!DeleteFromAcceptList,
     IPv6!ClearIgnoreList, IPv6!ClearAcceptList, IPv6!V4!ClearIgnoreList, IPv6!V4!ClearAcceptList,
     IPv6!V4!ChangeList, IPv6!V4!ClearList, ListStep, IPv6!V4!Modes, Modes,
     IPv6!V4!NoInfo, IPv6!V4!NoEntry, IPv4!NoInfo, IPv4!NoEntry,
     IPv6!ProcessAddAcceptIgnoreEntry, IPv6!V4!ProcessAddAcceptIgnoreEntry, IPv4!ProcessAddAcceptIgnoreEntry,
     IPv6!ProcessDeleteAcceptIgnoreEntry, IPv6!V4!ProcessDeleteAcceptIgnoreEntry, IPv4!ProcessDeleteAcceptIgnoreEntry
  <2> QED BY <2>1, ListPromise
<1>2. CASE IPv6!Sending \/ IPv6!GetLocalHostName
  <2>1. SendStep
    <3>1. CASE \/ \E d \in Dest : IPv6!AddDestination(d) \/ IPv6!DeleteDestination(d)
               \/ IPv6!ClearDestinations
      BY <3>1 DEF SendStep, IPv6!AddDestination, IPv6!DeleteDestination, IPv6!ClearDestinations,
         IPv6!V4!AddDestination, IPv6!V4!DeleteDestination, IPv6!V4!ClearDestinations
    <3>2. CASE \/ \E g \in Multicast : IPv6!JoinMulticastGroup(g) \/ IPv6!LeaveMulticastGroup(g)
               \/ IPv6!LeaveAllMulticastGroups
      BY <3>2 DEF SendStep, IPv6!JoinMulticastGroup, IPv6!LeaveMulticastGroup, IPv6!LeaveAllMulticastGroups,
         IPv6!V4!JoinMulticastGroup, IPv6!V4!LeaveMulticastGroup, IPv6!V4!LeaveAllMulticastGroups
    <3>3. CASE \/ IPv6!GetLocalHostName
               \/ \E len \in Size : \/ IPv6!SendRTPData(len) \/ IPv6!SendRTCPData(len)
                                    \/ IPv6!SetMaximumPacketSize(len)
      BY <3>3 DEF SendStep, IPv6!GetLocalHostName, IPv6!SetMaximumPacketSize, IPv6!SendRTPData, IPv6!SendRTCPData,
         IPv6!V4!GetLocalHostName, IPv6!V4!SetMaximumPacketSize, IPv6!V4!SendRTPData, IPv6!V4!SendRTCPData
    <3> QED BY <1>2, <3>1, <3>2, <3>3 DEF IPv6!Sending
  <2> QED BY <2>1, SendPromise
<1>4. CASE \E s \in IPv6!V4!Sockets, d \in IPv6!V4!Datagram : IPv6!V4!Arrive(s, d)
  <2> PICK s \in IPv6!V4!Sockets, d \in IPv6!V4!Datagram : IPv6!V4!Arrive(s, d)
    BY <1>4
  <2>1. created
    BY DEF TablesInv, IPv6!V4!Arrive
  <2>2. Append(queue[s], d) \in Seq(Data)
    BY <1>0 DEF IPv6!V4!Sockets, IPv6!V4!Datagram, Data
  <2>3. queue' \in [{"rtp", "rtcp"} -> Seq(Data)]
    BY <1>0, <2>2 DEF IPv6!V4!Arrive
  <2>4. PacketsStep
    BY <2>1, <2>3 DEF PacketsStep, IPv6!V4!Arrive
  <2> QED BY <2>4, PacketsPromise
<1>5. CASE IPv6!Poll
  <2>1. queue' \in [{"rtp", "rtcp"} -> Seq(Data)]
    BY <1>5, ReadableList, IPv6Taken DEF DataInv, IPv6!Poll, IPv6!V4!Sockets
  <2>2. PacketsStep
    BY <1>5, <2>1, IPv6Taken DEF DataInv, PacketsStep, IPv6!Poll
  <2> QED BY <2>2, PacketsPromise
<1>6. CASE IPv6!GetNextPacket
  <2>1. PacketsStep
    BY <1>0, <1>6 DEF PacketsStep, IPv6!GetNextPacket, IPv6!ComesFromThisTransmitter
  <2> QED BY <2>1, PacketsPromise
<1>7. CASE IPv6!Destroy
  <2>1. /\ info' \in [IP -> Entries] /\ \A ip \in IP : info'[ip] = IPv4!NoEntry
        /\ queue' \in [{"rtp", "rtcp"} -> Seq(Data)]
    BY <1>7 DEF IPv6!Destroy, IPv6!V4!Destroy, IPv6!V4!NoInfo, IPv6!V4!NoEntry, IPv4!NoEntry, Entries, IPv6!V4!NoQueue, IPv6!V4!Sockets
  <2>2. LifeStep
    BY <1>7, <2>1 DEF LifeStep, IPv6!Destroy, IPv6!V4!Destroy
  <2> QED BY <2>2, LifePromise
<1>8. CASE \E size \in Size : IPv6!Create(size)
  <2>1. LifeStep
    BY <1>0, <1>8 DEF LifeStep, IPv6!Create, IPv6!V4!Create
  <2> QED BY <2>1, LifePromise
<1>9. CASE \E size \in Size, at_ \in DOMAIN IPv6!V4!OpenAt : IPv6!CreateFails(at_, size)
  <2>1. LifeStep
    BY <1>0, <1>9 DEF LifeStep, IPv6!CreateFails, IPv6!V4!CreateFails
  <2> QED BY <2>1, LifePromise
<1> QED BY <1>1, <1>2, <1>4, <1>5, <1>6, <1>7, <1>8, <1>9 DEF IPv6!Next

\* Every operation of the external transmitter, which lists nobody.
LEMMA ExternalPromise ==
  ASSUME DataInv, kind = "External", External!Next, UNCHANGED kind
  PROVE  Promise /\ DataInv'
<1> USE DEF External!lists
<1>0. queue \in [{"rtp", "rtcp"} -> Seq(Data)] /\ raw \in Seq(Packets)
  BY DEF DataInv, DataTypes, Packets
<1>1. CASE \E size \in Size, sender \in {{}} \cup {{d} : d \in Dest} : External!Create(size, sender)
  <2>1. LifeStep
    BY <1>0, <1>1 DEF LifeStep, External!Create, DataInv
  <2> QED BY <2>1, LifePromise
<1>2. CASE External!Destroy
  <2>1. LifeStep
    BY <1>0, <1>2 DEF LifeStep, External!Destroy, DataInv, DataTypes
  <2> QED BY <2>1, LifePromise
<1>3. CASE \/ External!GetLocalHostName
           \/ \E len \in Size : \/ External!SendRTPData(len) \/ External!SendRTCPData(len)
                                \/ External!SetMaximumPacketSize(len)
  <2>1. SendStep
    BY <1>3 DEF SendStep, External!GetLocalHostName, External!SetMaximumPacketSize,
       External!SendRTPData, External!SendRTCPData
  <2> QED BY <2>1, SendPromise
<1>4. ASSUME NEW src \in Source, NEW rtp \in BOOLEAN, External!Inject(src, rtp)
      PROVE  Promise /\ DataInv'
  <2> DEFINE p == [src |-> src, rtp |-> rtp]
  <2>1. p \in Packets /\ p.src = src
    BY DEF Packets
  <2>2. IPv4!Interface!Accepts(p.src)
    BY <2>1, <1>4 DEF DataInv, IPv4!Interface!Accepts
  <2> HIDE DEF p
  <2>3. /\ <<p>> \in Seq(Packets) /\ <<>> \in Seq(Packets)
        /\ Len(<<p>>) = 1 /\ <<p>>[1] = p /\ Len(<<>>) = 0
    BY <2>1
  <2>6. Append(raw, p) = raw \o <<p>> \o <<>>
    <3>1. Append(raw, p) = raw \o <<p>>
      BY <1>0, <2>1, AppendIsConcat
    <3>2. raw \o <<p>> \in Seq(Packets)
      BY <1>0, <2>3
    <3> QED BY <3>1, <3>2, ConcatEmptySeq
  <2>4. raw' = raw \o <<p>> \o <<>>
    BY <1>4, <2>6 DEF External!Inject, p
  <2>5. PacketsStep
    <3>1. \A i \in 1..Len(<<p>>) : IPv4!Interface!Accepts(<<p>>[i].src)
      <4>1. \A i \in 1..Len(<<p>>) : <<p>>[i] = p
        BY <2>3
      <4> QED BY <2>2, <4>1, Zenon
    <3>2. \A i \in 1..Len(<<>>) : IPv4!Interface!Accepts(<<>>[i].src)
      BY <2>3
    <3>3. \E a, b \in Seq(Packets) :
             /\ raw' = raw \o a \o b
             /\ \A i \in 1..Len(a) : IPv4!Interface!Accepts(a[i].src)
             /\ \A i \in 1..Len(b) : IPv4!Interface!Accepts(b[i].src)
      BY <2>3, <2>4, <3>1, <3>2, Zenon
    <3> QED BY <1>0, <1>4, <3>3 DEF PacketsStep, External!Inject
  <2> QED BY <2>5, PacketsPromise
<1>5. CASE External!GetNextPacket
  <2>1. PacketsStep
    BY <1>0, <1>5 DEF PacketsStep, External!GetNextPacket
  <2> QED BY <2>1, PacketsPromise
<1>6. CASE \/ \E src \in Source : External!InjectRTP(src) \/ External!InjectRTCP(src)
           \/ \E src \in Source, len \in {1, 2}, type \in {199, 200, 204, 205} :
                External!InjectRTPorRTCP(src, len, type)
  BY <1>4, <1>6 DEF External!InjectRTP, External!InjectRTCP, External!InjectRTPorRTCP
<1> QED BY <1>1, <1>2, <1>3, <1>5, <1>6 DEF External!Next

\* The packets FakePoll hands on are accepted ones, in order.
LEMMA FakeTaken ==
  ASSUME DataTypes, NEW s \in {"rtp", "rtcp"}
  PROVE  /\ Fake!FakePoll(s) \in Seq(Packets)
         /\ \A i \in 1..Len(Fake!FakePoll(s)) : IPv4!Interface!Accepts(Fake!FakePoll(s)[i].src)
<1> DEFINE S == {d \in Fake!V4!Datagram : d.len > 0 /\ Fake!ShouldAcceptData(d.src)}
<1>1. Fake!V4!Selected(queue[s], S) = Selected(queue[s], S)
  BY Zenon DEF Fake!V4!Selected, Selected
<1>2. Fake!FakePoll(s) = [i \in 1..Len(Selected(queue[s], S)) |->
                              [src |-> Selected(queue[s], S)[i].src, rtp |-> (s = "rtp")]]
  BY <1>1, Zenon DEF Fake!FakePoll
<1>3. \A d \in S : IPv4!ShouldAcceptData(d.src)
  BY DEF Fake!ShouldAcceptData, Fake!V4!ShouldAcceptData, IPv4!ShouldAcceptData
<1>4. queue[s] \in Seq(Data) /\ (s = "rtp") \in BOOLEAN
  BY DEF DataTypes
<1> HIDE DEF S
<1> QED BY <1>2, <1>3, <1>4, TakenAccepted, Zenon

\* Every operation of the fake transmitter.
LEMMA FakePromise ==
  ASSUME DataInv, kind = "UserDefined", Fake!Next, UNCHANGED kind
  PROVE  Promise /\ DataInv'
<1> USE DEF Fake!V4!lists, Fake!V4!fixed
<1>0. queue \in [{"rtp", "rtcp"} -> Seq(Data)] /\ \A s \in {"rtp", "rtcp"} : queue[s] \in Seq(Data)
  BY DEF DataInv, DataTypes
<1>1. CASE Fake!Lists
  <2>1. ListStep
    BY <1>1 DEF Fake!Lists, Fake!SetReceiveMode, Fake!V4!SetReceiveMode, Fake!AddToIgnoreList,
     Fake!DeleteFromIgnoreList, Fake!AddToAcceptList, Fake!DeleteFromAcceptList,
     Fake!ClearIgnoreList, Fake!ClearAcceptList, Fake!V4!ClearIgnoreList, Fake!V4!ClearAcceptList,
     Fake!V4!ChangeList, Fake!V4!ClearList, ListStep, Fake!V4!Modes, Modes,
     Fake!V4!NoInfo, Fake!V4!NoEntry, IPv4!NoInfo, IPv4!NoEntry,
     Fake!ProcessAddAcceptIgnoreEntry, Fake!V4!ProcessAddAcceptIgnoreEntry, IPv4!ProcessAddAcceptIgnoreEntry,
     Fake!ProcessDeleteAcceptIgnoreEntry, Fake!V4!ProcessDeleteAcceptIgnoreEntry, IPv4!ProcessDeleteAcceptIgnoreEntry
  <2> QED BY <2>1, ListPromise
<1>2. CASE Fake!Sending \/ Fake!GetLocalHostName
  <2>1. SendStep
    BY <1>2, Zenon DEF SendStep, Fake!Sending, Fake!AddDestination, Fake!DeleteDestination, Fake!ClearDestinations,
       Fake!V4!AddDestination, Fake!V4!DeleteDestination, Fake!V4!ClearDestinations,
       Fake!GetLocalHostName, Fake!SetMaximumPacketSize, Fake!SendRTPData, Fake!SendRTCPData,
       Fake!V4!GetLocalHostName, Fake!V4!SetMaximumPacketSize, Fake!V4!SendRTPData, Fake!V4!SendRTCPData
  <2> QED BY <2>1, SendPromise
<1>4. CASE \E s \in Fake!V4!Sockets, d \in Fake!V4!Datagram : Fake!SetCurrentData(s, d)
  <2> PICK s \in Fake!V4!Sockets, d \in Fake!V4!Datagram : Fake!SetCurrentData(s, d)
    BY <1>4
  <2>1. <<d>> \in Seq(Data) /\ <<>> \in Seq(Data)
    BY DEF Fake!V4!Datagram, Data
  <2>2. queue' \in [{"rtp", "rtcp"} -> Seq(Data)]
    BY <2>1 DEF Fake!SetCurrentData, Fake!V4!NoQueue, Fake!V4!Sockets
  <2>3. PacketsStep
    BY <2>2 DEF PacketsStep, Fake!SetCurrentData
  <2> QED BY <2>3, PacketsPromise
<1>5. CASE Fake!Poll
  <2>1. queue' \in [{"rtp", "rtcp"} -> Seq(Data)]
    BY <1>5 DEF Fake!Poll, Fake!V4!NoQueue, Fake!V4!Sockets
  <2>2. PacketsStep
    BY <1>5, <2>1, FakeTaken DEF DataInv, PacketsStep, Fake!Poll
  <2> QED BY <2>2, PacketsPromise
<1>6. CASE Fake!GetNextPacket
  <2>1. PacketsStep
    BY <1>0, <1>6 DEF PacketsStep, Fake!GetNextPacket, Fake!ComesFromThisTransmitter
  <2> QED BY <2>1, PacketsPromise
<1>7. CASE Fake!Destroy
  <2>1. /\ info' \in [IP -> Entries] /\ \A ip \in IP : info'[ip] = IPv4!NoEntry
        /\ queue' \in [{"rtp", "rtcp"} -> Seq(Data)]
    BY <1>7 DEF Fake!Destroy, Fake!V4!NoInfo, Fake!V4!NoEntry, IPv4!NoEntry, Entries, Fake!V4!NoQueue, Fake!V4!Sockets
  <2>2. LifeStep
    BY <1>7, <2>1 DEF LifeStep, Fake!Destroy, DataInv
  <2> QED BY <2>2, LifePromise
<1>8. CASE \E size \in Size : Fake!Create(size)
  <2>1. LifeStep
    BY <1>0, <1>8 DEF LifeStep, Fake!Create
  <2> QED BY <2>1, LifePromise
<1> QED BY <1>1, <1>2, <1>4, <1>5, <1>6, <1>7, <1>8 DEF Fake!Next

\* Every step of every transmitter keeps the promise.
LEMMA PromiseStep == ASSUME DataInv, TablesInv, [Next]_vars PROVE Promise /\ DataInv'
<1>1. CASE UNCHANGED <<kind, tables>>
  <2>1. UNCHANGED <<created, dests, groups, mode, info, maxsize, raw, out, queue, kind>>
    BY <1>1 DEF tables
  <2>2. DataInv'
    BY <2>1 DEF DataInv, DataTypes
  <2>3. Promise
    BY <2>1, SameList DEF Promise, IPv4!Interface!vars
  <2> QED BY <2>2, <2>3
<1>2. CASE Next /\ ~UNCHANGED tables
  <2>1. \/ kind = "IPv4" /\ IPv4!Next
        \/ kind = "IPv6" /\ IPv6!Next
        \/ kind = "External" /\ External!Next
        \/ kind = "UserDefined" /\ Fake!Next
    BY <1>2, Zenon DEF Next, tables
  <2>2. UNCHANGED kind
    BY <1>2, Zenon DEF Next
  <2> QED BY <2>1, <2>2, IPv4Promise, IPv6Promise, ExternalPromise, FakePromise
<1>3. CASE Next /\ UNCHANGED tables
  <2>1. kind' = kind
    BY <1>3, Zenon DEF Next
  <2> QED BY <1>1, <1>3, <2>1
<1>4. UNCHANGED vars => UNCHANGED <<kind, tables>>
  BY DEF vars
<1> QED BY <1>1, <1>2, <1>3, <1>4

\* Nothing is promised before there is a transmitter.
LEMMA PromiseInit == ASSUME Init PROVE DataInv /\ IPv4!Interface!Init
<1>1. \A ip \in IP : info[ip] = IPv4!NoEntry
  BY DEF Init, IPv4!Init, IPv4!NoInfo
<1>2. info \in [IP -> Entries] /\ queue \in [{"rtp", "rtcp"} -> Seq(Data)]
  BY DEF Init, IPv4!Init, IPv4!NoInfo, IPv4!NoEntry, IPv4!NoQueue, IPv4!Sockets, Entries
<1>3. DataInv
  BY <1>1, <1>2 DEF Init, IPv4!Init, DataInv, DataTypes, Modes
<1>4. \A ip \in IP : info[ip].ports = {} /\ info[ip].all = FALSE
  <2>1. IPv4!NoEntry.ports = {} /\ IPv4!NoEntry.all = FALSE
    BY DEF IPv4!NoEntry
  <2> QED BY <1>1, <2>1, Zenon
<1>5. \A a \in IPv4!Address : (a.port \in info[a.ip].ports) = FALSE /\ info[a.ip].all = FALSE
  BY <1>4 DEF IPv4!Address
<1>6. IPv4!Interface!Init
  BY <1>4, <1>5 DEF Init, IPv4!Init, IPv4!Interface!Init, IPv4!Interface!Empty, IPv4!Interface!Nothing
<1> QED BY <1>3, <1>6

\* The instance counts as everybody does.
LEMMA SameCardinality == ASSUME NEW S PROVE Keyed!Cardinality(S) = Cardinality(S)
BY Zenon DEF Keyed!Cardinality, Cardinality

-----------------------------------------------------------------------------
(* Doubly linked lists                                                     *)

Pointers == [Key -> Key \cup {NULL}]
Members(list) == {list[i] : i \in 1..Len(list)}
Nth(list, i) == IF i \in 1..Len(list) THEN list[i] ELSE NULL

\* The pointers link the entries of a list in their order.
Linked(next, prev, first, list) ==
  /\ list \in Seq(Key) /\ Distinct(list) /\ first = Nth(list, 1)
  /\ \A i \in 1..Len(list) : next[list[i]] = Nth(list, i + 1) /\ prev[list[i]] = Nth(list, i - 1)

\* Walking along them gives the list back.
LEMMA WalkIsList ==
  ASSUME NEW next, NEW prev, NEW first, NEW list, Linked(next, prev, first, list)
  PROVE  Keyed!From(next, first) = list
<1> DEFINE Follow(f, n) == IF n = 0 THEN first ELSE IF f[n - 1] = NULL THEN NULL ELSE next[f[n - 1]]
           Walk(f) == f = [n \in Nat |-> Follow(f, n)]
           step == CHOOSE f : Walk(f)
           nth == [n \in Nat |-> Nth(list, n + 1)]
           size == Keyed!Cardinality({n \in 0 .. Keyed!Cardinality(Key) - 1 : step[n] # NULL})
<1>1. Keyed!From(next, first) = [i \in 1..size |-> step[i - 1]]
  BY Zenon DEF Keyed!From
<1>2. PICK len \in Nat : len = Len(list) /\ DOMAIN list = 1..len
  BY DEF Linked
<1>3. \A i \in 1..len : list[i] \in Key /\ list[i] # NULL
  BY <1>2, HashAssumption DEF Linked
<1>4. \A n \in Nat : nth[n] = IF n < len THEN list[n + 1] ELSE NULL
  BY <1>2 DEF Nth
<1>5. \A n \in Nat : nth[n] = Follow(nth, n)
  <2> TAKE n \in Nat
  <2>1. CASE n = 0
    BY <2>1 DEF Linked
  <2>2. CASE n # 0 /\ n <= len
    <3>1. n \in 1..len /\ n - 1 \in Nat /\ n - 1 < len
      BY <2>2
    <3>2. nth[n - 1] = list[n] /\ list[n] # NULL
      <4>1. nth[n - 1] = list[(n - 1) + 1] /\ list[n] # NULL
        BY <1>3, <1>4, <3>1, Zenon
      <4> QED BY <3>1, <4>1
    <3>3. next[list[n]] = Nth(list, n + 1)
      BY <1>2, <3>1 DEF Linked
    <3> QED BY <2>2, <3>2, <3>3
  <2>3. CASE n # 0 /\ ~(n <= len)
    <3>1. n - 1 \in Nat /\ ~(n - 1 < len) /\ ~(n < len)
      BY <2>3
    <3> HIDE DEF nth
    <3> QED BY <1>4, <2>3, <3>1
  <2> QED BY <2>1, <2>2, <2>3
<1>6. Walk(nth)
  <2>1. nth = [n \in Nat |-> nth[n]]
    OBVIOUS
  <2> HIDE DEF nth
  <2> QED BY <1>5, <2>1, Zenon
<1>7. Walk(step)
  <2> HIDE DEF Walk
  <2> QED BY <1>6, Zenon
<1> HIDE DEF step, nth
<1>8. \A n \in Nat : step[n] = Follow(step, n)
  BY <1>7, Zenon
<1>9. ASSUME NEW n \in Nat PROVE step[n] = nth[n]
  <2> DEFINE T == {k \in 0..n : step[k] = nth[k]}
  <2>1. 0 \in T
    BY <1>5, <1>8
  <2>2. \A k \in 1..n : k - 1 \in T => k \in T
    BY <1>5, <1>8
  <2>3. 0..n \subseteq T
    <3> HIDE DEF T
    <3> QED BY <2>1, <2>2, Induction
  <2>4. n \in 0..n
    OBVIOUS
  <2> QED BY <2>3, <2>4
<1>10. PICK bound \in Nat : bound = Cardinality(Key) /\ bound = Keyed!Cardinality(Key)
  BY SameCardinality, HashAssumption, FS_CardinalityType
<1>11. len <= bound
  <2>1. list \in Injection(1..len, Key)
    <3>1. list \in [1..len -> Key]
      BY <1>2, <1>3 DEF Linked
    <3>2. \A i, j \in 1..len : list[i] = list[j] => i = j
      BY <1>2 DEF Linked, Distinct
    <3> QED BY <3>1, <3>2 DEF Injection, IsInjective
  <2>2. Cardinality(1..len) <= Cardinality(Key)
    BY <2>1, HashAssumption, FS_Injection
  <2>3. Cardinality(1..len) = len
    <3>1. Cardinality(1..len) = IF 1 > len THEN 0 ELSE len - 1 + 1
      BY FS_Interval
    <3> QED BY <3>1
  <2> QED BY <1>10, <2>2, <2>3
<1>12. {n \in 0 .. Keyed!Cardinality(Key) - 1 : step[n] # NULL} = 0..(len - 1)
  <2>1. \A n \in 0..(bound - 1) : step[n] # NULL <=> n < len
    <3> TAKE n \in 0..(bound - 1)
    <3>1. step[n] = IF n < len THEN list[n + 1] ELSE NULL
      BY <1>4, <1>9
    <3>2. n < len => list[n + 1] # NULL
      BY <1>3
    <3> QED BY <3>1, <3>2
  <2> QED BY <1>10, <1>11, <2>1
<1>13. size = len
  <2>1. Cardinality(0..(len - 1)) = IF 0 > len - 1 THEN 0 ELSE (len - 1) - 0 + 1
    BY FS_Interval
  <2>2. size = Cardinality(0..(len - 1))
    BY <1>12, SameCardinality, Zenon
  <2> HIDE DEF size
  <2> QED BY <2>1, <2>2
<1>14. \A i \in 1..len : step[i - 1] = list[i]
  <2> TAKE i \in 1..len
  <2>1. i - 1 \in Nat /\ i - 1 < len /\ (i - 1) + 1 = i
    OBVIOUS
  <2> QED BY <1>4, <1>9, <2>1
<1>15. list = [i \in 1..len |-> list[i]]
  BY <1>2 DEF Linked
<1> HIDE DEF size
<1> QED BY <1>1, <1>13, <1>14, <1>15, Zenon

\* The other lists that share the pointers are left alone.
LEMMA OthersStay ==
  ASSUME NEW next \in Pointers, NEW prev \in Pointers, NEW first, NEW list,
         Linked(next, prev, first, list),
         NEW next2, NEW prev2,
         \A k \in Members(list) : next2[k] = next[k] /\ prev2[k] = prev[k]
  PROVE  Linked(next2, prev2, first, list)
BY DEF Linked, Members

\* The pointers of a list, before and after one entry is unlinked, linked in at
\* the head, or linked in at the end.
Unlinks(next, prev, first, list, p, k, next2, prev2, first2) ==
  /\ next \in Pointers /\ prev \in Pointers /\ Linked(next, prev, first, list)
  /\ p \in 1..Len(list) /\ k = list[p]
  /\ next2 = [Keyed!Link(next, prev[k], next[k]) EXCEPT ![k] = NULL]
  /\ prev2 = [Keyed!Link(prev, next[k], prev[k]) EXCEPT ![k] = NULL]
  /\ first2 = IF prev[k] = NULL THEN next[k] ELSE first

LinksFirst(next, prev, first, list, k, next2, prev2) ==
  /\ next \in Pointers /\ prev \in Pointers /\ Linked(next, prev, first, list)
  /\ k \in Key \ Members(list) /\ prev[k] = NULL
  /\ next2 = [next EXCEPT ![k] = first] /\ prev2 = Keyed!Link(prev, first, k)

LinksLast(next, prev, first, list, last, k, next2, prev2, first2) ==
  /\ next \in Pointers /\ prev \in Pointers /\ Linked(next, prev, first, list)
  /\ k \in Key \ Members(list) /\ next[k] = NULL /\ last = Nth(list, Len(list))
  /\ next2 = Keyed!Link(next, last, k) /\ prev2 = [prev EXCEPT ![k] = last]
  /\ first2 = IF first = NULL THEN k ELSE first

\* The entry at one place leaves the list: its neighbours are linked.
LEMMA UnlinkOne ==
  ASSUME NEW next, NEW prev, NEW first, NEW list, NEW p, NEW k, NEW next2, NEW prev2, NEW first2,
         Unlinks(next, prev, first, list, p, k, next2, prev2, first2)
  PROVE  /\ next2 \in Pointers /\ prev2 \in Pointers /\ k \in Key
         /\ next2[k] = NULL /\ prev2[k] = NULL
         /\ \A x \in Key \ Members(list) : next2[x] = next[x] /\ prev2[x] = prev[x]
         /\ Linked(next2, prev2, first2, Without(list, p))
         /\ Nth(Without(list, p), Len(list) - 1)
              = IF next[k] = NULL THEN prev[k] ELSE Nth(list, Len(list))
         /\ Members(Without(list, p)) = Members(list) \ {k}
<1> USE DEF Unlinks
<1>1. PICK n \in Nat \ {0} : n = Len(list)
  BY WithoutIsList DEF Linked
<1>2. list \in Seq(Key) /\ \A i \in 1..n : list[i] \in Key /\ list[i] # NULL
  BY <1>1, HashAssumption DEF Linked
<1>3. \A i, j \in 1..n : list[i] = list[j] => i = j
  BY <1>1 DEF Linked, Distinct
<1>4. p \in 1..n /\ k \in Key /\ k # NULL
  BY <1>1, <1>2
<1> DEFINE a == Nth(list, p - 1)
           b == Nth(list, p + 1)
           w == Without(list, p)
<1>5. prev[k] = a /\ next[k] = b
  BY DEF Linked
<1>6. /\ a \in Key \cup {NULL} /\ b \in Key \cup {NULL} /\ a # k /\ b # k
      /\ a = NULL <=> p = 1
      /\ b = NULL <=> p = n
  BY <1>1, <1>2, <1>3, <1>4 DEF Nth
<1> HIDE DEF a, b
<1>7. /\ next2 \in Pointers
      /\ \A x \in Key : next2[x] = IF x = k THEN NULL ELSE IF x = a THEN b ELSE next[x]
  <2>1. CASE a = NULL
    <3>1. next2 = [next EXCEPT ![k] = NULL] /\ \A x \in Key : x # a
      BY <1>5, <2>1, HashAssumption DEF Keyed!Link
    <3> QED BY <1>4, <3>1 DEF Pointers
  <2>2. CASE a # NULL
    <3>1. next2 = [[next EXCEPT ![a] = b] EXCEPT ![k] = NULL]
      BY <1>5, <2>2 DEF Keyed!Link
    <3> QED BY <1>4, <1>6, <2>2, <3>1, ZenonT(30) DEF Pointers
  <2> QED BY <2>1, <2>2
<1>8. /\ prev2 \in Pointers
      /\ \A x \in Key : prev2[x] = IF x = k THEN NULL ELSE IF x = b THEN a ELSE prev[x]
  <2>1. CASE b = NULL
    <3>1. prev2 = [prev EXCEPT ![k] = NULL] /\ \A x \in Key : x # b
      BY <1>5, <2>1, HashAssumption DEF Keyed!Link
    <3> QED BY <1>4, <3>1 DEF Pointers
  <2>2. CASE b # NULL
    <3>1. prev2 = [[prev EXCEPT ![b] = a] EXCEPT ![k] = NULL]
      BY <1>5, <2>2 DEF Keyed!Link
    <3> QED BY <1>4, <1>6, <2>2, <3>1, ZenonT(30) DEF Pointers
  <2> QED BY <2>1, <2>2
<1>9. next2[k] = NULL /\ prev2[k] = NULL
  BY <1>4, <1>7, <1>8
<1>10. \A x \in Key \ Members(list) : x # k /\ x # a /\ x # b
  BY <1>1, <1>4, HashAssumption DEF Members, a, b, Nth
<1>11. \A x \in Key \ Members(list) : next2[x] = next[x] /\ prev2[x] = prev[x]
  BY <1>7, <1>8, <1>10
<1>12. /\ w \in Seq(Key) /\ Len(w) = n - 1
       /\ \A i \in 1..(n - 1) : w[i] = IF i < p THEN list[i] ELSE list[i + 1]
  BY <1>1, <1>2, WithoutIsList
<1> HIDE DEF w
<1>13. \A j \in 0..n : Nth(w, j) = IF j < p THEN Nth(list, j) ELSE Nth(list, j + 1)
  <2> TAKE j \in 0..n
  <2>1. CASE j < p
    <3>1. Nth(w, j) = IF j \in 1..(n - 1) THEN list[j] ELSE NULL
      BY <1>12, <2>1 DEF Nth
    <3>2. j \in 1..(n - 1) <=> j \in 1..n
      BY <1>4, <2>1
    <3> QED BY <1>1, <2>1, <3>1, <3>2 DEF Nth
  <2>2. CASE ~(j < p)
    <3>1. Nth(w, j) = IF j \in 1..(n - 1) THEN list[j + 1] ELSE NULL
      BY <1>12, <2>2 DEF Nth
    <3>2. j \in 1..(n - 1) <=> j + 1 \in 1..n
      BY <1>4, <2>2
    <3> QED BY <1>1, <2>2, <3>1, <3>2 DEF Nth
  <2> QED BY <2>1, <2>2
<1>14. Distinct(w)
  <2>1. ASSUME NEW i \in 1..(n - 1), NEW j \in 1..(n - 1), w[i] = w[j] PROVE i = j
    <3>1. i \in 1..n /\ j \in 1..n /\ i + 1 \in 1..n /\ j + 1 \in 1..n
      OBVIOUS
    <3> QED BY <1>3, <1>4, <1>12, <2>1, <3>1
  <2> QED BY <1>12, <2>1 DEF Distinct
<1>15. first2 = Nth(w, 1)
  <2>1. first = Nth(list, 1)
    BY DEF Linked
  <2>2. CASE p = 1
    <3>1. first2 = Nth(list, 2)
      BY <1>5, <1>6, <2>2 DEF b
    <3>2. Nth(w, 1) = Nth(list, 2)
      BY <1>13, <2>2
    <3> QED BY <3>1, <3>2
  <2>3. CASE p # 1
    <3>1. first2 = Nth(list, 1)
      BY <1>5, <1>6, <2>1, <2>3
    <3>2. Nth(w, 1) = Nth(list, 1)
      BY <1>4, <1>13, <2>3
    <3> QED BY <3>1, <3>2
  <2> QED BY <2>2, <2>3
<1>16. ASSUME NEW i \in 1..(n - 1)
       PROVE  next2[w[i]] = Nth(w, i + 1) /\ prev2[w[i]] = Nth(w, i - 1)
  <2>1. i \in 1..n /\ i + 1 \in 1..n /\ i - 1 \in 0..n /\ i + 1 \in 0..n
    OBVIOUS
  <2>2. PICK h \in 1..n : h = IF i < p THEN i ELSE i + 1
    BY <2>1
  <2>3. w[i] = list[h] /\ list[h] \in Key /\ h # p /\ list[h] # k
    BY <1>2, <1>3, <1>4, <1>12, <2>2
  <2>4. next[list[h]] = Nth(list, h + 1) /\ prev[list[h]] = Nth(list, h - 1)
    BY <1>1 DEF Linked
  <2>5. list[h] = a <=> h = p - 1
    BY <1>1, <1>2, <1>3, <1>4 DEF a, Nth
  <2>6. list[h] = b <=> h = p + 1
    BY <1>1, <1>2, <1>3, <1>4 DEF b, Nth
  <2>7. next2[w[i]] = Nth(w, i + 1)
    <3>1. Nth(w, i + 1) = IF i + 1 < p THEN Nth(list, i + 1) ELSE Nth(list, i + 2)
      BY <1>13, <2>1
    <3>2. next2[w[i]] = IF h = p - 1 THEN b ELSE Nth(list, h + 1)
      BY <1>7, <2>3, <2>4, <2>5
    <3>3. CASE h = p - 1
      <4>1. i = p - 1 /\ i + 2 = p + 1 /\ ~(i + 1 < p)
        BY <1>4, <2>2, <3>3
      <4> QED BY <3>1, <3>2, <3>3, <4>1 DEF b
    <3>4. CASE h # p - 1 /\ i < p
      <4>1. h + 1 = i + 1 /\ i + 1 < p
        BY <1>4, <2>2, <3>4
      <4> QED BY <3>1, <3>2, <3>4, <4>1
    <3>5. CASE h # p - 1 /\ ~(i < p)
      <4>1. h + 1 = i + 2 /\ ~(i + 1 < p)
        BY <1>4, <2>2, <3>5
      <4> QED BY <3>1, <3>2, <3>5, <4>1
    <3> QED BY <3>3, <3>4, <3>5
  <2>8. prev2[w[i]] = Nth(w, i - 1)
    <3>1. Nth(w, i - 1) = IF i - 1 < p THEN Nth(list, i - 1) ELSE Nth(list, i)
      <4>1. i - 1 + 1 = i
        OBVIOUS
      <4> QED BY <1>13, <2>1, <4>1
    <3>2. prev2[w[i]] = IF h = p + 1 THEN a ELSE Nth(list, h - 1)
      BY <1>8, <2>3, <2>4, <2>6
    <3>3. CASE h = p + 1
      <4>1. i = p /\ i - 1 = p - 1 /\ i - 1 < p
        BY <1>4, <2>2, <3>3
      <4> QED BY <3>1, <3>2, <3>3, <4>1 DEF a
    <3>4. CASE h # p + 1 /\ i < p
      <4>1. h - 1 = i - 1 /\ i - 1 < p
        BY <1>4, <2>2, <3>4
      <4> QED BY <3>1, <3>2, <3>4, <4>1
    <3>5. CASE h # p + 1 /\ ~(i < p)
      <4>1. h - 1 = i /\ ~(i - 1 < p)
        BY <1>4, <2>2, <3>5
      <4> QED BY <3>1, <3>2, <3>5, <4>1
    <3> QED BY <3>3, <3>4, <3>5
  <2> QED BY <2>7, <2>8
<1>17. Linked(next2, prev2, first2, w)
  BY <1>12, <1>14, <1>15, <1>16 DEF Linked
<1>18. Nth(w, n - 1) = IF next[k] = NULL THEN prev[k] ELSE Nth(list, n)
  <2>1. n - 1 \in 0..n /\ n - 1 + 1 = n
    OBVIOUS
  <2>2. Nth(w, n - 1) = IF n - 1 < p THEN Nth(list, n - 1) ELSE Nth(list, n)
    BY <1>13, <2>1
  <2>3. n - 1 < p <=> p = n
    BY <1>4
  <2> QED BY <1>5, <1>6, <2>2, <2>3 DEF a
<1>19. Members(w) = Members(list) \ {k}
  <2>1. \A i \in 1..(n - 1) : w[i] \in Members(list) \ {k}
    <3> TAKE i \in 1..(n - 1)
    <3>1. i \in 1..n /\ i + 1 \in 1..n
      OBVIOUS
    <3> QED BY <1>1, <1>3, <1>4, <1>12, <3>1 DEF Members
  <2>2. ASSUME NEW i \in 1..n, list[i] # k PROVE \E j \in 1..(n - 1) : w[j] = list[i]
    <3>1. CASE i < p
      <4>1. i \in 1..(n - 1)
        BY <1>4, <3>1
      <4> QED BY <1>12, <3>1, <4>1
    <3>2. CASE i > p
      <4>1. i - 1 \in 1..(n - 1) /\ ~(i - 1 < p) /\ (i - 1) + 1 = i
        BY <1>4, <3>2
      <4> QED BY <1>12, <4>1
    <3>3. i # p
      BY <2>2
    <3> QED BY <1>4, <3>1, <3>2, <3>3
  <2>3. Members(w) = {w[i] : i \in 1..(n - 1)}
    BY <1>12 DEF Members
  <2>4. Members(list) = {list[i] : i \in 1..n}
    BY <1>1 DEF Members
  <2>5. Members(w) \subseteq Members(list) \ {k}
    BY <2>1, <2>3
  <2>6. ASSUME NEW x \in Members(list), x # k PROVE x \in Members(w)
    <3>1. PICK i \in 1..n : x = list[i]
      BY <2>4
    <3> QED BY <2>2, <2>3, <2>6, <3>1
  <2> QED BY <2>5, <2>6
<1> QED BY <1>1, <1>4, <1>7, <1>8, <1>9, <1>11, <1>17, <1>18, <1>19 DEF w

\* A new entry at the head of a list.
LEMMA LinkFirst ==
  ASSUME NEW next, NEW prev, NEW first, NEW list, NEW k, NEW next2, NEW prev2,
         LinksFirst(next, prev, first, list, k, next2, prev2)
  PROVE  /\ next2 \in Pointers /\ prev2 \in Pointers
         /\ \A x \in Key \ (Members(list) \cup {k}) : next2[x] = next[x] /\ prev2[x] = prev[x]
         /\ \E new \in Seq(Key) : Linked(next2, prev2, k, new) /\ Members(new) = Members(list) \cup {k}
<1> USE DEF LinksFirst
<1>1. PICK n \in Nat : n = Len(list)
  BY DEF Linked
<1>2. list \in Seq(Key) /\ \A i \in 1..n : list[i] \in Key /\ list[i] # NULL /\ list[i] # k
  <2>1. list \in Seq(Key)
    BY DEF Linked
  <2>2. ASSUME NEW i \in 1..n
        PROVE  list[i] \in Key /\ list[i] # k
    <3>1. list[i] \in Key
      BY <1>1, <2>1, ElementOfSeq, Zenon
    <3>2. list[i] \in Members(list)
      BY <1>1, Zenon DEF Members
    <3> QED BY <3>1, <3>2
  <2> QED BY <2>1, <2>2, HashAssumption
<1>3. \A i, j \in 1..n : list[i] = list[j] => i = j
  BY <1>1 DEF Linked, Distinct
<1>4. first = Nth(list, 1) /\ first \in Key \cup {NULL} /\ k # NULL
  BY <1>1, <1>2, HashAssumption DEF Linked, Nth
<1>5. /\ next2 \in Pointers
      /\ \A x \in Key : next2[x] = IF x = k THEN first ELSE next[x]
  BY <1>4 DEF Pointers
<1>6. /\ prev2 \in Pointers
      /\ \A x \in Key : prev2[x] = IF x = first THEN k ELSE prev[x]
  <2>1. CASE first = NULL
    BY <2>1, HashAssumption DEF Keyed!Link
  <2>2. CASE first # NULL
    BY <1>4, <2>2 DEF Keyed!Link, Pointers
  <2> QED BY <2>1, <2>2
<1>7. \A x \in Key \ (Members(list) \cup {k}) : x # first
  BY <1>1, <1>4, HashAssumption DEF Members, Nth
<1> DEFINE new == [i \in 1..(n + 1) |-> IF i = 1 THEN k ELSE list[i - 1]]
<1>8. /\ new \in Seq(Key) /\ Len(new) = n + 1
      /\ new[1] = k /\ \A i \in 1..n : new[i + 1] = list[i]
  <2>1. \A i \in 1..(n + 1) : i # 1 => i - 1 \in 1..n
    OBVIOUS
  <2>2. new \in [1..(n + 1) -> Key]
    BY <1>2, <2>1
  <2>3. 1 \in 1..(n + 1) /\ \A i \in 1..n : i + 1 \in 1..(n + 1) /\ i + 1 # 1 /\ (i + 1) - 1 = i
    OBVIOUS
  <2>4. new[1] = k /\ \A i \in 1..n : new[i + 1] = list[i]
    BY <2>3
  <2> HIDE DEF new
  <2> QED BY <2>2, <2>4, ListOfFunction
<1> HIDE DEF new
<1>9. \A j \in 1..(n + 1) : j = 1 \/ (j - 1 \in 1..n /\ new[j] = list[j - 1])
  <2> TAKE j \in 1..(n + 1)
  <2>1. j = 1 \/ (j - 1 \in 1..n /\ (j - 1) + 1 = j)
    OBVIOUS
  <2> QED BY <1>8, <2>1
<1>10. Members(new) = Members(list) \cup {k}
  <2>1. Members(new) = {new[i] : i \in 1..(n + 1)} /\ Members(list) = {list[i] : i \in 1..n}
    BY <1>1, <1>8 DEF Members
  <2>2. \A i \in 1..n : i + 1 \in 1..(n + 1)
    OBVIOUS
  <2>3. Members(new) \subseteq Members(list) \cup {k}
    BY <1>8, <1>9, <2>1
  <2>4. Members(list) \subseteq Members(new)
    BY <1>8, <2>1, <2>2
  <2>5. k \in Members(new)
    <3>1. 1 \in 1..(n + 1)
      OBVIOUS
    <3> QED BY <1>8, <2>1, <3>1
  <2> QED BY <2>3, <2>4, <2>5
<1>11. Distinct(new)
  <2>1. ASSUME NEW i \in 1..(n + 1), NEW j \in 1..(n + 1), new[i] = new[j] PROVE i = j
    <3>1. \A l \in 1..(n + 1) : new[l] = k <=> l = 1
      BY <1>2, <1>8, <1>9
    <3>2. CASE i = 1 \/ j = 1
      BY <2>1, <3>1, <3>2
    <3>3. CASE i # 1 /\ j # 1
      <4>1. i - 1 \in 1..n /\ j - 1 \in 1..n /\ list[i - 1] = list[j - 1]
        BY <1>9, <2>1, <3>3
      <4>2. i - 1 = j - 1
        BY <1>3, <4>1
      <4> QED BY <4>2
    <3> QED BY <3>2, <3>3
  <2> QED BY <1>8, <2>1 DEF Distinct
<1>12. \A j \in 1..(n + 1) : Nth(new, j + 1) = Nth(list, j)
  <2> TAKE j \in 1..(n + 1)
  <2>1. j + 1 \in 1..(n + 1) <=> j \in 1..n
    OBVIOUS
  <2> QED BY <1>1, <1>8, <2>1 DEF Nth
<1>13. \A j \in 1..n : Nth(new, j) = IF j = 1 THEN k ELSE Nth(list, j - 1)
  <2> TAKE j \in 1..n
  <2>1. j \in 1..(n + 1)
    OBVIOUS
  <2> QED BY <1>1, <1>8, <1>9, <2>1 DEF Nth
<1>14. next2[new[1]] = Nth(new, 2) /\ prev2[new[1]] = Nth(new, 0)
  <2>1. Nth(new, 2) = first
    <3>1. 1 \in 1..(n + 1) /\ 1 + 1 = 2
      OBVIOUS
    <3> QED BY <1>4, <1>12, <3>1
  <2>2. k # first
    BY <1>1, <1>2, <1>4 DEF Nth
  <2>3. Nth(new, 0) = NULL
    BY <1>8 DEF Nth
  <2> QED BY <1>5, <1>6, <1>8, <2>1, <2>2, <2>3
<1>15. ASSUME NEW i \in 1..n
       PROVE  next2[list[i]] = Nth(new, i + 2) /\ prev2[list[i]] = Nth(new, i)
  <2>1. next[list[i]] = Nth(list, i + 1) /\ prev[list[i]] = Nth(list, i - 1)
    BY <1>1 DEF Linked
  <2>2. next2[list[i]] = Nth(new, i + 2)
    <3>1. i + 1 \in 1..(n + 1) /\ (i + 1) + 1 = i + 2
      OBVIOUS
    <3>2. Nth(new, i + 2) = Nth(list, i + 1)
      BY <1>12, <3>1
    <3> QED BY <1>2, <1>5, <2>1, <3>2
  <2>3. prev2[list[i]] = Nth(new, i)
    <3>1. list[i] = first <=> i = 1
      BY <1>1, <1>2, <1>3, <1>4 DEF Nth
    <3> QED BY <1>2, <1>6, <1>13, <2>1, <3>1
  <2> QED BY <2>2, <2>3
<1>16. \A j \in 1..(n + 1) : next2[new[j]] = Nth(new, j + 1) /\ prev2[new[j]] = Nth(new, j - 1)
  <2> TAKE j \in 1..(n + 1)
  <2>1. CASE j = 1
    BY <1>14, <2>1
  <2>2. CASE j # 1
    <3>1. j - 1 \in 1..n /\ new[j] = list[j - 1] /\ (j - 1) + 2 = j + 1
      BY <1>9, <2>2
    <3> QED BY <1>15, <3>1
  <2> QED BY <2>1, <2>2
<1>17. Linked(next2, prev2, k, new)
  <2>1. k = Nth(new, 1)
    BY <1>8 DEF Nth
  <2> QED BY <1>8, <1>11, <1>16, <2>1 DEF Linked
<1> QED BY <1>5, <1>6, <1>7, <1>8, <1>10, <1>17

\* A new entry at the end of a list.
LEMMA LinkLast ==
  ASSUME NEW next, NEW prev, NEW first, NEW list, NEW last, NEW k, NEW next2, NEW prev2, NEW first2,
         LinksLast(next, prev, first, list, last, k, next2, prev2, first2)
  PROVE  /\ next2 \in Pointers /\ prev2 \in Pointers
         /\ \A x \in Key \ (Members(list) \cup {k}) : next2[x] = next[x] /\ prev2[x] = prev[x]
         /\ Linked(next2, prev2, first2, Append(list, k))
         /\ Nth(Append(list, k), Len(Append(list, k))) = k
         /\ Members(Append(list, k)) = Members(list) \cup {k}
<1> USE DEF LinksLast
<1>1. PICK n \in Nat : n = Len(list)
  BY DEF Linked
<1>2. list \in Seq(Key) /\ \A i \in 1..n : list[i] \in Key /\ list[i] # NULL /\ list[i] # k
  BY <1>1, HashAssumption DEF Linked, Members
<1>3. \A i, j \in 1..n : list[i] = list[j] => i = j
  BY <1>1 DEF Linked, Distinct
<1>4. last = Nth(list, n) /\ last \in Key \cup {NULL} /\ k # NULL /\ first = Nth(list, 1)
  BY <1>1, <1>2, HashAssumption DEF Linked, Nth
<1>5. /\ prev2 \in Pointers
      /\ \A x \in Key : prev2[x] = IF x = k THEN last ELSE prev[x]
  BY <1>4 DEF Pointers
<1>6. /\ next2 \in Pointers
      /\ \A x \in Key : next2[x] = IF x = last THEN k ELSE next[x]
  <2>1. CASE last = NULL
    BY <2>1, HashAssumption DEF Keyed!Link
  <2>2. CASE last # NULL
    BY <1>4, <2>2 DEF Keyed!Link, Pointers
  <2> QED BY <2>1, <2>2
<1>7. \A x \in Key \ (Members(list) \cup {k}) : x # last
  BY <1>1, <1>4, HashAssumption DEF Members, Nth
<1>8. PICK new \in Seq(Key) : /\ new = Append(list, k) /\ Len(new) = n + 1
                              /\ new[n + 1] = k /\ \A i \in 1..n : new[i] = list[i]
  <2>1. /\ Append(list, k) \in Seq(Key) /\ Len(Append(list, k)) = n + 1
        /\ Append(list, k)[n + 1] = k
    BY <1>1, <1>2
  <2>2. \A i \in 1..n : Append(list, k)[i] = list[i]
    BY <1>1, <1>2
  <2> QED BY <2>1, <2>2
<1>9. \A j \in 1..(n + 1) : j = n + 1 \/ j \in 1..n
  OBVIOUS
<1>10. Members(new) = Members(list) \cup {k}
  <2>1. Members(new) = {new[i] : i \in 1..(n + 1)} /\ Members(list) = {list[i] : i \in 1..n}
    BY <1>1, <1>8 DEF Members
  <2>2. n + 1 \in 1..(n + 1) /\ \A i \in 1..n : i \in 1..(n + 1)
    OBVIOUS
  <2>3. Members(new) \subseteq Members(list) \cup {k}
    BY <1>8, <1>9, <2>1
  <2>4. Members(list) \cup {k} \subseteq Members(new)
    BY <1>8, <2>1, <2>2
  <2> QED BY <2>3, <2>4
<1>11. Distinct(new)
  <2>1. ASSUME NEW i \in 1..(n + 1), NEW j \in 1..(n + 1), new[i] = new[j] PROVE i = j
    BY <1>2, <1>3, <1>8, <1>9, <2>1
  <2> QED BY <1>8, <2>1 DEF Distinct
<1>12. \A j \in 0..(n + 2) : Nth(new, j) = IF j = n + 1 THEN k ELSE Nth(list, j)
  <2> TAKE j \in 0..(n + 2)
  <2>1. j \in 1..(n + 1) <=> j = n + 1 \/ j \in 1..n
    OBVIOUS
  <2> QED BY <1>1, <1>8, <2>1 DEF Nth
<1>13. next2[k] = Nth(new, n + 2) /\ prev2[k] = Nth(new, n)
  <2>1. Nth(new, n + 2) = NULL /\ Nth(new, n) = last
    BY <1>1, <1>4, <1>12 DEF Nth
  <2>2. k # last
    BY <1>1, <1>2, <1>4 DEF Nth
  <2> QED BY <1>5, <1>6, <2>1, <2>2
<1>14. ASSUME NEW i \in 1..n
       PROVE  next2[list[i]] = Nth(new, i + 1) /\ prev2[list[i]] = Nth(new, i - 1)
  <2>1. next[list[i]] = Nth(list, i + 1) /\ prev[list[i]] = Nth(list, i - 1)
    BY <1>1 DEF Linked
  <2>2. list[i] = last <=> i = n
    BY <1>1, <1>2, <1>3, <1>4 DEF Nth
  <2>3. i + 1 \in 0..(n + 2) /\ i - 1 \in 0..(n + 2) /\ i - 1 # n + 1
    OBVIOUS
  <2> QED BY <1>2, <1>5, <1>6, <1>12, <2>1, <2>2, <2>3
<1>15. \A j \in 1..(n + 1) : next2[new[j]] = Nth(new, j + 1) /\ prev2[new[j]] = Nth(new, j - 1)
  <2> TAKE j \in 1..(n + 1)
  <2>1. CASE j = n + 1
    <3>1. j + 1 = n + 2 /\ j - 1 = n
      BY <2>1
    <3> QED BY <1>8, <1>13, <2>1, <3>1
  <2>2. CASE j \in 1..n
    BY <1>8, <1>14, <2>2
  <2> QED BY <1>9, <2>1, <2>2
<1>16. first2 = Nth(new, 1)
  <2>1. first = NULL <=> n = 0
    BY <1>1, <1>2, <1>4 DEF Nth
  <2>2. Nth(new, 1) = IF n = 0 THEN k ELSE Nth(list, 1)
    BY <1>12
  <2> QED BY <1>4, <2>1, <2>2
<1>17. Linked(next2, prev2, first2, new)
  BY <1>8, <1>11, <1>15, <1>16 DEF Linked
<1>18. Nth(new, Len(new)) = k
  BY <1>8 DEF Nth
<1> QED BY <1>5, <1>6, <1>7, <1>8, <1>10, <1>17, <1>18

-----------------------------------------------------------------------------
(* The pointers of a hash table                                            *)

TableTypes ==
  /\ table \in [0..(HashSize - 1) -> Key \cup {NULL}]
  /\ hashnext \in Pointers /\ hashprev \in Pointers
  /\ listnext \in Pointers /\ listprev \in Pointers
  /\ element \in [Key -> Key \cup {NULL}]

\* A bucket is the linked list of those of the keys that belong into it.
Bucket(i, keys) ==
  \E chain \in Seq(Key) :
    Linked(hashnext, hashprev, table[i], chain) /\ Members(chain) = {k \in keys : GetIndex(k) = i}

\* The table holds just the keys of the list, in the buckets and in the list
\* of all; an entry that is not there points nowhere.
Holds(keys) ==
  /\ Linked(listnext, listprev, firsthashelem, keys) /\ lasthashelem = Nth(keys, Len(keys))
  /\ \A i \in 0..(HashSize - 1) : Bucket(i, Members(keys))
  /\ \A k \in Members(keys) : GetIndex(k) < HashSize
  /\ \A k \in Key \ Members(keys) :
       hashnext[k] = NULL /\ hashprev[k] = NULL /\ listnext[k] = NULL /\ listprev[k] = NULL
  /\ curhashelem \in Members(keys) \cup {NULL, Wild}

TableInv == TableTypes /\ \E keys \in Seq(Key) : Holds(keys)

\* What is found in its bucket is what is in the list.
LEMMA FoundIsHeld ==
  ASSUME NEW keys \in Seq(Key), Holds(keys), NEW k \in Key
  PROVE  Keyed!HasElement(k) <=> k \in Members(keys)
<1>1. GetIndex(k) \in Nat /\ HashSize \in Nat
  BY HashAssumption
<1>2. CASE ~(GetIndex(k) < HashSize)
  BY <1>2 DEF Keyed!HasElement, Holds
<1>3. CASE GetIndex(k) < HashSize
  <2>1. GetIndex(k) \in 0..(HashSize - 1)
    BY <1>1, <1>3
  <2>2. PICK chain \in Seq(Key) :
            /\ Linked(hashnext, hashprev, table[GetIndex(k)], chain)
            /\ Members(chain) = {x \in Members(keys) : GetIndex(x) = GetIndex(k)}
    BY <2>1 DEF Holds, Bucket
  <2>3. Keyed!From(hashnext, table[GetIndex(k)]) = chain
    BY <2>2, WalkIsList
  <2>4. Keyed!Chain(GetIndex(k)) = {chain[j] : j \in DOMAIN chain}
    BY <2>3, Zenon DEF Keyed!Chain
  <2>5. Keyed!Chain(GetIndex(k)) = Members(chain)
    BY <2>4 DEF Members
  <2> QED BY <1>3, <2>2, <2>5 DEF Keyed!HasElement
<1> QED BY <1>2, <1>3

\* The list of the promise is the list of keys.
LEMMA OrderIsKeys ==
  ASSUME NEW keys \in Seq(Key), Holds(keys)
  PROVE  /\ Keyed!From(listnext, firsthashelem) = keys
         /\ Keyed!Ordered!Entries = Members(keys)
         /\ \A i \in Int : Keyed!Ordered!At(i) = Nth(keys, i)
         /\ \A i \in 1..Len(keys) : Keyed!Ordered!Place(keys[i]) = i
<1>1. Keyed!From(listnext, firsthashelem) = keys
  BY WalkIsList DEF Holds
<1>2. DOMAIN keys = 1..Len(keys)
  OBVIOUS
<1>3. Keyed!Ordered!Entries = Members(keys)
  BY <1>1, <1>2 DEF Keyed!Ordered!Entries, Members
<1>4. \A i \in Int : Keyed!Ordered!At(i) = Nth(keys, i)
  BY <1>1, <1>2 DEF Keyed!Ordered!At, Nth
<1>5. ASSUME NEW i \in 1..Len(keys) PROVE Keyed!Ordered!Place(keys[i]) = i
  <2>1. Keyed!Ordered!Place(keys[i]) = CHOOSE j \in 1..Len(keys) : keys[j] = keys[i]
    BY <1>1, <1>2, Zenon DEF Keyed!Ordered!Place
  <2>2. \A j \in 1..Len(keys) : keys[j] = keys[i] => j = i
    BY DEF Holds, Linked, Distinct
  <2> QED BY <2>1, <2>2
<1> QED BY <1>1, <1>3, <1>4, <1>5

\* A step that only moves the cursor, to an element of the list or nowhere.
LEMMA MoveStep ==
  ASSUME TableTypes, NEW keys \in Seq(Key), Holds(keys), NEW to \in Members(keys) \cup {NULL, Wild},
         Keyed!Goto(to)
  PROVE  /\ TableInv'
         /\ Keyed!Ordered!Goto(to)
<1> USE DEF Keyed!Goto, Keyed!buckets, Keyed!list
<1>1. TableTypes'
  BY DEF TableTypes
<1>2. \A i : Bucket(i, Members(keys)) => Bucket(i, Members(keys))'
  BY DEF Bucket
<1>3. Holds(keys)'
  BY <1>2 DEF Holds
<1>4. Keyed!From(listnext, firsthashelem)' = Keyed!From(listnext, firsthashelem)
  BY <1>3, OrderIsKeys, WalkIsList DEF Holds
<1>5. Keyed!Ordered!Goto(to)
  BY <1>4 DEF Keyed!Ordered!Goto
<1> QED BY <1>1, <1>3, <1>5 DEF TableInv

\* A deletion takes the element out of its bucket and out of the list, and the
\* cursor goes on to the element behind.
LEMMA DeleteStep ==
  ASSUME TableTypes, NEW keys \in Seq(Key), Holds(keys), NEW k \in Members(keys), Keyed!Delete(k)
  PROVE  /\ TableInv'
         /\ Keyed!Ordered!Remove(k)
<1>1. PICK p \in 1..Len(keys) : k = keys[p]
  BY DEF Members
<1>2. PICK b \in 0..(HashSize - 1) : b = GetIndex(k)
  <2>1. k \in Key
    BY <1>1
  <2> QED BY <2>1, HashAssumption DEF Holds
<1>3. PICK chain \in Seq(Key) :
         /\ Linked(hashnext, hashprev, table[b], chain)
         /\ Members(chain) = {x \in Members(keys) : GetIndex(x) = b}
  BY DEF Holds, Bucket
<1>4. PICK q \in 1..Len(chain) : k = chain[q]
  BY <1>2, <1>3 DEF Members
<1> DEFINE new == Without(keys, p)
           short == Without(chain, q)
<1>5. /\ listnext' \in Pointers /\ listprev' \in Pointers /\ k \in Key
      /\ listnext'[k] = NULL /\ listprev'[k] = NULL
      /\ \A x \in Key \ Members(keys) : listnext'[x] = listnext[x] /\ listprev'[x] = listprev[x]
      /\ Linked(listnext', listprev', firsthashelem', new)
      /\ Nth(new, Len(keys) - 1) = IF listnext[k] = NULL THEN listprev[k] ELSE Nth(keys, Len(keys))
      /\ Members(new) = Members(keys) \ {k}
  <2>1. Linked(listnext, listprev, firsthashelem, keys) /\ listnext \in Pointers /\ listprev \in Pointers
    BY DEF Holds, TableTypes
  <2>2. /\ listnext' = [Keyed!Link(listnext, listprev[k], listnext[k]) EXCEPT ![k] = NULL]
        /\ listprev' = [Keyed!Link(listprev, listnext[k], listprev[k]) EXCEPT ![k] = NULL]
        /\ firsthashelem' = IF listprev[k] = NULL THEN listnext[k] ELSE firsthashelem
    BY DEF Keyed!Delete
  <2>3. Unlinks(listnext, listprev, firsthashelem, keys, p, k, listnext', listprev', firsthashelem')
    BY <1>1, <2>1, <2>2 DEF Unlinks
  <2> QED BY <2>3, UnlinkOne
<1>6. table'[b] = IF hashprev[k] = NULL THEN hashnext[k] ELSE table[b]
  BY <1>2 DEF Keyed!Delete, TableTypes
<1>7. \A i \in 0..(HashSize - 1) : i # b => table'[i] = table[i]
  BY <1>2 DEF Keyed!Delete, TableTypes
<1>8. /\ hashnext' \in Pointers /\ hashprev' \in Pointers
      /\ hashnext'[k] = NULL /\ hashprev'[k] = NULL
      /\ \A x \in Key \ Members(chain) : hashnext'[x] = hashnext[x] /\ hashprev'[x] = hashprev[x]
      /\ Linked(hashnext', hashprev', table'[b], short)
      /\ Members(short) = Members(chain) \ {k}
  <2>1. hashnext \in Pointers /\ hashprev \in Pointers
    BY DEF TableTypes
  <2>2. /\ hashnext' = [Keyed!Link(hashnext, hashprev[k], hashnext[k]) EXCEPT ![k] = NULL]
        /\ hashprev' = [Keyed!Link(hashprev, hashnext[k], hashprev[k]) EXCEPT ![k] = NULL]
    BY DEF Keyed!Delete
  <2>3. Unlinks(hashnext, hashprev, table[b], chain, q, k, hashnext', hashprev', table'[b])
    BY <1>3, <1>4, <1>6, <2>1, <2>2 DEF Unlinks
  <2> QED BY <2>3, UnlinkOne
<1>9. new \in Seq(Key) /\ Len(new) = Len(keys) - 1 /\ short \in Seq(Key)
  BY WithoutIsList
<1> HIDE DEF new, short
<1>10. ASSUME NEW i \in 0..(HashSize - 1) PROVE Bucket(i, Members(new))'
  <2>1. CASE i = b
    <3>1. Members(short) = {x \in Members(new) : GetIndex(x) = i}
      BY <1>3, <1>5, <1>8, <2>1
    <3> QED BY <1>8, <1>9, <2>1, <3>1 DEF Bucket
  <2>2. CASE i # b
    <3>1. PICK other \in Seq(Key) :
             /\ Linked(hashnext, hashprev, table[i], other)
             /\ Members(other) = {x \in Members(keys) : GetIndex(x) = i}
      BY DEF Holds, Bucket
    <3>2. \A x \in Members(other) : x \in Key \ Members(chain)
      <4>1. \A x \in Members(other) : x \in Key
        BY DEF Members
      <4> QED BY <1>3, <2>2, <3>1, <4>1
    <3>3. Linked(hashnext', hashprev', table[i], other)
      BY <1>8, <3>1, <3>2, OthersStay DEF TableTypes
    <3>4. Members(other) = {x \in Members(new) : GetIndex(x) = i}
      BY <1>2, <1>5, <2>2, <3>1
    <3> QED BY <1>7, <2>2, <3>3, <3>4 DEF Bucket
  <2> QED BY <2>1, <2>2
<1>11. listnext[k] \in Members(new) \cup {NULL}
  <2>1. listnext[k] = Nth(keys, p + 1)
    BY <1>1 DEF Holds, Linked
  <2>2. Nth(keys, p + 1) = NULL \/ (Nth(keys, p + 1) \in Members(keys) /\ Nth(keys, p + 1) # k)
    <3>1. p + 1 \in 1..Len(keys) => keys[p + 1] # keys[p]
      BY DEF Holds, Linked, Distinct
    <3> QED BY <1>1, <3>1 DEF Nth, Members
  <2> QED BY <1>5, <2>1, <2>2
<1>12. \A x \in Key \ Members(new) :
          hashnext'[x] = NULL /\ hashprev'[x] = NULL /\ listnext'[x] = NULL /\ listprev'[x] = NULL
  <2> TAKE x \in Key \ Members(new)
  <2>1. CASE x = k
    BY <1>5, <1>8, <2>1
  <2>2. CASE x # k
    <3>1. x \notin Members(keys) /\ x \notin Members(chain)
      BY <1>3, <1>5, <2>2
    <3> QED BY <1>5, <1>8, <3>1 DEF Holds
  <2> QED BY <2>1, <2>2
<1>13. Holds(new)'
  <2>1. lasthashelem' = Nth(new, Len(new))
    BY <1>5, <1>9 DEF Keyed!Delete, Holds
  <2>2. \A x \in Members(new) : GetIndex(x) < HashSize
    BY <1>5 DEF Holds
  <2>3. curhashelem' \in Members(new) \cup {NULL, Wild}
    BY <1>11 DEF Keyed!Delete
  <2> QED BY <1>5, <1>10, <1>12, <2>1, <2>2, <2>3 DEF Holds
<1>14. TableTypes'
  <2>1. table' \in [0..(HashSize - 1) -> Key \cup {NULL}]
    <3>1. hashnext[k] \in Key \cup {NULL}
      BY <1>5 DEF TableTypes, Pointers
    <3> QED BY <3>1 DEF TableTypes, Keyed!Delete
  <2>2. element' \in [Key -> Key \cup {NULL}]
    BY DEF TableTypes, Keyed!Delete
  <2> QED BY <1>5, <1>8, <2>1, <2>2 DEF TableTypes
<1>15. TableInv'
  BY <1>9, <1>13, <1>14 DEF TableInv
<1>16. Keyed!From(listnext', firsthashelem') = new
  BY <1>5, WalkIsList
<1>17. Keyed!Ordered!Remove(k)
  <2>1. Keyed!Ordered!Entries = Members(keys) /\ Keyed!Ordered!Place(k) = p
    BY <1>1, OrderIsKeys
  <2>2. Keyed!Ordered!At(p + 1) = Nth(keys, p + 1)
    BY OrderIsKeys
  <2>3. curhashelem' = Keyed!Ordered!At(p + 1)
    BY <1>1, <2>2 DEF Keyed!Delete, Holds, Linked
  <2>4. Keyed!Ordered!Selected(keys, Key \ {k}) = Selected(keys, Key \ {k})
    BY Zenon DEF Keyed!Ordered!Selected, Selected
  <2>5. Selected(keys, Key \ {k}) = new
    BY <1>1, SelectWithout DEF Holds, Linked, new
  <2>6. Keyed!From(listnext, firsthashelem) = keys
    BY OrderIsKeys
  <2>7. element' = [element EXCEPT ![k] = NULL]
    BY DEF Keyed!Delete
  <2> QED BY <1>16, <2>1, <2>3, <2>4, <2>5, <2>6, <2>7 DEF Keyed!Ordered!Remove
<1> QED BY <1>15, <1>17

\* A new element goes to the head of its bucket and the end of the list.
LEMMA AddStep ==
  ASSUME TableTypes, NEW keys \in Seq(Key), Holds(keys), NEW k \in Key, NEW e \in Key,
         Keyed!AddElement(k, e)
  PROVE  /\ TableInv'
         /\ Keyed!Ordered!Add(k, e)
<1>1. k \in Key \ Members(keys)
  BY FoundIsHeld DEF Keyed!AddElement
<1>2. PICK b \in 0..(HashSize - 1) : b = GetIndex(k)
  BY HashAssumption DEF Keyed!AddElement
<1>3. PICK chain \in Seq(Key) :
         /\ Linked(hashnext, hashprev, table[b], chain)
         /\ Members(chain) = {x \in Members(keys) : GetIndex(x) = b}
  BY DEF Holds, Bucket
<1> DEFINE new == Append(keys, k)
<1>4. hashprev[k] = NULL /\ listnext[k] = NULL
  BY <1>1 DEF Holds
<1>5. /\ listnext' \in Pointers /\ listprev' \in Pointers
      /\ \A x \in Key \ (Members(keys) \cup {k}) :
            listnext'[x] = listnext[x] /\ listprev'[x] = listprev[x]
      /\ Linked(listnext', listprev', firsthashelem', new)
      /\ Nth(new, Len(new)) = k /\ Members(new) = Members(keys) \cup {k}
  <2>1. /\ Linked(listnext, listprev, firsthashelem, keys) /\ listnext \in Pointers
        /\ listprev \in Pointers /\ lasthashelem = Nth(keys, Len(keys))
    BY DEF Holds, TableTypes
  <2>2. /\ listnext' = Keyed!Link(listnext, lasthashelem, k)
        /\ listprev' = [listprev EXCEPT ![k] = lasthashelem]
        /\ firsthashelem' = IF firsthashelem = NULL THEN k ELSE firsthashelem
    BY DEF Keyed!AddElement
  <2>3. LinksLast(listnext, listprev, firsthashelem, keys, lasthashelem, k,
                  listnext', listprev', firsthashelem')
    BY <1>1, <1>4, <2>1, <2>2 DEF LinksLast
  <2> QED BY <2>3, LinkLast
<1>6. table'[b] = k
  BY <1>2 DEF Keyed!AddElement, TableTypes
<1>7. \A i \in 0..(HashSize - 1) : i # b => table'[i] = table[i]
  BY <1>2 DEF Keyed!AddElement, TableTypes
<1>8. /\ hashnext' \in Pointers /\ hashprev' \in Pointers
      /\ \A x \in Key \ (Members(chain) \cup {k}) :
            hashnext'[x] = hashnext[x] /\ hashprev'[x] = hashprev[x]
      /\ \E long \in Seq(Key) :
            Linked(hashnext', hashprev', k, long) /\ Members(long) = Members(chain) \cup {k}
  <2>1. hashnext \in Pointers /\ hashprev \in Pointers /\ k \in Key \ Members(chain)
    BY <1>1, <1>3 DEF TableTypes
  <2>2. hashnext' = [hashnext EXCEPT ![k] = table[b]] /\ hashprev' = Keyed!Link(hashprev, table[b], k)
    BY <1>2 DEF Keyed!AddElement
  <2>3. LinksFirst(hashnext, hashprev, table[b], chain, k, hashnext', hashprev')
    BY <1>3, <1>4, <2>1, <2>2 DEF LinksFirst
  <2> QED BY <2>3, LinkFirst
<1>9. new \in Seq(Key)
  OBVIOUS
<1> HIDE DEF new
<1>10. ASSUME NEW i \in 0..(HashSize - 1) PROVE Bucket(i, Members(new))'
  <2>1. CASE i = b
    <3>1. PICK long \in Seq(Key) :
             Linked(hashnext', hashprev', k, long) /\ Members(long) = Members(chain) \cup {k}
      BY <1>8
    <3>2. Members(long) = {x \in Members(new) : GetIndex(x) = i}
      BY <1>2, <1>3, <1>5, <2>1, <3>1
    <3> QED BY <1>6, <2>1, <3>1, <3>2 DEF Bucket
  <2>2. CASE i # b
    <3>1. PICK other \in Seq(Key) :
             /\ Linked(hashnext, hashprev, table[i], other)
             /\ Members(other) = {x \in Members(keys) : GetIndex(x) = i}
      BY DEF Holds, Bucket
    <3>2. \A x \in Members(other) : x \in Key \ (Members(chain) \cup {k})
      <4>1. \A x \in Members(other) : x \in Key
        BY DEF Members
      <4> QED BY <1>1, <1>3, <2>2, <3>1, <4>1
    <3>3. Linked(hashnext', hashprev', table[i], other)
      BY <1>8, <3>1, <3>2, OthersStay DEF TableTypes
    <3>4. Members(other) = {x \in Members(new) : GetIndex(x) = i}
      BY <1>2, <1>5, <2>2, <3>1
    <3> QED BY <1>7, <2>2, <3>3, <3>4 DEF Bucket
  <2> QED BY <2>1, <2>2
<1>11. \A x \in Key \ Members(new) :
          hashnext'[x] = NULL /\ hashprev'[x] = NULL /\ listnext'[x] = NULL /\ listprev'[x] = NULL
  <2> TAKE x \in Key \ Members(new)
  <2>1. x \notin Members(keys) \cup {k} /\ x \notin Members(chain)
    BY <1>3, <1>5
  <2> QED BY <1>5, <1>8, <2>1 DEF Holds
<1>12. Holds(new)'
  <2>1. lasthashelem' = Nth(new, Len(new))
    BY <1>5 DEF Keyed!AddElement
  <2>2. \A x \in Members(new) : GetIndex(x) < HashSize
    BY <1>5 DEF Holds, Keyed!AddElement
  <2>3. curhashelem' \in Members(new) \cup {NULL, Wild}
    BY <1>5 DEF Keyed!AddElement, Holds
  <2> QED BY <1>5, <1>10, <1>11, <2>1, <2>2, <2>3 DEF Holds
<1>13. TableTypes'
  <2>1. table' \in [0..(HashSize - 1) -> Key \cup {NULL}]
    BY DEF TableTypes, Keyed!AddElement
  <2>2. element' \in [Key -> Key \cup {NULL}]
    BY DEF TableTypes, Keyed!AddElement
  <2> QED BY <1>5, <1>8, <2>1, <2>2 DEF TableTypes
<1>14. TableInv'
  BY <1>9, <1>12, <1>13 DEF TableInv
<1>15. Keyed!From(listnext', firsthashelem') = new
  BY <1>5, WalkIsList
<1>16. Keyed!Ordered!Add(k, e)
  <2>1. Keyed!Ordered!Entries = Members(keys) /\ Keyed!From(listnext, firsthashelem) = keys
    BY OrderIsKeys
  <2>2. element' = [element EXCEPT ![k] = e] /\ curhashelem' = curhashelem
    BY DEF Keyed!AddElement
  <2> QED BY <1>1, <1>15, <2>1, <2>2 DEF Keyed!Ordered!Add, new
<1> QED BY <1>14, <1>16

\* An empty table holds nothing.
LEMMA EmptyTable ==
  ASSUME NEW table2, NEW next2, NEW element2, NEW first2,
         table2 = [i \in 0..(HashSize - 1) |-> NULL], next2 = [k \in Key |-> NULL], first2 = NULL
  PROVE  /\ table2 \in [0..(HashSize - 1) -> Key \cup {NULL}] /\ next2 \in Pointers
         /\ Linked(next2, next2, NULL, <<>>) /\ Members(<<>>) = {} /\ Nth(<<>>, 0) = NULL
         /\ Keyed!From(next2, NULL) = <<>> /\ <<>> \in Seq(Key) /\ Len(<<>>) = 0
<1>1. Linked(next2, next2, NULL, <<>>)
  BY DEF Linked, Distinct, Nth
<1> QED BY <1>1, WalkIsList DEF Pointers, Members, Nth

\* Clear empties the table.
LEMMA ClearStep ==
  ASSUME Keyed!Clear
  PROVE  /\ TableInv'
         /\ Keyed!Ordered!Clear
<1>1. /\ table' = [i \in 0..(HashSize - 1) |-> NULL]
      /\ hashnext' = [k \in Key |-> NULL] /\ hashprev' = [k \in Key |-> NULL]
      /\ listnext' = [k \in Key |-> NULL] /\ listprev' = [k \in Key |-> NULL]
      /\ element' = [k \in Key |-> NULL]
      /\ firsthashelem' = NULL /\ lasthashelem' = NULL /\ curhashelem' = Wild
  BY DEF Keyed!Clear
<1>2. TableTypes'
  BY <1>1, EmptyTable DEF TableTypes, Pointers
<1>3. \A i \in 0..(HashSize - 1) : Bucket(i, Members(<<>>))'
  <2> TAKE i \in 0..(HashSize - 1)
  <2>1. Linked(hashnext', hashprev', table'[i], <<>>) /\ Members(<<>>) = {} /\ <<>> \in Seq(Key)
    BY <1>1, EmptyTable
  <2>2. Members(<<>>) = {k \in Members(<<>>) : GetIndex(k) = i}
    BY <2>1
  <2> QED BY <2>1, <2>2 DEF Bucket
<1>4. Holds(<<>>)'
  <2>1. \A k \in Key \ Members(<<>>) :
          hashnext'[k] = NULL /\ hashprev'[k] = NULL /\ listnext'[k] = NULL /\ listprev'[k] = NULL
    BY <1>1
  <2>2. \A k \in Members(<<>>) : GetIndex(k) < HashSize
    BY <1>1, EmptyTable
  <2>3. Linked(listnext', listprev', firsthashelem', <<>>) /\ lasthashelem' = Nth(<<>>, Len(<<>>))
    BY <1>1, EmptyTable
  <2> QED BY <1>1, <1>3, <2>1, <2>2, <2>3 DEF Holds
<1>5. Keyed!From(listnext', firsthashelem') = <<>> /\ <<>> \in Seq(Key)
  BY <1>1, EmptyTable
<1> QED BY <1>1, <1>2, <1>4, <1>5 DEF TableInv, Keyed!Ordered!Clear

\* So it is at first.
LEMMA TableInit == ASSUME Init PROVE TableInv /\ Keyed!Ordered!Init
<1>1. /\ table = [i \in 0..(HashSize - 1) |-> NULL]
      /\ hashnext = [k \in Key |-> NULL] /\ hashprev = [k \in Key |-> NULL]
      /\ listnext = [k \in Key |-> NULL] /\ listprev = [k \in Key |-> NULL]
      /\ element = [k \in Key |-> NULL]
      /\ firsthashelem = NULL /\ lasthashelem = NULL /\ curhashelem = Wild
  BY DEF Init, Keyed!Init
<1>2. TableTypes
  BY <1>1, EmptyTable DEF TableTypes, Pointers
<1>3. \A i \in 0..(HashSize - 1) : Bucket(i, Members(<<>>))
  <2> TAKE i \in 0..(HashSize - 1)
  <2>1. Linked(hashnext, hashprev, table[i], <<>>) /\ Members(<<>>) = {} /\ <<>> \in Seq(Key)
    BY <1>1, EmptyTable
  <2>2. Members(<<>>) = {k \in Members(<<>>) : GetIndex(k) = i}
    BY <2>1
  <2> QED BY <2>1, <2>2 DEF Bucket
<1>4. Holds(<<>>)
  <2>1. \A k \in Key \ Members(<<>>) :
          hashnext[k] = NULL /\ hashprev[k] = NULL /\ listnext[k] = NULL /\ listprev[k] = NULL
    BY <1>1
  <2>2. \A k \in Members(<<>>) : GetIndex(k) < HashSize
    BY <1>1, EmptyTable
  <2>3. Linked(listnext, listprev, firsthashelem, <<>>) /\ lasthashelem = Nth(<<>>, Len(<<>>))
    BY <1>1, EmptyTable
  <2> QED BY <1>1, <1>3, <2>1, <2>2, <2>3 DEF Holds
<1>5. Keyed!From(listnext, firsthashelem) = <<>> /\ <<>> \in Seq(Key)
  BY <1>1, EmptyTable
<1> QED BY <1>1, <1>2, <1>4, <1>5 DEF TableInv, Keyed!Ordered!Init

\* A step of the ordered table, or none of its own; the pointers stay in order.
TableKept == [Keyed!Ordered!Next]_(Keyed!Ordered!tableVars) /\ TableInv'

\* Walking, forth and back.
LEMMA WalkStep ==
  ASSUME TableInv,
         \/ Keyed!GotoFirstElement \/ Keyed!GotoLastElement
         \/ Keyed!GotoNextElement \/ Keyed!GotoPreviousElement
  PROVE  TableKept
<1>1. TableTypes
  BY DEF TableInv
<1>2. PICK keys \in Seq(Key) : Holds(keys)
  BY DEF TableInv
<1>3. PICK n \in Nat : n = Len(keys)
  OBVIOUS
<1>4. \A i \in Int : Nth(keys, i) \in Members(keys) \cup {NULL, Wild}
  BY DEF Nth, Members
<1>5. /\ Keyed!From(listnext, firsthashelem) = keys /\ Keyed!Ordered!Entries = Members(keys)
      /\ \A i \in Int : Keyed!Ordered!At(i) = Nth(keys, i)
      /\ \A i \in 1..n : Keyed!Ordered!Place(keys[i]) = i
  BY <1>2, <1>3, OrderIsKeys
<1>6. /\ firsthashelem = Nth(keys, 1) /\ lasthashelem = Nth(keys, n)
      /\ \A i \in 1..n : listnext[keys[i]] = Nth(keys, i + 1) /\ listprev[keys[i]] = Nth(keys, i - 1)
  BY <1>2, <1>3 DEF Holds, Linked
<1>7. ASSUME NEW i \in Int, Keyed!Goto(Nth(keys, i)) PROVE Keyed!Ordered!Goto(Keyed!Ordered!At(i)) /\ TableInv'
  BY <1>1, <1>2, <1>4, <1>5, <1>7, MoveStep
<1>8. CASE Keyed!GotoFirstElement
  <2>1. Keyed!Ordered!Goto(Keyed!Ordered!At(1)) /\ TableInv'
    BY <1>6, <1>7, <1>8 DEF Keyed!GotoFirstElement
  <2> QED BY <2>1 DEF TableKept, Keyed!Ordered!Next
<1>9. CASE Keyed!GotoLastElement
  <2>1. Keyed!Ordered!Goto(Keyed!Ordered!At(n)) /\ TableInv'
    BY <1>6, <1>7, <1>9 DEF Keyed!GotoLastElement
  <2> QED BY <1>3, <1>5, <2>1 DEF TableKept, Keyed!Ordered!Next
<1>10. CASE (Keyed!GotoNextElement \/ Keyed!GotoPreviousElement) /\ curhashelem = NULL
  <2>1. Keyed!Goto(NULL)
    BY <1>10 DEF Keyed!GotoNextElement, Keyed!GotoPreviousElement, Keyed!HasCurrentElement
  <2>2. Keyed!Ordered!Goto(NULL) /\ TableInv'
    BY <1>1, <1>2, <2>1, MoveStep
  <2> QED BY <1>10, <2>2 DEF TableKept, Keyed!Ordered!Goto, Keyed!Ordered!tableVars
<1>11. CASE (Keyed!GotoNextElement \/ Keyed!GotoPreviousElement) /\ curhashelem # NULL
  <2>1. curhashelem \in Members(keys)
    BY <1>2, <1>11 DEF Holds, Keyed!GotoNextElement, Keyed!GotoPreviousElement
  <2>2. PICK i \in 1..n : curhashelem = keys[i]
    BY <1>3, <2>1 DEF Members
  <2>3. Keyed!Goto(Nth(keys, i + 1)) \/ Keyed!Goto(Nth(keys, i - 1))
    BY <1>6, <1>11, <2>2 DEF Keyed!GotoNextElement, Keyed!GotoPreviousElement, Keyed!HasCurrentElement
  <2>4. /\ TableInv'
        /\ \/ Keyed!Ordered!Goto(Keyed!Ordered!At(i + 1))
           \/ Keyed!Ordered!Goto(Keyed!Ordered!At(i - 1))
    BY <1>7, <2>3
  <2>5. curhashelem \in Keyed!Ordered!Entries /\ Keyed!Ordered!Place(curhashelem) = i
    BY <1>5, <2>1, <2>2
  <2> QED BY <2>4, <2>5 DEF TableKept, Keyed!Ordered!Next
<1> QED BY <1>8, <1>9, <1>10, <1>11

\* Searching for an element.
LEMMA SearchStep ==
  ASSUME TableInv, NEW k \in Key, Keyed!GotoElement(k)
  PROVE  TableKept
<1>1. TableTypes
  BY DEF TableInv
<1>2. PICK keys \in Seq(Key) : Holds(keys)
  BY DEF TableInv
<1>3. Keyed!HasElement(k) <=> k \in Keyed!Ordered!Entries
  BY <1>2, FoundIsHeld, OrderIsKeys
<1>4. PICK to \in Members(keys) \cup {NULL, Wild} : to = IF Keyed!HasElement(k) THEN k ELSE NULL
  BY <1>2, FoundIsHeld
<1>5. Keyed!Ordered!Goto(to) /\ TableInv'
  BY <1>1, <1>2, <1>4, MoveStep DEF Keyed!GotoElement
<1>6. to = IF k \in Keyed!Ordered!Entries THEN k ELSE NULL
  BY <1>3, <1>4
<1>7. Keyed!Ordered!Goto(IF k \in Keyed!Ordered!Entries THEN k ELSE NULL)
  BY <1>5, <1>6
<1> QED BY <1>5, <1>7, Zenon DEF TableKept, Keyed!Ordered!Next

\* Deleting an element that is there.
LEMMA RemoveStep ==
  ASSUME TableInv, NEW k \in Key, Keyed!HasElement(k), Keyed!Delete(k)
  PROVE  TableKept
<1>1. TableTypes
  BY DEF TableInv
<1>2. PICK keys \in Seq(Key) : Holds(keys)
  BY DEF TableInv
<1>3. k \in Members(keys)
  BY <1>2, FoundIsHeld
<1>4. TableInv' /\ Keyed!Ordered!Remove(k)
  BY <1>1, <1>2, <1>3, DeleteStep
<1> QED BY <1>4, Zenon DEF TableKept, Keyed!Ordered!Next

\* Whatever is done to a table with keys.
LEMMA KeyedStep == ASSUME TableInv, Keyed!Next PROVE TableKept
<1>1. CASE \/ Keyed!GotoFirstElement \/ Keyed!GotoLastElement
           \/ Keyed!GotoNextElement \/ Keyed!GotoPreviousElement
  BY <1>1, WalkStep
<1>2. CASE Keyed!DeleteCurrentElement
  <2>1. PICK keys \in Seq(Key) : Holds(keys)
    BY DEF TableInv
  <2>2. curhashelem \in Members(keys)
    BY <1>2, <2>1 DEF Keyed!DeleteCurrentElement, Keyed!HasCurrentElement, Holds
  <2>3. curhashelem \in Key
    BY <2>2 DEF Members
  <2>4. Keyed!HasElement(curhashelem)
    BY <2>1, <2>2, <2>3, FoundIsHeld
  <2> QED BY <1>2, <2>3, <2>4, RemoveStep DEF Keyed!DeleteCurrentElement
<1>3. CASE Keyed!Clear
  <2>1. TableInv' /\ Keyed!Ordered!Clear
    BY <1>3, ClearStep
  <2> QED BY <2>1 DEF TableKept, Keyed!Ordered!Next
<1>4. ASSUME NEW k \in Key, Keyed!GotoElement(k) PROVE TableKept
  BY <1>4, SearchStep
<1>5. ASSUME NEW k \in Key, Keyed!DeleteElement(k) PROVE TableKept
  <2>1. CASE Keyed!HasElement(k)
    BY <1>5, <2>1, RemoveStep DEF Keyed!DeleteElement
  <2>2. CASE ~Keyed!HasElement(k)
    BY <1>4, <1>5, <2>2 DEF Keyed!DeleteElement
  <2> QED BY <2>1, <2>2
<1>6. ASSUME NEW k \in Key, NEW e \in Key, Keyed!AddElement(k, e) PROVE TableKept
  <2>1. TableTypes /\ \E keys \in Seq(Key) : Holds(keys)
    BY DEF TableInv
  <2>2. TableInv' /\ Keyed!Ordered!Add(k, e)
    BY <1>6, <2>1, AddStep
  <2> QED BY <2>2, Zenon DEF TableKept, Keyed!Ordered!Next
<1> QED BY <1>1, <1>2, <1>3, <1>4, <1>5, <1>6, Zenon DEF Keyed!Next

\* The table without keys is one whose elements are their own keys.
LEMMA SameSearch == ASSUME NEW k PROVE Plain!Keyed!HasElement(k) = Keyed!HasElement(k)
BY Zenon DEF Plain!Keyed!HasElement, Keyed!HasElement, Plain!Keyed!Chain, Keyed!Chain,
             Plain!Keyed!From, Keyed!From, Plain!Keyed!Cardinality, Keyed!Cardinality

\* It moves the cursor alike,
LEMMA SameMove == ASSUME NEW to PROVE Plain!Keyed!Goto(to) = Keyed!Goto(to)
BY Zenon DEF Plain!Keyed!Goto, Keyed!Goto, Plain!Keyed!buckets, Keyed!buckets,
             Plain!Keyed!list, Keyed!list

\* and deletes alike.
LEMMA SameDelete == ASSUME NEW k PROVE Plain!Keyed!Delete(k) = Keyed!Delete(k)
BY Zenon DEF Plain!Keyed!Delete, Keyed!Delete, Plain!Keyed!Link, Keyed!Link

\* So each of its steps is a step of the other.
LEMMA PlainIsKeyed == ASSUME Plain!Next PROVE Keyed!Next
<1>1. \A k : Plain!GotoElement(k) = Keyed!GotoElement(k)
  BY SameSearch, SameMove DEF Plain!GotoElement, Plain!Keyed!GotoElement, Keyed!GotoElement
<1>2. Plain!Walk => \/ Keyed!GotoFirstElement \/ Keyed!GotoLastElement
                    \/ Keyed!GotoNextElement \/ Keyed!GotoPreviousElement
  BY SameMove DEF Plain!Walk, Plain!Keyed!GotoFirstElement, Plain!Keyed!GotoLastElement,
     Plain!Keyed!GotoNextElement, Plain!Keyed!GotoPreviousElement, Plain!Keyed!HasCurrentElement,
     Keyed!GotoFirstElement, Keyed!GotoLastElement, Keyed!GotoNextElement,
     Keyed!GotoPreviousElement, Keyed!HasCurrentElement
<1>3. Plain!DeleteCurrentElement => Keyed!DeleteCurrentElement
  BY SameDelete DEF Plain!DeleteCurrentElement, Plain!Keyed!DeleteCurrentElement,
     Keyed!DeleteCurrentElement, Plain!Keyed!HasCurrentElement, Keyed!HasCurrentElement
<1>4. Plain!Clear => Keyed!Clear
  BY DEF Plain!Clear, Plain!Keyed!Clear, Keyed!Clear
<1>5. \A k : Plain!DeleteElement(k) => Keyed!DeleteElement(k)
  BY <1>1, SameSearch, SameDelete DEF Plain!DeleteElement, Plain!Keyed!DeleteElement,
     Keyed!DeleteElement, Plain!GotoElement
<1>6. \A k : Plain!AddElement(k) => Keyed!AddElement(k, k)
  BY SameSearch DEF Plain!AddElement, Plain!Keyed!AddElement, Keyed!AddElement,
     Plain!Keyed!Link, Keyed!Link
<1> QED BY <1>1, <1>2, <1>3, <1>4, <1>5, <1>6, Zenon DEF Plain!Next, Keyed!Next

\* Every step, of a table or of something else.
LEMMA TableStep == ASSUME TableInv, [Next]_vars PROVE TableKept
<1>1. CASE UNCHANGED hash
  <2>1. /\ UNCHANGED <<table, hashnext, hashprev, listnext, listprev, element>>
        /\ UNCHANGED <<firsthashelem, lasthashelem, curhashelem>>
    BY <1>1 DEF hash
  <2>2. PICK keys \in Seq(Key) : Holds(keys)
    BY DEF TableInv
  <2>3. curhashelem \in Members(keys) \cup {NULL, Wild}
    BY <2>2 DEF Holds
  <2>4. Keyed!Goto(curhashelem)
    BY <2>1 DEF Keyed!Goto, Keyed!buckets, Keyed!list
  <2>5. TableInv' /\ Keyed!Ordered!Goto(curhashelem)
    BY <2>2, <2>3, <2>4, MoveStep DEF TableInv
  <2> QED BY <2>5 DEF TableKept, Keyed!Ordered!Goto, Keyed!Ordered!tableVars
<1>2. CASE Next
  <2>1. UNCHANGED hash \/ Keyed!Next \/ Plain!Next
    BY <1>2, Zenon DEF Next
  <2> QED BY <1>1, <2>1, KeyedStep, PlainIsKeyed
<1>3. UNCHANGED vars => UNCHANGED hash
  BY DEF vars
<1> QED BY <1>1, <1>2, <1>3

-----------------------------------------------------------------------------
(* The theorems                                                            *)

\* After a call of SetMaximumPacketSize, failed or not, the transmitter, both
\* builders and the session agree on the size, and no poll thread is lost
\* while nobody has asked for less.
THEOREM SizesCorrect == Spec => []SizesAgree
<1>1. SessionInv => SizesAgree
  BY DEF SessionInv, SizesInv, FitsInv, SizesAgree, Session!SizesAgree, Same, Session!Copies
<1> QED BY <1>1, SessionInit, SessionStep, PTL DEF Spec

\* A byte is in the pipe for every wait that has been aborted and every packet
\* injected since the wait began, until the thread reads it: however the steps
\* of the threads interleave, a thread never falls asleep over a request that
\* was made before it did.
THEOREM WakeupsArrive == Spec => []NoLostWakeup
<1>1. ThreadsInv => NoLostWakeup
  BY DEF ThreadsInv, NoLostWakeup
<1> QED BY <1>1, ThreadsInit, ThreadsStep, PTL DEF Spec

\* Whichever step of Create fails, of a transmitter or of the session above
\* it, and whichever socket cannot join: no descriptor stays open, no socket
\* in a group that is not listed, and no part of a session behind, over which
\* the next Create would stumble.
THEOREM CreateIsAllOrNothing == Spec => []NothingLeftBehind
<1>1. TablesInv /\ SessionInv => NothingLeftBehind
  BY DEF TablesInv, SessionInv, PartsInv, NothingLeftBehind, Session!NothingLeftBehind
<1> QED BY <1>1, TablesInit, TablesStep, SessionInit, SessionStep, PTL DEF Spec

\* Whatever mechanism a session was given, it works as the interface says.
THEOREM TransmittersKeepPromise == Spec => ImplementsInterface
<1>1. DataInv /\ TablesInv /\ [Next]_vars => [IPv4!Interface!Next]_(IPv4!Interface!vars) /\ DataInv'
  BY PromiseStep DEF Promise
<1> QED BY <1>1, PromiseInit, TablesInit, TablesStep, PTL
     DEF Spec, ImplementsInterface, IPv4!ImplementsInterface, IPv4!Interface!Spec

\* Whatever is added, deleted and looked for on the way, a walk meets the
\* elements in the order they were added, and a search finds those.
THEOREM TablesAreOrdered == Spec => ImplementsTable
<1>1. TableInv /\ [Next]_vars => [Keyed!Ordered!Next]_(Keyed!Ordered!tableVars) /\ TableInv'
  BY TableStep DEF TableKept
<1>2. Init => TableInv /\ Keyed!Ordered!Init
  BY TableInit
<1> QED BY <1>1, <1>2, PTL
     DEF Spec, ImplementsTable, Keyed!ImplementsTable, Keyed!Ordered!Spec
=============================================================================
