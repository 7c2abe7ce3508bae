-------------------------- MODULE RTPSessionCreate --------------------------
(***************************************************************************)
(* The life of an RTPSession: Create makes its parts one after the other   *)
(* and undoes them when one fails, Destroy and BYEDestroy undo all, and in *)
(* between the maximum packet size, which four parts keep a copy of, can   *)
(* be changed while the poll thread builds and sends RTCP packets.         *)
(*                                                                         *)
(* The calls of the application come from one thread.  The BYE packets of  *)
(* BYEDestroy are sent in RtpReceive and RTCPReports.                      *)
(***************************************************************************)
EXTENDS TransmitterConstants

VARIABLES
  threaded,  \* usingpollthread
  owned,     \* deletetransmitter
  parts,     \* the parts that are there; a transmitter only if it is ours
  at,        \* where the call of the application is
  limit,     \* each part's copy of the maximum packet size
  wanted,    \* argument of SetMaximumPacketSize
  compound,  \* length of an RTCP packet that is built and not yet sent, or 0
  lowered    \* history: a smaller maximum has been asked for

vars == <<threaded, owned, parts, at, limit, wanted, compound, lowered>>

Copies == {"session", "transmitter", "packetbuilder", "rtcpbuilder"}

Init ==
  /\ threaded = FALSE /\ owned = FALSE /\ parts = {} /\ at = "idle"
  /\ limit = [c \in Copies |-> 0] /\ wanted = 0 /\ compound = 0 /\ lowered = FALSE

active == "session" \in parts

-----------------------------------------------------------------------------
(* Create                                                                  *)

Steps == {"new", "init", "create", "setsize", "packetbuilder", "ownssrc", "receivemode",
          "cname", "rtcpbuilder", "schedparams", "mutexes", "pollthread", "start"}

\* Which step follows; the poll thread's are for sessions that want one.
After(step) ==
  CASE step = "new"                   -> "init"
    [] step = "init"                  -> "create"
    [] step \in {"create", "setsize"} -> "packetbuilder"
    [] step = "packetbuilder"         -> "ownssrc"
    [] step = "ownssrc"               -> "receivemode"
    [] step = "receivemode"           -> "cname"
    [] step = "cname"                 -> "rtcpbuilder"
    [] step = "rtcpbuilder"           -> "schedparams"
    [] step = "schedparams"           -> IF threaded THEN "mutexes" ELSE "idle"
    [] step = "mutexes"               -> "pollthread"
    [] step = "pollthread"            -> "start"
    [] step = "start"                 -> "idle"

\* The parts a step leaves behind it.  Mutexes are kept for the next time.
Made(step) ==
  (CASE step = "new"           -> {"transmitter"}
     [] step = "packetbuilder" -> {"packetbuilder"}
     [] step = "ownssrc"       -> {"sources"}
     [] step = "rtcpbuilder"   -> {"rtcpbuilder"}
     [] step = "pollthread"    -> {"pollthread"}
     [] step = "start"         -> {"running"}
     [] OTHER                  -> {})
  \cup IF After(step) = "idle" THEN {"session"} ELSE {}

\* The copies of the size a step sets.
Sets(step) ==
  CASE step \in {"create", "setsize"} -> {"transmitter"}
    [] step \in {"packetbuilder", "rtcpbuilder"} -> {step}
    [] OTHER -> {}

\* What the error path of a step undoes.
Undone(step) ==
  (CASE step \in {"new", "setsize"} -> {}
     [] step \in {"init", "create"} -> {"transmitter"}
     [] step = "packetbuilder"      -> {}
     [] step = "ownssrc"            -> {"packetbuilder"}
     [] step \in {"receivemode", "cname", "rtcpbuilder"} -> {"packetbuilder", "sources"}
     [] step \in {"schedparams", "mutexes", "pollthread"} ->
          {"packetbuilder", "sources", "rtcpbuilder"}
     [] step = "start" -> {"packetbuilder", "sources", "rtcpbuilder", "pollthread"})
  \cup IF owned /\ step \notin {"new", "init", "create", "setsize"}
       THEN {"transmitter"} ELSE {}

\* With a transmitter of our own or one of the application's, which is only
\* told the size.  Too small a size, or a session that is there: an error.
Create(size) ==
  /\ at = "idle" /\ ~active
  /\ threaded' \in BOOLEAN /\ owned' \in BOOLEAN
  /\ at' = IF owned' THEN "new" ELSE "setsize"
  /\ limit' = [limit EXCEPT !["session"] = size] /\ lowered' = FALSE
  /\ UNCHANGED <<parts, wanted, compound>>

\* A part that is already there cannot be made again.
Succeed(step) ==
  /\ at = step /\ Made(step) \cap parts = {}
  /\ parts' = parts \cup Made(step) /\ at' = After(step)
  /\ limit' = [c \in Copies |-> IF c \in Sets(step) THEN limit["session"] ELSE limit[c]]
  /\ UNCHANGED <<threaded, owned, wanted, compound, lowered>>

Fail(step) ==
  /\ at = step
  /\ parts' = parts \ Undone(step) /\ at' = "idle"
  /\ UNCHANGED <<threaded, owned, limit, wanted, compound, lowered>>

\* Destroy, and BYEDestroy after its last packet: the thread first, then the
\* transmitter if it is ours, the builders, the table and the queued BYEs.
Destroy ==
  /\ at = "idle" /\ active
  /\ parts' = parts \ ({"pollthread", "running", "packetbuilder", "rtcpbuilder",
                        "sources", "session"} \cup IF owned THEN {"transmitter"} ELSE {})
  /\ compound' = 0
  /\ UNCHANGED <<threaded, owned, at, limit, wanted, lowered>>

-----------------------------------------------------------------------------
(* SetMaximumPacketSize                                                    *)

\* The transmitter first; when it refuses, nothing has changed.
SetTransmitter(size) ==
  /\ at = "idle" /\ active
  /\ at' = "set" /\ wanted' = size
  /\ limit' = [limit EXCEPT !["transmitter"] = size]
  /\ lowered' = (lowered \/ size < limit["session"])
  /\ UNCHANGED <<threaded, owned, parts, compound>>

\* Under the builder mutex; without memory for the new buffer the old size
\* has to be restored.
SetPacketBuilder ==
  /\ at = "set"
  /\ \/ at' = "setrtcp" /\ limit' = [limit EXCEPT !["packetbuilder"] = wanted]
     \/ at' = "restore" /\ UNCHANGED limit
  /\ UNCHANGED <<threaded, owned, parts, wanted, compound, lowered>>

\* Mutant: the RTP packet builder is not restored with the others.
SetRTCPBuilderRestoringLess ==
  /\ at = "setrtcp"
  /\ \/ at' = "idle"
        /\ limit' = [limit EXCEPT !["rtcpbuilder"] = wanted, !["session"] = wanted]
     \/ at' = "restore" /\ UNCHANGED limit
  /\ UNCHANGED <<threaded, owned, parts, wanted, compound, lowered>>

\* Still under the builder mutex; then the session's own copy.
SetRTCPBuilder ==
  /\ at = "setrtcp"
  /\ \/ at' = "idle"
        /\ limit' = [limit EXCEPT !["rtcpbuilder"] = wanted, !["session"] = wanted]
     \/ at' = "restore"
        /\ limit' = [limit EXCEPT !["packetbuilder"] = limit["session"]]
  /\ UNCHANGED <<threaded, owned, parts, wanted, compound, lowered>>

\* After the builder mutex has been unlocked.
RestoreTransmitter ==
  /\ at = "restore" /\ at' = "idle"
  /\ limit' = [limit EXCEPT !["transmitter"] = limit["session"]]
  /\ UNCHANGED <<threaded, owned, parts, wanted, compound, lowered>>

-----------------------------------------------------------------------------
(* RTCP packets: the poll thread's, or the application's when it polls     *)

Polls == active /\ IF threaded THEN "running" \in parts ELSE at = "idle"

\* A report or a BYE; a BYE stays in its queue.  The builder mutex is free.
BuildRTCP(len) ==
  /\ Polls /\ at # "setrtcp" /\ compound = 0
  /\ len <= limit["rtcpbuilder"] /\ compound' = len
  /\ UNCHANGED <<threaded, owned, parts, at, limit, wanted, lowered>>

\* An error ends the poll thread.
SendRTCP ==
  /\ Polls /\ compound # 0 /\ compound' = 0
  /\ parts' = parts \ IF compound > limit["transmitter"] THEN {"running"} ELSE {}
  /\ UNCHANGED <<threaded, owned, at, limit, wanted, lowered>>

Next ==
  \/ \E size \in Size : Create(size) \/ SetTransmitter(size) \/ BuildRTCP(size)
  \/ \E step \in Steps : Succeed(step) \/ Fail(step)
  \/ SetPacketBuilder \/ SetRTCPBuilder \/ RestoreTransmitter \/ SendRTCP \/ Destroy

Spec == Init /\ [][Next]_vars

-----------------------------------------------------------------------------
(* Properties                                                              *)

\* No error path of RTPSession::Create leaves a part behind, over which the
\* next Create would stumble, and no packet outlives its session.
NothingLeftBehind == at = "idle" /\ ~active => parts = {} /\ compound = 0

\* Between two calls the four copies of the maximum packet size are the same,
\* whichever step of a change has failed; and a poll thread is only lost over
\* a packet that is too large if somebody has asked for less.
SizesAgree ==
  /\ active /\ at = "idle" => \A c \in Copies : limit[c] = limit["session"]
  /\ active /\ threaded /\ "running" \notin parts => lowered
=============================================================================
