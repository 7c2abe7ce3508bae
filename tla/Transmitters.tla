---------------------------- MODULE Transmitters ----------------------------
(***************************************************************************)
(* The transmitter of a session, of the kind RTPSession::Create was asked  *)
(* for: UDP over IPv4 or IPv6, the external transmitter, or the fake one   *)
(* an application brings along.  The data of each is one machine; the      *)
(* threads that call into a transmitter are another, kind "threads"; the   *)
(* hash tables behind its sets, here "keyed" and "plain", are two more; so *)
(* is the session that makes and unmakes the transmitter, kind "session".  *)
(***************************************************************************)
EXTENDS TransmitterConstants

VARIABLES
  kind,
  created, localIPs, dests, groups, mode, info, maxsize, raw, out, open, member, queue,
  external, pc, main, wait, alive, waitingfordata, pipe, data, sees, asked, stray,
  table, hashnext, hashprev, listnext, listprev, firsthashelem, lasthashelem, curhashelem, element,
  threaded, owned, parts, at, limit, wanted, compound, lowered

tables  == <<created, localIPs, dests, groups, mode, info, maxsize, raw, out, open, member, queue>>
threads == <<external, pc, main, wait, alive, waitingfordata, pipe, data, sees, asked, stray>>
hash    == <<table, hashnext, hashprev, listnext, listprev, firsthashelem, lasthashelem,
             curhashelem, element>>
session == <<threaded, owned, parts, at, limit, wanted, compound, lowered>>
vars    == <<kind, tables, threads, hash, session>>

IPv4     == INSTANCE RTPUDPv4Transmitter
IPv6     == INSTANCE RTPUDPv6Transmitter
External == INSTANCE RTPExternalTransmitter
Fake     == INSTANCE RTPFakeTransmitter
Calls    == INSTANCE TransmitterThreads WITH created <- alive
Keyed    == INSTANCE RTPKeyHashTable WITH Element <- Key
Plain    == INSTANCE RTPHashTable WITH Element <- Key
Session  == INSTANCE RTPSessionCreate

\* Every kind starts from the same empty tables.
Init ==
  /\ kind \in {"IPv4", "IPv6", "External", "UserDefined", "threads", "keyed", "plain", "session"}
  /\ IPv4!Init /\ Calls!Init /\ Keyed!Init /\ Session!Init
  /\ kind # "threads" => external = FALSE
  /\ kind \in {"threads", "keyed", "plain", "session"} => maxsize = CHOOSE s \in Size : TRUE

Next ==
  /\ \/ kind = "IPv4" /\ IPv4!Next /\ UNCHANGED <<threads, hash, session>>
     \/ kind = "IPv6" /\ IPv6!Next /\ UNCHANGED <<threads, hash, session>>
     \/ kind = "External" /\ External!Next /\ UNCHANGED <<threads, hash, session>>
     \/ kind = "UserDefined" /\ Fake!Next /\ UNCHANGED <<threads, hash, session>>
     \/ kind = "threads" /\ Calls!Next /\ UNCHANGED <<tables, hash, session>>
     \/ kind = "keyed" /\ UNCHANGED <<tables, threads, session>> /\ Keyed!Next
     \/ kind = "plain" /\ UNCHANGED <<tables, threads, session>> /\ Plain!Next
     \/ kind = "session" /\ Session!Next /\ UNCHANGED <<tables, threads, hash>>
  /\ UNCHANGED kind

Spec == Init /\ [][Next]_vars

\* A thread that has begun a call goes on with it when it can.  Nobody has to
\* call anything, and the delay of a wait may be as long as one likes.
Fairness ==
  \A t \in Threads : SF_threads(pc[t] # "idle" /\ Calls!Step(t) /\ UNCHANGED external)

FairSpec == Spec /\ Fairness

-----------------------------------------------------------------------------
(* Properties                                                              *)

\* Every transmitter does what RTPTransmitter promises: the list of ports with
\* its exceptions is a set of addresses, packets pass only from accepted
\* sources, in order and once, they are sent to exactly the destinations, and
\* nothing outlives Destroy.
ImplementsInterface == IPv4!ImplementsInterface

\* The hash tables are ordered tables (see RTPKeyHashTable).
ImplementsTable == Keyed!ImplementsTable

\* The descriptors a transmitter of this kind has.
Needed ==
  CASE kind \in {"IPv4", "IPv6"} -> {"rtp", "rtcp", "abort"}
    [] kind = "External"         -> {"abort"}
    [] OTHER                     -> {}

\* No error path of Create, and no failed join, leaves something behind: a
\* descriptor is open exactly while the transmitter is created, each socket
\* is a member of exactly the listed groups, and a session that could not be
\* created, or is destroyed, has no part left.
NothingLeftBehind ==
  /\ Session!NothingLeftBehind
  /\ open = IF created THEN Needed ELSE {}
  /\ \A s \in {"rtp", "rtcp"} : member[s] = groups

\* A request to end a wait, or an injected packet, is never lost while a
\* thread is on its way into select.
NoLostWakeup == Calls!NoLostWakeup

\* However long a wait was meant to be, it ends once it is aborted, and the
\* Destroy that met it returns.
WaitsEnd == Calls!AbortedWaitEnds /\ Calls!DestroyReturns

\* The copies of the maximum packet size agree between two calls, and only a
\* call that lowers it can cost a session its poll thread.
SizesAgree == Session!SizesAgree

\* InjectRTP "can be called to insert an RTP packet into the transmission
\* component": the call comes back.
InjectReturns == Calls!InjectReturns
=============================================================================
