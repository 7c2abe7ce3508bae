----------------------------- MODULE RtpSender -----------------------------
(***************************************************************************)
(* RtpSender: the session a program sends its frames through, used by      *)
(* several threads at once (the codec's, and those that call the library). *)
(* A frame too long for a packet goes in fragments; the default marker is  *)
(* off from the first to the last but one, for every thread.               *)
(*                                                                         *)
(* A call of the session is one step: SendPacket holds the builder's lock  *)
(* from building to sending (see RTPSession).                              *)
(***************************************************************************)
EXTENDS RTPPacketBuilder

CONSTANTS Caller, Dest,
          Lengths, \* the lengths of buffers sent as one packet
          Frames   \* the lengths of buffers sent in fragments if need be

ASSUME SenderAssumption == Lengths \subseteq Nat /\ Frames \subseteq Nat

VARIABLES
  created,      \* RTPSession::created
  mInited, mbConnected, mDestAddr,
  destinations, \* those of the transmitter
  prog          \* where each caller is in its call, and the packets it sent

senderVars == <<created, mInited, mbConnected, mDestAddr, destinations, prog>>

SEND_PACKETSIZE == 36000
MAX_PACKET_SIZE == 65535

NoDest == "none"
Idle == [pc |-> "idle", call |-> "none", len |-> 0, t |-> 0, sent |-> <<>>,
         failed |-> FALSE, disturbed |-> FALSE]

SenderInit ==
  /\ BuilderInit
  /\ created = FALSE /\ mInited = FALSE /\ mbConnected = FALSE
  /\ mDestAddr = NoDest /\ destinations = {}
  /\ prog = [c \in Caller |-> Idle]

Fragmenting(c) == prog[c].pc \in {"fragment", "mark", "last"}

-----------------------------------------------------------------------------
(* The session's life                                                      *)

\* Create with the builder's first size, the defaults, the size of this
\* program.  Nothing happens when the session is there or has no port.
initSession(ts, seq) ==
  /\ ~mInited /\ mInited' = TRUE /\ created' = TRUE
  /\ pb' = [WithNewSSRC(pb, ts, seq) EXCEPT !.init = TRUE, !.maxpacksize = MAX_PACKET_SIZE,
              !.pt = To(96), !.mark = To(TRUE), !.tsinc = To(1), !.csrcs = <<>>]
  /\ pb.ssrc < MaxSSRC
  /\ packet' = Nothing /\ asked' = Nothing /\ log' = <<>>
  /\ prog' = [c \in Caller |-> [prog[c] EXCEPT !.disturbed = @ \/ Fragmenting(c)]]
  /\ UNCHANGED <<clock, mbConnected, mDestAddr, destinations>>

\* A sender that is connected answers TRUE whatever the address.
connect(d) ==
  /\ mInited /\ ~mbConnected
  /\ mDestAddr' = d /\ mbConnected' = TRUE
  /\ destinations' = destinations \union {d}
  /\ UNCHANGED <<builderVars, created, mInited, prog>>

Disconnected == mbConnected' = FALSE /\ destinations' = IF mbConnected THEN {} ELSE destinations

disConnect ==
  /\ Disconnected
  /\ UNCHANGED <<builderVars, created, mInited, mDestAddr, prog>>

\* The destinations are gone before BYEDestroy sends its BYE.
deinitSession ==
  /\ mInited /\ mInited' = FALSE /\ created' = FALSE
  /\ Disconnected
  /\ DestroyBuilder
  /\ UNCHANGED <<mDestAddr, prog>>

\* The thread that polls the session finds a collision.
Collision(ts, seq) == CreateNewSSRC(ts, seq) /\ UNCHANGED senderVars

-----------------------------------------------------------------------------
(* Sending                                                                 *)

\* One packet of c's call with the octets from `from` of its frame; c goes on
\* whether it was sent or refused.
Sends(c, from, r, next) ==
  LET fits == created /\ Accepts(r)
      part == [from |-> from, len |-> r.payloadlength, mark |-> r.mark, extension |-> r.extension]
  IN
  /\ IF fits THEN PrivateBuildPacket(r) ELSE UNCHANGED builderVars
  /\ prog' = [prog EXCEPT ![c] = [next EXCEPT !.sent = IF fits THEN Append(@, part) ELSE @,
                                              !.failed = @ \/ ~fits]]
  /\ UNCHANGED <<created, mInited, mbConnected, mDestAddr, destinations>>

Defaults(c, from, len, ext) ==
  IF DefaultsSet THEN WithDefaults(<<c, from>>, len, ext) ELSE Request(<<c, from>>, len, 0, FALSE, 0, ext)

Done(call, len) == [Idle EXCEPT !.pc = "done", !.call = call, !.len = len]

\* The literal "h264" and what lies behind it: its length in octets is passed
\* for a length in words.
MimeH264 == [present |-> TRUE, id |-> 0, words |-> <<"h264", "?", "?", "?", "?">>]

sendBuffer(c, len) ==
  /\ prog[c].pc = "idle" /\ mInited /\ len < MAX_PACKET_SIZE
  /\ Sends(c, 0, Defaults(c, 0, len, MimeH264), Done("sendBuffer", len))

sendBufferAt(c, len, timeStamp) ==
  /\ prog[c].pc = "idle" /\ mInited
  /\ Sends(c, 0, Request(<<c, 0>>, len, 0, FALSE, timeStamp, NoExtension), Done("sendBufferAt", len))

\* Fragments of full size before the last one.
FullFragments_One(len) == len \div SEND_PACKETSIZE
FullFragments(len) == IF len % SEND_PACKETSIZE = 0 THEN len \div SEND_PACKETSIZE - 1 ELSE len \div SEND_PACKETSIZE

\* SetDefaultMark, refused by a session that is not created.
MarkAll(m) == IF created THEN SetDefaultMark(m) ELSE UNCHANGED builderVars

\* Both calls of a kind disturb each other's marker.
StartFragments(c, call, len) ==
  /\ prog[c].pc = "idle" /\ len > SEND_PACKETSIZE
  /\ MarkAll(FALSE)
  /\ prog' = [d \in Caller |->
       IF d = c THEN [Idle EXCEPT !.pc = "fragment", !.call = call, !.len = len,
                                  !.disturbed = \E e \in Caller : Fragmenting(e)]
       ELSE [prog[d] EXCEPT !.disturbed = @ \/ Fragmenting(d)]]
  /\ UNCHANGED <<created, mInited, mbConnected, mDestAddr, destinations>>

\* The number of fragments and the place of this one.
FragmentHeader(len, t) == [present |-> TRUE, id |-> t, words |-> <<<<FullFragments(len) + 1, t>>, "?", "?">>]

\* A full fragment: without extension from sendBufferEx1, with one from sendBufferEx.
Fragment(c) ==
  LET p == prog[c]
      from == p.t * SEND_PACKETSIZE
      ext == IF p.call = "sendBufferEx" THEN FragmentHeader(p.len, p.t) ELSE NoExtension
  IN
  /\ p.pc = "fragment" /\ p.t < FullFragments(p.len)
  /\ Sends(c, from, Defaults(c, from, SEND_PACKETSIZE, ext), [p EXCEPT !.t = @ + 1])

MarkLast(c) ==
  /\ prog[c].pc = "fragment" /\ prog[c].t = FullFragments(prog[c].len)
  /\ MarkAll(TRUE)
  /\ prog' = [prog EXCEPT ![c].pc = "last"]
  /\ UNCHANGED <<created, mInited, mbConnected, mDestAddr, destinations>>

\* The last fragment: sendBufferEx calls the function without extension, for
\* which its number is the payload type, the header a marker and the length
\* of the header a timestamp increment.
LastFragment(c) ==
  LET p == prog[c]
      from == p.t * SEND_PACKETSIZE
      rest == p.len - from
  IN
  /\ p.pc = "last"
  /\ Sends(c, from, IF p.call = "sendBufferEx" THEN Request(<<c, from>>, rest, p.t, TRUE, 3, NoExtension)
                    ELSE Defaults(c, from, rest, NoExtension), [p EXCEPT !.pc = "done"])

\* A frame that fits one packet; sendBufferEx1 adds an octet to it.
sendBufferEx1(c, len) ==
  \/ /\ prog[c].pc = "idle" /\ len <= SEND_PACKETSIZE
     /\ Sends(c, 0, Defaults(c, 0, len + 1, NoExtension), Done("sendBufferEx1", len))
  \/ StartFragments(c, "sendBufferEx1", len)

sendBufferEx(c, len, timeStamp) ==
  \/ /\ prog[c].pc = "idle" /\ len <= SEND_PACKETSIZE
     /\ Sends(c, 0, Request(<<c, 0>>, len, 0, FALSE, timeStamp, NoExtension), Done("sendBufferEx", len))
  \/ StartFragments(c, "sendBufferEx", len)

Return(c) ==
  /\ prog[c].pc = "done"
  /\ prog' = [prog EXCEPT ![c] = Idle]
  /\ UNCHANGED <<builderVars, created, mInited, mbConnected, mDestAddr, destinations>>

SenderNext ==
  \/ initSession(0, SeqWidth - 1) \/ deinitSession \/ disConnect
  \/ \E d \in Dest : connect(d)
  \/ Collision(TsWidth - 1, 0)
  \/ \E c \in Caller :
       \/ \E len \in Lengths : sendBuffer(c, len) \/ sendBufferAt(c, len, 1)
       \/ \E len \in Frames : sendBufferEx1(c, len) \/ sendBufferEx(c, len, 1)
       \/ Fragment(c) \/ MarkLast(c) \/ LastFragment(c) \/ Return(c)

-----------------------------------------------------------------------------
(* Properties                                                              *)

\* The fragments of a frame, in the order of their sequence numbers, are the
\* frame, all of them and each once; each that says how many there are is
\* right; and only the last is marked, unless another fragmented frame or a
\* new session came in between.  (A short frame of sendBufferEx1 has one octet
\* more than was given.)
FramesReassemble ==
  \A c \in Caller :
    LET p == prog[c]
        n == Len(p.sent)
        octet == IF p.call = "sendBufferEx1" /\ p.len <= SEND_PACKETSIZE THEN 1 ELSE 0
    IN p.pc = "done" /\ ~p.failed =>
         /\ n > 0 /\ p.sent[1].from = 0 /\ p.sent[n].from + p.sent[n].len = p.len + octet
         /\ \A i \in 1 .. n - 1 : p.sent[i].from + p.sent[i].len = p.sent[i + 1].from
         /\ \A i \in 1 .. n : p.sent[i].len > 0 \/ p.len = 0
         /\ \A i \in 1 .. n - 1 :
              p.call = "sendBufferEx" => p.sent[i].extension.words[1] = <<n, i - 1>>
         /\ ~p.disturbed => \A i \in 1 .. n - 1 : ~p.sent[i].mark
         /\ ~p.disturbed /\ n > 1 => p.sent[n].mark
=============================================================================
