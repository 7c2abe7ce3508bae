----------------------------- MODULE RTPPackets -----------------------------
(***************************************************************************)
(* RTP packets at one of three places, `place`: where a sender's threads   *)
(* make them, where a program builds them by itself, and where a receiver  *)
(* puts them in order.                                                     *)
(***************************************************************************)
EXTENDS RTPSourceStats, RtpSender

VARIABLE place

PacketsInit ==
  /\ Init /\ SenderInit
  /\ place \in {"receiver", "builder", "sender"}
  /\ place # "receiver" => top = 0

PacketsNext ==
  /\ \/ place = "receiver" /\ Next /\ UNCHANGED <<builderVars, senderVars>>
     \/ place = "builder" /\ UNCHANGED <<vars, senderVars>> /\ BuilderNext
     \/ place = "sender" /\ UNCHANGED vars /\ SenderNext
  /\ UNCHANGED place

PacketsSpec == PacketsInit /\ [][PacketsNext]_<<vars, builderVars, senderVars, place>>
=============================================================================
