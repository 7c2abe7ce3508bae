---------------------------- MODULE Media_proofs ----------------------------
(***************************************************************************)
(* Proofs about an application on top of the media library.                *)
(*                                                                         *)
(* The library (CodecMedia): what a thread can meet that is gone.  The     *)
(* invariant says which memory is in order (Memory) and, for every step of *)
(* every entry point, what the caller has made or taken apart so far       *)
(* (Stages); it holds while the calls come in order and the starts work.   *)
(* Each other thread is shown to keep it or to die of work that had been   *)
(* stopped, each step of the caller to lead to the next stage.             *)
(*                                                                         *)
(* The Java bindings of a camera: what a call or a callback can meet once  *)
(* release() has begun, and why frames do not dry up in manual mode.       *)
(***************************************************************************)
EXTENDS Media, TLAPS, SequenceTheorems

-----------------------------------------------------------------------------
(* The library: the invariant                                              *)

\* The objects of CodecBase, with their thread and their platform codec.
Codecs ==
  [life : {"unused", "alive", "dead"}, started : BOOLEAN, tables : SUBSET Tables, mCount : Int,
   call : {"none", "encoder", "sender"}, callId : Int, exit : BOOLEAN,
   pc : {"none", "loop", "store", "dequeue", "index", "callback", "release", "ended"},
   tmp : Int, queued : Int, ready : Int, infos : Int]

\* The threads that call AddBuffer.
Feeds ==
  [pc : {"idle", "read", "call", "use", "dequeue", "copy", "load", "store", "after"},
   codec : {0} \cup Life, tmp : Int, late : BOOLEAN]

\* CameraLib and gListenContext.
Cams == [lib : BOOLEAN, ptr : {"garbage", "loaded"}, ctx : Nat, cam : BOOLEAN, preview : BOOLEAN, frame : Nat]

\* The FileDeCodecs.
Decs == [file : {"unused", "open", "foreign", "null", "closed"}, mbRunning : BOOLEAN, exit : BOOLEAN, thread : BOOLEAN]

\* The CodecReceivers.
Recvs == [life : {"unused", "alive", "deleted"}, hears : BOOLEAN, mRunning : BOOLEAN, thread : BOOLEAN]

\* The library's objects and pointers.
Medias ==
  [base : {"garbage", "null", "loaded"}, cam : Cams, mpCodecSend : Nat, senders : Nat,
   rtp : [{"codec", "jni"} -> {"none", "new", "inited", "connected"}],
   mpFileEncoder : {0} \cup Life, enc : [Life -> {"unused", "open", "null", "closed"}],
   mpFileDecoder : {0} \cup Life, dec : [Life -> Decs],
   mpCodecRecv : {0} \cup Life, recv : [Life -> Recvs]]

\* The types of the library's part of the state.
MediaTypes ==
  /\ gCodec \in {0} \cup Life
  /\ codec \in [Life -> Codecs]
  /\ prod \in [Producer -> Feeds]
  /\ m \in Medias

\* Where a thread is inside the object's addBuffer.
InAdd == {"dequeue", "copy", "load", "store"}

\* gCodec's object is started and its thread runs.
Running == gCodec # 0 /\ codec[gCodec].started /\ codec[gCodec].pc # "none"

\* Only gCodec's object is started; once it is and its thread runs, its tables
\* are there.  A frame that is not late is meant for this object.
CodecFacts ==
  /\ \A c \in Life : /\ codec[c].started => gCodec = c
                     /\ codec[c].started /\ codec[c].pc # "none" => codec[c].tables = Tables
                     /\ codec[c].life = "unused" => codec[c].call = "none" /\ codec[c].pc = "none"
  /\ gCodec # 0 => codec[gCodec].life = "alive"
  /\ \A p \in Producer :
       /\ prod[p].pc \in InAdd => prod[p].codec \in Life
       /\ prod[p].pc # "idle" /\ ~prod[p].late => Running /\ (prod[p].pc \in InAdd => prod[p].codec = gCodec)

\* The object that gCodec's callback leads to is there: StopCodec comes before
\* the file is closed and before the RtpSender is deleted.
OwnerFacts ==
  gCodec # 0 =>
     /\ codec[gCodec].call = "sender" => codec[gCodec].callId = m.mpCodecSend /\ m.rtp["codec"] # "none"
     /\ codec[gCodec].call = "encoder" => codec[gCodec].callId \in Life /\ m.enc[codec[gCodec].callId] = "open"

\* Somebody is allowed to feed the codec.
Feeding == \/ m.cam.preview
           \/ \E d \in Life : m.dec[d].mbRunning
           \/ \E r \in Life : m.recv[r].mRunning

\* What may feed the codec is alive, is the one the library points to, and is
\* let loose only while the codec runs.
FeedFacts ==
  /\ m.cam.preview => m.mpCodecSend # 0 /\ m.cam.lib /\ m.cam.cam
  /\ m.cam.lib => m.cam.ptr = "loaded"
  /\ \A d \in Life : /\ m.dec[d].mbRunning => m.dec[d].file = "open"
                     /\ m.dec[d].file = "open" => m.mpFileDecoder = d
                     /\ Reader(d) \in Producer /\ prod[Reader(d)].pc = "read" => m.dec[d].thread
                     /\ m.dec[d].file = "unused" => ~m.dec[d].thread
                     /\ m.dec[d].file # "foreign"
  /\ \A r \in Life : /\ m.recv[r].mRunning => m.mpCodecRecv = r
  /\ m.mpFileEncoder # 0 => m.base = "loaded"
  /\ Feeding => Running

\* The library's memory is in order.
Memory == MediaTypes /\ CodecFacts /\ OwnerFacts /\ FeedFacts

\* StartFileEncoder has made an encoder that StopFileEncoder has not closed.
EncOn == m.mpFileEncoder # 0 /\ m.enc[m.mpFileEncoder] # "closed"

\* All four uses of the codec but who are off.
Exclusive(who) ==
  /\ who # "sender" => m.mpCodecSend = 0
  /\ who # "encoder" => ~EncOn
  /\ who # "decoder" => m.mpFileDecoder = 0
  /\ who # "receiver" => m.mpCodecRecv = 0

\* StartCodecSender has worked.
SenderReady == m.mpCodecSend # 0 /\ m.cam.lib /\ m.cam.cam /\ m.cam.ctx # 0 /\ m.rtp["codec"] # "none"

\* The encoder's file is open.
EncReady == m.mpFileEncoder # 0 /\ m.enc[m.mpFileEncoder] = "open"

\* The decoder's file is open.
DecReady == m.mpFileDecoder # 0 /\ m.dec[m.mpFileDecoder].file = "open"

\* The codec before step j of StartCodec.
CodecStart(j) ==
  /\ gCodec # 0
  /\ j <= 2 => codec[gCodec].pc = "none" \/ codec[gCodec].tables = Tables
  /\ j >= 2 => codec[gCodec].started
  /\ j >= 3 => codec[gCodec].tables = Tables
  /\ j >= 4 => codec[gCodec].pc # "none"

\* The codec before step j of StopCodec.
CodecStop(j) ==
  /\ (gCodec = 0) <=> (j > 4)
  /\ j \in 2..4 => ~codec[gCodec].started

\* Between two calls.
Settled ==
  /\ \E who \in {"sender", "encoder", "decoder", "receiver"} : Exclusive(who)
  /\ gCodec = 0 => Exclusive("none")
  /\ gCodec # 0 => codec[gCodec].pc = "none" \/ codec[gCodec].tables = Tables
  /\ m.mpCodecSend # 0 => SenderReady
  /\ EncOn => EncReady
  /\ m.mpFileDecoder # 0 => DecReady

\* Before step i of StartCodecSender.
StartingSender(i) ==
  /\ Exclusive("sender") /\ ~m.cam.preview
  /\ (i <= 7) <=> (gCodec = 0)
  /\ i <= 3 => m.mpCodecSend = 0
  /\ i \in 2..3 => m.base = "loaded"
  /\ i >= 4 => m.mpCodecSend # 0 /\ m.senders # 0 /\ m.rtp["codec"] # "none"
  /\ i >= 6 => m.cam.lib
  /\ i >= 7 => SenderReady
  /\ i >= 8 => codec[gCodec].pc = "none" \/ codec[gCodec].tables = Tables

\* Before step i of StartCameraVideo.
StartingCamera(i) == Exclusive("sender") /\ SenderReady /\ CodecStart(i)

\* Before step i of StopCodecSender.
StoppingSender(i) ==
  /\ Exclusive("sender")
  /\ CodecStop(i - 1)
  /\ i >= 2 => ~m.cam.preview
  /\ i <= 7 => m.cam.lib

\* Before step i of StartFileEncoder.
StartingEncoder(i) ==
  /\ Exclusive("encoder")
  /\ i <= 4 => gCodec = 0
  /\ i \in 2..3 => m.base = "loaded"
  /\ i >= 4 => EncReady
  /\ i = 5 => CodecStart(1)
  /\ i >= 6 => CodecStart(i - 5)

\* Before step i of StopFileEncoder.
StoppingEncoder(i) == Exclusive("encoder") /\ CodecStop(i) /\ EncReady

\* Before step i of StartFileDecoder.
StartingDecoder(i) ==
  /\ Exclusive("decoder")
  /\ i <= 3 => gCodec = 0
  /\ i = 1 => m.base = "loaded"
  /\ i <= 2 => m.mpFileDecoder = 0
  /\ i >= 3 => DecReady
  /\ i \in 3..7 => ~m.dec[m.mpFileDecoder].thread /\ ~m.dec[m.mpFileDecoder].mbRunning
  /\ i \in 4..6 => CodecStart(i - 3)
  /\ i >= 7 => CodecStart(4)

\* Before step i of StopFileDecoder.
StoppingDecoder(i) ==
  /\ Exclusive("decoder") /\ DecReady
  /\ CodecStop(i - 2)
  /\ i >= 2 => ~m.dec[m.mpFileDecoder].mbRunning

\* Before step i of StartCodecRecver.
StartingRecver(i) ==
  /\ Exclusive("receiver")
  /\ i <= 4 => gCodec = 0
  /\ i = 2 => m.base = "loaded"
  /\ i <= 3 => m.mpCodecRecv = 0
  /\ i >= 4 => m.mpCodecRecv # 0 /\ ~m.recv[m.mpCodecRecv].mRunning
  /\ i >= 5 => CodecStart(i - 4)

\* Before step i of StopCodecRecver.
StoppingRecver(i) ==
  /\ Exclusive("receiver") /\ m.mpCodecRecv # 0
  /\ CodecStop(i - 1)
  /\ i >= 2 => ~m.recv[m.mpCodecRecv].mRunning

\* What is left of the list L from its step i on.
Rest(L, i) == SubSeq(L, i, Len(L))

\* Where the caller is: todo and the state go together.
Stages ==
  \/ Settled /\ todo = <<>>
  \/ Settled /\ m.mpCodecSend # 0 /\ todo \in {<<"GetParameters">>, <<"SetParameters">>, <<"SetOrientation">>}
  \/ Settled /\ m.base = "loaded" /\ todo = <<"CallBaseLib">>
  \/ Settled /\ todo \in {<<"SenderCreate">>, <<"SenderConnect">>, <<"SenderDestroy">>}
  \/ \E i \in 1..9  : todo = Rest(StartCodecSender, i) /\ StartingSender(i)
  \/ \E i \in 1..4  : todo = Rest(StartCameraVideo, i) /\ StartingCamera(i)
  \/ \E i \in 1..10 : todo = Rest(StopCodecSender, i) /\ StoppingSender(i)
  \/ \E i \in 1..8  : todo = Rest(StartFileEncoder, i) /\ StartingEncoder(i)
  \/ \E i \in 1..5  : todo = Rest(StopFileEncoder, i) /\ StoppingEncoder(i)
  \/ \E i \in 1..8  : todo = Rest(StartFileDecoder, i) /\ StartingDecoder(i)
  \/ \E i \in 1..7  : todo = Rest(StopFileDecoder, i) /\ StoppingDecoder(i)
  \/ \E i \in 1..8  : todo = Rest(StartCodecRecver, i) /\ StartingRecver(i)
  \/ \E i \in 1..6  : todo = Rest(StopCodecRecver, i) /\ StoppingRecver(i)

-----------------------------------------------------------------------------
(* The lists of steps                                                      *)

\* The steps of the lists of CodecMedia.
Word ==
  {"LoadBaseLib", "CallBaseLib", "NewCodecSender", "InitSession", "LoadCameraLib",
   "CameraSetup", "CreateForSender", "RegisterSender", "ConnectDest", "StartPlatform",
   "BuildTables", "RunThread", "StartPreview", "StopPreview", "StopPlatform",
   "DeleteTables", "RequestExit", "DropCodec", "CameraRelease", "ReleaseLib",
   "DeinitSession", "DeleteRtpSender", "DeleteCodecSender", "NewFileEncoder",
   "CreateForFile", "RegisterEncoder", "CloseEncoder", "NewFileDecoder", "RunReader",
   "SetRunning", "ClearRunning", "ExitReader", "CloseDecoder", "NewCodecRecver",
   "StartReceive", "StopReceive", "DeleteRecver"}

\* One step of a list done leaves the rest of it.
LEMMA RestSteps ==
  ASSUME NEW L \in Seq(Word), NEW i \in 1..Len(L)
  PROVE  /\ Rest(L, i) # <<>> /\ Head(Rest(L, i)) = L[i]
         /\ Tail(Rest(L, i)) = Rest(L, i + 1)
<1> DEFINE n == Len(L)
<1> DEFINE S == {L[k] : k \in 1..n}
<1>1. PICK s : s = Rest(L, i)
  OBVIOUS
<1>2. PICK t : t = Rest(L, i + 1)
  OBVIOUS
<1>3. \A k \in 1..n : L[k] \in S
  OBVIOUS
<1> HIDE DEF S
<1>4. /\ s \in Seq(S) /\ Len(s) = n - i + 1
      /\ \A k \in 1..n - i + 1 : s[k] = L[k + i - 1]
  <2>1. SubSeq(L, i, n) \in Seq(S) /\ Len(SubSeq(L, i, n)) = (IF i <= n THEN n - i + 1 ELSE 0)
        /\ \A k \in 1..n - i + 1 : SubSeq(L, i, n)[k] = L[i + k - 1]
    <3>1. \A k \in i..n : L[k] \in S
      BY <1>3
    <3> HIDE DEF n
    <3> QED BY <3>1, SubSeqProperties DEF n
  <2> QED BY <1>1, <2>1 DEF Rest
<1>5. /\ t \in Seq(S) /\ Len(t) = n - i
      /\ \A k \in 1..n - i : t[k] = L[k + i]
  <2>1. \A k \in i + 1..n : L[k] \in S
    BY <1>3
  <2>2. SubSeq(L, i + 1, n) \in Seq(S) /\ Len(SubSeq(L, i + 1, n)) = (IF i + 1 <= n THEN n - (i + 1) + 1 ELSE 0)
        /\ \A k \in 1..n - (i + 1) + 1 : SubSeq(L, i + 1, n)[k] = L[(i + 1) + k - 1]
    BY <2>1, SubSeqProperties
  <2> QED BY <1>2, <2>2 DEF Rest
<1>6. s # <<>> /\ Head(s) = L[i]
  BY <1>4
<1>7. Tail(s) = t
  <2>1. /\ Tail(s) \in Seq(S) /\ Len(Tail(s)) = n - i
        /\ \A k \in 1..n - i : Tail(s)[k] = L[k + i]
    BY <1>4, <1>6
  <2> QED BY <1>5, <2>1, SeqEqual, Zenon
<1> QED BY <1>1, <1>2, <1>6, <1>7

\* At its first step all of a list is left, after its last step nothing.
LEMMA RestEnds ==
  ASSUME NEW L \in Seq(Word)
  PROVE  Rest(L, 1) = L /\ Rest(L, Len(L) + 1) = <<>>
<1>1. L = [k \in 1..Len(L) |-> L[k]] /\ Len(L) \in Nat
  OBVIOUS
<1> QED BY <1>1 DEF Rest

\* The steps of StartCodec and StopCodec.
LEMMA CodecSteps ==
  /\ StartCodecSteps \in Seq(Word) /\ Len(StartCodecSteps) = 3
  /\ StartCodecSteps[1] = "StartPlatform" /\ StartCodecSteps[2] = "BuildTables"
  /\ StartCodecSteps[3] = "RunThread"
  /\ StopCodecSteps \in Seq(Word) /\ Len(StopCodecSteps) = 4
  /\ StopCodecSteps[1] = "StopPlatform" /\ StopCodecSteps[2] = "DeleteTables"
  /\ StopCodecSteps[3] = "RequestExit" /\ StopCodecSteps[4] = "DropCodec"
BY DEF StartCodecSteps, StopCodecSteps, Word

\* The steps of StartCodecSender.
LEMMA StartCodecSenderSteps ==
  /\ StartCodecSender \in Seq(Word) /\ Len(StartCodecSender) = 9
  /\ StartCodecSender[1] = "LoadBaseLib" /\ StartCodecSender[2] = "CallBaseLib"
  /\ StartCodecSender[3] = "NewCodecSender" /\ StartCodecSender[4] = "InitSession"
  /\ StartCodecSender[5] = "LoadCameraLib" /\ StartCodecSender[6] = "CameraSetup"
  /\ StartCodecSender[7] = "CreateForSender" /\ StartCodecSender[8] = "RegisterSender"
  /\ StartCodecSender[9] = "ConnectDest"
BY DEF StartCodecSender, Word

\* The steps of StartCameraVideo.
LEMMA StartCameraVideoSteps ==
  /\ StartCameraVideo \in Seq(Word) /\ Len(StartCameraVideo) = 4
  /\ StartCameraVideo[1] = "StartPlatform" /\ StartCameraVideo[2] = "BuildTables"
  /\ StartCameraVideo[3] = "RunThread" /\ StartCameraVideo[4] = "StartPreview"
<1>1. <<"StartPreview">> \in Seq(Word)
  BY DEF Word
<1>2. StartCameraVideo \in Seq(Word)
  BY <1>1, CodecSteps DEF StartCameraVideo
<1> QED BY <1>2 DEF StartCameraVideo, StartCodecSteps, StopCodecSteps

\* The steps of StopCodecSender.
LEMMA StopCodecSenderSteps ==
  /\ StopCodecSender \in Seq(Word) /\ Len(StopCodecSender) = 10
  /\ StopCodecSender[1] = "StopPreview" /\ StopCodecSender[2] = "StopPlatform"
  /\ StopCodecSender[3] = "DeleteTables" /\ StopCodecSender[4] = "RequestExit"
  /\ StopCodecSender[5] = "DropCodec" /\ StopCodecSender[6] = "CameraRelease"
  /\ StopCodecSender[7] = "ReleaseLib" /\ StopCodecSender[8] = "DeinitSession"
  /\ StopCodecSender[9] = "DeleteRtpSender" /\ StopCodecSender[10] = "DeleteCodecSender"
<1>1. <<"StopPreview">> \in Seq(Word) /\ <<"CameraRelease", "ReleaseLib", "DeinitSession", "DeleteRtpSender", "DeleteCodecSender">> \in Seq(Word)
  BY DEF Word
<1>2. StopCodecSender \in Seq(Word)
  BY <1>1, CodecSteps DEF StopCodecSender
<1> QED BY <1>2 DEF StopCodecSender, StartCodecSteps, StopCodecSteps

\* The steps of StartFileEncoder.
LEMMA StartFileEncoderSteps ==
  /\ StartFileEncoder \in Seq(Word) /\ Len(StartFileEncoder) = 8
  /\ StartFileEncoder[1] = "LoadBaseLib" /\ StartFileEncoder[2] = "CallBaseLib"
  /\ StartFileEncoder[3] = "NewFileEncoder" /\ StartFileEncoder[4] = "CreateForFile"
  /\ StartFileEncoder[5] = "RegisterEncoder" /\ StartFileEncoder[6] = "StartPlatform"
  /\ StartFileEncoder[7] = "BuildTables" /\ StartFileEncoder[8] = "RunThread"
<1>1. <<"LoadBaseLib", "CallBaseLib", "NewFileEncoder", "CreateForFile", "RegisterEncoder">> \in Seq(Word)
  BY DEF Word
<1>2. StartFileEncoder \in Seq(Word)
  BY <1>1, CodecSteps DEF StartFileEncoder
<1> QED BY <1>2 DEF StartFileEncoder, StartCodecSteps, StopCodecSteps

\* The steps of StopFileEncoder.
LEMMA StopFileEncoderSteps ==
  /\ StopFileEncoder \in Seq(Word) /\ Len(StopFileEncoder) = 5
  /\ StopFileEncoder[1] = "StopPlatform" /\ StopFileEncoder[2] = "DeleteTables"
  /\ StopFileEncoder[3] = "RequestExit" /\ StopFileEncoder[4] = "DropCodec"
  /\ StopFileEncoder[5] = "CloseEncoder"
<1>1. <<"CloseEncoder">> \in Seq(Word)
  BY DEF Word
<1>2. StopFileEncoder \in Seq(Word)
  BY <1>1, CodecSteps DEF StopFileEncoder
<1> QED BY <1>2 DEF StopFileEncoder, StartCodecSteps, StopCodecSteps

\* The steps of StartFileDecoder.
LEMMA StartFileDecoderSteps ==
  /\ StartFileDecoder \in Seq(Word) /\ Len(StartFileDecoder) = 8
  /\ StartFileDecoder[1] = "CallBaseLib" /\ StartFileDecoder[2] = "NewFileDecoder"
  /\ StartFileDecoder[3] = "CreateForFile" /\ StartFileDecoder[4] = "StartPlatform"
  /\ StartFileDecoder[5] = "BuildTables" /\ StartFileDecoder[6] = "RunThread"
  /\ StartFileDecoder[7] = "RunReader" /\ StartFileDecoder[8] = "SetRunning"
<1>1. <<"CallBaseLib", "NewFileDecoder", "CreateForFile">> \in Seq(Word) /\ <<"RunReader", "SetRunning">> \in Seq(Word)
  BY DEF Word
<1>2. StartFileDecoder \in Seq(Word)
  BY <1>1, CodecSteps DEF StartFileDecoder
<1> QED BY <1>2 DEF StartFileDecoder, StartCodecSteps, StopCodecSteps

\* The steps of StopFileDecoder.
LEMMA StopFileDecoderSteps ==
  /\ StopFileDecoder \in Seq(Word) /\ Len(StopFileDecoder) = 7
  /\ StopFileDecoder[1] = "ClearRunning" /\ StopFileDecoder[2] = "ExitReader"
  /\ StopFileDecoder[3] = "StopPlatform" /\ StopFileDecoder[4] = "DeleteTables"
  /\ StopFileDecoder[5] = "RequestExit" /\ StopFileDecoder[6] = "DropCodec"
  /\ StopFileDecoder[7] = "CloseDecoder"
<1>1. <<"ClearRunning", "ExitReader">> \in Seq(Word) /\ <<"CloseDecoder">> \in Seq(Word)
  BY DEF Word
<1>2. StopFileDecoder \in Seq(Word)
  BY <1>1, CodecSteps DEF StopFileDecoder
<1> QED BY <1>2 DEF StopFileDecoder, StartCodecSteps, StopCodecSteps

\* The steps of StartCodecRecver.
LEMMA StartCodecRecverSteps ==
  /\ StartCodecRecver \in Seq(Word) /\ Len(StartCodecRecver) = 8
  /\ StartCodecRecver[1] = "LoadBaseLib" /\ StartCodecRecver[2] = "CallBaseLib"
  /\ StartCodecRecver[3] = "NewCodecRecver" /\ StartCodecRecver[4] = "CreateForFile"
  /\ StartCodecRecver[5] = "StartPlatform" /\ StartCodecRecver[6] = "BuildTables"
  /\ StartCodecRecver[7] = "RunThread" /\ StartCodecRecver[8] = "StartReceive"
<1>1. <<"LoadBaseLib", "CallBaseLib", "NewCodecRecver", "CreateForFile">> \in Seq(Word) /\ <<"StartReceive">> \in Seq(Word)
  BY DEF Word
<1>2. StartCodecRecver \in Seq(Word)
  BY <1>1, CodecSteps DEF StartCodecRecver
<1> QED BY <1>2 DEF StartCodecRecver, StartCodecSteps, StopCodecSteps

\* The steps of StopCodecRecver.
LEMMA StopCodecRecverSteps ==
  /\ StopCodecRecver \in Seq(Word) /\ Len(StopCodecRecver) = 6
  /\ StopCodecRecver[1] = "StopReceive" /\ StopCodecRecver[2] = "StopPlatform"
  /\ StopCodecRecver[3] = "DeleteTables" /\ StopCodecRecver[4] = "RequestExit"
  /\ StopCodecRecver[5] = "DropCodec" /\ StopCodecRecver[6] = "DeleteRecver"
<1>1. <<"StopReceive">> \in Seq(Word) /\ <<"DeleteRecver">> \in Seq(Word)
  BY DEF Word
<1>2. StopCodecRecver \in Seq(Word)
  BY <1>1, CodecSteps DEF StopCodecRecver
<1> QED BY <1>2 DEF StopCodecRecver, StartCodecSteps, StopCodecSteps

-----------------------------------------------------------------------------
(* Changes that keep the memory in order                                   *)

\* NULL is not an object.
LEMMA Lives == /\ 0 \notin Life /\ Life \subseteq Int
               /\ Infos \in Int /\ MaxCount \in Int
<1>1. Life = 1..Cardinality(Life) /\ Infos \in Nat /\ MaxCount \in Nat
  BY BufAssumption
<1>2. PICK n : Life = 1..n
  BY <1>1
<1> QED BY <1>1, <1>2

\* What a change of one object must leave as it was.
LEMMA ObjectKeeps ==
  ASSUME Memory, NEW c \in Life, NEW r \in Codecs,
         codec' = [codec EXCEPT ![c] = r], UNCHANGED <<gCodec, prod, m>>,
         r.started => gCodec = c /\ (r.pc # "none" => r.tables = Tables),
         gCodec = c => r.life = "alive" /\ (codec[c].started => r.started),
         r.life = "unused" => r.call = "none" /\ r.pc = "none",
         codec[c].pc # "none" => r.pc # "none",
         gCodec = c =>
           /\ r.call = "sender" => r.callId = m.mpCodecSend /\ m.rtp["codec"] # "none"
           /\ r.call = "encoder" => r.callId \in Life /\ m.enc[r.callId] = "open"
  PROVE  Memory'
<1>1. codec' \in [Life -> Codecs] /\ codec'[c] = r /\ \A d \in Life \ {c} : codec'[d] = codec[d]
  BY DEF Memory, MediaTypes
<1>2. MediaTypes'
  BY <1>1 DEF Memory, MediaTypes
<1>3. CodecFacts'
  <2>1. Running => Running'
    BY <1>1, Lives DEF Memory, MediaTypes, Running
  <2>2. \A d \in Life : /\ codec'[d].started => gCodec = d
                        /\ codec'[d].started /\ codec'[d].pc # "none" => codec'[d].tables = Tables
                        /\ codec'[d].life = "unused" => codec'[d].call = "none" /\ codec'[d].pc = "none"
    BY <1>1 DEF Memory, CodecFacts
  <2>3. gCodec # 0 => codec'[gCodec].life = "alive"
    BY <1>1, Lives DEF Memory, MediaTypes, CodecFacts
  <2> QED BY <2>1, <2>2, <2>3 DEF Memory, CodecFacts
<1>4. OwnerFacts'
  BY <1>1 DEF Memory, MediaTypes, OwnerFacts
<1>5. FeedFacts'
  <2>1. Running => Running'
    BY <1>1, Lives DEF Memory, MediaTypes, Running
  <2> QED BY <2>1 DEF Memory, FeedFacts, Feeding
<1> QED BY <1>2, <1>3, <1>4, <1>5 DEF Memory

\* What the call under way looks at, but for the step it takes itself.
SameView ==
  /\ todo' = todo /\ gCodec' = gCodec
  /\ gCodec # 0 => /\ codec'[gCodec].started = codec[gCodec].started
                   /\ codec'[gCodec].tables = codec[gCodec].tables
                   /\ codec'[gCodec].pc = "none" <=> codec[gCodec].pc = "none"
  /\ m'.base = m.base /\ m'.mpCodecSend = m.mpCodecSend /\ m'.senders = m.senders
  /\ m'.mpFileEncoder = m.mpFileEncoder /\ m'.mpFileDecoder = m.mpFileDecoder
  /\ m'.mpCodecRecv = m.mpCodecRecv /\ m'.rtp = m.rtp /\ m'.enc = m.enc
  /\ m'.cam.lib = m.cam.lib /\ m'.cam.ctx = m.cam.ctx /\ m'.cam.cam = m.cam.cam
  /\ m'.cam.preview = m.cam.preview
  /\ \A d \in Life : /\ m'.dec[d].file = m.dec[d].file /\ m'.dec[d].mbRunning = m.dec[d].mbRunning
                     /\ m'.dec[d].thread => m.dec[d].thread
  /\ \A r \in Life : m'.recv[r].mRunning = m.recv[r].mRunning

\* The steps of the other threads leave the call under way where it is.
LEMMA StagesKeep ==
  ASSUME Memory, Stages, SameView PROVE Stages'
<1>1. /\ m.mpFileDecoder \in {0} \cup Life /\ m.mpCodecRecv \in {0} \cup Life
      /\ EncOn' = EncOn /\ EncReady' = EncReady /\ SenderReady' = SenderReady
      /\ \A who : Exclusive(who)' <=> Exclusive(who)
  BY DEF Memory, MediaTypes, Medias, EncOn, EncReady, SenderReady, Exclusive, SameView
<1>2. DecReady' = DecReady
  BY <1>1 DEF DecReady, SameView
<1>3. \A j \in Int : (CodecStart(j)' <=> CodecStart(j)) /\ (CodecStop(j)' <=> CodecStop(j))
  BY DEF CodecStart, CodecStop, SameView
<1>4. Settled' <=> Settled
  BY <1>1, <1>2 DEF Settled, SameView
<1>5. /\ \A i \in Int : StartingSender(i) => StartingSender(i)'
      /\ \A i \in Int : StartingCamera(i) => StartingCamera(i)'
      /\ \A i \in Int : StoppingSender(i) => StoppingSender(i)'
  BY <1>1, <1>3 DEF StartingSender, StartingCamera, StoppingSender, SameView
<1>6. /\ \A i \in Int : StartingEncoder(i) => StartingEncoder(i)'
      /\ \A i \in Int : StoppingEncoder(i) => StoppingEncoder(i)'
  BY <1>1, <1>3 DEF StartingEncoder, StoppingEncoder, SameView
<1>7. /\ \A i \in Int : StartingDecoder(i) => StartingDecoder(i)'
      /\ \A i \in Int : StoppingDecoder(i) => StoppingDecoder(i)'
  BY <1>1, <1>2, <1>3 DEF StartingDecoder, StoppingDecoder, SameView, DecReady
<1>8. /\ \A i \in Int : StartingRecver(i) => StartingRecver(i)'
      /\ \A i \in Int : StoppingRecver(i) => StoppingRecver(i)'
  BY <1>1, <1>3 DEF StartingRecver, StoppingRecver, SameView
<1> QED BY <1>4, <1>5, <1>6, <1>7, <1>8 DEF Stages, SameView

-----------------------------------------------------------------------------
(* The threads of the objects                                              *)

\* What the thread of object c makes of it.
Like(c, r) ==
  /\ r \in Codecs /\ r.pc # "none"
  /\ gCodec = c => /\ r.life = codec[c].life /\ r.started = codec[c].started /\ r.tables = codec[c].tables
                    /\ r.call = codec[c].call /\ r.callId = codec[c].callId
  /\ gCodec # c => ~r.started /\ r.life # "unused"

\* A step of an object's thread that makes r of the object.
LEMMA ThreadKeeps ==
  ASSUME Memory, Stages, NEW c \in Life, codec[c].pc # "none", NEW r, Like(c, r), Thread(c, r), Quiet
  PROVE  Memory' /\ Stages' /\ fault' = fault
<1>1. r \in Codecs /\ codec' = [codec EXCEPT ![c] = r] /\ UNCHANGED <<gCodec, prod, fault, m, todo>>
  BY DEF Like, Thread, Quiet
<1>2. Memory'
  <2>1. r.started => gCodec = c /\ (r.pc # "none" => r.tables = Tables)
    BY DEF Like, Memory, CodecFacts
  <2>2. gCodec = c => r.life = "alive" /\ (codec[c].started => r.started)
    BY Lives DEF Like, Memory, CodecFacts
  <2>3. r.life # "unused" /\ r.pc # "none"
    BY DEF Like, Memory, CodecFacts
  <2>4. gCodec = c =>
           /\ r.call = "sender" => r.callId = m.mpCodecSend /\ m.rtp["codec"] # "none"
           /\ r.call = "encoder" => r.callId \in Life /\ m.enc[r.callId] = "open"
    BY Lives DEF Like, Memory, OwnerFacts
  <2> QED BY <1>1, <2>1, <2>2, <2>3, <2>4, ObjectKeeps
<1>3. SameView
  <2>1. codec'[c] = r /\ \A d \in Life \ {c} : codec'[d] = codec[d]
    BY <1>1 DEF Memory, MediaTypes
  <2> QED BY <1>1, <2>1 DEF SameView, Like, Memory, MediaTypes
<1> QED BY <1>1, <1>2, <1>3, StagesKeep

\* What is left of an object that is gone.
LEMMA DeadCodecIs ==
  DeadCodec \in Codecs /\ DeadCodec.pc = "ended" /\ DeadCodec.started = FALSE /\ DeadCodec.life = "dead"
<1>1. NewCodec \in Codecs
  BY Lives DEF NewCodec, Codecs
<1>2. PICK n \in Codecs : n = NewCodec
  BY <1>1
<1>3. DeadCodec = [n EXCEPT !.life = "dead", !.pc = "ended"]
  BY <1>2 DEF DeadCodec
<1>4. n.started = FALSE
  BY <1>2 DEF NewCodec
<1> QED BY <1>2, <1>3, <1>4 DEF Codecs

\* The end of an iteration, of the thread, of the object.
LEMMA LoopBackLike ==
  ASSUME Memory, NEW c \in Life, codec[c].pc # "none", NEW r, Like(c, r)
  PROVE  Like(c, LoopBack(c, r))
<1>1. r \in Codecs
  BY DEF Like
<1>2. CASE ~r.exit
  <2>1. LoopBack(c, r) = [r EXCEPT !.pc = "loop"]
    BY <1>2 DEF LoopBack
  <2> QED BY <1>1, <2>1 DEF Like, Codecs
<1>3. CASE r.exit /\ Held(c, gCodec, "ended")
  <2>1. LoopBack(c, r) = [r EXCEPT !.pc = "ended"]
    BY <1>3 DEF LoopBack
  <2> QED BY <1>1, <2>1 DEF Like, Codecs
<1>4. CASE r.exit /\ ~Held(c, gCodec, "ended")
  <2>1. LoopBack(c, r) = DeadCodec /\ gCodec # c
    BY <1>4 DEF LoopBack, Held
  <2>2. DeadCodec \in Codecs /\ DeadCodec.pc = "ended" /\ DeadCodec.started = FALSE /\ DeadCodec.life = "dead"
    BY DeadCodecIs
  <2> QED BY <2>1, <2>2 DEF Like
<1> QED BY <1>2, <1>3, <1>4

\* An object's thread keeps the memory in order, or it looked up a table that
\* StopCodec had deleted.
LEMMA ThreadStepKeeps ==
  ASSUME Memory, Stages, fault = NoFault, NEW c \in Life, ThreadStep(c), Quiet
  PROVE  \/ Memory' /\ Stages' /\ fault' = fault
         \/ fault'.id = c /\ fault'.why = "tables" /\ fault'.who = "codec" /\ ~codec'[c].started
<1>1. PICK r \in Codecs : r = codec[c]
  BY DEF Memory, MediaTypes
<1>2. ASSUME r.pc # "none" PROVE Like(c, r)
  BY <1>1, <1>2 DEF Like, Memory, CodecFacts
<1>3. \A x : r.pc # "none" /\ Like(c, x) /\ Thread(c, x) => Memory' /\ Stages' /\ fault' = fault
  BY <1>1, ThreadKeeps
<1>4. ASSUME NEW x \in Codecs, r.pc # "none", x.pc # "none", x.life = r.life, x.started = r.started,
             x.tables = r.tables, x.call = r.call, x.callId = r.callId
      PROVE  Like(c, x)
  BY <1>1, <1>2, <1>4 DEF Like
<1>5. CASE TakeCount(c)
  <2>1. CASE r.mCount > 0
    <3>1. PICK x \in Codecs : x = [r EXCEPT !.pc = "store", !.tmp = r.mCount]
      BY DEF Codecs
    <3>2. r.pc # "none" /\ Thread(c, x)
      BY <1>1, <1>5, <2>1, <3>1 DEF TakeCount
    <3>3. Like(c, x)
      BY <1>4, <3>1, <3>2 DEF Codecs
    <3> QED BY <1>3, <3>2, <3>3
  <2>2. CASE ~(r.mCount > 0)
    <3>1. r.pc # "none" /\ Thread(c, LoopBack(c, r))
      BY <1>1, <1>5, <2>2 DEF TakeCount
    <3> QED BY <1>1, <1>2, <1>3, <3>1, LoopBackLike
  <2> QED BY <2>1, <2>2
<1>6. CASE StoreTaken(c)
  <2>1. PICK n \in Int : n = r.tmp - 1
    BY DEF Codecs
  <2>2. PICK x \in Codecs : x = [r EXCEPT !.pc = "dequeue", !.mCount = n, !.tmp = 0]
    <3>1. /\ \A y \in Codecs : [y EXCEPT !.pc = "dequeue"] \in Codecs
          /\ \A y \in Codecs : [y EXCEPT !.mCount = n] \in Codecs
          /\ \A y \in Codecs : [y EXCEPT !.tmp = 0] \in Codecs
      BY DEF Codecs
    <3>2. [[[r EXCEPT !.pc = "dequeue"] EXCEPT !.mCount = n] EXCEPT !.tmp = 0] \in Codecs
      BY <3>1
    <3>3. [[[r EXCEPT !.pc = "dequeue"] EXCEPT !.mCount = n] EXCEPT !.tmp = 0]
          = [r EXCEPT !.pc = "dequeue", !.mCount = n, !.tmp = 0]
      OBVIOUS
    <3> QED BY <3>2, <3>3
  <2>3. r.pc # "none" /\ Thread(c, x)
    BY <1>1, <1>6, <2>1, <2>2 DEF StoreTaken
  <2>4. Like(c, x)
    BY <1>4, <2>2, <2>3 DEF Codecs
  <2> QED BY <1>3, <2>3, <2>4
<1>7. CASE DequeueOutput(c)
  <2>1. r.pc # "none"
    BY <1>1, <1>7 DEF DequeueOutput
  <2>2. [r EXCEPT !.pc = "index"] \in Codecs /\ [r EXCEPT !.infos = r.infos - 1] \in Codecs
    BY DEF Codecs
  <2>3. Like(c, [r EXCEPT !.pc = "index"]) /\ Like(c, LoopBack(c, [r EXCEPT !.infos = r.infos - 1]))
        /\ Like(c, LoopBack(c, r))
    <3>1. Like(c, [r EXCEPT !.pc = "index"])
      BY <1>4, <2>1, <2>2 DEF Codecs
    <3>2. Like(c, [r EXCEPT !.infos = r.infos - 1])
      BY <1>4, <2>1, <2>2 DEF Codecs
    <3> QED BY <1>1, <1>2, <2>1, <3>1, <3>2, LoopBackLike
  <2>4. \/ Thread(c, [r EXCEPT !.pc = "index"])
        \/ Thread(c, LoopBack(c, [r EXCEPT !.infos = r.infos - 1]))
        \/ Thread(c, LoopBack(c, r))
    BY <1>1, <1>7 DEF DequeueOutput
  <2> QED BY <1>3, <2>1, <2>3, <2>4
<1>8. CASE IndexOutput(c)
  <2>1. CASE r.call # "none" /\ "out" \notin r.tables
    <3>1. ~r.started /\ codec' = codec
      BY <1>1, <1>8, <2>1 DEF IndexOutput, Memory, CodecFacts, Tables
    <3> QED BY <1>1, <1>8, <2>1, <3>1 DEF IndexOutput, Die
  <2>2. CASE ~(r.call # "none" /\ "out" \notin r.tables)
    <3>1. PICK pc \in {"callback", "release"} : Thread(c, [r EXCEPT !.pc = pc])
      BY <1>1, <1>8, <2>2 DEF IndexOutput
    <3>2. [r EXCEPT !.pc = pc] \in Codecs /\ r.pc # "none"
      BY <1>1, <1>8 DEF Codecs, IndexOutput
    <3> QED BY <1>3, <1>4, <3>1, <3>2 DEF Codecs
  <2> QED BY <2>1, <2>2
<1>9. CASE ReleaseOutput(c)
  <2>0. PICK n \in Int : n = IF r.started THEN r.ready - 1 ELSE r.ready
    BY DEF Codecs
  <2>1. Thread(c, [r EXCEPT !.pc = "dequeue", !.ready = n])
    BY <1>1, <1>9, <2>0 DEF ReleaseOutput
  <2>2. [r EXCEPT !.pc = "dequeue", !.ready = n] \in Codecs /\ r.pc # "none"
    BY <1>1, <1>9 DEF Codecs, ReleaseOutput
  <2> QED BY <1>3, <1>4, <2>1, <2>2 DEF Codecs
<1> QED BY <1>5, <1>6, <1>7, <1>8, <1>9 DEF ThreadStep

\* The platform codec changes nothing but its counts.
LEMMA ConvertKeeps ==
  ASSUME Memory, Stages, NEW c \in Life, Convert(c), Quiet
  PROVE  Memory' /\ Stages' /\ fault' = fault
<1>1. PICK r \in Codecs : r = codec[c]
  BY DEF Memory, MediaTypes
<1>2. PICK q \in Int, n \in Int : codec' = [codec EXCEPT ![c].queued = q, ![c].ready = n]
  <2>1. PICK k \in {0, 1} : codec' = [codec EXCEPT ![c].queued = @ - 1, ![c].ready = @ + k]
    BY DEF Convert
  <2>2. PICK q \in Int, n \in Int : q = r.queued - 1 /\ n = r.ready + k
    BY DEF Codecs
  <2>3. codec' = [codec EXCEPT ![c].queued = q, ![c].ready = n]
    BY <1>1, <2>1, <2>2 DEF Memory, MediaTypes, Codecs
  <2> QED BY <2>3
<1>3. PICK x \in Codecs : x = [r EXCEPT !.queued = q, !.ready = n]
  BY DEF Codecs
<1>4. codec' = [codec EXCEPT ![c] = x] /\ UNCHANGED <<gCodec, prod, fault, m, todo>>
  BY <1>1, <1>2, <1>3 DEF Convert, Quiet, Memory, MediaTypes
<1>5. /\ x.life = r.life /\ x.started = r.started /\ x.tables = r.tables /\ x.call = r.call
      /\ x.callId = r.callId /\ x.pc = r.pc
  BY <1>3 DEF Codecs
<1>6. Memory'
  <2>1. x.started => gCodec = c /\ (x.pc # "none" => x.tables = Tables)
    BY <1>1, <1>5 DEF Memory, CodecFacts
  <2>2. gCodec = c => x.life = "alive" /\ (codec[c].started => x.started)
    BY <1>1, <1>5, Lives DEF Memory, CodecFacts
  <2>3. x.life = "unused" => x.call = "none" /\ x.pc = "none"
    BY <1>1, <1>5 DEF Memory, CodecFacts
  <2>4. gCodec = c =>
           /\ x.call = "sender" => x.callId = m.mpCodecSend /\ m.rtp["codec"] # "none"
           /\ x.call = "encoder" => x.callId \in Life /\ m.enc[x.callId] = "open"
    BY <1>1, <1>5, Lives DEF Memory, OwnerFacts
  <2> QED BY <1>1, <1>4, <1>5, <2>1, <2>2, <2>3, <2>4, ObjectKeeps
<1>7. SameView
  <2>1. codec'[c] = x /\ \A d \in Life \ {c} : codec'[d] = codec[d]
    BY <1>4 DEF Memory, MediaTypes
  <2> QED BY <1>1, <1>4, <1>5, <2>1 DEF SameView, Memory, MediaTypes
<1> QED BY <1>4, <1>6, <1>7, StagesKeep

-----------------------------------------------------------------------------
(* The producers                                                           *)

\* A step of a thread that is not the caller's: all is as it should be, or
\* the process died and the work it died of had been stopped.
Outcome ==
  \/ Memory' /\ Stages' /\ fault' = fault
  \/ fault'.who # "ui" /\ WorkStopped(fault)'

\* x is what a producer p may be made to be.
GoodFeed(p, x) ==
  /\ x \in Feeds
  /\ x.pc \in InAdd => x.codec \in Life
  /\ x.pc # "idle" /\ ~x.late => Running /\ (x.pc \in InAdd => x.codec = gCodec)
  /\ x.pc = "read" => \A d \in Life : p = Reader(d) => m.dec[d].thread

\* No field another thread reads of object c but its counts.
Alike(c) ==
  /\ codec'[c].life = codec[c].life /\ codec'[c].started = codec[c].started
  /\ codec'[c].tables = codec[c].tables /\ codec'[c].call = codec[c].call
  /\ codec'[c].callId = codec[c].callId /\ codec'[c].pc = codec[c].pc

\* No field of the library changes but the context of the frame delivered.
SameMedia ==
  /\ m' \in Medias
  /\ m'.base = m.base /\ m'.mpCodecSend = m.mpCodecSend /\ m'.senders = m.senders
  /\ m'.mpFileEncoder = m.mpFileEncoder /\ m'.mpFileDecoder = m.mpFileDecoder
  /\ m'.mpCodecRecv = m.mpCodecRecv /\ m'.rtp = m.rtp /\ m'.enc = m.enc /\ m'.dec = m.dec
  /\ m'.recv = m.recv /\ m'.cam.lib = m.cam.lib /\ m'.cam.ptr = m.cam.ptr
  /\ m'.cam.ctx = m.cam.ctx /\ m'.cam.cam = m.cam.cam /\ m'.cam.preview = m.cam.preview

\* A step that leaves m alone.
LEMMA UnchangedMedia == ASSUME Memory, m' = m PROVE SameMedia
BY DEF Memory, MediaTypes, SameMedia

\* A step of a producer that changes the object's counts at most.
LEMMA FeedKeeps ==
  ASSUME Memory, Stages, NEW p, NEW x, prod' = [prod EXCEPT ![p] = x],
         p \in Producer => GoodFeed(p, x),
         codec' \in [Life -> Codecs], \A c \in Life : Alike(c),
         SameMedia, UNCHANGED <<gCodec, todo>>
  PROVE  Memory' /\ Stages'
<1>1. prod \in [Producer -> Feeds] /\ gCodec \in {0} \cup Life
  BY DEF Memory, MediaTypes
<1>2. prod' \in [Producer -> Feeds] /\ \A q \in Producer : prod'[q] = IF q = p THEN x ELSE prod[q]
  BY <1>1 DEF GoodFeed
<1>3. MediaTypes'
  BY <1>2 DEF Memory, MediaTypes, SameMedia
<1>4. Running' <=> Running
  BY <1>1 DEF Running, Alike
<1>5. CodecFacts'
  <2>1. ASSUME NEW q \in Producer
        PROVE  /\ prod'[q].pc \in InAdd => prod'[q].codec \in Life
               /\ prod'[q].pc # "idle" /\ ~prod'[q].late
                    => Running /\ (prod'[q].pc \in InAdd => prod'[q].codec = gCodec)
    <3>1. CASE q = p
      BY <1>2, <2>1, <3>1 DEF GoodFeed
    <3>2. CASE q # p
      BY <1>2, <2>1, <3>2 DEF Memory, CodecFacts
    <3> QED BY <3>1, <3>2
  <2>2. gCodec # 0 => codec'[gCodec].life = "alive"
    BY <1>1 DEF Memory, CodecFacts, Alike
  <2>3. \A c \in Life : /\ codec'[c].started => gCodec = c
                        /\ codec'[c].started /\ codec'[c].pc # "none" => codec'[c].tables = Tables
                        /\ codec'[c].life = "unused" => codec'[c].call = "none" /\ codec'[c].pc = "none"
    BY DEF Memory, CodecFacts, Alike
  <2> QED BY <1>4, <2>1, <2>2, <2>3 DEF CodecFacts
<1>6. OwnerFacts'
  BY <1>1 DEF Memory, OwnerFacts, Alike, SameMedia
<1>7. FeedFacts'
  <2>1. ASSUME NEW d \in Life, Reader(d) \in Producer, prod'[Reader(d)].pc = "read"
        PROVE  m.dec[d].thread
    <3>1. CASE Reader(d) = p
      BY <1>2, <2>1, <3>1 DEF GoodFeed
    <3>2. CASE Reader(d) # p
      BY <1>2, <2>1, <3>2 DEF Memory, FeedFacts
    <3> QED BY <3>1, <3>2
  <2>2. Feeding' => Running
    BY DEF Memory, FeedFacts, Feeding, SameMedia
  <2> QED BY <1>4, <2>1, <2>2 DEF Memory, FeedFacts, SameMedia
<1>8. SameView
  BY <1>1 DEF SameView, Alike, SameMedia
<1> QED BY <1>3, <1>5, <1>6, <1>7, <1>8, StagesKeep DEF Memory

\* A step of a producer that changes nothing else.
LEMMA StepKeeps ==
  ASSUME Memory, Stages, NEW p, NEW x, prod' = [prod EXCEPT ![p] = x],
         p \in Producer => GoodFeed(p, x), SameMedia, UNCHANGED <<gCodec, codec, todo>>
  PROVE  Memory' /\ Stages'
<1>1. codec' \in [Life -> Codecs] /\ \A c \in Life : Alike(c)
  BY DEF Memory, MediaTypes, Alike
<1> QED BY <1>1, FeedKeeps

\* A producer takes a frame while the codec runs, or the frame is late.
LEMMA TakeKeeps ==
  ASSUME Memory, Stages, NEW p, NEW pc \in {"read", "call"}, NEW late \in BOOLEAN,
         prod' = [prod EXCEPT ![p].pc = pc, ![p].late = late],
         p \in Producer => late \/ Running,
         \A d \in Life : p = Reader(d) => m.dec[d].thread,
         SameMedia, UNCHANGED <<gCodec, codec, todo>>
  PROVE  Memory' /\ Stages'
<1>1. PICK x : x = [prod[p] EXCEPT !.pc = pc, !.late = late]
  OBVIOUS
<1>2. prod' = [prod EXCEPT ![p] = x]
  BY <1>1
<1>3. ASSUME p \in Producer PROVE GoodFeed(p, x)
  <2>1. PICK f \in Feeds : f = prod[p]
    BY <1>3 DEF Memory, MediaTypes
  <2>2. x \in Feeds /\ x.pc = pc /\ x.late = late
    BY <1>1, <2>1 DEF Feeds
  <2> QED BY <1>3, <2>2 DEF GoodFeed, InAdd
<1> QED BY <1>2, <1>3, StepKeeps

\* The same of a thread that goes on to the read or to the call.
LEMMA CallKeeps ==
  ASSUME Memory, Stages, NEW p, NEW pc \in {"read", "call"}, prod' = [prod EXCEPT ![p].pc = pc],
         p \in Producer => prod[p].late \/ Running,
         \A d \in Life : p = Reader(d) => m.dec[d].thread,
         SameMedia, UNCHANGED <<gCodec, codec, todo>>
  PROVE  Memory' /\ Stages'
<1>1. PICK x : x = [prod[p] EXCEPT !.pc = pc]
  OBVIOUS
<1>2. prod' = [prod EXCEPT ![p] = x]
  BY <1>1
<1>3. ASSUME p \in Producer PROVE GoodFeed(p, x)
  <2>1. PICK f \in Feeds : f = prod[p]
    BY <1>3 DEF Memory, MediaTypes
  <2>2. x \in Feeds /\ x.pc = pc /\ x.late = f.late
    BY <1>1, <2>1 DEF Feeds
  <2> QED BY <1>3, <2>1, <2>2 DEF GoodFeed, InAdd
<1> QED BY <1>2, <1>3, StepKeeps

\* In AddBuffer: what is gone was gCodec's object or its tables, and both go
\* after the platform codec has stopped, which makes every frame late.
LEMMA InAddBufferKeeps ==
  ASSUME Memory, Stages, NEW p \in Producer, InAddBuffer(p), Quiet
  PROVE  Outcome
<1>1. PICK f \in Feeds : f = prod[p]
  BY DEF Memory, MediaTypes
<1>2. PICK c : c = f.codec
  OBVIOUS
<1>3. /\ f.pc \in InAdd => c \in Life
      /\ f.pc # "idle" /\ ~f.late => Running /\ (f.pc \in InAdd => c = gCodec)
  BY <1>1, <1>2 DEF Memory, CodecFacts
<1>4. p[1] \notin {"ui", "codec"}
  BY ProducerAssumption DEF Camera, Java, Reader, Net
<1>5. ASSUME NEW id, NEW why, f.late, DieAt(p, id, why)
      PROVE  Outcome
  BY <1>1, <1>4, <1>5 DEF DieAt, Outcome, WorkStopped
<1>6. ASSUME f.pc \in InAdd
      PROVE  f.late \/ (codec[c].life # "dead" /\ codec[c].tables = Tables)
  BY <1>3, <1>6, Lives DEF Memory, CodecFacts, Running, InAdd
<1>7. ASSUME NEW x, GoodFeed(p, x), prod' = [prod EXCEPT ![p] = x],
             codec' \in [Life -> Codecs], \A d \in Life : Alike(d), gCodec' = gCodec, fault' = fault
      PROVE  Outcome
  BY <1>7, FeedKeeps, UnchangedMedia DEF Outcome, Quiet
<1>8. ASSUME NEW x, GoodFeed(p, x), prod' = [prod EXCEPT ![p] = x], UNCHANGED <<gCodec, codec, fault>>
      PROVE  Outcome
  BY <1>8, StepKeeps, UnchangedMedia DEF Outcome, Quiet
<1>9. ASSUME NEW pc \in {"use", "after"}, f.pc # "idle"
      PROVE  GoodFeed(p, [f EXCEPT !.pc = pc]) /\ GoodFeed(p, [f EXCEPT !.pc = pc, !.codec = 0])
  <2>1. PICK x : x = [f EXCEPT !.pc = pc]
    OBVIOUS
  <2>2. x \in Feeds /\ x.pc = pc /\ x.late = f.late
    BY <2>1 DEF Feeds
  <2>3. PICK y : y = [f EXCEPT !.pc = pc, !.codec = 0]
    OBVIOUS
  <2>4. y \in Feeds /\ y.pc = pc /\ y.late = f.late
    BY <2>3 DEF Feeds
  <2> QED BY <1>3, <1>9, <2>1, <2>2, <2>3, <2>4 DEF GoodFeed, InAdd
<1>10. ASSUME NEW pc \in InAdd, f.pc \in InAdd, NEW n \in Int
       PROVE  GoodFeed(p, [f EXCEPT !.pc = pc]) /\ GoodFeed(p, [f EXCEPT !.pc = pc, !.tmp = n])
  <2>1. PICK x : x = [f EXCEPT !.pc = pc]
    OBVIOUS
  <2>2. x \in Feeds /\ x.pc = pc /\ x.late = f.late /\ x.codec = c
    BY <1>2, <1>10, <2>1 DEF Feeds, InAdd
  <2>3. PICK y : y = [f EXCEPT !.pc = pc, !.tmp = n]
    OBVIOUS
  <2>4. y \in Feeds /\ y.pc = pc /\ y.late = f.late /\ y.codec = c
    BY <1>2, <1>10, <2>3 DEF Feeds, InAdd
  <2>5. f.pc # "idle" /\ pc # "read"
    BY <1>10 DEF InAdd
  <2> QED BY <1>3, <1>10, <2>1, <2>2, <2>3, <2>4, <2>5 DEF GoodFeed
<1>11. CASE TestCodec(p)
  <2>1. PICK pc \in {"use", "after"} : prod' = [prod EXCEPT ![p] = [f EXCEPT !.pc = pc]]
    BY <1>1, <1>11 DEF TestCodec, Step
  <2>2. UNCHANGED <<gCodec, codec, fault>> /\ f.pc # "idle"
    BY <1>1, <1>11 DEF TestCodec
  <2> QED BY <1>8, <1>9, <2>1, <2>2
<1>12. CASE UseCodec(p)
  <2>1. f.pc = "use" /\ UNCHANGED <<gCodec, codec>>
    BY <1>1, <1>12 DEF UseCodec
  <2>2. CASE gCodec = 0
    <3>1. f.late /\ DieAt(p, 0, "null")
      BY <1>3, <1>12, <2>1, <2>2 DEF UseCodec, Running
    <3> QED BY <1>5, <3>1
  <2>3. CASE gCodec # 0
    <3>1. PICK x : x = [f EXCEPT !.pc = "dequeue", !.codec = gCodec]
      OBVIOUS
    <3>2. prod' = [prod EXCEPT ![p] = x] /\ fault' = fault
      BY <1>1, <1>12, <2>3, <3>1 DEF UseCodec, Memory, MediaTypes
    <3>3. gCodec \in Life
      BY <2>3 DEF Memory, MediaTypes
    <3>4. x \in Feeds /\ x.pc = "dequeue" /\ x.late = f.late /\ x.codec = gCodec
      BY <3>1, <3>3 DEF Feeds
    <3>5. GoodFeed(p, x)
      BY <1>3, <2>1, <3>3, <3>4 DEF GoodFeed
    <3> QED BY <1>8, <2>1, <3>2, <3>5
  <2> QED BY <2>2, <2>3
<1>13. CASE DequeueInput(p)
  <2>1. UNCHANGED <<gCodec, codec>> /\ f.pc \in InAdd
    BY <1>1, <1>13 DEF DequeueInput, InAdd
  <2>2. CASE codec[c].life = "dead" /\ DieAt(p, c, "codec")
    BY <1>5, <1>6, <2>1, <2>2
  <2>3. CASE prod' = [prod EXCEPT ![p].pc = "after", ![p].codec = 0] /\ fault' = fault
    <3>1. PICK x : x = [f EXCEPT !.pc = "after", !.codec = 0]
      OBVIOUS
    <3>2. prod' = [prod EXCEPT ![p] = x]
      BY <1>1, <2>3, <3>1 DEF Memory, MediaTypes
    <3> QED BY <1>8, <1>9, <2>1, <2>3, <3>1, <3>2 DEF InAdd
  <2>4. CASE Step(p, "copy") /\ fault' = fault
    <3>1. prod' = [prod EXCEPT ![p] = [f EXCEPT !.pc = "copy"]]
      BY <1>1, <2>4 DEF Step
    <3>2. "copy" \in InAdd /\ 0 \in Int
      BY DEF InAdd
    <3>3. GoodFeed(p, [f EXCEPT !.pc = "copy"])
      BY <1>10, <2>1, <3>2
    <3> QED BY <1>8, <2>1, <2>4, <3>1, <3>3
  <2> QED BY <1>1, <1>2, <1>13, <2>2, <2>3, <2>4 DEF DequeueInput
<1>14. ASSUME f.pc \in InAdd, NEW y \in Codecs, codec' = [codec EXCEPT ![c] = y],
              y.life = codec[c].life, y.started = codec[c].started, y.tables = codec[c].tables,
              y.call = codec[c].call, y.callId = codec[c].callId, y.pc = codec[c].pc
       PROVE  codec' \in [Life -> Codecs] /\ \A d \in Life : Alike(d)
  <2>1. codec \in [Life -> Codecs] /\ c \in Life
    BY <1>3, <1>14 DEF Memory, MediaTypes
  <2>2. codec'[c] = y /\ \A d \in Life \ {c} : codec'[d] = codec[d]
    BY <1>14, <2>1
  <2> QED BY <1>14, <2>1, <2>2 DEF Alike
<1>15. CASE CopyAndQueue(p)
  <2>0. gCodec' = gCodec /\ f.pc \in InAdd
    BY <1>1, <1>15 DEF CopyAndQueue, InAdd
  <2>1. CASE codec[c].life = "dead" \/ "in" \notin codec[c].tables
    <3>1. DieAt(p, c, "tables")
      BY <1>1, <1>2, <1>15, <2>1 DEF CopyAndQueue
    <3>2. f.late
      BY <1>6, <2>0, <2>1 DEF Tables
    <3> QED BY <1>5, <3>1, <3>2
  <2>2. CASE ~(codec[c].life = "dead" \/ "in" \notin codec[c].tables)
    <3>0. PICK r \in Codecs : r = codec[c]
      BY <1>3, <2>0 DEF Memory, MediaTypes
    <3>1. PICK n \in Int : n = IF r.started THEN r.queued + 1 ELSE r.queued
      BY DEF Codecs
    <3>2. PICK y \in Codecs : y = [r EXCEPT !.queued = n]
      BY DEF Codecs
    <3>3. /\ codec' = [codec EXCEPT ![c] = y] /\ fault' = fault
          /\ prod' = [prod EXCEPT ![p] = [f EXCEPT !.pc = "load"]]
      BY <1>1, <1>2, <1>3, <1>15, <2>0, <2>2, <3>0, <3>1, <3>2 DEF CopyAndQueue, Step, Memory, MediaTypes
    <3>4. codec' \in [Life -> Codecs] /\ \A d \in Life : Alike(d)
      BY <1>14, <2>0, <3>0, <3>2, <3>3 DEF Codecs
    <3> QED BY <1>7, <1>10, <2>0, <3>3, <3>4 DEF InAdd
  <2> QED BY <2>1, <2>2
<1>16. CASE LoadCount(p)
  <2>0. UNCHANGED <<gCodec, codec>> /\ f.pc \in InAdd
    BY <1>1, <1>16 DEF LoadCount, InAdd
  <2>1. CASE codec[c].life = "dead"
    BY <1>1, <1>2, <1>5, <1>6, <1>16, <2>0, <2>1 DEF LoadCount
  <2>2. CASE codec[c].life # "dead"
    <3>0. PICK r \in Codecs : r = codec[c]
      BY <1>3, <2>0 DEF Memory, MediaTypes
    <3>1. PICK n \in Int : n = r.mCount
      BY DEF Codecs
    <3>2. PICK x : x = [f EXCEPT !.pc = "store", !.tmp = n]
      OBVIOUS
    <3>3. prod' = [prod EXCEPT ![p] = x] /\ fault' = fault
      BY <1>1, <1>2, <1>16, <2>2, <3>0, <3>1, <3>2 DEF LoadCount, Memory, MediaTypes
    <3> QED BY <1>8, <1>10, <2>0, <3>2, <3>3 DEF InAdd
  <2> QED BY <2>1, <2>2
<1>17. CASE StoreCount(p)
  <2>0. gCodec' = gCodec /\ f.pc \in InAdd /\ f.pc # "idle"
    BY <1>1, <1>17 DEF StoreCount, InAdd
  <2>1. CASE codec[c].life = "dead"
    BY <1>1, <1>2, <1>5, <1>6, <1>17, <2>0, <2>1 DEF StoreCount
  <2>2. CASE codec[c].life # "dead"
    <3>0. PICK r \in Codecs : r = codec[c]
      BY <1>3, <2>0 DEF Memory, MediaTypes
    <3>1. PICK n \in Int : n = IF f.tmp < MaxCount THEN f.tmp + 1 ELSE MaxCount
      BY Lives DEF Feeds
    <3>2. PICK y \in Codecs : y = [r EXCEPT !.mCount = n]
      BY DEF Codecs
    <3>3. PICK x : x = [f EXCEPT !.pc = "after", !.codec = 0, !.tmp = 0]
      OBVIOUS
    <3>4. /\ codec' = [codec EXCEPT ![c] = y] /\ fault' = fault
          /\ prod' = [prod EXCEPT ![p] = x]
      BY <1>1, <1>2, <1>3, <1>17, <2>0, <2>2, <3>0, <3>1, <3>2, <3>3 DEF StoreCount, Memory, MediaTypes
    <3>5. codec' \in [Life -> Codecs] /\ \A d \in Life : Alike(d)
      BY <1>14, <2>0, <3>0, <3>2, <3>4 DEF Codecs
    <3>6. x \in Feeds /\ x.pc = "after" /\ x.late = f.late
      <4>1. \A u \in Feeds : [u EXCEPT !.tmp = 0] \in Feeds /\ [u EXCEPT !.tmp = 0].pc = u.pc
                             /\ [u EXCEPT !.tmp = 0].late = u.late
        BY DEF Feeds
      <4>2. PICK u : u = [f EXCEPT !.pc = "after", !.codec = 0]
        OBVIOUS
      <4>3. u \in Feeds /\ u.pc = "after" /\ u.late = f.late
        BY <4>2 DEF Feeds
      <4>4. x = [u EXCEPT !.tmp = 0]
        BY <3>3, <4>2
      <4> QED BY <4>1, <4>3, <4>4
    <3>7. GoodFeed(p, x)
      BY <1>3, <2>0, <3>6 DEF GoodFeed, InAdd
    <3> QED BY <1>7, <2>0, <3>4, <3>5, <3>7
  <2> QED BY <2>1, <2>2
<1> QED BY <1>11, <1>12, <1>13, <1>15, <1>16, <1>17 DEF InAddBuffer

\* AddBuffer returns.
LEMMA BackKeeps ==
  ASSUME Memory, Stages, NEW p \in Producer, BackFromAddBuffer(p)
  PROVE  Outcome
<1>1. PICK x : x = Idle
  OBVIOUS
<1>2. x \in Feeds /\ x.pc = "idle"
  BY <1>1 DEF Idle, Feeds
<1>3. /\ prod' = [prod EXCEPT ![p] = x]
      /\ UNCHANGED <<gCodec, codec, fault, m, todo>>
  BY <1>1 DEF BackFromAddBuffer, Quiet
<1>4. GoodFeed(p, x)
  BY <1>2 DEF GoodFeed, InAdd
<1> QED BY <1>3, <1>4, StepKeeps, UnchangedMedia DEF Outcome

\* The callback finds the sender or the file it was registered with, unless
\* the codec has been stopped.
LEMMA CallbackKeeps ==
  ASSUME Memory, Stages, NEW c \in Life, onCodecBuffer(c)
  PROVE  Outcome
<1>1. PICK r \in Codecs : r = codec[c]
  BY DEF Memory, MediaTypes
<1>2. r.pc = "callback" /\ Quiet
  BY <1>1 DEF onCodecBuffer
<1>3. CASE Thread(c, [r EXCEPT !.pc = "release"])
  <2>1. Like(c, [r EXCEPT !.pc = "release"])
    BY <1>1, <1>2 DEF Like, Memory, CodecFacts, Codecs
  <2> QED BY <1>1, <1>2, <1>3, <2>1, ThreadKeeps DEF Outcome
<1>4. CASE /\ \/ r.call = "sender" /\ (r.callId # m.mpCodecSend \/ m.rtp["codec"] = "none")
              \/ r.call = "encoder" /\ m.enc[r.callId] # "open"
           /\ codec' = codec /\ \E why : Die("codec", c, why)
  <2>1. ~r.started
    BY <1>1, <1>4, Lives DEF Memory, CodecFacts, OwnerFacts
  <2> QED BY <1>1, <1>4, <2>1 DEF Outcome, WorkStopped, Die
<1> QED BY <1>1, <1>3, <1>4 DEF onCodecBuffer

\* The camera delivers a frame.
LEMMA postDataKeeps ==
  ASSUME Memory, Stages, postData
  PROVE  Outcome
<1>1. /\ m.cam.preview /\ m' = [m EXCEPT !.cam.frame = m.cam.ctx]
      /\ prod' = [prod EXCEPT ![Camera].pc = "call"] /\ UNCHANGED <<gCodec, codec, fault, todo>>
  BY DEF postData, Step
<1>2. SameMedia
  <2>1. m \in Medias /\ m.cam \in Cams /\ m.cam.ctx \in Nat
    BY DEF Memory, MediaTypes, Medias, Cams
  <2>2. PICK k \in Cams : k = [m.cam EXCEPT !.frame = m.cam.ctx]
    BY <2>1 DEF Cams
  <2>3. m' = [m EXCEPT !.cam = k]
    BY <1>1, <2>2
  <2>4. /\ k.lib = m.cam.lib /\ k.ptr = m.cam.ptr /\ k.ctx = m.cam.ctx /\ k.cam = m.cam.cam
        /\ k.preview = m.cam.preview
    BY <2>1, <2>2 DEF Cams
  <2> QED BY <2>1, <2>3, <2>4 DEF SameMedia, Medias
<1>3. Running
  BY <1>1 DEF Memory, FeedFacts, Feeding
<1>4. \A d \in Life : Camera # Reader(d)
  BY DEF Camera, Reader
<1> QED BY <1>1, <1>2, <1>3, <1>4, CallKeeps DEF Outcome

\* The camera and its library are there as long as the preview is on.
LEMMA AskNextFrameKeeps ==
  ASSUME Memory, Stages, AskNextFrame
  PROVE  Outcome
<1>1. Quiet
  BY DEF AskNextFrame
<1>2. CASE prod' = [prod EXCEPT ![Camera] = Idle] /\ UNCHANGED <<gCodec, codec, fault>>
  <2>1. PICK x : x = Idle
    OBVIOUS
  <2>2. x \in Feeds /\ x.pc = "idle"
    BY <2>1 DEF Idle, Feeds
  <2>3. GoodFeed(Camera, x)
    BY <2>2 DEF GoodFeed, InAdd
  <2> QED BY <1>1, <1>2, <2>1, <2>3, StepKeeps, UnchangedMedia DEF Outcome, Quiet
<1>3. CASE /\ ~(m.cam.lib /\ m.cam.cam /\ m.cam.frame = m.cam.ctx)
           /\ Die("camera", m.cam.frame, "camera")
  <2>1. ~m.cam.preview \/ m.cam.frame # m.cam.ctx
    BY <1>3 DEF Memory, FeedFacts
  <2> QED BY <1>1, <1>3, <2>1 DEF Outcome, WorkStopped, Die, Quiet
<1> QED BY <1>2, <1>3 DEF AskNextFrame

\* The application's second thread, once its start has come back.
LEMMA AddEncoderDataKeeps ==
  ASSUME Memory, Stages, AddEncoderData, sound'
  PROVE  Outcome
<1>1. m.base = "loaded" /\ (gCodec # 0 => codec[gCodec].pc # "none")
  <2>1. m.mpFileEncoder # 0 /\ (gCodec # 0 => codec[gCodec].pc # "none")
    BY DEF AddEncoderData
  <2> QED BY <2>1 DEF Memory, FeedFacts
<1>2. PICK late \in BOOLEAN : late = (gCodec = 0 \/ ~codec[gCodec].started)
  OBVIOUS
<1>3. /\ prod' = [prod EXCEPT ![Java].pc = "call", ![Java].late = late]
      /\ UNCHANGED <<gCodec, codec, fault, m, todo>>
  BY <1>1, <1>2 DEF AddEncoderData
<1>4. late \/ Running
  BY <1>1, <1>2 DEF Running
<1>5. \A d \in Life : Java # Reader(d)
  BY DEF Java, Reader
<1> QED BY <1>3, <1>4, <1>5, TakeKeeps, UnchangedMedia DEF Outcome

\* A receiver that runs feeds a codec that runs.
LEMMA ReceiveSourceKeeps ==
  ASSUME Memory, Stages, NEW r \in Life, ReceiveSource(r)
  PROVE  Outcome
<1>1. /\ prod' = [prod EXCEPT ![Net(r)].pc = "call"] /\ UNCHANGED <<gCodec, codec, fault, m, todo>>
      /\ m.recv[r].mRunning
  BY DEF ReceiveSource, Quiet, Step
<1>2. Running /\ \A d \in Life : Net(r) # Reader(d)
  BY <1>1 DEF Memory, FeedFacts, Feeding, Net, Reader
<1> QED BY <1>1, <1>2, CallKeeps, UnchangedMedia DEF Outcome

\* A decoder's thread takes up a frame only while mbRunning is set.
LEMMA threadLoopKeeps ==
  ASSUME Memory, Stages, NEW d \in Life, threadLoop(d)
  PROVE  Outcome
<1>1. /\ m.dec[d].thread /\ m.dec[d].mbRunning /\ UNCHANGED <<gCodec, codec, fault, m, todo>>
      /\ prod' = [prod EXCEPT ![Reader(d)].pc = "read"]
  BY DEF threadLoop, Step, Quiet
<1>2. Running /\ \A e \in Life : Reader(d) = Reader(e) => d = e
  BY <1>1 DEF Memory, FeedFacts, Feeding, Reader
<1> QED BY <1>1, <1>2, CallKeeps, UnchangedMedia DEF Outcome

\* The file that is read is open, or mbRunning is clear.
LEMMA ReadFrameKeeps ==
  ASSUME Memory, Stages, NEW d \in Life, ReadFrame(d)
  PROVE  Outcome
<1>1. m.dec[d].thread /\ prod[Reader(d)].pc = "read" /\ UNCHANGED <<m, todo>> /\ m.dec[d] \in Decs
  BY DEF ReadFrame, Quiet, Memory, MediaTypes, Medias
<1>2. CASE m.dec[d].file = "open"
  <2>0. UNCHANGED <<gCodec, codec, fault>>
    BY <1>2 DEF ReadFrame
  <2>1. CASE Step(Reader(d), "call")
    <3>1. prod' = [prod EXCEPT ![Reader(d)].pc = "call"]
      BY <2>1 DEF Step
    <3>2. Reader(d) \in Producer => prod[Reader(d)].late \/ Running
      BY <1>1 DEF Memory, CodecFacts
    <3>3. \A e \in Life : Reader(d) = Reader(e) => d = e
      BY DEF Reader
    <3> QED BY <1>1, <2>0, <3>1, <3>2, <3>3, CallKeeps, UnchangedMedia DEF Outcome
  <2>2. CASE prod' = [prod EXCEPT ![Reader(d)] = Idle]
    <3>1. PICK x : x = Idle
      OBVIOUS
    <3>2. x \in Feeds /\ x.pc = "idle"
      BY <3>1 DEF Idle, Feeds
    <3>3. GoodFeed(Reader(d), x)
      BY <3>2 DEF GoodFeed, InAdd
    <3> QED BY <1>1, <2>0, <2>2, <3>1, <3>3, StepKeeps, UnchangedMedia DEF Outcome
  <2> QED BY <1>2, <2>1, <2>2 DEF ReadFrame
<1>3. CASE m.dec[d].file # "open"
  <2>1. ~m.dec[d].mbRunning
    BY <1>3 DEF Memory, FeedFacts
  <2>2. \E why \in {"overflow", "file"} : Die("reader", d, why)
    BY <1>3 DEF ReadFrame
  <2> QED BY <1>1, <2>1, <2>2 DEF Outcome, WorkStopped, Die
<1> QED BY <1>2, <1>3

\* A thread that ends.
LEMMA EndReaderKeeps ==
  ASSUME Memory, Stages, NEW d \in Life, EndReader(d)
  PROVE  Outcome
<1>1. /\ m' = [m EXCEPT !.dec[d].thread = FALSE] /\ UNCHANGED <<gCodec, codec, prod, fault, todo>>
      /\ prod[Reader(d)].pc = "idle" /\ m \in Medias /\ m.dec \in [Life -> Decs]
  BY DEF EndReader, codecVars, Memory, MediaTypes, Medias
<1>2. PICK x \in Decs : x = [m.dec[d] EXCEPT !.thread = FALSE]
  BY <1>1 DEF Decs
<1>3. x.file = m.dec[d].file /\ x.mbRunning = m.dec[d].mbRunning /\ x.thread = FALSE
  BY <1>1, <1>2 DEF Decs
<1>4. PICK f \in [Life -> Decs] : f = [m.dec EXCEPT ![d] = x]
  BY <1>1
<1>5. m' = [m EXCEPT !.dec = f]
  BY <1>1, <1>2, <1>4
<1>6. /\ m' \in Medias /\ m'.dec = f /\ m'.base = m.base /\ m'.cam = m.cam
      /\ m'.mpCodecSend = m.mpCodecSend /\ m'.senders = m.senders /\ m'.rtp = m.rtp
      /\ m'.mpFileEncoder = m.mpFileEncoder /\ m'.enc = m.enc
      /\ m'.mpFileDecoder = m.mpFileDecoder /\ m'.mpCodecRecv = m.mpCodecRecv /\ m'.recv = m.recv
  BY <1>1, <1>5 DEF Medias
<1>7. f[d] = x /\ \A e \in Life \ {d} : f[e] = m.dec[e]
  BY <1>1, <1>4
<1>8. Memory'
  <2>1. MediaTypes' /\ CodecFacts' /\ OwnerFacts'
    BY <1>1, <1>6 DEF Memory, MediaTypes, CodecFacts, OwnerFacts, Running
  <2>2. FeedFacts'
    <3>1. \A e \in Life : m'.dec[e].file = m.dec[e].file /\ m'.dec[e].mbRunning = m.dec[e].mbRunning
                          /\ (m'.dec[e].thread <=> m.dec[e].thread /\ e # d)
      BY <1>3, <1>6, <1>7
    <3> QED BY <1>1, <1>6, <3>1 DEF Memory, FeedFacts, Feeding, Running
  <2> QED BY <2>1, <2>2 DEF Memory
<1>9. SameView
  BY <1>1, <1>3, <1>6, <1>7 DEF SameView
<1> QED BY <1>1, <1>8, <1>9, StagesKeep DEF Outcome

\* The receiver that its own thread finds deleted had been stopped.
LEMMA EndReceiveKeeps ==
  ASSUME Memory, Stages, NEW r \in Life, EndReceive(r)
  PROVE  Outcome
<1>1. CASE m.recv[r].life = "deleted"
  BY <1>1 DEF EndReceive, Outcome, WorkStopped, Die
<1>2. CASE m.recv[r].life # "deleted"
  <2>1. /\ m' = [m EXCEPT !.recv[r].thread = FALSE] /\ UNCHANGED <<gCodec, codec, prod, fault, todo>>
        /\ m \in Medias /\ m.recv \in [Life -> Recvs]
    BY <1>2 DEF EndReceive, codecVars, Memory, MediaTypes, Medias
  <2>2. PICK x \in Recvs : x = [m.recv[r] EXCEPT !.thread = FALSE]
    BY <2>1 DEF Recvs
  <2>3. x.mRunning = m.recv[r].mRunning
    BY <2>1, <2>2 DEF Recvs
  <2>4. PICK f \in [Life -> Recvs] : f = [m.recv EXCEPT ![r] = x]
    BY <2>1
  <2>5. m' = [m EXCEPT !.recv = f]
    BY <2>1, <2>2, <2>4
  <2>6. /\ m' \in Medias /\ m'.recv = f /\ m'.base = m.base /\ m'.cam = m.cam
        /\ m'.mpCodecSend = m.mpCodecSend /\ m'.senders = m.senders /\ m'.rtp = m.rtp
        /\ m'.mpFileEncoder = m.mpFileEncoder /\ m'.enc = m.enc
        /\ m'.mpFileDecoder = m.mpFileDecoder /\ m'.mpCodecRecv = m.mpCodecRecv /\ m'.dec = m.dec
    BY <2>1, <2>5 DEF Medias
  <2>7. \A q \in Life : m'.recv[q].mRunning = m.recv[q].mRunning
    BY <2>1, <2>3, <2>4, <2>6
  <2>8. Memory'
    BY <2>1, <2>6, <2>7 DEF Memory, MediaTypes, CodecFacts, OwnerFacts, FeedFacts, Feeding, Running
  <2>9. SameView
    BY <2>1, <2>6, <2>7 DEF SameView
  <2> QED BY <2>1, <2>8, <2>9, StagesKeep DEF Outcome
<1> QED BY <1>1, <1>2

-----------------------------------------------------------------------------
(* The caller: the codec                                                   *)

\* A step of the caller on the codec's object: todo goes on, the library's
\* own objects stay.
OnTheCodec == UNCHANGED <<fault, m>> /\ todo' = Tail(todo)

\* The caller gives gCodec's object a new value r.
LEMMA GivenKeeps ==
  ASSUME Memory, gCodec # 0, NEW r \in Codecs, codec' = [codec EXCEPT ![gCodec] = r],
         UNCHANGED <<gCodec, prod, m>>,
         r.life = codec[gCodec].life,
         \/ r.call = codec[gCodec].call /\ r.callId = codec[gCodec].callId
         \/ r.call = "sender" /\ r.callId = m.mpCodecSend /\ m.rtp["codec"] # "none"
         \/ r.call = "encoder" /\ r.callId \in Life /\ m.enc[r.callId] = "open",
         codec[gCodec].pc # "none" => r.pc # "none",
         codec[gCodec].started => r.started,
         r.started /\ r.pc # "none" => r.tables = Tables
  PROVE  Memory' /\ codec'[gCodec] = r
<1>1. gCodec \in Life
  BY DEF Memory, MediaTypes
<1>2. r.life = "alive"
  BY DEF Memory, CodecFacts
<1>3. /\ r.call = "sender" => r.callId = m.mpCodecSend /\ m.rtp["codec"] # "none"
      /\ r.call = "encoder" => r.callId \in Life /\ m.enc[r.callId] = "open"
  BY DEF Memory, OwnerFacts
<1>4. codec'[gCodec] = r
  BY <1>1 DEF Memory, MediaTypes
<1> QED BY <1>1, <1>2, <1>3, <1>4, ObjectKeeps

\* StartCodec, first the platform codec.
LEMMA StartPlatformKeeps ==
  ASSUME Memory, CodecStart(1), NEW ok \in BOOLEAN, Trial(StartPlatform(ok), ok)
  PROVE  fault' = fault /\ (sound' => Memory' /\ CodecStart(2)' /\ OnTheCodec /\ gCodec' = gCodec)
<1>0. fault' = fault /\ (sound' => ok)
  BY DEF Trial, StartPlatform, OnCodec
<1> SUFFICES ASSUME sound', ok PROVE Memory' /\ CodecStart(2)' /\ OnTheCodec /\ gCodec' = gCodec
  BY <1>0
<1>1. PICK o \in Codecs : o = codec[gCodec]
  BY DEF Memory, MediaTypes, CodecStart
<1>2. PICK r \in Codecs : r = [o EXCEPT !.started = TRUE]
  BY DEF Codecs
<1>3. codec' = [codec EXCEPT ![gCodec] = r] /\ UNCHANGED <<gCodec, prod, m, fault>>
      /\ todo' = Tail(todo) /\ gCodec # 0
  BY <1>1, <1>2 DEF Trial, StartPlatform, OnCodec, CodecStart
<1>4. /\ r.life = o.life /\ r.call = o.call /\ r.callId = o.callId /\ r.pc = o.pc
      /\ r.tables = o.tables /\ r.started
  BY <1>2 DEF Codecs
<1>5. o.pc = "none" \/ o.tables = Tables
  BY <1>1 DEF CodecStart
<1>6. Memory' /\ codec'[gCodec] = r
  BY <1>1, <1>3, <1>4, <1>5, GivenKeeps
<1> QED BY <1>3, <1>4, <1>5, <1>6 DEF CodecStart, OnTheCodec

\* Then the tables of its buffers.
LEMMA BuildTablesKeeps ==
  ASSUME Memory, CodecStart(2),
         NEW got \in SUBSET Tables, Trial(BuildTables(got), got = Tables)
  PROVE  fault' = fault /\ (sound' => Memory' /\ CodecStart(3)' /\ OnTheCodec /\ gCodec' = gCodec)
<1>0. fault' = fault /\ (sound' => got = Tables)
  BY DEF Trial, BuildTables, OnCodec
<1> SUFFICES ASSUME sound', got = Tables PROVE Memory' /\ CodecStart(3)' /\ OnTheCodec /\ gCodec' = gCodec
  BY <1>0
<1>1. PICK o \in Codecs : o = codec[gCodec]
  BY DEF Memory, MediaTypes, CodecStart
<1>2. PICK r \in Codecs : r = [o EXCEPT !.tables = Tables]
  BY DEF Codecs
<1>3. codec' = [codec EXCEPT ![gCodec] = r] /\ UNCHANGED <<gCodec, prod, m, fault>>
      /\ todo' = Tail(todo) /\ gCodec # 0
  <2>1. o.started /\ o.tables \cup got = Tables
    BY <1>1 DEF CodecStart, Codecs
  <2>2. codec' = [codec EXCEPT ![gCodec] = [o EXCEPT !.tables = IF o.started THEN o.tables \cup got ELSE o.tables]]
    BY <1>1 DEF Trial, BuildTables, OnCodec, CodecStart
  <2> QED BY <1>2, <2>1, <2>2 DEF Trial, BuildTables, OnCodec, CodecStart
<1>4. /\ r.life = o.life /\ r.call = o.call /\ r.callId = o.callId /\ r.pc = o.pc
      /\ r.tables = Tables /\ r.started = o.started /\ o.started
  BY <1>1, <1>2 DEF Codecs, CodecStart
<1>5. Memory' /\ codec'[gCodec] = r
  BY <1>1, <1>3, <1>4, GivenKeeps
<1>6. CodecStart(3)'
  <2>1. r.tables = Tables /\ r.started
    BY <1>4
  <2> QED BY <1>3, <1>5, <2>1 DEF CodecStart
<1> QED BY <1>3, <1>5, <1>6 DEF OnTheCodec

\* Then the thread.
LEMMA RunThreadKeeps ==
  ASSUME Memory, CodecStart(3), Api(RunThread)
  PROVE  Memory' /\ CodecStart(4)' /\ OnTheCodec /\ gCodec' = gCodec
<1>1. PICK o \in Codecs : o = codec[gCodec]
  BY DEF Memory, MediaTypes, CodecStart
<1>2. PICK r \in Codecs : r = [o EXCEPT !.pc = IF @ = "none" THEN "loop" ELSE @]
  BY DEF Codecs
<1>3. codec' = [codec EXCEPT ![gCodec] = r] /\ UNCHANGED <<gCodec, prod, m, fault>>
      /\ todo' = Tail(todo) /\ gCodec # 0
  BY <1>1, <1>2 DEF Api, RunThread, OnCodec, CodecStart
<1>4. /\ r.life = o.life /\ r.call = o.call /\ r.callId = o.callId /\ r.pc # "none"
      /\ r.tables = o.tables /\ r.started = o.started
  BY <1>2 DEF Codecs
<1>5. o.tables = Tables /\ o.started
  BY <1>1 DEF CodecStart
<1>6. Memory' /\ codec'[gCodec] = r
  BY <1>1, <1>3, <1>4, <1>5, GivenKeeps
<1> QED BY <1>3, <1>4, <1>5, <1>6 DEF CodecStart, OnTheCodec

\* StopCodec, first the platform codec: it stops while nobody is allowed to
\* feed it, and every frame there is becomes late.
LEMMA StopPlatformKeeps ==
  ASSUME Memory, CodecStop(1), ~Feeding, Api(StopPlatform)
  PROVE  Memory' /\ CodecStop(2)' /\ OnTheCodec /\ gCodec' = gCodec
<1>1. PICK o \in Codecs : o = codec[gCodec]
  BY DEF Memory, MediaTypes, CodecStop
<1>2. PICK r \in Codecs : r = Stopped(o)
  <2>1. /\ \A y \in Codecs : [y EXCEPT !.started = FALSE] \in Codecs
        /\ \A y \in Codecs : [y EXCEPT !.queued = 0] \in Codecs
        /\ \A y \in Codecs : [y EXCEPT !.ready = 0] \in Codecs
        /\ \A y \in Codecs : [y EXCEPT !.infos = Infos] \in Codecs
    <3>1. \A y \in Codecs : [y EXCEPT !.started = FALSE] \in Codecs
      BY DEF Codecs
    <3>2. \A y \in Codecs : [y EXCEPT !.queued = 0] \in Codecs
      BY DEF Codecs
    <3>3. \A y \in Codecs : [y EXCEPT !.ready = 0] \in Codecs
      BY DEF Codecs
    <3>4. \A y \in Codecs : [y EXCEPT !.infos = Infos] \in Codecs
      BY Lives DEF Codecs
    <3> QED BY <3>1, <3>2, <3>3, <3>4
  <2>2. [[[[o EXCEPT !.started = FALSE] EXCEPT !.queued = 0] EXCEPT !.ready = 0] EXCEPT !.infos = Infos] \in Codecs
    BY <2>1
  <2>3. [[[[o EXCEPT !.started = FALSE] EXCEPT !.queued = 0] EXCEPT !.ready = 0] EXCEPT !.infos = Infos]
        = Stopped(o)
    BY DEF Stopped
  <2> QED BY <2>2, <2>3
<1>3. /\ codec' = [codec EXCEPT ![gCodec] = r] /\ UNCHANGED <<gCodec, m, fault, sound>>
      /\ todo' = Tail(todo) /\ gCodec \in Life
      /\ prod' = [p \in Producer |-> IF prod[p].pc = "idle" THEN prod[p]
                                      ELSE [prod[p] EXCEPT !.late = TRUE]]
  BY <1>1, <1>2 DEF Api, StopPlatform, CodecStop, Memory, MediaTypes
<1>4. /\ r.life = o.life /\ r.call = o.call /\ r.callId = o.callId /\ r.pc = o.pc
      /\ r.started = FALSE
  BY <1>2 DEF Codecs, Stopped
<1>5. codec' \in [Life -> Codecs] /\ codec'[gCodec] = r /\ \A c \in Life \ {gCodec} : codec'[c] = codec[c]
  BY <1>3 DEF Memory, MediaTypes
<1>6. /\ prod' \in [Producer -> Feeds]
      /\ \A p \in Producer : /\ prod'[p].pc # "idle" => prod'[p].late
                             /\ prod'[p].pc = prod[p].pc /\ prod'[p].codec = prod[p].codec
  <2>1. ASSUME NEW p \in Producer
        PROVE  /\ prod'[p] \in Feeds /\ (prod'[p].pc # "idle" => prod'[p].late)
               /\ prod'[p].pc = prod[p].pc /\ prod'[p].codec = prod[p].codec
    <3>1. PICK f \in Feeds : f = prod[p]
      BY DEF Memory, MediaTypes
    <3>2. CASE f.pc = "idle"
      BY <1>3, <3>1, <3>2
    <3>3. CASE f.pc # "idle"
      <4>1. PICK x : x = [f EXCEPT !.late = TRUE]
        OBVIOUS
      <4>2. x \in Feeds /\ x.late = TRUE /\ x.pc = f.pc /\ x.codec = f.codec
        BY <4>1 DEF Feeds
      <4> QED BY <1>3, <3>1, <3>3, <4>1, <4>2
    <3> QED BY <3>2, <3>3
  <2> QED BY <1>3, <2>1
<1>7. MediaTypes'
  BY <1>3, <1>5, <1>6 DEF Memory, MediaTypes
<1>8. CodecFacts'
  <2>1. \A c \in Life : ~codec'[c].started
    BY <1>1, <1>4, <1>5 DEF Memory, CodecFacts
  <2>2. \A c \in Life : codec'[c].life = "unused" => codec'[c].call = "none" /\ codec'[c].pc = "none"
    BY <1>1, <1>4, <1>5 DEF Memory, CodecFacts
  <2>3. codec'[gCodec].life = "alive"
    BY <1>1, <1>3, <1>4, <1>5, Lives DEF Memory, CodecFacts
  <2>4. \A p \in Producer : prod'[p].pc \in InAdd => prod'[p].codec \in Life
    BY <1>6 DEF Memory, CodecFacts
  <2> QED BY <1>3, <1>6, <2>1, <2>2, <2>3, <2>4 DEF CodecFacts
<1>9. OwnerFacts'
  BY <1>1, <1>3, <1>4, <1>5 DEF Memory, OwnerFacts
<1>10. FeedFacts'
  BY <1>3, <1>6 DEF Memory, FeedFacts, Feeding
<1> QED BY <1>3, <1>4, <1>5, <1>7, <1>8, <1>9, <1>10, Lives DEF Memory, CodecStop, OnTheCodec

\* The tables go after the platform codec has stopped.
LEMMA DeleteTablesKeeps ==
  ASSUME Memory, CodecStop(2), Api(DeleteTables)
  PROVE  Memory' /\ CodecStop(3)' /\ OnTheCodec /\ gCodec' = gCodec
<1>1. PICK o \in Codecs : o = codec[gCodec]
  BY DEF Memory, MediaTypes, CodecStop
<1>2. PICK r \in Codecs : r = [o EXCEPT !.tables = {}]
  BY DEF Codecs
<1>3. codec' = [codec EXCEPT ![gCodec] = r] /\ UNCHANGED <<gCodec, prod, m, fault>>
      /\ todo' = Tail(todo) /\ gCodec # 0
  BY <1>1, <1>2 DEF Api, DeleteTables, OnCodec, CodecStop
<1>4. /\ r.life = o.life /\ r.call = o.call /\ r.callId = o.callId /\ r.pc = o.pc
      /\ r.started = o.started
  BY <1>2 DEF Codecs
<1>5. ~o.started
  BY <1>1 DEF CodecStop
<1>6. Memory' /\ codec'[gCodec] = r
  BY <1>1, <1>3, <1>4, <1>5, GivenKeeps
<1> QED BY <1>3, <1>4, <1>5, <1>6 DEF CodecStop, OnTheCodec

\* Nobody waits for the thread.
LEMMA RequestExitKeeps ==
  ASSUME Memory, CodecStop(3), Api(RequestExit)
  PROVE  Memory' /\ CodecStop(4)' /\ OnTheCodec /\ gCodec' = gCodec
<1>1. PICK o \in Codecs : o = codec[gCodec]
  BY DEF Memory, MediaTypes, CodecStop
<1>2. PICK r \in Codecs : r = [o EXCEPT !.exit = TRUE]
  BY DEF Codecs
<1>3. codec' = [codec EXCEPT ![gCodec] = r] /\ UNCHANGED <<gCodec, prod, m, fault>>
      /\ todo' = Tail(todo) /\ gCodec # 0
  BY <1>1, <1>2 DEF Api, RequestExit, OnCodec, CodecStop
<1>4. /\ r.life = o.life /\ r.call = o.call /\ r.callId = o.callId /\ r.pc = o.pc
      /\ r.started = o.started
  BY <1>2 DEF Codecs
<1>5. ~o.started
  BY <1>1 DEF CodecStop
<1>6. Memory' /\ codec'[gCodec] = r
  BY <1>1, <1>3, <1>4, <1>5, GivenKeeps
<1> QED BY <1>3, <1>4, <1>5, <1>6 DEF CodecStop, OnTheCodec

\* gCodec lets go of a codec that is stopped: its thread may live on.
LEMMA DropCodecKeeps ==
  ASSUME Memory, CodecStop(4), Api(DropCodec)
  PROVE  Memory' /\ CodecStop(5)' /\ OnTheCodec /\ gCodec' = 0
<1>1. /\ gCodec' = 0 /\ UNCHANGED <<prod, m, fault, sound>> /\ todo' = Tail(todo)
      /\ codec' = [c \in Life |-> IF c = gCodec /\ ~Held(c, 0, codec[c].pc) THEN DeadCodec ELSE codec[c]]
  BY DEF Api, DropCodec
<1>2. DeadCodec \in Codecs /\ DeadCodec.pc = "ended" /\ DeadCodec.started = FALSE /\ DeadCodec.life = "dead"
  BY DeadCodecIs
<1>3. codec \in [Life -> Codecs] /\ \A c \in Life : ~codec[c].started
  BY DEF Memory, MediaTypes, CodecFacts, CodecStop
<1>4. \A c \in Life : \/ codec'[c] = codec[c]
                      \/ codec'[c] = DeadCodec
  BY <1>1
<1>5. codec' \in [Life -> Codecs]
  BY <1>1, <1>2, <1>3
<1>6. MediaTypes'
  BY <1>1, <1>5 DEF Memory, MediaTypes
<1>7. CodecFacts'
  <2>1. \A c \in Life : /\ ~codec'[c].started
                        /\ codec'[c].life = "unused" => codec'[c].call = "none" /\ codec'[c].pc = "none"
                        /\ codec[c].pc # "none" => codec'[c].pc # "none"
    BY <1>2, <1>3, <1>4 DEF Memory, CodecFacts
  <2>2. ~Running
    BY <1>3 DEF Memory, MediaTypes, Running
  <2> QED BY <1>1, <2>1, <2>2 DEF Memory, CodecFacts
<1>8. OwnerFacts' /\ FeedFacts'
  <2>1. ~Running
    BY <1>3 DEF Memory, MediaTypes, Running
  <2> QED BY <1>1, <2>1 DEF Memory, OwnerFacts, FeedFacts, Feeding
<1> QED BY <1>1, <1>6, <1>7, <1>8 DEF Memory, CodecStop, OnTheCodec

\* A codec is made while there is none, so nobody feeds one.
LEMMA CreateKeeps ==
  ASSUME Memory, gCodec = 0, Api(Create)
  PROVE  Memory' /\ CodecStart(1)' /\ OnTheCodec
<1>1. PICK c \in Life : CodecCreate(c)
  BY DEF Api, Create
<1>2. /\ gCodec' = c /\ UNCHANGED <<prod, m, fault, sound>> /\ todo' = Tail(todo)
      /\ codec[c].life = "unused" /\ codec' = [codec EXCEPT ![c].life = "alive"]
  BY <1>1 DEF Api, CodecCreate
<1>3. PICK o \in Codecs : o = codec[c]
  BY DEF Memory, MediaTypes
<1>4. PICK r \in Codecs : r = [o EXCEPT !.life = "alive"]
  BY DEF Codecs
<1>5. r.life = "alive" /\ r.call = "none" /\ r.pc = "none" /\ ~r.started
  <2>1. ~o.started /\ o.call = "none" /\ o.pc = "none"
    BY <1>2, <1>3, Lives DEF Memory, CodecFacts
  <2> QED BY <1>4, <2>1 DEF Codecs
<1>6. codec' \in [Life -> Codecs] /\ codec'[c] = r /\ \A d \in Life \ {c} : codec'[d] = codec[d]
  BY <1>2, <1>3, <1>4 DEF Memory, MediaTypes
<1>7. MediaTypes'
  BY <1>2, <1>6 DEF Memory, MediaTypes
<1>8. CodecFacts'
  <2>1. \A d \in Life : ~codec'[d].started
    BY <1>5, <1>6, Lives DEF Memory, CodecFacts
  <2>2. \A d \in Life : /\ codec'[d].life = "unused" => codec'[d].call = "none" /\ codec'[d].pc = "none"
                        /\ codec[d].pc # "none" => codec'[d].pc # "none"
    BY <1>2, <1>5, <1>6 DEF Memory, CodecFacts
  <2>3. ~Running
    BY DEF Running
  <2> QED BY <1>2, <1>5, <1>6, <2>1, <2>2, <2>3 DEF Memory, CodecFacts
<1>9. OwnerFacts'
  BY <1>2, <1>5, <1>6 DEF OwnerFacts
<1>10. FeedFacts'
  <2>1. ~Feeding
    BY DEF Memory, FeedFacts, Running
  <2> QED BY <1>2, <2>1 DEF Memory, FeedFacts, Feeding
<1>11. CodecStart(1)'
  <2>1. gCodec' # 0 /\ codec'[gCodec'].pc = "none"
    BY <1>2, <1>5, <1>6, Lives
  <2> QED BY <2>1 DEF CodecStart
<1> QED BY <1>2, <1>7, <1>8, <1>9, <1>10, <1>11 DEF Memory, OnTheCodec

\* The callback leads to the sender or the encoder that was just made.
LEMMA RegisterKeeps ==
  ASSUME Memory, CodecStart(1), NEW kind \in {"sender", "encoder"}, NEW id \in Int,
         Api(RegisterBufferCall(kind, id)),
         kind = "sender" => id = m.mpCodecSend /\ m.rtp["codec"] # "none",
         kind = "encoder" => id \in Life /\ m.enc[id] = "open"
  PROVE  Memory' /\ CodecStart(1)' /\ OnTheCodec /\ gCodec' = gCodec
<1>1. PICK o \in Codecs : o = codec[gCodec]
  BY DEF Memory, MediaTypes, CodecStart
<1>2. PICK r \in Codecs : r = [o EXCEPT !.call = kind, !.callId = id]
  <2>1. [o EXCEPT !.call = kind, !.callId = id] \in Codecs
    BY DEF Codecs
  <2> QED BY <2>1
<1>3. codec' = [codec EXCEPT ![gCodec] = r] /\ UNCHANGED <<gCodec, prod, m, fault>>
      /\ todo' = Tail(todo) /\ gCodec # 0
  BY <1>1, <1>2 DEF Api, RegisterBufferCall, OnCodec, CodecStart
<1>4. r.life = o.life /\ r.call = kind /\ r.callId = id /\ r.pc = o.pc /\ r.tables = o.tables
      /\ r.started = o.started
  BY <1>2 DEF Codecs
<1>5. o.started /\ o.pc # "none" => o.tables = Tables
  BY <1>1 DEF Memory, MediaTypes, CodecFacts, CodecStart
<1>6. Memory' /\ codec'[gCodec] = r
  BY <1>1, <1>3, <1>4, <1>5, GivenKeeps
<1> QED BY <1>1, <1>3, <1>4, <1>6 DEF CodecStart, OnTheCodec

-----------------------------------------------------------------------------
(* The caller: the library's objects                                       *)

\* A step on what no other thread looks at, or may look at now.
LEMMA PrivateKeeps ==
  ASSUME Memory, UNCHANGED codecVars, m' \in Medias,
         m'.cam = m.cam, m'.dec = m.dec, m'.recv = m.recv, m'.mpCodecSend = m.mpCodecSend,
         m'.mpFileDecoder = m.mpFileDecoder, m'.mpCodecRecv = m.mpCodecRecv,
         m'.base = "loaded" \/ (m'.base = m.base /\ m'.mpFileEncoder = m.mpFileEncoder),
         gCodec # 0 => m'.enc = m.enc,
         gCodec # 0 /\ m.rtp["codec"] # "none" => m'.rtp["codec"] # "none"
  PROVE  Memory'
<1>1. UNCHANGED <<gCodec, codec, prod>>
  BY DEF codecVars
<1>2. MediaTypes' /\ CodecFacts'
  BY <1>1 DEF Memory, MediaTypes, CodecFacts, Running
<1>3. OwnerFacts'
  BY <1>1 DEF Memory, OwnerFacts
<1>4. FeedFacts'
  BY <1>1 DEF Memory, FeedFacts, Feeding, Running
<1> QED BY <1>2, <1>3, <1>4 DEF Memory

\* A step on the camera or on the pointer to the sender.
LEMMA CameraKeeps ==
  ASSUME Memory, UNCHANGED codecVars, m' \in Medias,
         m'.dec = m.dec, m'.recv = m.recv, m'.enc = m.enc,
         m'.mpFileDecoder = m.mpFileDecoder, m'.mpCodecRecv = m.mpCodecRecv,
         m'.mpFileEncoder = m.mpFileEncoder, m'.base = m.base,
         gCodec # 0 => m'.mpCodecSend = m.mpCodecSend /\ m'.rtp = m.rtp,
         m'.cam.preview => m'.mpCodecSend # 0 /\ m'.cam.lib /\ m'.cam.cam /\ Running,
         m'.cam.lib => m'.cam.ptr = "loaded"
  PROVE  Memory'
<1>1. UNCHANGED <<gCodec, codec, prod>>
  BY DEF codecVars
<1>2. MediaTypes' /\ CodecFacts'
  BY <1>1 DEF Memory, MediaTypes, CodecFacts, Running
<1>3. OwnerFacts'
  BY <1>1 DEF Memory, OwnerFacts
<1>4. FeedFacts'
  BY <1>1 DEF Memory, FeedFacts, Feeding, Running
<1> QED BY <1>2, <1>3, <1>4 DEF Memory

\* A step on decoder d, which is or becomes the one mpFileDecoder points to.
LEMMA DecoderKeeps ==
  ASSUME Memory, UNCHANGED codecVars, NEW d \in Life, NEW x \in Decs, m' \in Medias,
         m'.dec = [m.dec EXCEPT ![d] = x],
         m'.cam = m.cam, m'.recv = m.recv, m'.enc = m.enc, m'.rtp = m.rtp,
         m'.mpCodecSend = m.mpCodecSend, m'.mpCodecRecv = m.mpCodecRecv,
         m'.mpFileEncoder = m.mpFileEncoder, m'.base = m.base,
         \A e \in Life \ {d} : m.dec[e].file # "open",
         x.mbRunning => x.file = "open",
         x.file = "open" => m'.mpFileDecoder = d,
         x.file = "unused" => ~x.thread,
         x.file # "foreign",
         m.dec[d].thread => x.thread,
         x.mbRunning => m.dec[d].mbRunning \/ Running
  PROVE  Memory'
<1>1. UNCHANGED <<gCodec, codec, prod>>
  BY DEF codecVars
<1>2. MediaTypes' /\ CodecFacts' /\ OwnerFacts'
  BY <1>1 DEF Memory, MediaTypes, CodecFacts, OwnerFacts, Running
<1>3. m'.dec[d] = x /\ \A e \in Life \ {d} : m'.dec[e] = m.dec[e]
  BY DEF Memory, MediaTypes, Medias
<1>4. FeedFacts'
  <2>1. \A e \in Life : /\ m'.dec[e].mbRunning => m'.dec[e].file = "open"
                        /\ m'.dec[e].file = "open" => m'.mpFileDecoder = e
                        /\ Reader(e) \in Producer /\ prod'[Reader(e)].pc = "read" => m'.dec[e].thread
                        /\ m'.dec[e].file = "unused" => ~m'.dec[e].thread
                        /\ m'.dec[e].file # "foreign"
    BY <1>1, <1>3 DEF Memory, FeedFacts
  <2>2. Feeding' => Running
    BY <1>3 DEF Memory, FeedFacts, Feeding
  <2> QED BY <1>1, <2>1, <2>2 DEF Memory, FeedFacts, Running
<1> QED BY <1>2, <1>4 DEF Memory

\* A step on receiver r, which is or becomes the one mpCodecRecv points to.
LEMMA RecverKeeps ==
  ASSUME Memory, UNCHANGED codecVars, NEW r \in Life, NEW x \in Recvs, m' \in Medias,
         m'.recv = [m.recv EXCEPT ![r] = x],
         m'.cam = m.cam, m'.dec = m.dec, m'.enc = m.enc, m'.rtp = m.rtp,
         m'.mpCodecSend = m.mpCodecSend, m'.mpFileDecoder = m.mpFileDecoder,
         m'.mpFileEncoder = m.mpFileEncoder, m'.base = m.base,
         \A q \in Life \ {r} : ~m.recv[q].mRunning,
         x.mRunning => m'.mpCodecRecv = r /\ Running
  PROVE  Memory'
<1>1. UNCHANGED <<gCodec, codec, prod>>
  BY DEF codecVars
<1>2. MediaTypes' /\ CodecFacts' /\ OwnerFacts'
  BY <1>1 DEF Memory, MediaTypes, CodecFacts, OwnerFacts, Running
<1>3. m'.recv[r] = x /\ \A q \in Life \ {r} : m'.recv[q] = m.recv[q]
  BY DEF Memory, MediaTypes, Medias
<1>4. FeedFacts'
  BY <1>1, <1>3 DEF Memory, FeedFacts, Feeding, Running
<1> QED BY <1>2, <1>4 DEF Memory

-----------------------------------------------------------------------------
(* The caller: one step                                                    *)

\* What is let loose on the codec belongs to what the library points to.
LEMMA WhoFeeds ==
  ASSUME Memory
  PROVE  /\ m.mpCodecSend = 0 => ~m.cam.preview
         /\ \A d \in Life : m.dec[d].mbRunning => d = m.mpFileDecoder
         /\ \A r \in Life : m.recv[r].mRunning => r = m.mpCodecRecv
         /\ m.mpFileDecoder = 0 => \A d \in Life : ~m.dec[d].mbRunning
         /\ m.mpCodecRecv = 0 => \A r \in Life : ~m.recv[r].mRunning
BY Lives DEF Memory, FeedFacts


\* The name of a step says which action is taken.
LEMMA StepTaken ==
  ASSUME NEW s, s = Head(todo), UIStep
  PROVE  /\ s = "StartPlatform" => \E ok \in BOOLEAN : Trial(StartPlatform(ok), ok)
         /\ s = "BuildTables" => \E got \in SUBSET Tables : Trial(BuildTables(got), got = Tables)
         /\ s = "RunThread" => Api(RunThread)
         /\ s = "StopPlatform" => Api(StopPlatform)
         /\ s = "DeleteTables" => Api(DeleteTables)
         /\ s = "RequestExit" => Api(RequestExit)
         /\ s = "DropCodec" => Api(DropCodec)
         /\ s = "CreateForFile" => Api(Create)
         /\ s = "RegisterEncoder" => Api(RegisterBufferCall("encoder", m.mpFileEncoder))
         /\ s = "RegisterSender" => Api(RegisterBufferCall("sender", m.mpCodecSend))
         /\ s = "NewCodecSender" => NewCodecSender
         /\ s = "InitSession" => InitSession
         /\ s = "LoadCameraLib" => LoadCameraLib
         /\ s = "CameraSetup" => CameraSetup
         /\ s = "CreateForSender" => CreateForSender
         /\ s = "ConnectDest" => ConnectDest
         /\ s = "DeinitSession" => DeinitSession
         /\ s = "DeleteRtpSender" => DeleteRtpSender
         /\ s = "DeleteCodecSender" => DeleteCodecSender
         /\ s = "StartPreview" => StartPreview
         /\ s = "StopPreview" => StopPreview
         /\ s = "CameraRelease" => CameraRelease
         /\ s = "ReleaseLib" => ReleaseLib
         /\ s = "GetParameters" => GetParameters
         /\ s = "SetParameters" => SetParameters
         /\ s = "SetOrientation" => SetOrientation
         /\ s = "NewFileEncoder" => NewFileEncoder
         /\ s = "CloseEncoder" => CloseEncoder
         /\ s = "NewFileDecoder" => NewFileDecoder
         /\ s = "RunReader" => RunReader
         /\ s = "SetRunning" => SetRunning
         /\ s = "ClearRunning" => ClearRunning
         /\ s = "ExitReader" => ExitReader
         /\ s = "CloseDecoder" => CloseDecoder
         /\ s = "NewCodecRecver" => NewCodecRecver
         /\ s = "StartReceive" => StartReceive
         /\ s = "StopReceive" => StopReceive
         /\ s = "DeleteRecver" => DeleteRecver
         /\ s = "SenderCreate" => SenderCreate
         /\ s = "SenderConnect" => SenderConnect
         /\ s = "SenderDestroy" => SenderDestroy
         /\ s = "LoadBaseLib" => LoadBaseLib
         /\ s = "CallBaseLib" => CallBaseLib
<1>1. \/ CodecStep(s) \/ SenderStep(s) \/ CameraStep(s) \/ FileStep(s) \/ RecverStep(s) \/ RtpStep(s)
      \/ s = "LoadBaseLib" /\ LoadBaseLib
      \/ s = "CallBaseLib" /\ CallBaseLib
  BY DEF UIStep
<1> QED BY <1>1 DEF CodecStep, SenderStep, CameraStep, FileStep, RecverStep, RtpStep

-----------------------------------------------------------------------------
(* The caller: what each step on the library's objects changes             *)

\* The step went through and changed no field of m outside of F.
Went(F) ==
  /\ m' \in Medias /\ UNCHANGED <<codecVars, sound>> /\ todo' = Tail(todo)
  /\ "base" \notin F => m'.base = m.base
  /\ "cam" \notin F => m'.cam = m.cam
  /\ "mpCodecSend" \notin F => m'.mpCodecSend = m.mpCodecSend
  /\ "senders" \notin F => m'.senders = m.senders
  /\ "rtp" \notin F => m'.rtp = m.rtp
  /\ "mpFileEncoder" \notin F => m'.mpFileEncoder = m.mpFileEncoder
  /\ "enc" \notin F => m'.enc = m.enc
  /\ "mpFileDecoder" \notin F => m'.mpFileDecoder = m.mpFileDecoder
  /\ "dec" \notin F => m'.dec = m.dec
  /\ "mpCodecRecv" \notin F => m'.mpCodecRecv = m.mpCodecRecv
  /\ "recv" \notin F => m'.recv = m.recv

\* The caller stops here, and its call was not what it should be.
Returned == sound' = FALSE /\ fault' = fault

\* The camera's part of m.
LEMMA PutCam ==
  ASSUME Memory, NEW k \in Cams, Go([m EXCEPT !.cam = k])
  PROVE  Went({"cam"}) /\ m'.cam = k
BY DEF Went, Go, Memory, MediaTypes, Medias

\* The state of one of the two RtpSenders.
LEMMA PutRtp ==
  ASSUME Memory, NEW s \in {"codec", "jni"}, NEW k \in {"none", "new", "inited", "connected"},
         Go([m EXCEPT !.rtp[s] = k])
  PROVE  Went({"rtp"}) /\ m'.rtp = [m.rtp EXCEPT ![s] = k]
BY DEF Went, Go, Memory, MediaTypes, Medias

\* The pointer to a CodecSender and its RtpSender.
LEMMA PutSender ==
  ASSUME Memory, NEW n \in Nat, NEW p \in Nat, NEW k \in {"none", "new", "inited", "connected"},
         Go([m EXCEPT !.senders = n, !.mpCodecSend = p, !.rtp["codec"] = k])
  PROVE  /\ Went({"senders", "mpCodecSend", "rtp"}) /\ m'.senders = n /\ m'.mpCodecSend = p
         /\ m'.rtp = [m.rtp EXCEPT !["codec"] = k]
BY DEF Went, Go, Memory, MediaTypes, Medias

\* A FileEnCodec and the pointer to it.
LEMMA PutEncoder ==
  ASSUME Memory, NEW e \in Life, NEW p \in {0} \cup Life, NEW f \in {"unused", "open", "null", "closed"},
         Go([m EXCEPT !.mpFileEncoder = p, !.enc[e] = f])
  PROVE  /\ Went({"mpFileEncoder", "enc"}) /\ m'.mpFileEncoder = p
         /\ m'.enc = [m.enc EXCEPT ![e] = f]
BY DEF Went, Go, Memory, MediaTypes, Medias

\* A FileDeCodec and the pointer to it.
LEMMA PutDecoder ==
  ASSUME Memory, NEW d \in Life, NEW p \in {0} \cup Life, NEW x \in Decs,
         Go([m EXCEPT !.mpFileDecoder = p, !.dec[d] = x])
  PROVE  /\ Went({"mpFileDecoder", "dec"}) /\ m'.mpFileDecoder = p
         /\ m'.dec = [m.dec EXCEPT ![d] = x]
BY DEF Went, Go, Memory, MediaTypes, Medias

\* A CodecReceiver and the pointer to it.
LEMMA PutRecver ==
  ASSUME Memory, NEW r \in Life, NEW p \in {0} \cup Life, NEW x \in Recvs,
         Go([m EXCEPT !.mpCodecRecv = p, !.recv[r] = x])
  PROVE  /\ Went({"mpCodecRecv", "recv"}) /\ m'.mpCodecRecv = p
         /\ m'.recv = [m.recv EXCEPT ![r] = x]
BY DEF Went, Go, Memory, MediaTypes, Medias

\* On a release there is a library for, its pointers are there afterwards.
LEMMA LoadBaseLibDoes ==
  ASSUME Memory, sdk, LoadBaseLib
  PROVE  Went({"base"}) /\ m'.base = "loaded"
BY DEF LoadBaseLib, Went, Go, Memory, MediaTypes, Medias

\* A call through a pointer that was loaded.
LEMMA CallBaseLibDoes ==
  ASSUME Memory, m.base = "loaded", CallBaseLib
  PROVE  Went({}) /\ m' = m
BY DEF CallBaseLib, Went, Go, Memory, MediaTypes, Medias

\* A new CodecSender has a new RtpSender.
LEMMA NewCodecSenderDoes ==
  ASSUME Memory, NewCodecSender
  PROVE  /\ Went({"senders", "mpCodecSend", "rtp"})
         /\ m'.mpCodecSend # 0 /\ m'.senders # 0 /\ m'.rtp["codec"] # "none"
<1>1. m \in Medias /\ m.senders \in Nat
  BY DEF Memory, MediaTypes, Medias
<1>2. PICK n \in Nat : n = m.senders + 1 /\ n # 0
  BY <1>1
<1>3. Go([m EXCEPT !.senders = n, !.mpCodecSend = n, !.rtp["codec"] = "new"])
  BY <1>1, <1>2 DEF NewCodecSender
<1>4. m.rtp \in [{"codec", "jni"} -> {"none", "new", "inited", "connected"}]
  BY <1>1 DEF Medias
<1> QED BY <1>2, <1>3, <1>4, PutSender

\* initSession and connect keep the RtpSender, or StartCodecSender gives up.
LEMMA SessionDoes ==
  ASSUME Memory, InitSession \/ ConnectDest
  PROVE  Returned \/ (Went({"rtp"}) /\ m'.rtp["codec"] # "none")
<1>1. Returned \/ \E k \in {"inited", "connected"} : Go([m EXCEPT !.rtp["codec"] = k])
  BY DEF InitSession, ConnectDest, Return, Returned, codecVars
<1>2. m.rtp \in [{"codec", "jni"} -> {"none", "new", "inited", "connected"}]
  BY DEF Memory, MediaTypes, Medias
<1> QED BY <1>1, <1>2, PutRtp

\* dlopen answers, or StartCodecSender gives up.
LEMMA LoadCameraLibDoes ==
  ASSUME Memory, LoadCameraLib
  PROVE  Returned \/ (Went({"cam"}) /\ m'.cam = [m.cam EXCEPT !.lib = TRUE, !.ptr = "loaded"])
<1>1. m \in Medias /\ m.cam \in Cams
  BY DEF Memory, MediaTypes, Medias
<1>2. PICK k \in Cams : k = [m.cam EXCEPT !.lib = TRUE, !.ptr = "loaded"]
  BY <1>1 DEF Cams
<1>3. Returned \/ Go([m EXCEPT !.cam = k])
  BY <1>1, <1>2 DEF LoadCameraLib, Return, Returned, codecVars
<1> QED BY <1>2, <1>3, PutCam

\* The camera is there, or StartCodecSender gives up.
LEMMA CameraSetupDoes ==
  ASSUME Memory, CameraSetup
  PROVE  Returned \/ (Went({"cam"}) /\ m'.cam = [m.cam EXCEPT !.ctx = m.senders, !.cam = TRUE])
<1>1. m \in Medias /\ m.cam \in Cams /\ m.senders \in Nat
  BY DEF Memory, MediaTypes, Medias
<1>2. PICK k \in Cams : k = [m.cam EXCEPT !.ctx = m.senders, !.cam = TRUE]
  BY <1>1 DEF Cams
<1>3. Returned \/ Go([m EXCEPT !.cam = k])
  BY <1>1, <1>2 DEF CameraSetup, Return, Returned, codecVars
<1> QED BY <1>2, <1>3, PutCam

\* Frames come.
LEMMA StartPreviewDoes ==
  ASSUME Memory, StartPreview, m.cam.lib, m.cam.cam, m.cam.ctx # 0
  PROVE  Went({"cam"}) /\ m'.cam = [m.cam EXCEPT !.preview = TRUE]
<1>1. m \in Medias /\ m.cam \in Cams /\ m.cam.ptr = "loaded"
  BY DEF Memory, MediaTypes, Medias, FeedFacts
<1>2. PICK k \in Cams : k = [m.cam EXCEPT !.preview = TRUE]
  BY <1>1 DEF Cams
<1>3. Go([m EXCEPT !.cam = k])
  BY <1>1, <1>2 DEF StartPreview, ThroughCameraLib
<1> QED BY <1>2, <1>3, PutCam

\* Frames no longer come.
LEMMA StopPreviewDoes ==
  ASSUME Memory, StopPreview, m.cam.lib
  PROVE  Went({"cam"}) /\ m'.cam = [m.cam EXCEPT !.preview = FALSE]
<1>1. m \in Medias /\ m.cam \in Cams /\ m.cam.ptr = "loaded"
  BY DEF Memory, MediaTypes, Medias, FeedFacts
<1>2. PICK k \in Cams : k = [m.cam EXCEPT !.preview = FALSE]
  BY <1>1 DEF Cams
<1>3. Go([m EXCEPT !.cam = k])
  BY <1>1, <1>2 DEF StopPreview, ThroughCameraLib
<1> QED BY <1>2, <1>3, PutCam

\* The camera is let go, the library is still loaded.
LEMMA CameraReleaseDoes ==
  ASSUME Memory, CameraRelease, m.cam.lib
  PROVE  Went({"cam"}) /\ m'.cam.lib = m.cam.lib /\ m'.cam.ptr = m.cam.ptr /\ ~m'.cam.preview
<1>1. m \in Medias /\ m.cam \in Cams /\ m.cam.ptr = "loaded"
  BY DEF Memory, MediaTypes, Medias, FeedFacts
<1>2. PICK k \in Cams : k = [m.cam EXCEPT !.ctx = 0, !.cam = FALSE, !.preview = FALSE]
  BY <1>1 DEF Cams
<1>3. Go([m EXCEPT !.cam = k])
  BY <1>1, <1>2 DEF CameraRelease, ThroughCameraLib
<1>4. k.lib = m.cam.lib /\ k.ptr = m.cam.ptr /\ ~k.preview
  BY <1>1, <1>2 DEF Cams
<1> QED BY <1>3, <1>4, PutCam

\* dlclose.
LEMMA ReleaseLibDoes ==
  ASSUME Memory, ReleaseLib
  PROVE  Went({"cam"}) /\ m'.cam = [m.cam EXCEPT !.lib = FALSE]
<1>1. m \in Medias /\ m.cam \in Cams
  BY DEF Memory, MediaTypes, Medias
<1>2. PICK k \in Cams : k = [m.cam EXCEPT !.lib = FALSE]
  BY <1>1 DEF Cams
<1>3. Go([m EXCEPT !.cam = k])
  BY <1>1, <1>2 DEF ReleaseLib
<1> QED BY <1>2, <1>3, PutCam

\* deinitSession keeps the RtpSender.
LEMMA DeinitSessionDoes ==
  ASSUME Memory, DeinitSession
  PROVE  Went({"rtp"}) /\ m'.rtp["codec"] # "none"
<1>1. Go([m EXCEPT !.rtp["codec"] = "new"])
  BY DEF DeinitSession
<1>2. m.rtp \in [{"codec", "jni"} -> {"none", "new", "inited", "connected"}]
  BY DEF Memory, MediaTypes, Medias
<1> QED BY <1>1, <1>2, PutRtp

\* The RtpSender is deleted.
LEMMA DeleteRtpSenderDoes ==
  ASSUME Memory, DeleteRtpSender
  PROVE  Went({"rtp"})
<1>1. Go([m EXCEPT !.rtp["codec"] = "none"])
  BY DEF DeleteRtpSender
<1> QED BY <1>1, PutRtp

\* The CodecSender is deleted.
LEMMA DeleteCodecSenderDoes ==
  ASSUME Memory, DeleteCodecSender
  PROVE  Went({"mpCodecSend"}) /\ m'.mpCodecSend = 0
BY DEF DeleteCodecSender, Went, Go, Memory, MediaTypes, Medias

\* The camera answers as long as the sender is there.
LEMMA ParametersDo ==
  ASSUME Memory, SenderReady, GetParameters \/ SetParameters \/ SetOrientation
  PROVE  Went({}) /\ m' = m
<1>1. m \in Medias /\ m.cam.ptr = "loaded" /\ m.cam.lib /\ m.cam.cam
  BY DEF Memory, MediaTypes, FeedFacts, SenderReady
<1>2. Go(m)
  BY <1>1 DEF GetParameters, SetParameters, SetOrientation, ThroughCameraLib
<1> QED BY <1>1, <1>2 DEF Went, Go

\* The stand-alone RtpSender is another one.
LEMMA JniSenderDoes ==
  ASSUME Memory, SenderCreate \/ SenderConnect \/ SenderDestroy
  PROVE  Went({"rtp"}) /\ m'.rtp["codec"] = m.rtp["codec"]
<1>1. m.rtp \in [{"codec", "jni"} -> {"none", "new", "inited", "connected"}]
  BY DEF Memory, MediaTypes, Medias
<1>2. PICK k \in {"none", "new", "inited", "connected"} : Go([m EXCEPT !.rtp["jni"] = k])
  BY <1>1 DEF SenderCreate, SenderConnect, SenderDestroy
<1> QED BY <1>1, <1>2, PutRtp, Zenon

-----------------------------------------------------------------------------
(* The caller: the entry points, step by step                              *)

\* A step of the caller dies of nothing, and leaves all in order unless it was a
\* start that did not work.
StepOutcome == fault' = fault /\ (sound' => Memory' /\ Stages')

\* StartCodecSender makes the sender, its camera and the codec.
LEMMA StartingSenderStep ==
  ASSUME Memory, sdk, NEW i \in 1..9, todo = Rest(StartCodecSender, i), StartingSender(i), UIStep
  PROVE  StepOutcome
<1>1. todo # <<>> /\ Head(todo) = StartCodecSender[i] /\ Tail(todo) = Rest(StartCodecSender, i + 1)
  BY RestSteps, StartCodecSenderSteps
<1>2. /\ i = 1 => LoadBaseLib
      /\ i = 2 => CallBaseLib
      /\ i = 3 => NewCodecSender
      /\ i = 4 => InitSession
      /\ i = 5 => LoadCameraLib
      /\ i = 6 => CameraSetup
      /\ i = 7 => CreateForSender
      /\ i = 8 => Api(RegisterBufferCall("sender", m.mpCodecSend))
      /\ i = 9 => ConnectDest
  BY <1>1, StepTaken, StartCodecSenderSteps
<1>3. ASSUME i < 9, todo' = Tail(todo), StartingSender(i + 1)'
      PROVE  Stages'
  <2>1. i + 1 \in 1..9 /\ todo' = Rest(StartCodecSender, i + 1)
    BY <1>1, <1>3
  <2> QED BY <1>3, <2>1 DEF Stages
<1>4. ASSUME i = 9, todo' = Tail(todo), Settled'
      PROVE  Stages'
  BY <1>1, <1>4, RestEnds, StartCodecSenderSteps DEF Stages
<1>5. Exclusive("sender") /\ ~m.cam.preview /\ ((i <= 7) <=> (gCodec = 0))
  BY DEF StartingSender
<1>6. CASE i = 1
  <2>1. Went({"base"}) /\ m'.base = "loaded"
    BY <1>2, <1>6, LoadBaseLibDoes
  <2>2. Memory'
    BY <2>1, PrivateKeeps DEF Went
  <2>3. StartingSender(i + 1)'
    BY <1>5, <1>6, <2>1 DEF Went, codecVars, StartingSender, Exclusive, EncOn
  <2> QED BY <1>3, <1>6, <2>1, <2>2, <2>3 DEF StepOutcome, Went, codecVars
<1>7. CASE i = 2
  <2>1. Went({}) /\ m' = m
    BY <1>2, <1>7, CallBaseLibDoes DEF StartingSender
  <2>2. Memory'
    BY <2>1, PrivateKeeps DEF Went
  <2>3. StartingSender(i + 1)'
    BY <1>5, <1>7, <2>1 DEF Went, codecVars, StartingSender, Exclusive, EncOn
  <2> QED BY <1>3, <1>7, <2>1, <2>2, <2>3 DEF StepOutcome, Went, codecVars
<1>8. CASE i = 3
  <2>1. /\ Went({"senders", "mpCodecSend", "rtp"})
        /\ m'.mpCodecSend # 0 /\ m'.senders # 0 /\ m'.rtp["codec"] # "none"
    BY <1>2, <1>8, NewCodecSenderDoes
  <2>2. Memory'
    <3>1. m.cam.lib => m.cam.ptr = "loaded"
      BY DEF Memory, FeedFacts
    <3> QED BY <1>5, <1>8, <2>1, <3>1, CameraKeeps DEF Went
  <2>3. StartingSender(i + 1)'
    BY <1>5, <1>8, <2>1 DEF Went, codecVars, StartingSender, Exclusive, EncOn
  <2> QED BY <1>3, <1>8, <2>1, <2>2, <2>3 DEF StepOutcome, Went, codecVars
<1>9. CASE i = 4
  <2>1. Returned \/ (Went({"rtp"}) /\ m'.rtp["codec"] # "none")
    BY <1>2, <1>9, SessionDoes
  <2>2. ASSUME ~Returned PROVE Memory' /\ StartingSender(i + 1)'
    <3>1. Memory'
      BY <1>5, <1>9, <2>1, <2>2, PrivateKeeps DEF Went
    <3>2. StartingSender(i + 1)'
      BY <1>5, <1>9, <2>1, <2>2 DEF Went, codecVars, StartingSender, Exclusive, EncOn
    <3> QED BY <3>1, <3>2
  <2>3. CASE Returned
    BY <2>3 DEF Returned, StepOutcome
  <2>4. CASE ~Returned
    BY <1>3, <1>9, <2>1, <2>2, <2>4 DEF StepOutcome, Went, codecVars
  <2> QED BY <2>3, <2>4
<1>10. CASE i = 5
  <2>1. Returned \/ (Went({"cam"}) /\ m'.cam = [m.cam EXCEPT !.lib = TRUE, !.ptr = "loaded"])
    BY <1>2, <1>10, LoadCameraLibDoes
  <2>2. ASSUME ~Returned PROVE Memory' /\ StartingSender(i + 1)'
    <3>1. m.cam \in Cams
      BY DEF Memory, MediaTypes, Medias
    <3>2. m'.cam.lib /\ m'.cam.ptr = "loaded" /\ m'.cam.preview = m.cam.preview
      BY <2>1, <2>2, <3>1 DEF Cams
    <3>3. Memory'
      BY <1>5, <2>1, <2>2, <3>2, CameraKeeps DEF Went
    <3>4. StartingSender(i + 1)'
      BY <1>5, <1>10, <2>1, <2>2, <3>2 DEF Went, codecVars, StartingSender, Exclusive, EncOn
    <3> QED BY <3>3, <3>4
  <2>3. CASE Returned
    BY <2>3 DEF Returned, StepOutcome
  <2>4. CASE ~Returned
    BY <1>3, <1>10, <2>1, <2>2, <2>4 DEF StepOutcome, Went, codecVars
  <2> QED BY <2>3, <2>4
<1>11. CASE i = 6
  <2>1. Returned \/ (Went({"cam"}) /\ m'.cam = [m.cam EXCEPT !.ctx = m.senders, !.cam = TRUE])
    BY <1>2, <1>11, CameraSetupDoes
  <2>2. ASSUME ~Returned PROVE Memory' /\ StartingSender(i + 1)'
    <3>1. m.cam \in Cams
      BY DEF Memory, MediaTypes, Medias
    <3>2. /\ m'.cam.lib = m.cam.lib /\ m'.cam.ptr = m.cam.ptr /\ m'.cam.preview = m.cam.preview
          /\ m'.cam.cam /\ m'.cam.ctx = m.senders
      BY <2>1, <2>2, <3>1 DEF Cams
    <3>3. m.cam.lib => m.cam.ptr = "loaded"
      BY DEF Memory, FeedFacts
    <3>4. Memory'
      BY <1>5, <2>1, <2>2, <3>2, <3>3, CameraKeeps DEF Went
    <3>5. StartingSender(i + 1)'
      BY <1>5, <1>11, <2>1, <2>2, <3>2 DEF Went, codecVars, StartingSender, Exclusive, EncOn, SenderReady
    <3> QED BY <3>4, <3>5
  <2>3. CASE Returned
    BY <2>3 DEF Returned, StepOutcome
  <2>4. CASE ~Returned
    BY <1>3, <1>11, <2>1, <2>2, <2>4 DEF StepOutcome, Went, codecVars
  <2> QED BY <2>3, <2>4
<1>12. CASE i = 7
  <2>1. Api(Create)
    BY <1>2, <1>5, <1>12 DEF CreateForSender
  <2>2. Memory' /\ CodecStart(1)' /\ OnTheCodec
    BY <1>5, <1>12, <2>1, CreateKeeps
  <2>3. StartingSender(i + 1)'
    BY <1>5, <1>12, <2>2 DEF OnTheCodec, CodecStart, StartingSender, Exclusive, EncOn, SenderReady
  <2> QED BY <1>3, <1>12, <2>2, <2>3 DEF StepOutcome, OnTheCodec
<1>13. CASE i = 8
  <2>1. CodecStart(1)
    BY <1>5, <1>13 DEF StartingSender, CodecStart
  <2>2. m.mpCodecSend \in Int
    BY DEF Memory, MediaTypes, Medias
  <2>3. Memory' /\ CodecStart(1)' /\ OnTheCodec /\ gCodec' = gCodec
    BY <1>2, <1>13, <2>1, <2>2, RegisterKeeps DEF StartingSender
  <2>4. StartingSender(i + 1)'
    BY <1>5, <1>13, <2>3 DEF OnTheCodec, CodecStart, StartingSender, Exclusive, EncOn, SenderReady
  <2> QED BY <1>3, <1>13, <2>3, <2>4 DEF StepOutcome, OnTheCodec
<1>14. CASE i = 9
  <2>1. Returned \/ (Went({"rtp"}) /\ m'.rtp["codec"] # "none")
    BY <1>2, <1>14, SessionDoes
  <2>2. ASSUME ~Returned PROVE Memory' /\ Settled'
    <3>1. Memory'
      BY <1>5, <1>14, <2>1, <2>2, PrivateKeeps DEF Went
    <3>2. Settled'
      BY <1>5, <1>14, <2>1, <2>2
      DEF Went, codecVars, StartingSender, Settled, Exclusive, EncOn, SenderReady
    <3> QED BY <3>1, <3>2
  <2>3. CASE Returned
    BY <2>3 DEF Returned, StepOutcome
  <2>4. CASE ~Returned
    BY <1>4, <1>14, <2>1, <2>2, <2>4 DEF StepOutcome, Went, codecVars
  <2> QED BY <2>3, <2>4
<1> QED BY <1>6, <1>7, <1>8, <1>9, <1>10, <1>11, <1>12, <1>13, <1>14

\* StartCameraVideo starts the codec, then the preview.
LEMMA StartingCameraStep ==
  ASSUME Memory, sdk, NEW i \in 1..4, todo = Rest(StartCameraVideo, i), StartingCamera(i), UIStep
  PROVE  StepOutcome
<1>1. todo # <<>> /\ Head(todo) = StartCameraVideo[i] /\ Tail(todo) = Rest(StartCameraVideo, i + 1)
  BY RestSteps, StartCameraVideoSteps
<1>2. /\ i = 1 => \E ok \in BOOLEAN : Trial(StartPlatform(ok), ok)
      /\ i = 2 => \E got \in SUBSET Tables : Trial(BuildTables(got), got = Tables)
      /\ i = 3 => Api(RunThread)
      /\ i = 4 => StartPreview
  BY <1>1, StepTaken, StartCameraVideoSteps
<1>3. ASSUME i < 4, todo' = Tail(todo), StartingCamera(i + 1)'
      PROVE  Stages'
  <2>1. i + 1 \in 1..4 /\ todo' = Rest(StartCameraVideo, i + 1)
    BY <1>1, <1>3
  <2> QED BY <1>3, <2>1, Zenon DEF Stages
<1>4. ASSUME i = 4, todo' = Tail(todo), Settled'
      PROVE  Stages'
  BY <1>1, <1>4, RestEnds, StartCameraVideoSteps DEF Stages
<1>5. Exclusive("sender") /\ SenderReady /\ CodecStart(i)
  BY DEF StartingCamera
<1>6. CASE i = 1
  <2>1. CodecStart(1)
    BY <1>5, <1>6 DEF CodecStart
  <2>2. fault' = fault /\ (sound' => Memory' /\ CodecStart(2)' /\ OnTheCodec /\ gCodec' = gCodec)
    BY <1>2, <1>6, <2>1, StartPlatformKeeps
  <2>3. ASSUME sound' PROVE StartingCamera(i + 1)'
    BY <1>5, <1>6, <2>2, <2>3 DEF OnTheCodec, CodecStart, StartingCamera, Exclusive, EncOn, SenderReady
  <2> QED BY <1>3, <1>6, <2>2, <2>3 DEF StepOutcome, OnTheCodec
<1>7. CASE i = 2
  <2>1. CodecStart(2)
    BY <1>5, <1>7 DEF CodecStart
  <2>2. fault' = fault /\ (sound' => Memory' /\ CodecStart(3)' /\ OnTheCodec /\ gCodec' = gCodec)
    BY <1>2, <1>7, <2>1, BuildTablesKeeps
  <2>3. ASSUME sound' PROVE StartingCamera(i + 1)'
    BY <1>5, <1>7, <2>2, <2>3 DEF OnTheCodec, CodecStart, StartingCamera, Exclusive, EncOn, SenderReady
  <2> QED BY <1>3, <1>7, <2>2, <2>3 DEF StepOutcome, OnTheCodec
<1>8. CASE i = 3
  <2>1. CodecStart(3)
    BY <1>5, <1>8 DEF CodecStart
  <2>2. Memory' /\ CodecStart(4)' /\ OnTheCodec /\ gCodec' = gCodec
    BY <1>2, <1>8, <2>1, RunThreadKeeps
  <2>3. StartingCamera(i + 1)'
    BY <1>5, <1>8, <2>2 DEF OnTheCodec, CodecStart, StartingCamera, Exclusive, EncOn, SenderReady
  <2> QED BY <1>3, <1>8, <2>2, <2>3 DEF StepOutcome, OnTheCodec
<1>9. CASE i = 4
  <2>1. Went({"cam"}) /\ m'.cam = [m.cam EXCEPT !.preview = TRUE]
    BY <1>2, <1>5, <1>9, StartPreviewDoes DEF SenderReady
  <2>2. m.cam \in Cams /\ (m.cam.lib => m.cam.ptr = "loaded")
    BY DEF Memory, MediaTypes, Medias, FeedFacts
  <2>3. /\ m'.cam.lib = m.cam.lib /\ m'.cam.ptr = m.cam.ptr /\ m'.cam.cam = m.cam.cam
        /\ m'.cam.ctx = m.cam.ctx
    BY <2>1, <2>2 DEF Cams
  <2>4. Memory'
    BY <1>5, <1>9, <2>1, <2>2, <2>3, CameraKeeps DEF Went, SenderReady, CodecStart, Running
  <2>5. Settled'
    BY <1>5, <1>9, <2>1, <2>3
    DEF Went, codecVars, Settled, Exclusive, EncOn, SenderReady, CodecStart
  <2> QED BY <1>4, <1>9, <2>1, <2>4, <2>5 DEF StepOutcome, Went, codecVars
<1> QED BY <1>6, <1>7, <1>8, <1>9

\* StopCodecSender takes apart the preview, the codec, the camera and the sender.
LEMMA StoppingSenderStep ==
  ASSUME Memory, sdk, NEW i \in 1..10, todo = Rest(StopCodecSender, i), StoppingSender(i), UIStep
  PROVE  StepOutcome
<1>1. todo # <<>> /\ Head(todo) = StopCodecSender[i] /\ Tail(todo) = Rest(StopCodecSender, i + 1)
  BY RestSteps, StopCodecSenderSteps, Zenon
<1>2. /\ i = 1 => StopPreview
      /\ i = 2 => Api(StopPlatform)
      /\ i = 3 => Api(DeleteTables)
      /\ i = 4 => Api(RequestExit)
      /\ i = 5 => Api(DropCodec)
      /\ i = 6 => CameraRelease
      /\ i = 7 => ReleaseLib
      /\ i = 8 => DeinitSession
      /\ i = 9 => DeleteRtpSender
      /\ i = 10 => DeleteCodecSender
  BY <1>1, StepTaken, StopCodecSenderSteps
<1>3. ASSUME i < 10, todo' = Tail(todo), StoppingSender(i + 1)'
      PROVE  Stages'
  <2>1. i + 1 \in 1..10 /\ todo' = Rest(StopCodecSender, i + 1)
    BY <1>1, <1>3
  <2> QED BY <1>3, <2>1 DEF Stages
<1>4. ASSUME i = 10, todo' = Tail(todo), Settled'
      PROVE  Stages'
  BY <1>1, <1>4, RestEnds, StopCodecSenderSteps DEF Stages
<1>5. Exclusive("sender") /\ CodecStop(i - 1) /\ (i >= 2 => ~m.cam.preview) /\ (i <= 7 => m.cam.lib)
  BY DEF StoppingSender
<1>6. m.cam \in Cams /\ (m.cam.lib => m.cam.ptr = "loaded")
  BY DEF Memory, MediaTypes, Medias, FeedFacts
<1>7. CASE i = 1
  <2>1. Went({"cam"}) /\ m'.cam = [m.cam EXCEPT !.preview = FALSE]
    BY <1>2, <1>5, <1>7, StopPreviewDoes
  <2>2. m'.cam.lib = m.cam.lib /\ m'.cam.ptr = m.cam.ptr /\ ~m'.cam.preview
    BY <1>6, <2>1 DEF Cams
  <2>3. Memory'
    BY <1>6, <2>1, <2>2, CameraKeeps DEF Went
  <2>4. StoppingSender(i + 1)'
    BY <1>5, <1>7, <2>1, <2>2 DEF Went, codecVars, StoppingSender, Exclusive, EncOn, CodecStop
  <2> QED BY <1>3, <1>7, <2>1, <2>3, <2>4 DEF StepOutcome, Went, codecVars
<1>8. CASE i = 2
  <2>1. CodecStop(1)
    BY <1>5, <1>8 DEF CodecStop
  <2>2. ~Feeding
    BY <1>5, <1>8, WhoFeeds DEF Feeding, Exclusive
  <2>3. Memory' /\ CodecStop(2)' /\ OnTheCodec /\ gCodec' = gCodec
    BY <1>2, <1>8, <2>1, <2>2, StopPlatformKeeps
  <2>4. StoppingSender(i + 1)'
    BY <1>5, <1>8, <2>3 DEF OnTheCodec, CodecStop, StoppingSender, Exclusive, EncOn
  <2> QED BY <1>3, <1>8, <2>3, <2>4 DEF StepOutcome, OnTheCodec
<1>9. CASE i = 3
  <2>1. CodecStop(2)
    BY <1>5, <1>9 DEF CodecStop
  <2>2. Memory' /\ CodecStop(3)' /\ OnTheCodec /\ gCodec' = gCodec
    BY <1>2, <1>9, <2>1, DeleteTablesKeeps
  <2>3. StoppingSender(i + 1)'
    BY <1>5, <1>9, <2>2 DEF OnTheCodec, CodecStop, StoppingSender, Exclusive, EncOn
  <2> QED BY <1>3, <1>9, <2>2, <2>3 DEF StepOutcome, OnTheCodec
<1>10. CASE i = 4
  <2>1. CodecStop(3)
    BY <1>5, <1>10 DEF CodecStop
  <2>2. Memory' /\ CodecStop(4)' /\ OnTheCodec /\ gCodec' = gCodec
    BY <1>2, <1>10, <2>1, RequestExitKeeps
  <2>3. StoppingSender(i + 1)'
    BY <1>5, <1>10, <2>2 DEF OnTheCodec, CodecStop, StoppingSender, Exclusive, EncOn
  <2> QED BY <1>3, <1>10, <2>2, <2>3 DEF StepOutcome, OnTheCodec
<1>11. CASE i = 5
  <2>1. CodecStop(4)
    BY <1>5, <1>11 DEF CodecStop
  <2>2. Memory' /\ CodecStop(5)' /\ OnTheCodec /\ gCodec' = 0
    BY <1>2, <1>11, <2>1, DropCodecKeeps
  <2>3. StoppingSender(i + 1)'
    BY <1>5, <1>11, <2>2 DEF OnTheCodec, CodecStop, StoppingSender, Exclusive, EncOn
  <2> QED BY <1>3, <1>11, <2>2, <2>3 DEF StepOutcome, OnTheCodec
<1>12. CASE i = 6
  <2>1. Went({"cam"}) /\ m'.cam.lib = m.cam.lib /\ m'.cam.ptr = m.cam.ptr /\ ~m'.cam.preview
    BY <1>2, <1>5, <1>12, CameraReleaseDoes
  <2>2. ~m'.cam.preview
    BY <1>6, <2>1
  <2>3. Memory'
    BY <1>5, <1>6, <1>12, <2>1, <2>2, CameraKeeps DEF Went
  <2>4. StoppingSender(i + 1)'
    BY <1>5, <1>12, <2>1, <2>2 DEF Went, codecVars, StoppingSender, Exclusive, EncOn, CodecStop
  <2> QED BY <1>3, <1>12, <2>1, <2>3, <2>4 DEF StepOutcome, Went, codecVars
<1>13. CASE i = 7
  <2>1. Went({"cam"}) /\ m'.cam = [m.cam EXCEPT !.lib = FALSE]
    BY <1>2, <1>5, <1>13, ReleaseLibDoes
  <2>2. ~m'.cam.lib /\ m'.cam.preview = m.cam.preview
    BY <1>6, <2>1 DEF Cams
  <2>3. Memory'
    BY <1>5, <1>6, <1>13, <2>1, <2>2, CameraKeeps DEF Went
  <2>4. StoppingSender(i + 1)'
    BY <1>5, <1>13, <2>1, <2>2 DEF Went, codecVars, StoppingSender, Exclusive, EncOn, CodecStop
  <2> QED BY <1>3, <1>13, <2>1, <2>3, <2>4 DEF StepOutcome, Went, codecVars
<1>14. CASE i = 8
  <2>1. Went({"rtp"}) /\ m'.rtp["codec"] # "none"
    BY <1>2, <1>14, DeinitSessionDoes
  <2>2. Memory'
    BY <2>1, PrivateKeeps DEF Went
  <2>3. StoppingSender(i + 1)'
    BY <1>5, <1>14, <2>1 DEF Went, codecVars, StoppingSender, Exclusive, EncOn, CodecStop
  <2> QED BY <1>3, <1>14, <2>1, <2>2, <2>3 DEF StepOutcome, Went, codecVars
<1>15. CASE i = 9
  <2>1. Went({"rtp"})
    BY <1>2, <1>15, DeleteRtpSenderDoes
  <2>2. gCodec = 0
    BY <1>5, <1>15 DEF CodecStop
  <2>3. Memory'
    BY <2>1, <2>2, PrivateKeeps DEF Went
  <2>4. StoppingSender(i + 1)'
    BY <1>5, <1>15, <2>1 DEF Went, codecVars, StoppingSender, Exclusive, EncOn, CodecStop
  <2> QED BY <1>3, <1>15, <2>1, <2>3, <2>4 DEF StepOutcome, Went, codecVars
<1>16. CASE i = 10
  <2>1. Went({"mpCodecSend"}) /\ m'.mpCodecSend = 0
    BY <1>2, <1>16, DeleteCodecSenderDoes
  <2>2. gCodec = 0 /\ ~m.cam.preview
    BY <1>5, <1>16 DEF CodecStop
  <2>3. Memory'
    BY <1>6, <2>1, <2>2, CameraKeeps DEF Went
  <2>4. Settled'
    BY <1>5, <2>1, <2>2 DEF Went, codecVars, Settled, Exclusive, EncOn, EncReady, DecReady, CodecStop
  <2> QED BY <1>4, <1>16, <2>1, <2>3, <2>4 DEF StepOutcome, Went, codecVars
<1> QED BY <1>7, <1>8, <1>9, <1>10, <1>11, <1>12, <1>13, <1>14, <1>15, <1>16

\* The file was opened, or the start did not work.
LEMMA NewFileEncoderDoes ==
  ASSUME Memory, sound = TRUE, NewFileEncoder
  PROVE  fault' = fault /\ (sound' => Went({"mpFileEncoder", "enc"}) /\ EncReady')
<1>1. PICK e \in Life, f \in {"open", "null"} :
        /\ m' = [m EXCEPT !.mpFileEncoder = e, !.enc[e] = f] /\ sound' = (f = "open")
        /\ todo' = Tail(todo) /\ UNCHANGED codecVars
  BY DEF NewFileEncoder, Fresh
<1>2. ASSUME sound' PROVE Went({"mpFileEncoder", "enc"}) /\ EncReady'
  <2>1. f = "open" /\ sound' = TRUE
    BY <1>1, <1>2
  <2>2. Go([m EXCEPT !.mpFileEncoder = e, !.enc[e] = "open"])
    BY <1>1, <2>1 DEF Go
  <2>3. /\ Went({"mpFileEncoder", "enc"}) /\ m'.mpFileEncoder = e
        /\ m'.enc = [m.enc EXCEPT ![e] = "open"]
    BY <2>2, PutEncoder
  <2>4. m.enc \in [Life -> {"unused", "open", "null", "closed"}]
    BY DEF Memory, MediaTypes, Medias
  <2> QED BY <2>3, <2>4, Lives DEF EncReady
<1> QED BY <1>1, <1>2 DEF codecVars

\* fclose gets a file that is open.
LEMMA CloseEncoderDoes ==
  ASSUME Memory, EncReady, CloseEncoder
  PROVE  Went({"mpFileEncoder", "enc"}) /\ ~EncOn'
<1>1. m \in Medias /\ m.mpFileEncoder \in Life /\ m.enc \in [Life -> {"unused", "open", "null", "closed"}]
  BY DEF EncReady, Memory, MediaTypes, Medias
<1>2. PICK e \in Life : e = m.mpFileEncoder
  BY <1>1
<1>3. Go([m EXCEPT !.enc[e] = "closed"])
  BY <1>2 DEF CloseEncoder, EncReady
<1>4. [m EXCEPT !.enc[e] = "closed"] = [m EXCEPT !.mpFileEncoder = e, !.enc[e] = "closed"]
  BY <1>1, <1>2 DEF Medias
<1>5. Went({"mpFileEncoder", "enc"}) /\ m'.mpFileEncoder = e /\ m'.enc = [m.enc EXCEPT ![e] = "closed"]
  BY <1>3, <1>4, PutEncoder
<1> QED BY <1>1, <1>5 DEF EncOn

\* The file was opened, or the start did not work; no thread reads it yet.
LEMMA NewFileDecoderDoes ==
  ASSUME Memory, sound = TRUE, m.mpFileDecoder = 0, NewFileDecoder
  PROVE  /\ fault' = fault
         /\ sound' => /\ Went({"mpFileDecoder", "dec"}) /\ DecReady' /\ Memory'
                      /\ ~m'.dec[m'.mpFileDecoder].thread /\ ~m'.dec[m'.mpFileDecoder].mbRunning
<1>1. PICK d \in Life, f \in {"open", "foreign", "null"} :
        /\ m.dec[d].file = "unused"
        /\ m' = [m EXCEPT !.mpFileDecoder = d, !.dec[d].file = f] /\ sound' = (f = "open")
        /\ todo' = Tail(todo) /\ UNCHANGED codecVars
  BY DEF NewFileDecoder, Fresh
<1>2. ASSUME sound'
      PROVE  /\ Went({"mpFileDecoder", "dec"}) /\ DecReady' /\ Memory'
             /\ ~m'.dec[m'.mpFileDecoder].thread /\ ~m'.dec[m'.mpFileDecoder].mbRunning
  <2>1. f = "open" /\ sound' = TRUE
    BY <1>1, <1>2
  <2>2. m \in Medias /\ m.dec \in [Life -> Decs]
    BY DEF Memory, MediaTypes, Medias
  <2>3. PICK x \in Decs : x = [m.dec[d] EXCEPT !.file = "open"]
    BY <2>2 DEF Decs
  <2>4. /\ x.file = "open" /\ x.thread = m.dec[d].thread /\ x.mbRunning = m.dec[d].mbRunning
        /\ ~m.dec[d].thread /\ ~m.dec[d].mbRunning
    BY <1>1, <2>2, <2>3 DEF Decs, Memory, FeedFacts
  <2>5. Go([m EXCEPT !.mpFileDecoder = d, !.dec[d] = x])
    BY <1>1, <2>1, <2>2, <2>3 DEF Go, Medias
  <2>6. Went({"mpFileDecoder", "dec"}) /\ m'.mpFileDecoder = d /\ m'.dec = [m.dec EXCEPT ![d] = x]
    BY <2>5, PutDecoder
  <2>7. m'.dec[d] = x
    BY <2>2, <2>6
  <2>8. \A e \in Life \ {d} : m.dec[e].file # "open"
    BY Lives DEF Memory, FeedFacts
  <2>9. Memory'
    BY <1>1, <2>4, <2>6, <2>8, DecoderKeeps DEF Went
  <2> QED BY <2>4, <2>6, <2>7, <2>9, Lives DEF DecReady
<1> QED BY <1>1, <1>2 DEF codecVars

\* What the caller does to the decoder mpFileDecoder points to.
LEMMA DecoderDoes ==
  ASSUME Memory, DecReady, NEW x \in Decs, NEW d \in Life, d = m.mpFileDecoder,
         \/ Go([m EXCEPT !.dec[d] = x]) /\ x.file = "open"
         \/ Go([m EXCEPT !.mpFileDecoder = 0, !.dec[d] = x]) /\ x.file = "closed",
         x.mbRunning => x.file = "open",
         m.dec[d].thread => x.thread,
         x.mbRunning => m.dec[d].mbRunning \/ Running
  PROVE  Went({"mpFileDecoder", "dec"}) /\ Memory' /\ m'.dec[d] = x
         /\ m'.mpFileDecoder = (IF x.file = "open" THEN d ELSE 0)
<1>1. m \in Medias /\ m.dec \in [Life -> Decs]
  BY DEF Memory, MediaTypes, Medias
<1>2. PICK p \in {0} \cup Life : p = IF x.file = "open" THEN d ELSE 0
  OBVIOUS
<1>3. Go([m EXCEPT !.mpFileDecoder = p, !.dec[d] = x])
  <2>1. [m EXCEPT !.dec[d] = x] = [m EXCEPT !.mpFileDecoder = d, !.dec[d] = x]
    BY <1>1 DEF Medias
  <2> QED BY <1>2, <2>1
<1>4. Went({"mpFileDecoder", "dec"}) /\ m'.mpFileDecoder = p /\ m'.dec = [m.dec EXCEPT ![d] = x]
  BY <1>3, PutDecoder
<1>5. \A e \in Life \ {d} : m.dec[e].file # "open"
  BY DEF Memory, FeedFacts
<1>6. m.dec[d].file = "open" /\ x.file \in {"open", "closed"}
  BY DEF DecReady
<1>7. Memory'
  BY <1>2, <1>4, <1>5, <1>6, DecoderKeeps DEF Went
<1> QED BY <1>1, <1>2, <1>4, <1>7

\* StartFileEncoder opens the file and starts a codec that writes to it.
LEMMA StartingEncoderStep ==
  ASSUME Memory, sdk, sound = TRUE, NEW i \in 1..8, todo = Rest(StartFileEncoder, i), StartingEncoder(i), UIStep
  PROVE  StepOutcome
<1>1. todo # <<>> /\ Head(todo) = StartFileEncoder[i] /\ Tail(todo) = Rest(StartFileEncoder, i + 1)
  BY RestSteps, StartFileEncoderSteps
<1>2. /\ i = 1 => LoadBaseLib
      /\ i = 2 => CallBaseLib
      /\ i = 3 => NewFileEncoder
      /\ i = 4 => Api(Create)
      /\ i = 5 => Api(RegisterBufferCall("encoder", m.mpFileEncoder))
      /\ i = 6 => \E ok \in BOOLEAN : Trial(StartPlatform(ok), ok)
      /\ i = 7 => \E got \in SUBSET Tables : Trial(BuildTables(got), got = Tables)
      /\ i = 8 => Api(RunThread)
  BY <1>1, StepTaken, StartFileEncoderSteps
<1>3. ASSUME i < 8, todo' = Tail(todo), StartingEncoder(i + 1)'
      PROVE  Stages'
  <2>1. i + 1 \in 1..8 /\ todo' = Rest(StartFileEncoder, i + 1)
    BY <1>1, <1>3
  <2> QED BY <1>3, <2>1 DEF Stages
<1>4. ASSUME i = 8, todo' = Tail(todo), Settled'
      PROVE  Stages'
  BY <1>1, <1>4, RestEnds, StartFileEncoderSteps DEF Stages
<1>5. /\ Exclusive("encoder") /\ (i <= 4 => gCodec = 0) /\ (i \in 2..3 => m.base = "loaded")
      /\ (i >= 4 => EncReady) /\ (i = 5 => CodecStart(1)) /\ (i >= 6 => CodecStart(i - 5))
  BY DEF StartingEncoder
<1>6. CASE i = 1
  <2>1. Went({"base"}) /\ m'.base = "loaded"
    BY <1>2, <1>6, LoadBaseLibDoes
  <2>2. Memory'
    BY <2>1, PrivateKeeps DEF Went
  <2>3. StartingEncoder(i + 1)'
    BY <1>5, <1>6, <2>1 DEF Went, codecVars, StartingEncoder, Exclusive, EncOn, EncReady
  <2> QED BY <1>3, <1>6, <2>1, <2>2, <2>3 DEF StepOutcome, Went, codecVars
<1>7. CASE i = 2
  <2>1. Went({}) /\ m' = m
    BY <1>2, <1>5, <1>7, CallBaseLibDoes
  <2>2. Memory'
    BY <2>1, PrivateKeeps DEF Went
  <2>3. StartingEncoder(i + 1)'
    BY <1>5, <1>7, <2>1 DEF Went, codecVars, StartingEncoder, Exclusive, EncOn, EncReady
  <2> QED BY <1>3, <1>7, <2>1, <2>2, <2>3 DEF StepOutcome, Went, codecVars
<1>8. CASE i = 3
  <2>1. fault' = fault /\ (sound' => Went({"mpFileEncoder", "enc"}) /\ EncReady')
    BY <1>2, <1>8, NewFileEncoderDoes
  <2>2. ASSUME sound' PROVE Memory' /\ StartingEncoder(i + 1)'
    <3>1. Memory'
      BY <1>5, <1>8, <2>1, <2>2, PrivateKeeps DEF Went
    <3>2. StartingEncoder(i + 1)'
      BY <1>5, <1>8, <2>1, <2>2 DEF Went, codecVars, StartingEncoder, Exclusive
    <3> QED BY <3>1, <3>2
  <2>3. CASE sound'
    BY <1>3, <1>8, <2>1, <2>2, <2>3 DEF StepOutcome, Went
  <2>4. CASE ~sound'
    BY <2>1, <2>4 DEF StepOutcome
  <2> QED BY <2>3, <2>4
<1>9. CASE i = 4
  <2>1. Memory' /\ CodecStart(1)' /\ OnTheCodec
    BY <1>2, <1>5, <1>9, CreateKeeps
  <2>2. StartingEncoder(i + 1)'
    BY <1>5, <1>9, <2>1 DEF OnTheCodec, StartingEncoder, Exclusive, EncOn, EncReady
  <2> QED BY <1>3, <1>9, <2>1, <2>2 DEF StepOutcome, OnTheCodec
<1>10. CASE i = 5
  <2>1. m.mpFileEncoder \in Int /\ m.mpFileEncoder \in Life /\ m.enc[m.mpFileEncoder] = "open"
    <3>1. m.mpFileEncoder \in {0} \cup Life
      BY DEF Memory, MediaTypes, Medias
    <3>2. m.mpFileEncoder \in Life /\ m.enc[m.mpFileEncoder] = "open"
      BY <1>5, <1>10, <3>1 DEF EncReady
    <3> QED BY <3>2, Lives
  <2>2. Memory' /\ CodecStart(1)' /\ OnTheCodec /\ gCodec' = gCodec
    BY <1>2, <1>5, <1>10, <2>1, RegisterKeeps
  <2>3. StartingEncoder(i + 1)'
    BY <1>5, <1>10, <2>2 DEF OnTheCodec, CodecStart, StartingEncoder, Exclusive, EncOn, EncReady
  <2> QED BY <1>3, <1>10, <2>2, <2>3 DEF StepOutcome, OnTheCodec
<1>11. CASE i = 6
  <2>1. CodecStart(1)
    BY <1>5, <1>11 DEF CodecStart
  <2>2. fault' = fault /\ (sound' => Memory' /\ CodecStart(2)' /\ OnTheCodec /\ gCodec' = gCodec)
    BY <1>2, <1>11, <2>1, StartPlatformKeeps
  <2>3. ASSUME sound' PROVE StartingEncoder(i + 1)'
    BY <1>5, <1>11, <2>2, <2>3 DEF OnTheCodec, CodecStart, StartingEncoder, Exclusive, EncOn, EncReady
  <2> QED BY <1>3, <1>11, <2>2, <2>3 DEF StepOutcome, OnTheCodec
<1>12. CASE i = 7
  <2>1. CodecStart(2)
    BY <1>5, <1>12 DEF CodecStart
  <2>2. fault' = fault /\ (sound' => Memory' /\ CodecStart(3)' /\ OnTheCodec /\ gCodec' = gCodec)
    BY <1>2, <1>12, <2>1, BuildTablesKeeps
  <2>3. ASSUME sound' PROVE StartingEncoder(i + 1)'
    BY <1>5, <1>12, <2>2, <2>3 DEF OnTheCodec, CodecStart, StartingEncoder, Exclusive, EncOn, EncReady
  <2> QED BY <1>3, <1>12, <2>2, <2>3 DEF StepOutcome, OnTheCodec
<1>13. CASE i = 8
  <2>1. CodecStart(3)
    BY <1>5, <1>13 DEF CodecStart
  <2>2. Memory' /\ CodecStart(4)' /\ OnTheCodec /\ gCodec' = gCodec
    BY <1>2, <1>13, <2>1, RunThreadKeeps
  <2>3. Settled'
    BY <1>5, <1>13, <2>2 DEF OnTheCodec, CodecStart, Settled, Exclusive, EncOn, EncReady
  <2> QED BY <1>4, <1>13, <2>2, <2>3 DEF StepOutcome, OnTheCodec
<1> QED BY <1>6, <1>7, <1>8, <1>9, <1>10, <1>11, <1>12, <1>13

\* StopFileEncoder stops the codec before it closes the file.
LEMMA StoppingEncoderStep ==
  ASSUME Memory, sdk, NEW i \in 1..5, todo = Rest(StopFileEncoder, i), StoppingEncoder(i), UIStep
  PROVE  StepOutcome
<1>1. todo # <<>> /\ Head(todo) = StopFileEncoder[i] /\ Tail(todo) = Rest(StopFileEncoder, i + 1)
  BY RestSteps, StopFileEncoderSteps
<1>2. /\ i = 1 => Api(StopPlatform)
      /\ i = 2 => Api(DeleteTables)
      /\ i = 3 => Api(RequestExit)
      /\ i = 4 => Api(DropCodec)
      /\ i = 5 => CloseEncoder
  BY <1>1, StepTaken, StopFileEncoderSteps
<1>3. ASSUME i < 5, todo' = Tail(todo), StoppingEncoder(i + 1)'
      PROVE  Stages'
  <2>1. i + 1 \in 1..5 /\ todo' = Rest(StopFileEncoder, i + 1)
    BY <1>1, <1>3
  <2> QED BY <1>3, <2>1 DEF Stages
<1>4. ASSUME i = 5, todo' = Tail(todo), Settled'
      PROVE  Stages'
  BY <1>1, <1>4, RestEnds, StopFileEncoderSteps DEF Stages
<1>5. Exclusive("encoder") /\ CodecStop(i) /\ EncReady
  BY DEF StoppingEncoder
<1>6. CASE i = 1
  <2>1. CodecStop(1)
    BY <1>5, <1>6 DEF CodecStop
  <2>2. ~Feeding
    BY <1>5, <1>6, WhoFeeds DEF Feeding, Exclusive
  <2>3. Memory' /\ CodecStop(2)' /\ OnTheCodec /\ gCodec' = gCodec
    BY <1>2, <1>6, <2>1, <2>2, StopPlatformKeeps
  <2>4. StoppingEncoder(i + 1)'
    BY <1>5, <1>6, <2>3 DEF OnTheCodec, CodecStop, StoppingEncoder, Exclusive, EncOn, EncReady
  <2> QED BY <1>3, <1>6, <2>3, <2>4 DEF StepOutcome, OnTheCodec
<1>7. CASE i = 2
  <2>1. CodecStop(2)
    BY <1>5, <1>7 DEF CodecStop
  <2>2. Memory' /\ CodecStop(3)' /\ OnTheCodec /\ gCodec' = gCodec
    BY <1>2, <1>7, <2>1, DeleteTablesKeeps
  <2>3. StoppingEncoder(i + 1)'
    BY <1>5, <1>7, <2>2 DEF OnTheCodec, CodecStop, StoppingEncoder, Exclusive, EncOn, EncReady
  <2> QED BY <1>3, <1>7, <2>2, <2>3 DEF StepOutcome, OnTheCodec
<1>8. CASE i = 3
  <2>1. CodecStop(3)
    BY <1>5, <1>8 DEF CodecStop
  <2>2. Memory' /\ CodecStop(4)' /\ OnTheCodec /\ gCodec' = gCodec
    BY <1>2, <1>8, <2>1, RequestExitKeeps
  <2>3. StoppingEncoder(i + 1)'
    BY <1>5, <1>8, <2>2 DEF OnTheCodec, CodecStop, StoppingEncoder, Exclusive, EncOn, EncReady
  <2> QED BY <1>3, <1>8, <2>2, <2>3 DEF StepOutcome, OnTheCodec
<1>9. CASE i = 4
  <2>1. CodecStop(4)
    BY <1>5, <1>9 DEF CodecStop
  <2>2. Memory' /\ CodecStop(5)' /\ OnTheCodec /\ gCodec' = 0
    BY <1>2, <1>9, <2>1, DropCodecKeeps
  <2>3. StoppingEncoder(i + 1)'
    BY <1>5, <1>9, <2>2 DEF OnTheCodec, CodecStop, StoppingEncoder, Exclusive, EncOn, EncReady
  <2> QED BY <1>3, <1>9, <2>2, <2>3 DEF StepOutcome, OnTheCodec
<1>10. CASE i = 5
  <2>1. Went({"mpFileEncoder", "enc"}) /\ ~EncOn'
    BY <1>2, <1>5, <1>10, CloseEncoderDoes
  <2>2. gCodec = 0 /\ m.base = "loaded"
    BY <1>5, <1>10 DEF CodecStop, EncReady, Memory, FeedFacts
  <2>3. Memory'
    BY <2>1, <2>2, PrivateKeeps DEF Went
  <2>4. Settled'
    BY <1>5, <2>1, <2>2 DEF Went, codecVars, Settled, Exclusive
  <2> QED BY <1>4, <1>10, <2>1, <2>3, <2>4 DEF StepOutcome, Went, codecVars
<1> QED BY <1>6, <1>7, <1>8, <1>9, <1>10

\* StartFileDecoder opens the file, starts the codec, then the thread that feeds it.
LEMMA StartingDecoderStep ==
  ASSUME Memory, sdk, sound = TRUE, NEW i \in 1..8, todo = Rest(StartFileDecoder, i), StartingDecoder(i), UIStep
  PROVE  StepOutcome
<1>1. todo # <<>> /\ Head(todo) = StartFileDecoder[i] /\ Tail(todo) = Rest(StartFileDecoder, i + 1)
  BY RestSteps, StartFileDecoderSteps
<1>2. /\ i = 1 => CallBaseLib
      /\ i = 2 => NewFileDecoder
      /\ i = 3 => Api(Create)
      /\ i = 4 => \E ok \in BOOLEAN : Trial(StartPlatform(ok), ok)
      /\ i = 5 => \E got \in SUBSET Tables : Trial(BuildTables(got), got = Tables)
      /\ i = 6 => Api(RunThread)
      /\ i = 7 => RunReader
      /\ i = 8 => SetRunning
  BY <1>1, StepTaken, StartFileDecoderSteps
<1>3. ASSUME i < 8, todo' = Tail(todo), StartingDecoder(i + 1)'
      PROVE  Stages'
  <2>1. i + 1 \in 1..8 /\ todo' = Rest(StartFileDecoder, i + 1)
    BY <1>1, <1>3
  <2> QED BY <1>3, <2>1, Zenon DEF Stages
<1>4. ASSUME i = 8, todo' = Tail(todo), Settled'
      PROVE  Stages'
  BY <1>1, <1>4, RestEnds, StartFileDecoderSteps DEF Stages
<1>5. /\ Exclusive("decoder") /\ (i <= 3 => gCodec = 0) /\ (i = 1 => m.base = "loaded")
      /\ (i <= 2 => m.mpFileDecoder = 0) /\ (i >= 3 => DecReady)
      /\ (i \in 3..7 => ~m.dec[m.mpFileDecoder].thread /\ ~m.dec[m.mpFileDecoder].mbRunning)
      /\ (i \in 4..6 => CodecStart(i - 3)) /\ (i >= 7 => CodecStart(4))
  BY DEF StartingDecoder
<1>d. ASSUME i >= 3
      PROVE  m.mpFileDecoder \in Life /\ m.dec[m.mpFileDecoder] \in Decs /\ m.dec[m.mpFileDecoder].file = "open"
  BY <1>5, <1>d DEF DecReady, Memory, MediaTypes, Medias
<1>6. CASE i = 1
  <2>1. Went({}) /\ m' = m
    BY <1>2, <1>5, <1>6, CallBaseLibDoes
  <2>2. Memory'
    BY <2>1, PrivateKeeps DEF Went
  <2>3. StartingDecoder(i + 1)'
    BY <1>5, <1>6, <2>1 DEF Went, codecVars, StartingDecoder, Exclusive, EncOn
  <2> QED BY <1>3, <1>6, <2>1, <2>2, <2>3 DEF StepOutcome, Went, codecVars
<1>7. CASE i = 2
  <2>1. /\ fault' = fault
        /\ sound' => /\ Went({"mpFileDecoder", "dec"}) /\ DecReady' /\ Memory'
                     /\ ~m'.dec[m'.mpFileDecoder].thread /\ ~m'.dec[m'.mpFileDecoder].mbRunning
    BY <1>2, <1>5, <1>7, NewFileDecoderDoes
  <2>2. CASE sound'
    <3>1. StartingDecoder(i + 1)'
      BY <1>5, <1>7, <2>1, <2>2 DEF Went, codecVars, StartingDecoder, Exclusive, EncOn
    <3> QED BY <1>3, <1>7, <2>1, <2>2, <3>1 DEF StepOutcome, Went
  <2>3. CASE ~sound'
    BY <2>1, <2>3 DEF StepOutcome
  <2> QED BY <2>2, <2>3
<1>8. CASE i = 3
  <2>1. Memory' /\ CodecStart(1)' /\ OnTheCodec
    BY <1>2, <1>5, <1>8, CreateKeeps
  <2>2. StartingDecoder(i + 1)'
    BY <1>5, <1>8, <2>1 DEF OnTheCodec, StartingDecoder, Exclusive, EncOn, DecReady
  <2> QED BY <1>3, <1>8, <2>1, <2>2 DEF StepOutcome, OnTheCodec
<1>9. CASE i = 4
  <2>1. CodecStart(1)
    BY <1>5, <1>9 DEF CodecStart
  <2>2. fault' = fault /\ (sound' => Memory' /\ CodecStart(2)' /\ OnTheCodec /\ gCodec' = gCodec)
    BY <1>2, <1>9, <2>1, StartPlatformKeeps
  <2>3. ASSUME sound' PROVE StartingDecoder(i + 1)'
    BY <1>5, <1>9, <2>2, <2>3 DEF OnTheCodec, CodecStart, StartingDecoder, Exclusive, EncOn, DecReady
  <2> QED BY <1>3, <1>9, <2>2, <2>3 DEF StepOutcome, OnTheCodec
<1>10. CASE i = 5
  <2>1. CodecStart(2)
    BY <1>5, <1>10 DEF CodecStart
  <2>2. fault' = fault /\ (sound' => Memory' /\ CodecStart(3)' /\ OnTheCodec /\ gCodec' = gCodec)
    BY <1>2, <1>10, <2>1, BuildTablesKeeps
  <2>3. ASSUME sound' PROVE StartingDecoder(i + 1)'
    BY <1>5, <1>10, <2>2, <2>3 DEF OnTheCodec, CodecStart, StartingDecoder, Exclusive, EncOn, DecReady
  <2> QED BY <1>3, <1>10, <2>2, <2>3 DEF StepOutcome, OnTheCodec
<1>11. CASE i = 6
  <2>1. CodecStart(3)
    BY <1>5, <1>11 DEF CodecStart
  <2>2. Memory' /\ CodecStart(4)' /\ OnTheCodec /\ gCodec' = gCodec
    BY <1>2, <1>11, <2>1, RunThreadKeeps
  <2>3. StartingDecoder(i + 1)'
    BY <1>5, <1>11, <2>2 DEF OnTheCodec, CodecStart, StartingDecoder, Exclusive, EncOn, DecReady
  <2> QED BY <1>3, <1>11, <2>2, <2>3 DEF StepOutcome, OnTheCodec
<1>12. CASE i = 7
  <2>1. PICK d \in Life : d = m.mpFileDecoder /\ m.dec[d] \in Decs /\ m.dec[d].file = "open"
    BY <1>d, <1>12
  <2>2. PICK x \in Decs : x = [m.dec[d] EXCEPT !.thread = TRUE]
    BY <2>1 DEF Decs
  <2>3. /\ x.file = "open" /\ (m.dec[d].thread => x.thread)
        /\ x.thread = TRUE /\ x.mbRunning = m.dec[d].mbRunning
    BY <2>1, <2>2 DEF Decs
  <2>4. m \in Medias
    BY DEF Memory, MediaTypes
  <2>5. Go([m EXCEPT !.dec[d] = x])
    BY <1>2, <1>12, <2>1, <2>2, <2>4 DEF RunReader, Medias
  <2>6. x.mbRunning => m.dec[d].mbRunning \/ Running
    BY <2>3
  <2>7. Went({"mpFileDecoder", "dec"}) /\ Memory' /\ m'.dec[d] = x /\ m'.mpFileDecoder = d
    <3>1. DecReady
      BY <1>5, <1>12
    <3>2. x.mbRunning => x.file = "open"
      BY <2>3
    <3> QED BY <2>1, <2>3, <2>5, <2>6, <3>1, <3>2, DecoderDoes
  <2>8. StartingDecoder(i + 1)'
    BY <1>5, <1>12, Lives, <2>1, <2>3, <2>7 DEF Went, codecVars, StartingDecoder, CodecStart, Exclusive, EncOn, DecReady
  <2> QED BY <1>3, <1>12, <2>7, <2>8 DEF StepOutcome, Went, codecVars
<1>13. CASE i = 8
  <2>1. PICK d \in Life : d = m.mpFileDecoder /\ m.dec[d] \in Decs /\ m.dec[d].file = "open"
    BY <1>d, <1>13
  <2>2. PICK x \in Decs : x = [m.dec[d] EXCEPT !.mbRunning = TRUE]
    BY <2>1 DEF Decs
  <2>3. /\ x.file = "open" /\ (m.dec[d].thread => x.thread)
        /\ x.mbRunning = TRUE
    BY <2>1, <2>2 DEF Decs
  <2>4. m \in Medias
    BY DEF Memory, MediaTypes
  <2>5. Go([m EXCEPT !.dec[d] = x])
    BY <1>2, <1>13, <2>1, <2>2, <2>4 DEF SetRunning, Medias
  <2>6. x.mbRunning => m.dec[d].mbRunning \/ Running
    BY <1>5, <1>13, <2>3 DEF CodecStart, Running
  <2>7. Went({"mpFileDecoder", "dec"}) /\ Memory' /\ m'.dec[d] = x /\ m'.mpFileDecoder = d
    <3>1. DecReady
      BY <1>5, <1>13
    <3>2. x.mbRunning => x.file = "open"
      BY <2>3
    <3> QED BY <2>1, <2>3, <2>5, <2>6, <3>1, <3>2, DecoderDoes
  <2>8. Settled'
    BY <1>5, <1>13, Lives, <2>1, <2>3, <2>7 DEF Went, codecVars, Settled, CodecStart, Exclusive, EncOn, DecReady
  <2> QED BY <1>4, <1>13, <2>7, <2>8 DEF StepOutcome, Went, codecVars
<1> QED BY <1>6, <1>7, <1>8, <1>9, <1>10, <1>11, <1>12, <1>13

\* StopFileDecoder stops the thread, then the codec, and closes the file last.
LEMMA StoppingDecoderStep ==
  ASSUME Memory, sdk, NEW i \in 1..7, todo = Rest(StopFileDecoder, i), StoppingDecoder(i), UIStep
  PROVE  StepOutcome
<1>1. todo # <<>> /\ Head(todo) = StopFileDecoder[i] /\ Tail(todo) = Rest(StopFileDecoder, i + 1)
  BY RestSteps, StopFileDecoderSteps
<1>2. /\ i = 1 => ClearRunning
      /\ i = 2 => ExitReader
      /\ i = 3 => Api(StopPlatform)
      /\ i = 4 => Api(DeleteTables)
      /\ i = 5 => Api(RequestExit)
      /\ i = 6 => Api(DropCodec)
      /\ i = 7 => CloseDecoder
  BY <1>1, StepTaken, StopFileDecoderSteps
<1>3. ASSUME i < 7, todo' = Tail(todo), StoppingDecoder(i + 1)'
      PROVE  Stages'
  <2>1. i + 1 \in 1..7 /\ todo' = Rest(StopFileDecoder, i + 1)
    BY <1>1, <1>3
  <2> QED BY <1>3, <2>1 DEF Stages
<1>4. ASSUME i = 7, todo' = Tail(todo), Settled'
      PROVE  Stages'
  BY <1>1, <1>4, RestEnds, StopFileDecoderSteps DEF Stages
<1>5. /\ Exclusive("decoder") /\ DecReady /\ CodecStop(i - 2)
      /\ (i >= 2 => ~m.dec[m.mpFileDecoder].mbRunning)
  BY DEF StoppingDecoder
<1>d. m.mpFileDecoder \in Life /\ m.dec[m.mpFileDecoder] \in Decs /\ m.dec[m.mpFileDecoder].file = "open"
  BY <1>5 DEF DecReady, Memory, MediaTypes, Medias
<1>6. CASE i = 1
  <2>1. PICK d \in Life : d = m.mpFileDecoder /\ m.dec[d] \in Decs /\ m.dec[d].file = "open"
    BY <1>d, <1>6
  <2>2. PICK x \in Decs : x = [m.dec[d] EXCEPT !.mbRunning = FALSE]
    BY <2>1 DEF Decs
  <2>3. /\ x.file = "open" /\ (m.dec[d].thread => x.thread)
        /\ x.mbRunning = FALSE
    BY <2>1, <2>2 DEF Decs
  <2>4. m \in Medias
    BY DEF Memory, MediaTypes
  <2>5. Go([m EXCEPT !.dec[d] = x])
    BY <1>2, <1>6, <2>1, <2>2, <2>4 DEF ClearRunning, Medias
  <2>6. x.mbRunning => m.dec[d].mbRunning \/ Running
    BY <2>3
  <2>7. Went({"mpFileDecoder", "dec"}) /\ Memory' /\ m'.dec[d] = x /\ m'.mpFileDecoder = d
    <3>1. DecReady
      BY <1>5, <1>6
    <3>2. x.mbRunning => x.file = "open"
      BY <2>3
    <3> QED BY <2>1, <2>3, <2>5, <2>6, <3>1, <3>2, DecoderDoes
  <2>8. StoppingDecoder(i + 1)'
    BY <1>5, <1>6, Lives, <2>1, <2>3, <2>7 DEF Went, codecVars, StoppingDecoder, CodecStop, Exclusive, EncOn, DecReady
  <2> QED BY <1>3, <1>6, <2>7, <2>8 DEF StepOutcome, Went, codecVars
<1>7. CASE i = 2
  <2>1. PICK d \in Life : d = m.mpFileDecoder /\ m.dec[d] \in Decs /\ m.dec[d].file = "open"
    BY <1>d, <1>7
  <2>2. PICK x \in Decs : x = [m.dec[d] EXCEPT !.exit = TRUE]
    BY <2>1 DEF Decs
  <2>3. /\ x.file = "open" /\ (m.dec[d].thread => x.thread)
        /\ x.exit = TRUE /\ x.mbRunning = m.dec[d].mbRunning
    BY <2>1, <2>2 DEF Decs
  <2>4. m \in Medias
    BY DEF Memory, MediaTypes
  <2>5. Go([m EXCEPT !.dec[d] = x])
    BY <1>2, <1>7, <2>1, <2>2, <2>4 DEF ExitReader, Medias
  <2>6. x.mbRunning => m.dec[d].mbRunning \/ Running
    BY <2>3
  <2>7. Went({"mpFileDecoder", "dec"}) /\ Memory' /\ m'.dec[d] = x /\ m'.mpFileDecoder = d
    <3>1. DecReady
      BY <1>5, <1>7
    <3>2. x.mbRunning => x.file = "open"
      BY <2>3
    <3> QED BY <2>1, <2>3, <2>5, <2>6, <3>1, <3>2, DecoderDoes
  <2>8. StoppingDecoder(i + 1)'
    BY <1>5, <1>7, Lives, <2>1, <2>3, <2>7 DEF Went, codecVars, StoppingDecoder, CodecStop, Exclusive, EncOn, DecReady
  <2> QED BY <1>3, <1>7, <2>7, <2>8 DEF StepOutcome, Went, codecVars
<1>8. CASE i = 3
  <2>1. CodecStop(1)
    BY <1>5, <1>8 DEF CodecStop
  <2>2. ~Feeding
    BY <1>5, <1>8, WhoFeeds DEF Feeding, Exclusive
  <2>3. Memory' /\ CodecStop(2)' /\ OnTheCodec /\ gCodec' = gCodec
    BY <1>2, <1>8, <2>1, <2>2, StopPlatformKeeps
  <2>4. StoppingDecoder(i + 1)'
    BY <1>5, <1>8, <2>3 DEF OnTheCodec, CodecStop, StoppingDecoder, Exclusive, EncOn, DecReady
  <2> QED BY <1>3, <1>8, <2>3, <2>4 DEF StepOutcome, OnTheCodec
<1>9. CASE i = 4
  <2>1. CodecStop(2)
    BY <1>5, <1>9 DEF CodecStop
  <2>2. Memory' /\ CodecStop(3)' /\ OnTheCodec /\ gCodec' = gCodec
    BY <1>2, <1>9, <2>1, DeleteTablesKeeps
  <2>3. StoppingDecoder(i + 1)'
    BY <1>5, <1>9, <2>2 DEF OnTheCodec, CodecStop, StoppingDecoder, Exclusive, EncOn, DecReady
  <2> QED BY <1>3, <1>9, <2>2, <2>3 DEF StepOutcome, OnTheCodec
<1>10. CASE i = 5
  <2>1. CodecStop(3)
    BY <1>5, <1>10 DEF CodecStop
  <2>2. Memory' /\ CodecStop(4)' /\ OnTheCodec /\ gCodec' = gCodec
    BY <1>2, <1>10, <2>1, RequestExitKeeps
  <2>3. StoppingDecoder(i + 1)'
    BY <1>5, <1>10, <2>2 DEF OnTheCodec, CodecStop, StoppingDecoder, Exclusive, EncOn, DecReady
  <2> QED BY <1>3, <1>10, <2>2, <2>3 DEF StepOutcome, OnTheCodec
<1>11. CASE i = 6
  <2>1. CodecStop(4)
    BY <1>5, <1>11 DEF CodecStop
  <2>2. Memory' /\ CodecStop(5)' /\ OnTheCodec /\ gCodec' = 0
    BY <1>2, <1>11, <2>1, DropCodecKeeps
  <2>3. StoppingDecoder(i + 1)'
    BY <1>5, <1>11, <2>2 DEF OnTheCodec, CodecStop, StoppingDecoder, Exclusive, EncOn, DecReady
  <2> QED BY <1>3, <1>11, <2>2, <2>3 DEF StepOutcome, OnTheCodec
<1>12. CASE i = 7
  <2>1. PICK d \in Life : d = m.mpFileDecoder /\ m.dec[d] \in Decs /\ m.dec[d].file = "open" /\ ~m.dec[d].mbRunning
    BY <1>d, <1>5, <1>12
  <2>2. PICK x \in Decs : x = [m.dec[d] EXCEPT !.file = "closed"]
    BY <2>1 DEF Decs
  <2>3. x.file = "closed" /\ (m.dec[d].thread => x.thread) /\ ~x.mbRunning
    BY <2>1, <2>2 DEF Decs
  <2>4. m \in Medias
    BY DEF Memory, MediaTypes
  <2>5. Go([m EXCEPT !.mpFileDecoder = 0, !.dec[d] = x])
    <3>1. Go([m EXCEPT !.dec[d].file = "closed", !.mpFileDecoder = 0])
      BY <1>2, <1>12, <2>1 DEF CloseDecoder
    <3>2. [m EXCEPT !.dec[d].file = "closed", !.mpFileDecoder = 0] = [m EXCEPT !.mpFileDecoder = 0, !.dec[d] = x]
      BY <2>1, <2>2, <2>4 DEF Medias
    <3> QED BY <3>1, <3>2
  <2>6. Went({"mpFileDecoder", "dec"}) /\ Memory' /\ m'.mpFileDecoder = 0
    BY <1>5, <2>1, <2>3, <2>5, DecoderDoes
  <2>7. Settled'
    BY <1>5, <1>12, <2>6 DEF Went, codecVars, CodecStop, Settled, Exclusive, EncOn
  <2> QED BY <1>4, <1>12, <2>6, <2>7 DEF StepOutcome, Went, codecVars
<1> QED BY <1>6, <1>7, <1>8, <1>9, <1>10, <1>11, <1>12

\* The new receiver is the one mpCodecRecv points to, and does not run yet.
LEMMA NewCodecRecverDoes ==
  ASSUME Memory, m.mpCodecRecv = 0, NewCodecRecver
  PROVE  /\ Went({"mpCodecRecv", "recv"}) /\ Memory'
         /\ m'.mpCodecRecv # 0 /\ ~m'.recv[m'.mpCodecRecv].mRunning
<1>1. PICK r \in Life, hears \in BOOLEAN :
        Go([m EXCEPT !.mpCodecRecv = r, !.recv[r].life = "alive", !.recv[r].hears = hears])
  BY DEF NewCodecRecver, Fresh
<1>2. m \in Medias /\ m.recv \in [Life -> Recvs] /\ \A q \in Life : ~m.recv[q].mRunning
  BY Lives DEF Memory, MediaTypes, Medias, FeedFacts
<1>3. PICK x \in Recvs : x = [m.recv[r] EXCEPT !.life = "alive", !.hears = hears]
  <2>1. [m.recv[r] EXCEPT !.life = "alive", !.hears = hears] \in Recvs
    BY <1>2 DEF Recvs
  <2> QED BY <2>1
<1>4. x.mRunning = m.recv[r].mRunning
  BY <1>2, <1>3 DEF Recvs
<1>5. Go([m EXCEPT !.mpCodecRecv = r, !.recv[r] = x])
  <2>1. [m EXCEPT !.mpCodecRecv = r, !.recv[r].life = "alive", !.recv[r].hears = hears]
        = [m EXCEPT !.mpCodecRecv = r, !.recv[r] = x]
    BY <1>2, <1>3 DEF Medias
  <2> QED BY <1>1, <2>1
<1>6. Went({"mpCodecRecv", "recv"}) /\ m'.mpCodecRecv = r /\ m'.recv = [m.recv EXCEPT ![r] = x]
  BY <1>5, PutRecver
<1>7. Memory'
  BY <1>2, <1>4, <1>6, RecverKeeps DEF Went
<1> QED BY <1>2, <1>4, <1>6, <1>7, Lives

\* What the caller does to the receiver mpCodecRecv points to.
LEMMA RecverDoes ==
  ASSUME Memory, NEW r \in Life, r = m.mpCodecRecv, NEW x \in Recvs, NEW p \in {0, r},
         Go([m EXCEPT !.mpCodecRecv = p, !.recv[r] = x]),
         x.mRunning => p = r /\ Running
  PROVE  Went({"mpCodecRecv", "recv"}) /\ Memory' /\ m'.mpCodecRecv = p /\ m'.recv[r] = x
<1>1. Went({"mpCodecRecv", "recv"}) /\ m'.mpCodecRecv = p /\ m'.recv = [m.recv EXCEPT ![r] = x]
  BY PutRecver, ZenonT(30)
<1>2. m.recv \in [Life -> Recvs] /\ \A q \in Life \ {r} : ~m.recv[q].mRunning
  BY DEF Memory, MediaTypes, Medias, FeedFacts
<1>3. Memory'
  BY <1>1, <1>2, RecverKeeps DEF Went
<1> QED BY <1>1, <1>2, <1>3

\* The thread starts when the codec it feeds runs.
LEMMA StartReceiveDoes ==
  ASSUME Memory, m.mpCodecRecv # 0, Running, StartReceive
  PROVE  Went({"mpCodecRecv", "recv"}) /\ Memory' /\ m'.mpCodecRecv = m.mpCodecRecv
<1>1. m \in Medias /\ m.mpCodecRecv \in Life /\ m.recv \in [Life -> Recvs]
  BY DEF Memory, MediaTypes, Medias
<1>2. PICK r \in Life : r = m.mpCodecRecv
  BY <1>1
<1>3. PICK x \in Recvs : x = [m.recv[r] EXCEPT !.mRunning = TRUE, !.thread = TRUE]
  <2>1. [m.recv[r] EXCEPT !.mRunning = TRUE, !.thread = TRUE] \in Recvs
    BY <1>1 DEF Recvs
  <2> QED BY <2>1
<1>4. x.mRunning
  BY <1>1, <1>2, <1>3 DEF Recvs
<1>5. Go([m EXCEPT !.mpCodecRecv = r, !.recv[r] = x])
  <2>1. Go([m EXCEPT !.recv[r].mRunning = TRUE, !.recv[r].thread = TRUE])
    BY <1>2 DEF StartReceive
  <2>2. [m EXCEPT !.recv[r].mRunning = TRUE, !.recv[r].thread = TRUE]
        = [m EXCEPT !.mpCodecRecv = r, !.recv[r] = x]
    BY <1>1, <1>2, <1>3 DEF Medias
  <2> QED BY <2>1, <2>2
<1> QED BY <1>2, <1>4, <1>5, RecverDoes

\* The receiver no longer runs.
LEMMA StopReceiveDoes ==
  ASSUME Memory, m.mpCodecRecv # 0, StopReceive
  PROVE  Went({"mpCodecRecv", "recv"}) /\ Memory' /\ m'.mpCodecRecv = m.mpCodecRecv
         /\ ~m'.recv[m'.mpCodecRecv].mRunning
<1>1. m \in Medias /\ m.mpCodecRecv \in Life /\ m.recv \in [Life -> Recvs]
  BY DEF Memory, MediaTypes, Medias
<1>2. PICK r \in Life : r = m.mpCodecRecv
  BY <1>1
<1>3. PICK x \in Recvs : x = [m.recv[r] EXCEPT !.mRunning = FALSE]
  <2>1. [m.recv[r] EXCEPT !.mRunning = FALSE] \in Recvs
    BY <1>1 DEF Recvs
  <2> QED BY <2>1
<1>4. ~x.mRunning
  BY <1>1, <1>2, <1>3 DEF Recvs
<1>5. Go([m EXCEPT !.mpCodecRecv = r, !.recv[r] = x])
  <2>1. Go([m EXCEPT !.recv[r].mRunning = FALSE])
    BY <1>2 DEF StopReceive
  <2>2. [m EXCEPT !.recv[r].mRunning = FALSE]
        = [m EXCEPT !.mpCodecRecv = r, !.recv[r] = x]
    BY <1>1, <1>2, <1>3 DEF Medias
  <2> QED BY <2>1, <2>2
<1> QED BY <1>2, <1>4, <1>5, RecverDoes

\* A deleted receiver is no longer pointed to.
LEMMA DeleteRecverDoes ==
  ASSUME Memory, m.mpCodecRecv # 0, ~m.recv[m.mpCodecRecv].mRunning, DeleteRecver
  PROVE  Went({"mpCodecRecv", "recv"}) /\ Memory' /\ m'.mpCodecRecv = 0
<1>1. m \in Medias /\ m.mpCodecRecv \in Life /\ m.recv \in [Life -> Recvs]
  BY DEF Memory, MediaTypes, Medias
<1>2. PICK r \in Life : r = m.mpCodecRecv
  BY <1>1
<1>3. PICK x \in Recvs : x = [m.recv[r] EXCEPT !.life = "deleted"]
  <2>1. [m.recv[r] EXCEPT !.life = "deleted"] \in Recvs
    BY <1>1 DEF Recvs
  <2> QED BY <2>1
<1>4. ~x.mRunning
  BY <1>1, <1>2, <1>3 DEF Recvs
<1>5. Go([m EXCEPT !.mpCodecRecv = 0, !.recv[r] = x])
  <2>1. Go([m EXCEPT !.recv[r].life = "deleted", !.mpCodecRecv = 0])
    BY <1>2 DEF DeleteRecver
  <2>2. [m EXCEPT !.recv[r].life = "deleted", !.mpCodecRecv = 0]
        = [m EXCEPT !.mpCodecRecv = 0, !.recv[r] = x]
    BY <1>1, <1>2, <1>3 DEF Medias
  <2> QED BY <2>1, <2>2
<1> QED BY <1>2, <1>4, <1>5, RecverDoes

\* StartCodecRecver makes the receiver and the codec, and starts the thread last.
LEMMA StartingRecverStep ==
  ASSUME Memory, sdk, NEW i \in 1..8, todo = Rest(StartCodecRecver, i), StartingRecver(i), UIStep
  PROVE  StepOutcome
<1>1. todo # <<>> /\ Head(todo) = StartCodecRecver[i] /\ Tail(todo) = Rest(StartCodecRecver, i + 1)
  BY RestSteps, StartCodecRecverSteps
<1>2. /\ i = 1 => LoadBaseLib
      /\ i = 2 => CallBaseLib
      /\ i = 3 => NewCodecRecver
      /\ i = 4 => Api(Create)
      /\ i = 5 => \E ok \in BOOLEAN : Trial(StartPlatform(ok), ok)
      /\ i = 6 => \E got \in SUBSET Tables : Trial(BuildTables(got), got = Tables)
      /\ i = 7 => Api(RunThread)
      /\ i = 8 => StartReceive
  BY <1>1, StepTaken, StartCodecRecverSteps
<1>3. ASSUME i < 8, todo' = Tail(todo), StartingRecver(i + 1)'
      PROVE  Stages'
  <2>1. i + 1 \in 1..8 /\ todo' = Rest(StartCodecRecver, i + 1)
    BY <1>1, <1>3
  <2> QED BY <1>3, <2>1 DEF Stages
<1>4. ASSUME i = 8, todo' = Tail(todo), Settled'
      PROVE  Stages'
  BY <1>1, <1>4, RestEnds, StartCodecRecverSteps DEF Stages
<1>5. /\ Exclusive("receiver") /\ (i <= 4 => gCodec = 0) /\ (i = 2 => m.base = "loaded")
      /\ (i <= 3 => m.mpCodecRecv = 0)
      /\ (i >= 4 => m.mpCodecRecv # 0 /\ ~m.recv[m.mpCodecRecv].mRunning)
      /\ (i >= 5 => CodecStart(i - 4))
  BY DEF StartingRecver
<1>6. CASE i = 1
  <2>1. Went({"base"}) /\ m'.base = "loaded"
    BY <1>2, <1>6, LoadBaseLibDoes
  <2>2. Memory'
    BY <2>1, PrivateKeeps DEF Went
  <2>3. StartingRecver(i + 1)'
    BY <1>5, <1>6, <2>1 DEF Went, codecVars, StartingRecver, Exclusive, EncOn
  <2> QED BY <1>3, <1>6, <2>1, <2>2, <2>3 DEF StepOutcome, Went, codecVars
<1>7. CASE i = 2
  <2>1. Went({}) /\ m' = m
    BY <1>2, <1>5, <1>7, CallBaseLibDoes
  <2>2. Memory'
    BY <2>1, PrivateKeeps DEF Went
  <2>3. StartingRecver(i + 1)'
    BY <1>5, <1>7, <2>1 DEF Went, codecVars, StartingRecver, Exclusive, EncOn
  <2> QED BY <1>3, <1>7, <2>1, <2>2, <2>3 DEF StepOutcome, Went, codecVars
<1>8. CASE i = 3
  <2>1. m.mpCodecRecv = 0
    BY <1>5, <1>8
  <2>2. Went({"mpCodecRecv", "recv"}) /\ Memory' /\ m'.mpCodecRecv # 0 /\ ~m'.recv[m'.mpCodecRecv].mRunning
    BY <1>2, <1>8, <2>1, NewCodecRecverDoes
  <2>3. StartingRecver(i + 1)'
    BY <1>5, <1>8, <2>2 DEF Went, codecVars, StartingRecver, Exclusive, EncOn
  <2> QED BY <1>3, <1>8, <2>2, <2>3 DEF StepOutcome, Went, codecVars
<1>9. CASE i = 4
  <2>1. Memory' /\ CodecStart(1)' /\ OnTheCodec
    BY <1>2, <1>5, <1>9, CreateKeeps
  <2>2. StartingRecver(i + 1)'
    BY <1>5, <1>9, <2>1 DEF OnTheCodec, StartingRecver, Exclusive, EncOn
  <2> QED BY <1>3, <1>9, <2>1, <2>2 DEF StepOutcome, OnTheCodec
<1>10. CASE i = 5
  <2>1. CodecStart(1)
    BY <1>5, <1>10 DEF CodecStart
  <2>2. fault' = fault /\ (sound' => Memory' /\ CodecStart(2)' /\ OnTheCodec /\ gCodec' = gCodec)
    BY <1>2, <1>10, <2>1, StartPlatformKeeps
  <2>3. ASSUME sound' PROVE StartingRecver(i + 1)'
    BY <1>5, <1>10, <2>2, <2>3 DEF OnTheCodec, CodecStart, StartingRecver, Exclusive, EncOn
  <2> QED BY <1>3, <1>10, <2>2, <2>3 DEF StepOutcome, OnTheCodec
<1>11. CASE i = 6
  <2>1. CodecStart(2)
    BY <1>5, <1>11 DEF CodecStart
  <2>2. fault' = fault /\ (sound' => Memory' /\ CodecStart(3)' /\ OnTheCodec /\ gCodec' = gCodec)
    BY <1>2, <1>11, <2>1, BuildTablesKeeps
  <2>3. ASSUME sound' PROVE StartingRecver(i + 1)'
    BY <1>5, <1>11, <2>2, <2>3 DEF OnTheCodec, CodecStart, StartingRecver, Exclusive, EncOn
  <2> QED BY <1>3, <1>11, <2>2, <2>3 DEF StepOutcome, OnTheCodec
<1>12. CASE i = 7
  <2>1. CodecStart(3)
    BY <1>5, <1>12 DEF CodecStart
  <2>2. Memory' /\ CodecStart(4)' /\ OnTheCodec /\ gCodec' = gCodec
    BY <1>2, <1>12, <2>1, RunThreadKeeps
  <2>3. StartingRecver(i + 1)'
    BY <1>5, <1>12, <2>2 DEF OnTheCodec, CodecStart, StartingRecver, Exclusive, EncOn
  <2> QED BY <1>3, <1>12, <2>2, <2>3 DEF StepOutcome, OnTheCodec
<1>13. CASE i = 8
  <2>1. CodecStart(4) /\ m.mpCodecRecv # 0
    BY <1>5, <1>13
  <2>2. Went({"mpCodecRecv", "recv"}) /\ Memory' /\ m'.mpCodecRecv = m.mpCodecRecv
    BY <1>2, <1>13, <2>1, StartReceiveDoes DEF CodecStart, Running
  <2>3. Settled'
    BY <1>5, <2>1, <2>2 DEF Went, codecVars, CodecStart, Settled, Exclusive, EncOn
  <2> QED BY <1>4, <1>13, <2>2, <2>3 DEF StepOutcome, Went, codecVars
<1> QED BY <1>6, <1>7, <1>8, <1>9, <1>10, <1>11, <1>12, <1>13

\* StopCodecRecver clears mRunning, stops the codec and deletes the receiver.
LEMMA StoppingRecverStep ==
  ASSUME Memory, sdk, NEW i \in 1..6, todo = Rest(StopCodecRecver, i), StoppingRecver(i), UIStep
  PROVE  StepOutcome
<1>1. todo # <<>> /\ Head(todo) = StopCodecRecver[i] /\ Tail(todo) = Rest(StopCodecRecver, i + 1)
  BY RestSteps, StopCodecRecverSteps
<1>2. /\ i = 1 => StopReceive
      /\ i = 2 => Api(StopPlatform)
      /\ i = 3 => Api(DeleteTables)
      /\ i = 4 => Api(RequestExit)
      /\ i = 5 => Api(DropCodec)
      /\ i = 6 => DeleteRecver
  BY <1>1, StepTaken, StopCodecRecverSteps
<1>3. ASSUME i < 6, todo' = Tail(todo), StoppingRecver(i + 1)'
      PROVE  Stages'
  <2>1. i + 1 \in 1..6 /\ todo' = Rest(StopCodecRecver, i + 1)
    BY <1>1, <1>3
  <2> QED BY <1>3, <2>1, Zenon DEF Stages
<1>4. ASSUME i = 6, todo' = Tail(todo), Settled'
      PROVE  Stages'
  BY <1>1, <1>4, RestEnds, StopCodecRecverSteps DEF Stages
<1>5. /\ Exclusive("receiver") /\ m.mpCodecRecv # 0 /\ CodecStop(i - 1)
      /\ (i >= 2 => ~m.recv[m.mpCodecRecv].mRunning)
  BY DEF StoppingRecver
<1>6. CASE i = 1
  <2>1. /\ Went({"mpCodecRecv", "recv"}) /\ Memory' /\ m'.mpCodecRecv = m.mpCodecRecv
        /\ ~m'.recv[m'.mpCodecRecv].mRunning
    BY <1>2, <1>5, <1>6, StopReceiveDoes
  <2>2. StoppingRecver(i + 1)'
    BY <1>5, <1>6, <2>1 DEF Went, codecVars, CodecStop, StoppingRecver, Exclusive, EncOn
  <2> QED BY <1>3, <1>6, <2>1, <2>2 DEF StepOutcome, Went, codecVars
<1>7. CASE i = 2
  <2>1. CodecStop(1)
    BY <1>5, <1>7 DEF CodecStop
  <2>2. ~Feeding
    BY <1>5, <1>7, WhoFeeds DEF Feeding, Exclusive
  <2>3. Memory' /\ CodecStop(2)' /\ OnTheCodec /\ gCodec' = gCodec
    BY <1>2, <1>7, <2>1, <2>2, StopPlatformKeeps
  <2>4. StoppingRecver(i + 1)'
    BY <1>5, <1>7, <2>3 DEF OnTheCodec, CodecStop, StoppingRecver, Exclusive, EncOn
  <2> QED BY <1>3, <1>7, <2>3, <2>4 DEF StepOutcome, OnTheCodec
<1>8. CASE i = 3
  <2>1. CodecStop(2)
    BY <1>5, <1>8 DEF CodecStop
  <2>2. Memory' /\ CodecStop(3)' /\ OnTheCodec /\ gCodec' = gCodec
    BY <1>2, <1>8, <2>1, DeleteTablesKeeps
  <2>3. StoppingRecver(i + 1)'
    BY <1>5, <1>8, <2>2 DEF OnTheCodec, CodecStop, StoppingRecver, Exclusive, EncOn
  <2> QED BY <1>3, <1>8, <2>2, <2>3 DEF StepOutcome, OnTheCodec
<1>9. CASE i = 4
  <2>1. CodecStop(3)
    BY <1>5, <1>9 DEF CodecStop
  <2>2. Memory' /\ CodecStop(4)' /\ OnTheCodec /\ gCodec' = gCodec
    BY <1>2, <1>9, <2>1, RequestExitKeeps
  <2>3. StoppingRecver(i + 1)'
    BY <1>5, <1>9, <2>2 DEF OnTheCodec, CodecStop, StoppingRecver, Exclusive, EncOn
  <2> QED BY <1>3, <1>9, <2>2, <2>3 DEF StepOutcome, OnTheCodec
<1>10. CASE i = 5
  <2>1. CodecStop(4)
    BY <1>5, <1>10 DEF CodecStop
  <2>2. Memory' /\ CodecStop(5)' /\ OnTheCodec /\ gCodec' = 0
    BY <1>2, <1>10, <2>1, DropCodecKeeps
  <2>3. StoppingRecver(i + 1)'
    BY <1>5, <1>10, <2>2 DEF OnTheCodec, CodecStop, StoppingRecver, Exclusive, EncOn
  <2> QED BY <1>3, <1>10, <2>2, <2>3 DEF StepOutcome, OnTheCodec
<1>11. CASE i = 6
  <2>1. ~m.recv[m.mpCodecRecv].mRunning /\ gCodec = 0
    BY <1>5, <1>11 DEF CodecStop
  <2>2. Went({"mpCodecRecv", "recv"}) /\ Memory' /\ m'.mpCodecRecv = 0
    BY <1>2, <1>5, <1>11, <2>1, DeleteRecverDoes
  <2>3. Settled'
    BY <1>5, <2>1, <2>2 DEF Went, codecVars, Settled, Exclusive, EncOn
  <2> QED BY <1>4, <1>11, <2>2, <2>3 DEF StepOutcome, Went, codecVars
<1> QED BY <1>6, <1>7, <1>8, <1>9, <1>10, <1>11

\* The calls of one step.
LEMMA ShortCallStep ==
  ASSUME Memory, sdk, Settled, UIStep,
         \/ m.mpCodecSend # 0 /\ todo \in {<<"GetParameters">>, <<"SetParameters">>, <<"SetOrientation">>}
         \/ m.base = "loaded" /\ todo = <<"CallBaseLib">>
         \/ todo \in {<<"SenderCreate">>, <<"SenderConnect">>, <<"SenderDestroy">>}
  PROVE  StepOutcome
<1>1. Tail(todo) = <<>>
  <2>1. \E s : todo = <<s>>
    OBVIOUS
  <2> QED BY <2>1
<1>2. ASSUME Memory', Settled', todo' = Tail(todo), fault' = fault PROVE StepOutcome
  BY <1>1, <1>2 DEF StepOutcome, Stages
<1>3. CASE m.mpCodecSend # 0 /\ todo \in {<<"GetParameters">>, <<"SetParameters">>, <<"SetOrientation">>}
  <2>1. Head(todo) = "GetParameters" \/ Head(todo) = "SetParameters" \/ Head(todo) = "SetOrientation"
    BY <1>3
  <2>2. GetParameters \/ SetParameters \/ SetOrientation
    BY <2>1, StepTaken
  <2>3. SenderReady
    BY <1>3 DEF Settled
  <2>4. Went({}) /\ m' = m
    BY <2>2, <2>3, ParametersDo
  <2>5. Memory'
    BY <2>4, PrivateKeeps DEF Went
  <2>6. Settled'
    BY <2>4 DEF Went, codecVars, Settled, Exclusive, EncOn, SenderReady, EncReady, DecReady
  <2> QED BY <1>2, <2>4, <2>5, <2>6 DEF Went, codecVars
<1>4. CASE m.base = "loaded" /\ todo = <<"CallBaseLib">>
  <2>1. Head(todo) = "CallBaseLib"
    BY <1>4
  <2>2. Went({}) /\ m' = m
    BY <1>4, <2>1, StepTaken, CallBaseLibDoes
  <2>3. Memory'
    BY <2>2, PrivateKeeps DEF Went
  <2>4. Settled'
    BY <2>2 DEF Went, codecVars, Settled, Exclusive, EncOn, SenderReady, EncReady, DecReady
  <2> QED BY <1>2, <2>2, <2>3, <2>4 DEF Went, codecVars
<1>5. CASE todo \in {<<"SenderCreate">>, <<"SenderConnect">>, <<"SenderDestroy">>}
  <2>1. Head(todo) = "SenderCreate" \/ Head(todo) = "SenderConnect" \/ Head(todo) = "SenderDestroy"
    BY <1>5
  <2>2. SenderCreate \/ SenderConnect \/ SenderDestroy
    BY <2>1, StepTaken
  <2>3. Went({"rtp"}) /\ m'.rtp["codec"] = m.rtp["codec"]
    BY <2>2, JniSenderDoes
  <2>4. Memory'
    BY <2>3, PrivateKeeps DEF Went
  <2>5. Settled'
    BY <2>3 DEF Went, codecVars, Settled, Exclusive, EncOn, SenderReady, EncReady, DecReady
  <2> QED BY <1>2, <2>3, <2>4, <2>5 DEF Went, codecVars
<1> QED BY <1>3, <1>4, <1>5

\* Whatever the caller does next, it meets nothing that is gone.
LEMMA CallerStep ==
  ASSUME Memory, Stages, sdk, sound = TRUE, UIStep
  PROVE  StepOutcome
<1>1. todo # <<>>
  BY DEF UIStep
<1>2. \/ /\ Settled
         /\ \/ m.mpCodecSend # 0 /\ todo \in {<<"GetParameters">>, <<"SetParameters">>, <<"SetOrientation">>}
            \/ m.base = "loaded" /\ todo = <<"CallBaseLib">>
            \/ todo \in {<<"SenderCreate">>, <<"SenderConnect">>, <<"SenderDestroy">>}
      \/ \E i \in 1..9  : todo = Rest(StartCodecSender, i) /\ StartingSender(i)
      \/ \E i \in 1..4  : todo = Rest(StartCameraVideo, i) /\ StartingCamera(i)
      \/ \E i \in 1..10 : todo = Rest(StopCodecSender, i) /\ StoppingSender(i)
      \/ \E i \in 1..8  : todo = Rest(StartFileEncoder, i) /\ StartingEncoder(i)
      \/ \E i \in 1..5  : todo = Rest(StopFileEncoder, i) /\ StoppingEncoder(i)
      \/ \E i \in 1..8  : todo = Rest(StartFileDecoder, i) /\ StartingDecoder(i)
      \/ \E i \in 1..7  : todo = Rest(StopFileDecoder, i) /\ StoppingDecoder(i)
      \/ \E i \in 1..8  : todo = Rest(StartCodecRecver, i) /\ StartingRecver(i)
      \/ \E i \in 1..6  : todo = Rest(StopCodecRecver, i) /\ StoppingRecver(i)
  BY <1>1 DEF Stages
<1> QED BY <1>2, ShortCallStep, StartingSenderStep, StartingCameraStep, StoppingSenderStep,
           StartingEncoderStep, StoppingEncoderStep, StartingDecoderStep, StoppingDecoderStep,
           StartingRecverStep, StoppingRecverStep

\* A call that comes in order finds the library ready for its first step.
LEMMA CallBegins ==
  ASSUME Memory, Stages, sdk, sound = TRUE, NEW e \in LibraryCall \ {"AddEncoderData"}, Call(e)
  PROVE  StepOutcome
<1>1. /\ UNCHANGED <<gCodec, codec, prod, fault, m>> /\ todo = <<>> /\ todo' = Steps(e)
      /\ (sound' => InOrder(e))
  BY DEF Call, codecVars
<1>2. Memory'
  BY <1>1 DEF Memory, MediaTypes, CodecFacts, OwnerFacts, FeedFacts, Feeding, Running
<1>3. Settled
  <2>1. \A L \in Seq(Word) : \A i \in 1..Len(L) : Rest(L, i) # <<>>
    BY RestSteps
  <2>2. \A i \in 1..9 : Rest(StartCodecSender, i) # <<>>
    BY <2>1, StartCodecSenderSteps
  <2>3. \A i \in 1..4 : Rest(StartCameraVideo, i) # <<>>
    BY <2>1, StartCameraVideoSteps, Zenon
  <2>4. \A i \in 1..10 : Rest(StopCodecSender, i) # <<>>
    BY <2>1, StopCodecSenderSteps
  <2>5. \A i \in 1..8 : Rest(StartFileEncoder, i) # <<>>
    BY <2>1, StartFileEncoderSteps
  <2>6. \A i \in 1..5 : Rest(StopFileEncoder, i) # <<>>
    BY <2>1, StopFileEncoderSteps
  <2>7. \A i \in 1..8 : Rest(StartFileDecoder, i) # <<>>
    BY <2>1, StartFileDecoderSteps
  <2>8. \A i \in 1..7 : Rest(StopFileDecoder, i) # <<>>
    BY <2>1, StopFileDecoderSteps
  <2>9. \A i \in 1..8 : Rest(StartCodecRecver, i) # <<>>
    BY <2>1, StartCodecRecverSteps
  <2>10. \A i \in 1..6 : Rest(StopCodecRecver, i) # <<>>
    BY <2>1, StopCodecRecverSteps
  <2> QED BY <1>1, <2>2, <2>3, <2>4, <2>5, <2>6, <2>7, <2>8, <2>9, <2>10 DEF Stages
<1>4. ASSUME InOrder(e) PROVE Stages'
  <2>1. Settled'
    BY <1>1, <1>3 DEF Settled, Exclusive, EncOn, SenderReady, EncReady, DecReady, MediaTypes
  <2>2. /\ gCodec = 0 => Exclusive("none")
        /\ m.mpCodecSend # 0 => SenderReady /\ Exclusive("sender")
        /\ EncOn => EncReady /\ Exclusive("encoder")
        /\ m.mpFileDecoder # 0 => DecReady /\ Exclusive("decoder")
        /\ m.mpCodecRecv # 0 => Exclusive("receiver")
        /\ gCodec # 0 => codec[gCodec].pc = "none" \/ codec[gCodec].tables = Tables
    BY <1>3 DEF Settled, Exclusive
  <2>3. CASE e = "StartCodecSender"
    <3>1. gCodec = 0
      BY <1>4, <2>3 DEF InOrder
    <3>2. StartingSender(1)'
      BY <1>1, <2>2, <3>1 DEF StartingSender, Exclusive, EncOn, Memory, FeedFacts
    <3>3. todo' = Rest(StartCodecSender, 1)
      BY <1>1, <2>2, <2>3, <3>1, RestEnds, StartCodecSenderSteps DEF Steps, Exclusive
    <3> QED BY <3>2, <3>3 DEF Stages
  <2>4. CASE e = "StartCameraVideo"
    <3>1. CASE m.mpCodecSend = 0
      <4>1. todo' = <<>>
        BY <1>1, <2>4, <3>1 DEF Steps
      <4> QED BY <2>1, <4>1 DEF Stages
    <3>2. CASE m.mpCodecSend # 0
      <4>1. gCodec # 0
        BY <2>2, <3>2 DEF Exclusive
      <4>2. StartingCamera(1)'
        BY <1>1, <2>2, <3>2, <4>1 DEF StartingCamera, CodecStart, SenderReady, Exclusive, EncOn
      <4>3. todo' = Rest(StartCameraVideo, 1)
        BY <1>1, <2>4, <3>2, RestEnds, StartCameraVideoSteps DEF Steps
      <4> QED BY <4>2, <4>3 DEF Stages
    <3> QED BY <3>1, <3>2
  <2>5. CASE e = "StopCodecSender"
    <3>1. CASE m.mpCodecSend = 0
      <4>1. todo' = <<>>
        BY <1>1, <2>5, <3>1 DEF Steps
      <4> QED BY <2>1, <4>1 DEF Stages
    <3>2. CASE m.mpCodecSend # 0
      <4>1. gCodec # 0
        BY <2>2, <3>2 DEF Exclusive
      <4>2. StoppingSender(1)'
        BY <1>1, <2>2, <3>2, <4>1 DEF StoppingSender, CodecStop, SenderReady, Exclusive, EncOn
      <4>3. todo' = Rest(StopCodecSender, 1)
        BY <1>1, <2>5, <3>2, RestEnds, StopCodecSenderSteps DEF Steps
      <4> QED BY <4>2, <4>3 DEF Stages
    <3> QED BY <3>1, <3>2
  <2>6. CASE e \in {"GetCameraParameter", "SetCameraParameter", "SetDisplayOrientation"}
    <3>1. \/ todo' = <<>>
          \/ m.mpCodecSend # 0 /\ todo' \in {<<"GetParameters">>, <<"SetParameters">>, <<"SetOrientation">>}
      BY <1>1, <2>6 DEF Steps
    <3> QED BY <1>1, <2>1, <3>1 DEF Stages
  <2>7. CASE e = "StartFileEncoder"
    <3>1. gCodec = 0
      BY <1>4, <2>7 DEF InOrder
    <3>2. StartingEncoder(1)'
      BY <1>1, <2>2, <3>1 DEF StartingEncoder, Exclusive, EncOn
    <3>3. todo' = Rest(StartFileEncoder, 1)
      BY <1>1, <2>7, RestEnds, StartFileEncoderSteps DEF Steps
    <3> QED BY <3>2, <3>3 DEF Stages
  <2>8. CASE e = "StopFileEncoder"
    <3>1. EncOn
      BY <1>4, <2>8 DEF InOrder, EncOn
    <3>2. gCodec # 0
      BY <2>2, <3>1 DEF Exclusive
    <3>3. StoppingEncoder(1)'
      BY <1>1, <2>2, <3>1, <3>2 DEF StoppingEncoder, CodecStop, EncReady, Exclusive, EncOn
    <3>4. todo' = Rest(StopFileEncoder, 1)
      BY <1>1, <2>8, RestEnds, StopFileEncoderSteps DEF Steps
    <3> QED BY <3>3, <3>4 DEF Stages
  <2>9. CASE e = "StartFileDecoder"
    <3>1. gCodec = 0 /\ m.base = "loaded"
      BY <1>4, <2>9 DEF InOrder
    <3>2. m.mpFileDecoder = 0
      BY <2>2, <3>1 DEF Exclusive
    <3>3. StartingDecoder(1)'
      BY <1>1, <2>2, <3>1, <3>2 DEF StartingDecoder, Exclusive, EncOn
    <3>4. todo' = Rest(StartFileDecoder, 1)
      BY <1>1, <2>9, <3>2, RestEnds, StartFileDecoderSteps DEF Steps
    <3> QED BY <3>3, <3>4 DEF Stages
  <2>10. CASE e = "StopFileDecoder"
    <3>1. CASE m.mpFileDecoder = 0
      <4>1. todo' = <<>>
        BY <1>1, <2>10, <3>1 DEF Steps
      <4> QED BY <2>1, <4>1 DEF Stages
    <3>2. CASE m.mpFileDecoder # 0
      <4>1. gCodec # 0
        BY <2>2, <3>2 DEF Exclusive
      <4>2. StoppingDecoder(1)'
        BY <1>1, <2>2, <3>2, <4>1 DEF StoppingDecoder, CodecStop, DecReady, Exclusive, EncOn
      <4>3. todo' = Rest(StopFileDecoder, 1)
        BY <1>1, <2>10, <3>2, RestEnds, StopFileDecoderSteps DEF Steps
      <4> QED BY <4>2, <4>3 DEF Stages
    <3> QED BY <3>1, <3>2
  <2>11. CASE e = "StartCodecRecver"
    <3>1. gCodec = 0
      BY <1>4, <2>11 DEF InOrder
    <3>2. StartingRecver(1)'
      BY <1>1, <2>2, <3>1 DEF StartingRecver, Exclusive, EncOn
    <3>3. todo' = Rest(StartCodecRecver, 1)
      BY <1>1, <2>11, RestEnds, StartCodecRecverSteps DEF Steps
    <3> QED BY <3>2, <3>3 DEF Stages
  <2>12. CASE e = "StopCodecRecver"
    <3>1. m.mpCodecRecv # 0
      BY <1>4, <2>12 DEF InOrder
    <3>2. gCodec # 0
      BY <2>2, <3>1 DEF Exclusive
    <3>3. StoppingRecver(1)'
      BY <1>1, <2>2, <3>1, <3>2 DEF StoppingRecver, CodecStop, Exclusive, EncOn
    <3>4. todo' = Rest(StopCodecRecver, 1)
      BY <1>1, <2>12, <3>1, RestEnds, StopCodecRecverSteps DEF Steps
    <3> QED BY <3>3, <3>4 DEF Stages
  <2>13. CASE e = "StopVideoSend"
    <3>1. m.base = "loaded" /\ todo' = <<"CallBaseLib">>
      BY <1>1, <1>4, <2>13 DEF InOrder, Steps
    <3> QED BY <1>1, <2>1, <3>1 DEF Stages
  <2>14. CASE e \in {"SenderCreate", "SenderConnect", "SenderDestroy"}
    <3>1. todo' = <<e>>
      BY <1>1, <2>14 DEF Steps
    <3> QED BY <2>1, <2>14, <3>1 DEF Stages
  <2> QED BY <2>3, <2>4, <2>5, <2>6, <2>7, <2>8, <2>9, <2>10, <2>11, <2>12, <2>13, <2>14 DEF LibraryCall
<1> QED BY <1>1, <1>2, <1>4 DEF StepOutcome

-----------------------------------------------------------------------------
(* The library: every step                                                 *)

\* While the application has kept to the order, every start has worked and the
\* process lives, the library's memory is in order and the caller is at one of
\* the stages; if the process died, it was of work that had been stopped.
LibraryInv ==
  /\ sound \in BOOLEAN /\ app \in Apps /\ binding = app.binding
  /\ FaultOnlyAfterStop
  /\ binding = "none" /\ sound /\ sdk /\ fault = NoFault => Memory /\ Stages

\* At first there is nothing.
LEMMA LibraryInit == ASSUME MediaInit PROVE LibraryInv
<1>1. /\ Init /\ binding = app.binding /\ gCodec = 0 /\ codec = [c \in Life |-> NewCodec]
      /\ prod = [p \in Producer |-> Idle] /\ fault = NoFault
      /\ app \in Apps /\ todo = <<>> /\ sound = TRUE
      /\ m = [NewMedia EXCEPT !.base = IF app.loaded /\ sdk THEN "loaded" ELSE @]
  BY DEF MediaInit, Init, CodecInit
<1>2. PICK n : n = NewCodec
  OBVIOUS
<1>3. n \in Codecs /\ n.started = FALSE /\ n.pc = "none" /\ n.call = "none"
  <2>1. n.infos \in Int
    BY <1>2, Lives DEF NewCodec
  <2> QED BY <1>2, <2>1 DEF NewCodec, Codecs
<1>4. codec \in [Life -> Codecs] /\ \A c \in Life : codec[c] = n
  BY <1>1, <1>2, <1>3
<1>5. prod \in [Producer -> Feeds] /\ \A p \in Producer : prod[p].pc = "idle"
  <2>1. PICK x : x = Idle
    OBVIOUS
  <2>2. x \in Feeds /\ x.pc = "idle"
    BY <2>1 DEF Idle, Feeds
  <2> QED BY <1>1, <2>1, <2>2
<1>6. PICK w \in {"garbage", "loaded"} : m = [NewMedia EXCEPT !.base = w]
  BY <1>1 DEF NewMedia
<1>7. m = [base |-> w,
           cam  |-> [lib |-> FALSE, ptr |-> "garbage", ctx |-> 0, cam |-> FALSE, preview |-> FALSE, frame |-> 0],
           mpCodecSend |-> 0, senders |-> 0,
           rtp  |-> [s \in {"codec", "jni"} |-> "none"],
           mpFileEncoder |-> 0, enc |-> [e \in Life |-> "unused"],
           mpFileDecoder |-> 0,
           dec  |-> [d \in Life |-> [file |-> "unused", mbRunning |-> FALSE, exit |-> FALSE, thread |-> FALSE]],
           mpCodecRecv |-> 0,
           recv |-> [r \in Life |-> [life |-> "unused", hears |-> FALSE, mRunning |-> FALSE, thread |-> FALSE]]]
  BY <1>6 DEF NewMedia
<1>8. m \in Medias
  BY <1>7 DEF Medias, Cams, Decs, Recvs
<1>9. /\ ~m.cam.preview /\ ~m.cam.lib /\ m.mpCodecSend = 0 /\ m.mpFileEncoder = 0
      /\ m.mpFileDecoder = 0 /\ m.mpCodecRecv = 0
      /\ \A d \in Life : m.dec[d].file = "unused" /\ ~m.dec[d].mbRunning /\ ~m.dec[d].thread
      /\ \A r \in Life : ~m.recv[r].mRunning
  BY <1>7
<1>10. Memory
  BY <1>1, <1>3, <1>4, <1>5, <1>8, <1>9
  DEF Memory, MediaTypes, CodecFacts, OwnerFacts, FeedFacts, Feeding, Running, InAdd
<1>11. Stages
  BY <1>1, <1>9 DEF Stages, Settled, Exclusive, EncOn
<1> QED BY <1>1, <1>10, <1>11 DEF LibraryInv, FaultOnlyAfterStop

\* A step that the other threads take.
LEMMA OtherThreads ==
  ASSUME Memory, Stages, fault = NoFault, sound',
         \/ \E c \in Life : (ThreadStep(c) \/ Convert(c)) /\ Quiet
         \/ \E c \in Life : onCodecBuffer(c)
         \/ \E p \in Producer : ProducerStep(p)
         \/ postData \/ AskNextFrame \/ AddEncoderData
         \/ \E d \in Life : threadLoop(d) \/ ReadFrame(d) \/ EndReader(d)
         \/ \E r \in Life : ReceiveSource(r) \/ EndReceive(r)
  PROVE  Outcome
<1>1. CASE \E c \in Life : ThreadStep(c) /\ Quiet
  <2>1. PICK c \in Life : ThreadStep(c) /\ Quiet
    BY <1>1
  <2>2. \/ Memory' /\ Stages' /\ fault' = fault
        \/ fault'.id = c /\ fault'.why = "tables" /\ fault'.who = "codec" /\ ~codec'[c].started
    BY <2>1, ThreadStepKeeps
  <2> QED BY <2>2 DEF Outcome, WorkStopped
<1>2. CASE \E c \in Life : Convert(c) /\ Quiet
  BY <1>2, ConvertKeeps DEF Outcome
<1>3. CASE \E c \in Life : onCodecBuffer(c)
  BY <1>3, CallbackKeeps
<1>4. CASE \E p \in Producer : ProducerStep(p)
  BY <1>4, InAddBufferKeeps, BackKeeps DEF ProducerStep
<1>5. CASE postData \/ AskNextFrame \/ AddEncoderData
  BY <1>5, postDataKeeps, AskNextFrameKeeps, AddEncoderDataKeeps
<1>6. CASE \E d \in Life : threadLoop(d) \/ ReadFrame(d) \/ EndReader(d)
  BY <1>6, threadLoopKeeps, ReadFrameKeeps, EndReaderKeeps
<1>7. CASE \E r \in Life : ReceiveSource(r) \/ EndReceive(r)
  BY <1>7, ReceiveSourceKeeps, EndReceiveKeeps
<1> QED BY <1>1, <1>2, <1>3, <1>4, <1>5, <1>6, <1>7

\* What was out of order stays so.
LEMMA HistoryKept ==
  ASSUME LibraryInv, Next
  PROVE  app' = app /\ sdk' = sdk /\ sound' \in BOOLEAN /\ (sound' => sound)
<1>1. sound \in BOOLEAN
  BY DEF LibraryInv
<1>2. CASE \E e \in EntryPoint : Call(e)
  BY <1>1, <1>2 DEF Call
<1>3. CASE UIStep
  <2>1. app' = app /\ sdk' = sdk
    BY <1>3 DEF UIStep
  <2>2. sound' = sound \/ sound' = FALSE
    <3>1. PICK s : s = Head(todo)
      OBVIOUS
    <3>2. \/ CodecStep(s) \/ SenderStep(s) \/ CameraStep(s) \/ FileStep(s) \/ RecverStep(s) \/ RtpStep(s)
          \/ LoadBaseLib \/ CallBaseLib
      BY <1>3, <3>1 DEF UIStep
    <3>3. CASE CodecStep(s)
      <4>1. sound' = sound \/ \E ok : sound' = (sound /\ ok)
        BY <3>3 DEF CodecStep, Api, Trial
      <4>2. ASSUME NEW ok, sound' = (sound /\ ok) PROVE sound' = sound \/ sound' = FALSE
        <5>1. CASE sound /\ ok
          BY <1>1, <4>2, <5>1
        <5>2. CASE ~(sound /\ ok)
          BY <4>2, <5>2
        <5> QED BY <5>1, <5>2
      <4> QED BY <4>1, <4>2
    <3>4. CASE SenderStep(s)
      BY <3>4 DEF SenderStep, NewCodecSender, InitSession, LoadCameraLib, CameraSetup, CreateForSender,
                  ConnectDest, DeinitSession, DeleteRtpSender, DeleteCodecSender, Go, Return, Api
    <3>5. CASE CameraStep(s)
      BY <3>5 DEF CameraStep, StartPreview, StopPreview, CameraRelease, ReleaseLib, GetParameters,
                  SetParameters, SetOrientation, ThroughCameraLib, Go, Crash
    <3>6. CASE FileStep(s)
      <4>1. sound' = sound \/ NewFileEncoder \/ NewFileDecoder
        BY <3>6 DEF FileStep, CloseEncoder, RunReader, SetRunning, ClearRunning, ExitReader, CloseDecoder,
                    Go, Crash
      <4>2. ASSUME NewFileEncoder \/ NewFileDecoder PROVE sound' = sound \/ sound' = FALSE
        <5>1. PICK f : sound' = (sound /\ f = "open")
          BY <4>2 DEF NewFileEncoder, NewFileDecoder
        <5>2. CASE f = "open"
          BY <1>1, <5>1, <5>2
        <5>3. CASE f # "open"
          BY <1>1, <5>1, <5>3
        <5> QED BY <5>2, <5>3
      <4> QED BY <4>1, <4>2
    <3>7. CASE RecverStep(s)
      BY <3>7 DEF RecverStep, NewCodecRecver, StartReceive, StopReceive, DeleteRecver, NullRecver, Go, Crash
    <3>8. CASE RtpStep(s) \/ LoadBaseLib \/ CallBaseLib
      BY <3>8 DEF RtpStep, SenderCreate, SenderConnect, SenderDestroy, LoadBaseLib, CallBaseLib, Go, Crash
    <3> QED BY <3>2, <3>3, <3>4, <3>5, <3>6, <3>7, <3>8
  <2>3. CASE sound' = sound
    BY <1>1, <2>1, <2>3
  <2>4. CASE sound' = FALSE
    BY <2>1, <2>4
  <2> QED BY <2>2, <2>3, <2>4
<1>4. CASE \/ \E c \in Life : (ThreadStep(c) \/ Convert(c)) /\ Quiet
           \/ \E c \in Life : onCodecBuffer(c)
           \/ \E p \in Producer : ProducerStep(p)
           \/ postData \/ AskNextFrame \/ AddEncoderData
           \/ \E d \in Life : threadLoop(d) \/ ReadFrame(d) \/ EndReader(d)
           \/ \E r \in Life : ReceiveSource(r) \/ EndReceive(r)
  <2>1. ASSUME app' = app, sdk' = sdk, sound' = sound
        PROVE  app' = app /\ sdk' = sdk /\ sound' \in BOOLEAN /\ (sound' => sound)
    BY <1>1, <2>1
  <2>2. CASE AddEncoderData
    BY <1>1, <2>2 DEF AddEncoderData
  <2>3. CASE \/ \E c \in Life : (ThreadStep(c) \/ Convert(c)) /\ Quiet
             \/ \E c \in Life : onCodecBuffer(c)
    BY <2>1, <2>3 DEF onCodecBuffer, Quiet
  <2>4. CASE \/ \E p \in Producer : ProducerStep(p)
             \/ postData \/ AskNextFrame
    BY <2>1, <2>4 DEF ProducerStep, BackFromAddBuffer, postData, AskNextFrame, Quiet
  <2>5. CASE \/ \E d \in Life : threadLoop(d) \/ ReadFrame(d) \/ EndReader(d)
             \/ \E r \in Life : ReceiveSource(r) \/ EndReceive(r)
    BY <2>1, <2>5 DEF threadLoop, ReadFrame, EndReader, ReceiveSource, EndReceive, Quiet
  <2> QED BY <1>4, <2>2, <2>3, <2>4, <2>5
<1> QED BY <1>2, <1>3, <1>4 DEF Next

\* Every step keeps the invariant, the bindings' steps because they leave the
\* library alone.
LEMMA LibraryStep ==
  ASSUME LibraryInv, [MediaNext]_<<vars, jvars, binding>>
  PROVE  LibraryInv'
<1>1. CASE binding # "none" \/ UNCHANGED <<vars, jvars, binding>>
  <2>1. UNCHANGED <<vars, binding>>
    BY <1>1 DEF MediaNext
  <2>2. FaultOnlyAfterStop' <=> FaultOnlyAfterStop
    BY <2>1 DEF FaultOnlyAfterStop, WorkStopped, vars, codecVars
  <2>3. Memory' <=> Memory
    BY <2>1 DEF Memory, MediaTypes, CodecFacts, OwnerFacts, FeedFacts, Feeding, Running, vars, codecVars
  <2>4. Stages' <=> Stages
    BY <2>1 DEF Stages, Settled, Exclusive, EncOn, SenderReady, EncReady, DecReady, CodecStart, CodecStop,
                StartingSender, StartingCamera, StoppingSender, StartingEncoder, StoppingEncoder,
                StartingDecoder, StoppingDecoder, StartingRecver, StoppingRecver, vars, codecVars
  <2> QED BY <2>1, <2>2, <2>3, <2>4 DEF LibraryInv, vars, codecVars
<1>2. CASE Next /\ binding = "none" /\ binding' = binding
  <2>1. app' = app /\ sdk' = sdk /\ sound' \in BOOLEAN /\ (sound' => sound)
    BY <1>2, HistoryKept
  <2>2. ASSUME sound', sdk' PROVE Outcome
    <3>1. Memory /\ Stages /\ fault = NoFault /\ sdk /\ sound = TRUE
      BY <1>2, <2>1, <2>2 DEF LibraryInv, Next
    <3>2. StepOutcome => Outcome
      BY <2>2 DEF StepOutcome, Outcome
    <3>3. CASE \E e \in EntryPoint : Call(e)
      <4>1. PICK e \in EntryPoint : Call(e)
        BY <3>3
      <4>2. e \in app.uses /\ e # "AddEncoderData"
        <5>1. e # "AddEncoderData"
          BY DEF EntryPoint
        <5> QED BY <4>1, <5>1 DEF Call
      <4>3. e \in LibraryCall \ {"AddEncoderData"}
        BY <1>2, <4>2, AppAssumption DEF LibraryInv
      <4> QED BY <3>1, <3>2, <4>1, <4>3, CallBegins
    <3>4. CASE UIStep
      BY <3>1, <3>2, <3>4, CallerStep
    <3> QED BY <1>2, <2>2, <3>1, <3>3, <3>4, OtherThreads DEF Next
  <2>3. WorkStopped(fault)' => fault' # NoFault
    BY DEF WorkStopped, NoFault
  <2>4. FaultOnlyAfterStop'
    BY <1>2, <2>2 DEF Outcome, FaultOnlyAfterStop, Next
  <2>5. binding' = "none" /\ sound' /\ sdk' /\ fault' = NoFault => Memory' /\ Stages'
    BY <2>2, <2>3 DEF Outcome
  <2> QED BY <1>2, <2>1, <2>4, <2>5 DEF LibraryInv
<1> QED BY <1>1, <1>2 DEF MediaNext

\* The library never meets what is gone but through work that was stopped.
THEOREM LibraryFaults == MediaSpec => []FaultOnlyAfterStop
<1>1. MediaInit => LibraryInv
  BY LibraryInit
<1>2. LibraryInv /\ [MediaNext]_<<vars, jvars, binding>> => LibraryInv'
  BY LibraryStep
<1>3. LibraryInv => FaultOnlyAfterStop
  BY DEF LibraryInv
<1> QED BY <1>1, <1>2, <1>3, PTL DEF MediaSpec

-----------------------------------------------------------------------------
(* The bindings: the invariant                                             *)

Contexts ==
  [life : {"none", "alive", "freed"}, java : BOOLEAN, mCamera : BOOLEAN, held : BOOLEAN,
   mCallbackBuffers : Nat, mRawImageCallbackBuffers : Nat, mManualBufferMode : BOOLEAN,
   mManualCameraCallbackSet : BOOLEAN]

Flags == {"NOOP", "CAMERA", "BARCODE_SCANNER"}

BindingTypes ==
  /\ field \in BOOLEAN
  /\ ctx \in Contexts
  /\ camera \in [on : BOOLEAN, preview : BOOLEAN, flag : Flags, shot : {"none", "raw", "notify"}]
  /\ DOMAIN call = JavaThread
  /\ \A t \in JavaThread :
       Android6!Inside(t, "setHasPreviewCallback") => call[t].arg \in BOOLEAN \X BOOLEAN
  /\ event \in {"none", "frame", "raw", "notify", "faces"}

Clearing(t)      == call[t].at = "clear"
Disconnecting(t) == call[t].at = "disconnect"
Releasing(t)     == Clearing(t) \/ Disconnecting(t)

\* One call of release() takes the context and the camera apart, in this
\* order, and nothing puts them together again.
ReleaseInv ==
  /\ field => ctx.mCamera /\ \A t \in JavaThread : ~Releasing(t)
  /\ \A t, u \in JavaThread : Releasing(t) /\ Releasing(u) => t = u
  /\ \A t \in JavaThread : Clearing(t) => ctx.mCamera
  /\ \A t \in JavaThread : Disconnecting(t) => ctx.held /\ camera.on /\ ~ctx.mCamera
  /\ ctx.java = ctx.mCamera
  /\ ctx.mCamera => ctx.held /\ camera.on
  /\ ctx.held \/ camera.on => ctx.life = "alive"
  /\ ctx.life = "none" => ctx = Android6!NoContext

\* Whoever holds the camera keeps the context alive.
HoldInv ==
  /\ event # "none" => ctx.life = "alive"
  /\ \A t \in JavaThread : Android6!HoldsCamera(t) => ctx.life = "alive"
  /\ \A t \in JavaThread : call[t].at = "inside" => ctx.life # "none"

\* mManualCameraCallbackSet says that the camera has been asked for frames,
\* and it has been while there are buffers.
ManualInv ==
  ctx.mManualBufferMode /\ ctx.mCamera =>
    /\ ctx.mManualCameraCallbackSet => camera.flag = "CAMERA"
    /\ ctx.mCallbackBuffers > 0 => ctx.mManualCameraCallbackSet

BindingInv == BindingTypes /\ ReleaseInv /\ HoldInv /\ ManualInv /\ Android6!OnlyReleaseRaces
-----------------------------------------------------------------------------
(* The methods of the context                                              *)

\* The application is in a call, or the camera is in a callback, that will run
\* a method on the context: the context is there, or the call is one of those
\* that OnlyReleaseRaces names and release() has begun.
Entitled(op) ==
  \/ op = "postData" /\ event # "none"
  \/ op = "addCallbackBuffer" /\ ctx.life # "none"
  \/ op \in {"setHasPreviewCallback", "setPreviewCallbackSurface"} /\ ctx.life = "alive"

\* What a method may answer: a context with the same holders, and a flag that
\* suits it.
GoodResult(r) ==
  /\ r.ctx \in Contexts /\ r.flag \in Flags \cup {"keep"}
  /\ r.ctx.life = ctx.life /\ r.ctx.java = ctx.java /\ r.ctx.mCamera = ctx.mCamera
  /\ r.ctx.held = ctx.held
  /\ r.ctx.mManualBufferMode =>
       /\ r.flag = "CAMERA" => r.ctx.mManualCameraCallbackSet
       /\ r.flag = "keep" /\ r.ctx.mManualCameraCallbackSet =>
            ctx.mManualBufferMode /\ ctx.mManualCameraCallbackSet
       /\ r.flag \notin {"CAMERA", "keep"} => ~r.ctx.mManualCameraCallbackSet
       /\ ctx.mCamera /\ r.ctx.mCallbackBuffers > 0 => r.ctx.mManualCameraCallbackSet

\* setCallbackMode forgets what the old mode had asked for.
LEMMA SetCallbackModeResult ==
  ASSUME BindingInv, NEW installed \in BOOLEAN, NEW manual \in BOOLEAN
  PROVE  GoodResult(Android6!setCallbackMode(ctx, installed, manual))
<1> DEFINE mode == [ctx EXCEPT !.mManualBufferMode = manual, !.mManualCameraCallbackSet = FALSE]
           r    == Android6!setCallbackMode(ctx, installed, manual)
<1>1. /\ mode \in Contexts /\ mode.life = ctx.life /\ mode.java = ctx.java
      /\ mode.mCamera = ctx.mCamera /\ mode.held = ctx.held
      /\ mode.mCallbackBuffers = ctx.mCallbackBuffers
      /\ mode.mManualBufferMode = manual /\ mode.mManualCameraCallbackSet = FALSE
  BY DEF BindingInv, BindingTypes, Contexts
<1>2. r = IF ~installed THEN [ctx |-> [mode EXCEPT !.mCallbackBuffers = 0], flag |-> "NOOP"]
          ELSE IF ~manual
          THEN [ctx |-> [mode EXCEPT !.mCallbackBuffers = 0], flag |-> "BARCODE_SCANNER"]
          ELSE IF ctx.mCallbackBuffers = 0 THEN [ctx |-> mode, flag |-> "keep"]
          ELSE [ctx |-> [mode EXCEPT !.mManualCameraCallbackSet = TRUE], flag |-> "CAMERA"]
  BY DEF Android6!setCallbackMode, Android6!Keep, Android6!SetFlag
<1> HIDE DEF mode, r
<1>3. ASSUME ~installed PROVE GoodResult(r)
  BY <1>1, <1>2, <1>3 DEF GoodResult, Contexts, Flags
<1>4. ASSUME installed /\ ~manual PROVE GoodResult(r)
  BY <1>1, <1>2, <1>4 DEF GoodResult, Contexts, Flags
<1>5. ASSUME installed /\ manual /\ ctx.mCallbackBuffers = 0 PROVE GoodResult(r)
  BY <1>1, <1>2, <1>5 DEF GoodResult, Contexts, Flags
<1>6. ASSUME installed /\ manual /\ ctx.mCallbackBuffers # 0 PROVE GoodResult(r)
  BY <1>1, <1>2, <1>6 DEF GoodResult, Contexts, Flags
<1> QED BY <1>3, <1>4, <1>5, <1>6 DEF r

\* The first buffer in manual mode asks for frames.
LEMMA AddCallbackBufferResult ==
  ASSUME BindingInv, NEW type
  PROVE  GoodResult(Android6!addCallbackBuffer(ctx, type))
<1> DEFINE more == [ctx EXCEPT !.mCallbackBuffers = @ + 1]
           raw  == [ctx EXCEPT !.mRawImageCallbackBuffers = @ + 1]
           r    == Android6!addCallbackBuffer(ctx, type)
<1>1. /\ more \in Contexts /\ more.life = ctx.life /\ more.java = ctx.java
      /\ more.mCamera = ctx.mCamera /\ more.held = ctx.held
      /\ more.mManualBufferMode = ctx.mManualBufferMode
      /\ more.mManualCameraCallbackSet = ctx.mManualCameraCallbackSet
  BY DEF BindingInv, BindingTypes, Contexts
<1>2. /\ raw \in Contexts /\ raw.life = ctx.life /\ raw.java = ctx.java
      /\ raw.mCamera = ctx.mCamera /\ raw.held = ctx.held
      /\ raw.mCallbackBuffers = ctx.mCallbackBuffers
      /\ raw.mManualBufferMode = ctx.mManualBufferMode
      /\ raw.mManualCameraCallbackSet = ctx.mManualCameraCallbackSet
  BY DEF BindingInv, BindingTypes, Contexts
<1>3. r = IF type = "raw" THEN [ctx |-> raw, flag |-> "keep"]
          ELSE IF ctx.mManualBufferMode /\ ~ctx.mManualCameraCallbackSet
          THEN [ctx |-> [more EXCEPT !.mManualCameraCallbackSet = TRUE], flag |-> "CAMERA"]
          ELSE [ctx |-> more, flag |-> "keep"]
  BY DEF Android6!addCallbackBuffer, Android6!Keep, Android6!SetFlag
<1>4. ManualInv /\ ctx \in Contexts
  BY DEF BindingInv, BindingTypes
<1> HIDE DEF more, raw, r
<1>5. ASSUME type = "raw" PROVE GoodResult(r)
  BY <1>2, <1>3, <1>4, <1>5 DEF GoodResult, Flags, ManualInv
<1>6. ASSUME type # "raw" /\ ctx.mManualBufferMode /\ ~ctx.mManualCameraCallbackSet PROVE GoodResult(r)
  BY <1>1, <1>3, <1>6 DEF GoodResult, Contexts, Flags
<1>7. ASSUME type # "raw" /\ ~(ctx.mManualBufferMode /\ ~ctx.mManualCameraCallbackSet) PROVE GoodResult(r)
  BY <1>1, <1>3, <1>4, <1>7 DEF GoodResult, Flags, ManualInv
<1> QED BY <1>5, <1>6, <1>7 DEF r

\* The last buffer used up stops the frames, until the next one comes.
LEMMA CopyAndPostResult ==
  ASSUME BindingInv, NEW type
  PROVE  GoodResult(Android6!copyAndPost(ctx, type))
<1> DEFINE left == Android6!getCallbackBuffer(ctx.mCallbackBuffers)
           used == [ctx EXCEPT !.mCallbackBuffers = left]
           raw  == [ctx EXCEPT !.mRawImageCallbackBuffers = Android6!getCallbackBuffer(@)]
           r    == Android6!copyAndPost(ctx, type)
<1>1. /\ left \in Nat
      /\ left > 0 => ctx.mCallbackBuffers > 0
      /\ Android6!getCallbackBuffer(ctx.mRawImageCallbackBuffers) \in Nat
  BY DEF BindingInv, BindingTypes, Contexts, Android6!getCallbackBuffer
<1> HIDE DEF left
<1>2. /\ used \in Contexts /\ used.life = ctx.life /\ used.java = ctx.java
      /\ used.mCamera = ctx.mCamera /\ used.held = ctx.held
      /\ used.mCallbackBuffers = left
      /\ used.mManualBufferMode = ctx.mManualBufferMode
      /\ used.mManualCameraCallbackSet = ctx.mManualCameraCallbackSet
  BY <1>1 DEF BindingInv, BindingTypes, Contexts
<1>3. /\ raw \in Contexts /\ raw.life = ctx.life /\ raw.java = ctx.java
      /\ raw.mCamera = ctx.mCamera /\ raw.held = ctx.held
      /\ raw.mCallbackBuffers = ctx.mCallbackBuffers
      /\ raw.mManualBufferMode = ctx.mManualBufferMode
      /\ raw.mManualCameraCallbackSet = ctx.mManualCameraCallbackSet
  BY <1>1 DEF BindingInv, BindingTypes, Contexts
<1>4. r = IF type = "raw" THEN [ctx |-> raw, flag |-> "keep"]
          ELSE IF type = "frame" /\ ctx.mManualBufferMode
          THEN IF left = 0
               THEN [ctx |-> [used EXCEPT !.mManualCameraCallbackSet = FALSE], flag |-> "NOOP"]
               ELSE [ctx |-> used, flag |-> "keep"]
          ELSE [ctx |-> ctx, flag |-> "keep"]
  BY DEF Android6!copyAndPost, Android6!Keep, Android6!SetFlag, left
<1>5. ManualInv /\ ctx \in Contexts
  BY DEF BindingInv, BindingTypes
<1> HIDE DEF used, raw, r
<1>6. ASSUME type = "raw" PROVE GoodResult(r)
  BY <1>3, <1>4, <1>5, <1>6 DEF GoodResult, Flags, ManualInv
<1>7. ASSUME type = "frame" /\ ctx.mManualBufferMode /\ left = 0 PROVE GoodResult(r)
  <2> DEFINE none == [used EXCEPT !.mManualCameraCallbackSet = FALSE]
  <2>1. r = [ctx |-> none, flag |-> "NOOP"]
    BY <1>4, <1>7
  <2>2. /\ none \in Contexts /\ none.life = ctx.life /\ none.java = ctx.java
        /\ none.mCamera = ctx.mCamera /\ none.held = ctx.held
        /\ none.mCallbackBuffers = 0 /\ none.mManualCameraCallbackSet = FALSE
    BY <1>2, <1>7 DEF Contexts
  <2> HIDE DEF none
  <2> QED BY <2>1, <2>2 DEF GoodResult, Flags
<1>8. ASSUME type = "frame" /\ ctx.mManualBufferMode /\ left # 0 PROVE GoodResult(r)
  BY <1>1, <1>2, <1>4, <1>5, <1>8 DEF GoodResult, Flags, ManualInv
<1>9. ASSUME type # "raw" /\ ~(type = "frame" /\ ctx.mManualBufferMode) PROVE GoodResult(r)
  BY <1>4, <1>5, <1>9 DEF GoodResult, Flags, ManualInv
<1> QED BY <1>6, <1>7, <1>8, <1>9 DEF r

\* A method leaves the holders of the context alone and the camera asked for
\* what the context remembers; it breaks only as it is allowed to.
LEMMA MethodStep ==
  ASSUME BindingInv, broken = Android6!Sound, NEW op, NEW r, GoodResult(r), Entitled(op),
         Android6!Method(op, r), UNCHANGED field,
         DOMAIN call' = JavaThread,
         \A t \in JavaThread : call'[t] = call[t] \/ call'[t] = Android6!Idle,
         event' \in {event, "none"},
         op = "postData" => ctx.java
  PROVE  BindingInv'
<1> DEFINE gone == ctx.life = "freed"
           null == r.flag # "keep" /\ ~ctx.mCamera
<1>1. CASE ~gone /\ ~null
  <2>1. /\ ctx' = r.ctx /\ broken' = broken
        /\ camera' = IF r.flag = "keep" \/ ~camera.on THEN camera
                     ELSE [camera EXCEPT !.flag = r.flag]
    BY <1>1 DEF Android6!Method
  <2>2. /\ camera'.on = camera.on
        /\ camera' \in [on : BOOLEAN, preview : BOOLEAN, flag : Flags,
                        shot : {"none", "raw", "notify"}]
        /\ r.flag = "keep" => camera'.flag = camera.flag
        /\ r.flag # "keep" /\ camera.on => camera'.flag = r.flag
    BY <2>1 DEF BindingInv, BindingTypes, GoodResult, Flags
  <2>3. BindingTypes'
    BY <2>1, <2>2 DEF BindingInv, BindingTypes, GoodResult, Android6!Inside, Android6!Idle
  <2>4. \A t \in JavaThread : /\ Clearing(t)' => Clearing(t)
                              /\ Disconnecting(t)' => Disconnecting(t)
                              /\ Android6!HoldsCamera(t)' => Android6!HoldsCamera(t)
                              /\ call'[t].at = "inside" => call[t].at = "inside"
    BY DEF Clearing, Disconnecting, Android6!HoldsCamera, Android6!Idle
  <2>5. ReleaseInv'
    BY <2>1, <2>2, <2>4 DEF BindingInv, ReleaseInv, HoldInv, Releasing, GoodResult, Entitled
  <2>6. HoldInv'
    BY <2>1, <2>4 DEF BindingInv, HoldInv, GoodResult
  <2>7. ManualInv'
    BY <2>1, <2>2 DEF BindingInv, ReleaseInv, ManualInv, GoodResult, Flags
  <2>8. Android6!OnlyReleaseRaces'
    BY <2>1 DEF Android6!OnlyReleaseRaces
  <2> QED BY <2>3, <2>5, <2>6, <2>7, <2>8 DEF BindingInv
<1>2. CASE gone \/ null
  <2>1. /\ ctx' = ctx /\ camera' = camera
        /\ broken' = [op |-> op, why |-> IF gone THEN "freed" ELSE "null"]
    BY <1>2 DEF Android6!Method, Android6!Break
  <2>2. BindingTypes'
    BY <2>1 DEF BindingInv, BindingTypes, Android6!Inside, Android6!Idle
  <2>3. \A t \in JavaThread : /\ Clearing(t)' => Clearing(t)
                              /\ Disconnecting(t)' => Disconnecting(t)
                              /\ Android6!HoldsCamera(t)' => Android6!HoldsCamera(t)
                              /\ call'[t].at = "inside" => call[t].at = "inside"
    BY DEF Clearing, Disconnecting, Android6!HoldsCamera, Android6!Idle
  <2>4. ReleaseInv' /\ HoldInv' /\ ManualInv'
    BY <2>1, <2>3 DEF BindingInv, ReleaseInv, Releasing, HoldInv, ManualInv
  <2>5. ~field /\ (op = "postData" => FALSE) /\ (gone => op = "addCallbackBuffer")
    BY <1>2 DEF BindingInv, ReleaseInv, HoldInv, Entitled
  <2>6. Android6!OnlyReleaseRaces'
    BY <2>1, <2>5 DEF Android6!OnlyReleaseRaces, Entitled
  <2> QED BY <2>2, <2>4, <2>6 DEF BindingInv
<1> QED BY <1>1, <1>2
-----------------------------------------------------------------------------
(* The actions                                                             *)

\* A call that finds the field set takes a context that is there.
LEMMA TakeStep ==
  ASSUME BindingInv, broken = Android6!Sound, NEW t \in JavaThread, NEW op, NEW arg,
         op = "setHasPreviewCallback" => arg \in BOOLEAN \X BOOLEAN,
         Android6!get_native_camera(t, op, arg)
  PROVE  BindingInv'
<1>1. /\ UNCHANGED <<field, ctx, camera, event, broken>>
      /\ DOMAIN call' = JavaThread
      /\ \A u \in JavaThread :
           \/ call'[u] = call[u]
           \/ field /\ call'[u] = [at |-> "inside", op |-> op, arg |-> arg]
  BY DEF BindingInv, BindingTypes, Android6!get_native_camera
<1>2. \A u \in JavaThread : /\ Clearing(u)' => Clearing(u)
                            /\ Disconnecting(u)' => Disconnecting(u)
                            /\ call'[u] = call[u] \/ field
  BY <1>1 DEF Clearing, Disconnecting
<1>3. BindingTypes' /\ ReleaseInv' /\ ManualInv'
  BY <1>1, <1>2 DEF BindingInv, BindingTypes, ReleaseInv, Releasing, ManualInv, Android6!Inside
<1>4. HoldInv'
  BY <1>1, <1>2 DEF BindingInv, HoldInv, ReleaseInv, Android6!HoldsCamera
<1>5. Android6!OnlyReleaseRaces'
  BY <1>1 DEF Android6!OnlyReleaseRaces
<1> QED BY <1>3, <1>4, <1>5 DEF BindingInv

\* A call that returns gives up what it held.
LEMMA ReturnStep ==
  ASSUME BindingInv, NEW t \in JavaThread, Android6!Return(t)
  PROVE  /\ DOMAIN call' = JavaThread
         /\ \A u \in JavaThread : call'[u] = call[u] \/ call'[u] = Android6!Idle
         /\ UNCHANGED <<field, event>>
BY DEF BindingInv, BindingTypes, Android6!Return

\* Steps that leave the context and the calls' claims on it alone, and of the
\* camera change at most the preview, the picture to come, or a flag other
\* than the one for manual mode.
LEMMA SameContextStep ==
  ASSUME BindingInv, broken = Android6!Sound, UNCHANGED <<field, ctx, broken>>,
         DOMAIN call' = JavaThread,
         \A u \in JavaThread : call'[u] = call[u] \/ call'[u] = Android6!Idle,
         camera' \in [on : {camera.on}, preview : BOOLEAN, flag : Flags,
                      shot : {"none", "raw", "notify"}],
         camera.flag = "CAMERA" => camera'.flag = "CAMERA",
         event' \in {"none", "frame", "raw", "notify", "faces"},
         event' # "none" => event # "none" \/ camera.on
  PROVE  BindingInv'
<1>1. \A t \in JavaThread : /\ Clearing(t)' => Clearing(t)
                            /\ Disconnecting(t)' => Disconnecting(t)
                            /\ Android6!HoldsCamera(t)' => Android6!HoldsCamera(t)
                            /\ call'[t].at = "inside" => call[t].at = "inside"
  BY DEF Clearing, Disconnecting, Android6!HoldsCamera, Android6!Idle
<1>2. BindingTypes' /\ ReleaseInv' /\ ManualInv'
  BY <1>1 DEF BindingInv, BindingTypes, ReleaseInv, Releasing, ManualInv, Android6!Inside,
     Android6!Idle
<1>3. HoldInv'
  BY <1>1 DEF BindingInv, HoldInv, ReleaseInv
<1>4. Android6!OnlyReleaseRaces'
  BY DEF Android6!OnlyReleaseRaces
<1> QED BY <1>2, <1>3, <1>4 DEF BindingInv

\* The calls that only ask the camera for something.
LEMMA AskStep ==
  ASSUME BindingInv, broken = Android6!Sound, NEW t \in JavaThread,
         NEW op \in {"ask", "startPreview", "stopPreview"},
         NEW asked \in {camera, [camera EXCEPT !.preview = TRUE], [camera EXCEPT !.preview = FALSE]},
         Android6!Ask(t, op, asked)
  PROVE  BindingInv'
<1>1. CASE Android6!get_native_camera(t, op, <<>>)
  BY <1>1, TakeStep
<1>2. CASE Android6!Inside(t, op) /\ camera' \in {camera, asked} /\ Android6!Return(t)
             /\ UNCHANGED <<ctx, broken>>
  <2>1. /\ camera' \in [on : {camera.on}, preview : BOOLEAN, flag : Flags,
                        shot : {"none", "raw", "notify"}]
        /\ camera'.flag = camera.flag
    BY <1>2 DEF BindingInv, BindingTypes, Flags
  <2> QED BY <1>2, <2>1, ReturnStep, SameContextStep DEF BindingInv, BindingTypes
<1> QED BY <1>1, <1>2 DEF Android6!Ask
\* takePicture looks at the raw buffers of a context that it keeps alive.
LEMMA TakePictureStep ==
  ASSUME BindingInv, broken = Android6!Sound, NEW t \in JavaThread, Android6!takePicture(t)
  PROVE  BindingInv'
<1>1. CASE Android6!get_native_camera(t, "takePicture", <<>>)
  BY <1>1, TakeStep
<1>2. CASE ~Android6!get_native_camera(t, "takePicture", <<>>)
  <2>1. Android6!Inside(t, "takePicture") /\ Android6!Return(t) /\ UNCHANGED ctx
    BY <1>2 DEF Android6!takePicture
  <2>2. ctx.life = "alive"
    BY <2>1 DEF BindingInv, HoldInv, Android6!HoldsCamera, Android6!Inside
  <2>3. /\ UNCHANGED broken
        /\ camera' \in [on : {camera.on}, preview : BOOLEAN, flag : Flags,
                        shot : {"none", "raw", "notify"}]
        /\ camera'.flag = camera.flag
    BY <1>2, <2>2 DEF BindingInv, BindingTypes, Flags, Android6!takePicture
  <2> QED BY <2>1, <2>3, ReturnStep, SameContextStep DEF BindingInv, BindingTypes
<1> QED BY <1>1, <1>2

\* The calls that run a method on the context without a lock that release()
\* would respect.
LEMMA CallbackModeStep ==
  ASSUME BindingInv, broken = Android6!Sound, NEW t \in JavaThread,
         \/ Android6!setHasPreviewCallback(t) \/ Android6!setPreviewCallbackSurface(t)
         \/ Android6!AddCallbackBuffer(t)
  PROVE  BindingInv'
<1> DEFINE takes == \/ \E installed, manual \in BOOLEAN :
                          Android6!get_native_camera(t, "setHasPreviewCallback", <<installed, manual>>)
                    \/ Android6!get_native_camera(t, "setPreviewCallbackSurface", <<>>)
                    \/ \E type \in {"frame", "raw"} :
                          Android6!get_native_camera(t, "addCallbackBuffer", <<type>>)
<1>1. CASE takes
  BY <1>1, TakeStep
<1>2. ASSUME NEW op \in {"setHasPreviewCallback", "setPreviewCallbackSurface", "addCallbackBuffer"},
             NEW r, GoodResult(r), Android6!Inside(t, op), Android6!Method(call[t].op, r),
             Android6!Return(t)
      PROVE  BindingInv'
  <2>1. Entitled(op) /\ call[t].op = op
    BY <1>2 DEF BindingInv, HoldInv, Entitled, Android6!HoldsCamera, Android6!Inside
  <2> QED BY <1>2, <2>1, ReturnStep, MethodStep
<1>3. CASE Android6!setHasPreviewCallback(t) /\ ~takes
  <2>1. call[t].arg[1] \in BOOLEAN /\ call[t].arg[2] \in BOOLEAN
    BY <1>3 DEF BindingInv, BindingTypes, Android6!setHasPreviewCallback, Android6!Inside
  <2> QED BY <1>2, <1>3, <2>1, SetCallbackModeResult, Zenon DEF Android6!setHasPreviewCallback
<1>4. CASE Android6!setPreviewCallbackSurface(t) /\ ~takes
  BY <1>2, <1>4, SetCallbackModeResult DEF Android6!setPreviewCallbackSurface
<1>5. CASE Android6!AddCallbackBuffer(t) /\ ~takes
  BY <1>2, <1>5, AddCallbackBufferResult DEF Android6!AddCallbackBuffer
<1> QED BY <1>1, <1>3, <1>4, <1>5

\* The camera sends something while it is on; postData runs a method on the
\* context unless release() has been there, and the others do not.
LEMMA CallbackStep ==
  ASSUME BindingInv, broken = Android6!Sound,
         \/ Android6!CameraSends \/ Android6!postData \/ Android6!postMetadata \/ Android6!notify
  PROVE  BindingInv'
<1>1. CASE Android6!CameraSends
  <2>1. /\ camera' \in [on : {camera.on}, preview : BOOLEAN, flag : Flags,
                        shot : {"none", "raw", "notify"}]
        /\ camera.flag = "CAMERA" => camera'.flag = "CAMERA"
        /\ event' \in {"none", "frame", "raw", "notify", "faces"}
        /\ camera.on /\ UNCHANGED <<field, ctx, call, broken>>
    BY <1>1 DEF BindingInv, BindingTypes, Flags, Android6!CameraSends
  <2> QED BY <2>1, SameContextStep DEF BindingInv, BindingTypes
<1>2. ASSUME Android6!Delivered, UNCHANGED <<ctx, camera, broken>>
      PROVE  BindingInv'
  BY <1>2, SameContextStep DEF BindingInv, BindingTypes, Android6!Delivered
<1>3. CASE Android6!postData
  <2>1. CASE UNCHANGED <<ctx, camera, broken>>
    BY <1>2, <1>3, <2>1 DEF Android6!postData
  <2>2. CASE ~UNCHANGED <<ctx, camera, broken>>
    <3>1. /\ ctx.java /\ event # "none" /\ Android6!Delivered
          /\ \/ Android6!Method("postData", Android6!Keep(ctx))
             \/ Android6!Method("postData", Android6!copyAndPost(ctx, event))
      BY <1>3, <2>2 DEF Android6!postData
    <3>2. GoodResult(Android6!Keep(ctx))
      BY DEF BindingInv, BindingTypes, ManualInv, ReleaseInv, GoodResult, Android6!Keep
    <3>3. Entitled("postData")
      BY <3>1 DEF Entitled
    <3>4. /\ UNCHANGED <<field, call>> /\ event' = "none" /\ DOMAIN call' = JavaThread
      BY <3>1 DEF Android6!Delivered, BindingInv, BindingTypes
    <3>5. CASE Android6!Method("postData", Android6!Keep(ctx))
      BY <3>1, <3>2, <3>3, <3>4, <3>5, MethodStep
    <3>6. CASE Android6!Method("postData", Android6!copyAndPost(ctx, event))
      BY <3>1, <3>3, <3>4, <3>6, CopyAndPostResult, MethodStep
    <3> QED BY <3>1, <3>5, <3>6
  <2> QED BY <2>1, <2>2
<1>4. CASE Android6!postMetadata \/ Android6!notify
  BY <1>2, <1>4 DEF Android6!postMetadata, Android6!notify
<1> QED BY <1>1, <1>3, <1>4

\* The Java object connects once.
LEMMA SetupStep ==
  ASSUME BindingInv, broken = Android6!Sound, Android6!native_setup
  PROVE  BindingInv'
<1>1. /\ ctx'.life = "alive" /\ ctx'.java /\ ctx'.mCamera /\ ctx'.held /\ ctx' \in Contexts
      /\ ~ctx'.mManualBufferMode /\ field' = TRUE /\ UNCHANGED <<call, event, broken>>
  BY DEF Android6!native_setup, Android6!JNICameraContext, Android6!NoContext, Contexts
<1>2. /\ camera'.on
      /\ camera' \in [on : BOOLEAN, preview : BOOLEAN, flag : Flags,
                      shot : {"none", "raw", "notify"}]
  BY DEF BindingInv, BindingTypes, Flags, Android6!native_setup
<1>3. \A t \in JavaThread : ~Releasing(t)
  BY DEF BindingInv, ReleaseInv, Releasing, Android6!native_setup, Android6!NoContext
<1>4. \A t \in JavaThread : Clearing(t)' = Clearing(t) /\ Disconnecting(t)' = Disconnecting(t)
  BY <1>1 DEF Clearing, Disconnecting
<1>5. BindingTypes' /\ ReleaseInv' /\ ManualInv'
  BY <1>1, <1>2, <1>3, <1>4 DEF BindingInv, BindingTypes, ReleaseInv, Releasing, ManualInv,
     Android6!Inside
<1>6. HoldInv'
  BY <1>1 DEF HoldInv
<1>7. Android6!OnlyReleaseRaces'
  BY <1>1 DEF Android6!OnlyReleaseRaces
<1> QED BY <1>5, <1>6, <1>7 DEF BindingInv

\* release() clears the field, the context and the camera, in this order.
LEMMA ReleaseStep ==
  ASSUME BindingInv, broken = Android6!Sound, NEW t \in JavaThread, Android6!release(t)
  PROVE  BindingInv'
<1>1. CASE call[t] = Android6!Idle /\ field
  <2>1. /\ field' = FALSE /\ UNCHANGED <<ctx, camera, event, broken>>
        /\ call' = [call EXCEPT ![t] = [at |-> "clear", op |-> "release", arg |-> <<>>]]
    BY <1>1 DEF Android6!release, Android6!Idle
  <2>2. /\ Clearing(t)' /\ ~Disconnecting(t)' /\ ~Android6!HoldsCamera(t)'
        /\ call'[t].at = "clear"
        /\ \A u \in JavaThread \ {t} : call'[u] = call[u] /\ ~Releasing(u)'
    BY <1>1, <2>1 DEF BindingInv, BindingTypes, ReleaseInv, Releasing, Clearing, Disconnecting,
       Android6!HoldsCamera
  <2>3. BindingTypes' /\ ManualInv'
    BY <2>1, <2>2 DEF BindingInv, BindingTypes, ManualInv, Android6!Inside
  <2>4. ReleaseInv'
    BY <1>1, <2>1, <2>2 DEF BindingInv, BindingTypes, ReleaseInv, Releasing
  <2>5. HoldInv'
    BY <2>1, <2>2 DEF BindingInv, HoldInv, Android6!HoldsCamera
  <2>6. Android6!OnlyReleaseRaces'
    BY <2>1 DEF Android6!OnlyReleaseRaces
  <2> QED BY <2>3, <2>4, <2>5, <2>6 DEF BindingInv
<1>2. CASE Clearing(t)
  <2>1. /\ ctx' = Android6!Release(ctx) /\ UNCHANGED <<field, camera, event, broken>>
        /\ call' = [call EXCEPT ![t].at = "disconnect"]
    BY <1>2 DEF Android6!release, Android6!Idle, Clearing
  <2>2. /\ ~ctx'.java /\ ~ctx'.mCamera /\ ctx'.held = ctx.held /\ ctx'.life = ctx.life
        /\ ctx' \in Contexts
    BY <2>1 DEF BindingInv, BindingTypes, Contexts, Android6!Release, Android6!clearCallbackBuffers_l
  <2>3. /\ call'[t].at = "disconnect"
        /\ \A u \in JavaThread \ {t} : call'[u] = call[u] /\ ~Releasing(u)'
    BY <1>2, <2>1 DEF BindingInv, BindingTypes, ReleaseInv, Releasing, Clearing, Disconnecting
  <2>4. BindingTypes' /\ ManualInv'
    BY <2>1, <2>2, <2>3 DEF BindingInv, BindingTypes, ManualInv, Android6!Inside
  <2>5. ReleaseInv'
    <3>1. ctx.mCamera /\ ctx.held /\ camera.on /\ ctx.life = "alive" /\ ~field
      BY <1>2 DEF BindingInv, BindingTypes, ReleaseInv, Releasing
    <3> QED BY <2>1, <2>2, <2>3, <3>1 DEF Contexts, ReleaseInv, Releasing, Clearing, Disconnecting
  <2>6. HoldInv'
    BY <2>1, <2>2, <2>3 DEF BindingInv, HoldInv, Android6!HoldsCamera
  <2>7. Android6!OnlyReleaseRaces'
    BY <2>1 DEF Android6!OnlyReleaseRaces
  <2> QED BY <2>4, <2>5, <2>6, <2>7 DEF BindingInv
<1>3. CASE Disconnecting(t)
  <2>1. /\ camera' = [on |-> FALSE, preview |-> FALSE, flag |-> "NOOP", shot |-> "none"]
        /\ ctx' = [ctx EXCEPT !.held = FALSE]
        /\ Android6!Return(t) /\ UNCHANGED broken
    BY <1>3 DEF Android6!release, Android6!Idle, Disconnecting
  <2>2. /\ ctx'.java = ctx.java /\ ctx'.mCamera = ctx.mCamera /\ ~ctx'.held
        /\ ctx'.life = ctx.life /\ ctx' \in Contexts
    BY <2>1 DEF BindingInv, BindingTypes, Contexts
  <2>3. /\ call'[t] = Android6!Idle
        /\ \A u \in JavaThread \ {t} : call'[u] = call[u] /\ ~Releasing(u)'
        /\ UNCHANGED <<field, event>> /\ DOMAIN call' = JavaThread
    BY <1>3, <2>1 DEF BindingInv, BindingTypes, ReleaseInv, Releasing, Clearing, Disconnecting,
       Android6!Return
  <2>4. ctx.held /\ camera.on /\ ~ctx.mCamera /\ ctx.life = "alive" /\ ~field
    BY <1>3 DEF BindingInv, BindingTypes, ReleaseInv, Releasing
  <2>5. BindingTypes' /\ ManualInv'
    BY <2>1, <2>2, <2>3, <2>4 DEF BindingInv, BindingTypes, ManualInv, Flags, Android6!Inside,
       Android6!Idle
  <2>6. ReleaseInv'
    BY <2>1, <2>2, <2>3, <2>4 DEF BindingInv, ReleaseInv, Releasing, Clearing, Disconnecting,
       Android6!Idle
  <2>7. HoldInv'
    BY <2>2, <2>3 DEF BindingInv, HoldInv, Android6!HoldsCamera, Android6!Idle
  <2>8. Android6!OnlyReleaseRaces'
    BY <2>1 DEF Android6!OnlyReleaseRaces
  <2> QED BY <2>5, <2>6, <2>7, <2>8 DEF BindingInv
<1> QED BY <1>1, <1>2, <1>3 DEF Android6!release, Clearing, Disconnecting

\* The context goes when nothing holds it any more.
LEMMA LastReferenceStep ==
  ASSUME BindingInv, broken = Android6!Sound, Android6!LastReference
  PROVE  BindingInv'
<1>1. /\ ctx'.life = "freed" /\ ~ctx'.java /\ ~ctx'.mCamera /\ ~ctx'.held /\ ctx' \in Contexts
      /\ UNCHANGED <<field, camera, call, event, broken>>
  BY DEF BindingInv, BindingTypes, Contexts, Android6!LastReference, Android6!Release,
     Android6!clearCallbackBuffers_l
<1>2. ~ctx.held /\ ~ctx.mCamera /\ ~camera.on /\ event = "none"
      /\ \A t \in JavaThread : ~Android6!HoldsCamera(t)
  BY DEF Android6!LastReference
<1>3. \A t \in JavaThread : /\ Clearing(t)' = Clearing(t)
                            /\ Disconnecting(t)' = Disconnecting(t)
                            /\ Android6!HoldsCamera(t)' = Android6!HoldsCamera(t)
  BY <1>1 DEF Clearing, Disconnecting, Android6!HoldsCamera
<1>4. BindingTypes' /\ ReleaseInv' /\ ManualInv'
  BY <1>1, <1>2, <1>3 DEF BindingInv, BindingTypes, Contexts, ReleaseInv, Releasing, ManualInv,
     Android6!Inside
<1>5. HoldInv'
  BY <1>1, <1>2, <1>3 DEF HoldInv
<1>6. Android6!OnlyReleaseRaces'
  BY <1>1 DEF Android6!OnlyReleaseRaces
<1> QED BY <1>4, <1>5, <1>6 DEF BindingInv

-----------------------------------------------------------------------------
(* The three releases of Android                                           *)

\* The calls of Android 4 are, one by one, those of Android 6.
LEMMA SameCalls4 ==
  ASSUME NEW t, NEW op, NEW asked, NEW arg
  PROVE  /\ Android4!Android6!get_native_camera(t, op, arg) <=> Android6!get_native_camera(t, op, arg)
         /\ Android4!Android6!Ask(t, op, asked) <=> Android6!Ask(t, op, asked)
         /\ Android4!Android6!setHasPreviewCallback(t) <=> Android6!setHasPreviewCallback(t)
         /\ Android4!Android6!setPreviewCallbackSurface(t) <=> Android6!setPreviewCallbackSurface(t)
         /\ Android4!Android6!AddCallbackBuffer(t) <=> Android6!AddCallbackBuffer(t)
         /\ Android4!Android6!takePicture(t) <=> Android6!takePicture(t)
         /\ Android4!Android6!release(t) <=> Android6!release(t)
BY Zenon DEF Android6!get_native_camera, Android4!Android6!get_native_camera, Android6!Ask,
     Android4!Android6!Ask, Android6!Inside, Android4!Android6!Inside, Android6!Return,
     Android4!Android6!Return, Android6!Idle, Android4!Android6!Idle,
     Android6!setHasPreviewCallback, Android4!Android6!setHasPreviewCallback,
     Android6!setPreviewCallbackSurface, Android4!Android6!setPreviewCallbackSurface,
     Android6!AddCallbackBuffer, Android4!Android6!AddCallbackBuffer, Android6!takePicture,
     Android4!Android6!takePicture, Android6!release, Android4!Android6!release,
     Android6!Release, Android4!Android6!Release, Android6!clearCallbackBuffers_l,
     Android4!Android6!clearCallbackBuffers_l, Android6!Method, Android4!Android6!Method,
     Android6!Break, Android4!Android6!Break, Android6!setCallbackMode,
     Android4!Android6!setCallbackMode, Android6!addCallbackBuffer,
     Android4!Android6!addCallbackBuffer, Android6!Keep, Android4!Android6!Keep,
     Android6!SetFlag, Android4!Android6!SetFlag, Android6!isRawImageCallbackBufferAvailable,
     Android4!Android6!isRawImageCallbackBufferAvailable

\* So are the callbacks.
LEMMA SameCallbacks4 ==
  /\ Android4!Android6!Sound = Android6!Sound
  /\ Android4!Android6!native_setup <=> Android6!native_setup
  /\ Android4!Android6!CameraSends <=> Android6!CameraSends
  /\ Android4!Android6!postData <=> Android6!postData
  /\ Android4!Android6!postMetadata <=> Android6!postMetadata
  /\ Android4!Android6!notify <=> Android6!notify
  /\ Android4!Android6!LastReference <=> Android6!LastReference
BY Zenon DEF Android6!Sound, Android4!Android6!Sound, Android6!native_setup,
     Android4!Android6!native_setup, Android6!JNICameraContext,
     Android4!Android6!JNICameraContext, Android6!NoContext, Android4!Android6!NoContext,
     Android6!CameraSends, Android4!Android6!CameraSends, Android6!postData,
     Android4!Android6!postData, Android6!postMetadata, Android4!Android6!postMetadata,
     Android6!notify, Android4!Android6!notify, Android6!Delivered,
     Android4!Android6!Delivered, Android6!LastReference, Android4!Android6!LastReference,
     Android6!HoldsCamera, Android4!Android6!HoldsCamera, Android6!Release,
     Android4!Android6!Release, Android6!clearCallbackBuffers_l,
     Android4!Android6!clearCallbackBuffers_l, Android6!Method, Android4!Android6!Method,
     Android6!Break, Android4!Android6!Break, Android6!copyAndPost,
     Android4!Android6!copyAndPost, Android6!getCallbackBuffer,
     Android4!Android6!getCallbackBuffer, Android6!Keep, Android4!Android6!Keep,
     Android6!SetFlag, Android4!Android6!SetFlag, Android6!isRawImageCallbackBufferAvailable,
     Android4!Android6!isRawImageCallbackBufferAvailable

\* The calls of Android 5 are, one by one, those of Android 6.
LEMMA SameCalls5 ==
  ASSUME NEW t, NEW op, NEW asked, NEW arg
  PROVE  /\ Android5!Android6!get_native_camera(t, op, arg) <=> Android6!get_native_camera(t, op, arg)
         /\ Android5!Android6!Ask(t, op, asked) <=> Android6!Ask(t, op, asked)
         /\ Android5!Android6!setHasPreviewCallback(t) <=> Android6!setHasPreviewCallback(t)
         /\ Android5!Android6!setPreviewCallbackSurface(t) <=> Android6!setPreviewCallbackSurface(t)
         /\ Android5!Android6!AddCallbackBuffer(t) <=> Android6!AddCallbackBuffer(t)
         /\ Android5!Android6!takePicture(t) <=> Android6!takePicture(t)
         /\ Android5!Android6!release(t) <=> Android6!release(t)
BY Zenon DEF Android6!get_native_camera, Android5!Android6!get_native_camera, Android6!Ask,
     Android5!Android6!Ask, Android6!Inside, Android5!Android6!Inside, Android6!Return,
     Android5!Android6!Return, Android6!Idle, Android5!Android6!Idle,
     Android6!setHasPreviewCallback, Android5!Android6!setHasPreviewCallback,
     Android6!setPreviewCallbackSurface, Android5!Android6!setPreviewCallbackSurface,
     Android6!AddCallbackBuffer, Android5!Android6!AddCallbackBuffer, Android6!takePicture,
     Android5!Android6!takePicture, Android6!release, Android5!Android6!release,
     Android6!Release, Android5!Android6!Release, Android6!clearCallbackBuffers_l,
     Android5!Android6!clearCallbackBuffers_l, Android6!Method, Android5!Android6!Method,
     Android6!Break, Android5!Android6!Break, Android6!setCallbackMode,
     Android5!Android6!setCallbackMode, Android6!addCallbackBuffer,
     Android5!Android6!addCallbackBuffer, Android6!Keep, Android5!Android6!Keep,
     Android6!SetFlag, Android5!Android6!SetFlag, Android6!isRawImageCallbackBufferAvailable,
     Android5!Android6!isRawImageCallbackBufferAvailable

\* So are the callbacks.
LEMMA SameCallbacks5 ==
  /\ Android5!Android6!Sound = Android6!Sound
  /\ Android5!Android6!native_setup <=> Android6!native_setup
  /\ Android5!Android6!CameraSends <=> Android6!CameraSends
  /\ Android5!Android6!postData <=> Android6!postData
  /\ Android5!Android6!postMetadata <=> Android6!postMetadata
  /\ Android5!Android6!notify <=> Android6!notify
  /\ Android5!Android6!LastReference <=> Android6!LastReference
BY Zenon DEF Android6!Sound, Android5!Android6!Sound, Android6!native_setup,
     Android5!Android6!native_setup, Android6!JNICameraContext,
     Android5!Android6!JNICameraContext, Android6!NoContext, Android5!Android6!NoContext,
     Android6!CameraSends, Android5!Android6!CameraSends, Android6!postData,
     Android5!Android6!postData, Android6!postMetadata, Android5!Android6!postMetadata,
     Android6!notify, Android5!Android6!notify, Android6!Delivered,
     Android5!Android6!Delivered, Android6!LastReference, Android5!Android6!LastReference,
     Android6!HoldsCamera, Android5!Android6!HoldsCamera, Android6!Release,
     Android5!Android6!Release, Android6!clearCallbackBuffers_l,
     Android5!Android6!clearCallbackBuffers_l, Android6!Method, Android5!Android6!Method,
     Android6!Break, Android5!Android6!Break, Android6!copyAndPost,
     Android5!Android6!copyAndPost, Android6!getCallbackBuffer,
     Android5!Android6!getCallbackBuffer, Android6!Keep, Android5!Android6!Keep,
     Android6!SetFlag, Android5!Android6!SetFlag, Android6!isRawImageCallbackBufferAvailable,
     Android5!Android6!isRawImageCallbackBufferAvailable

\* Every call from Java keeps the invariant.
LEMMA CallStep ==
  ASSUME BindingInv, broken = Android6!Sound, NEW t \in JavaThread,
         \/ Android6!Ask(t, "ask", camera)
         \/ Android6!Ask(t, "startPreview", [camera EXCEPT !.preview = TRUE])
         \/ Android6!Ask(t, "stopPreview", [camera EXCEPT !.preview = FALSE])
         \/ Android6!setHasPreviewCallback(t) \/ Android6!setPreviewCallbackSurface(t)
         \/ Android6!AddCallbackBuffer(t) \/ Android6!takePicture(t) \/ Android6!release(t)
  PROVE  BindingInv'
BY AskStep, CallbackModeStep, TakePictureStep, ReleaseStep

\* So does every step of the binding for Android 6.
LEMMA Android6Step ==
  ASSUME BindingInv, Android6!Next
  PROVE  BindingInv'
<1>1. ASSUME NEW t \in JavaThread,
             \/ Android6!setPreviewTarget(t) \/ Android6!startPreview(t) \/ Android6!stopPreview(t)
             \/ Android6!previewEnabled(t) \/ Android6!autoFocus(t) \/ Android6!sendCommand(t)
             \/ Android6!setHasPreviewCallback(t) \/ Android6!setPreviewCallbackSurface(t)
             \/ Android6!AddCallbackBuffer(t) \/ Android6!takePicture(t) \/ Android6!release(t),
             broken = Android6!Sound
      PROVE  BindingInv'
  BY <1>1, CallStep DEF Android6!setPreviewTarget, Android6!startPreview, Android6!stopPreview,
     Android6!previewEnabled, Android6!autoFocus, Android6!sendCommand
<1> QED BY <1>1, SetupStep, CallbackStep, LastReferenceStep DEF Android6!Next

\* The binding for Android 5 has the same calls.
LEMMA Android5Step ==
  ASSUME BindingInv, Android5!Next
  PROVE  BindingInv'
<1>1. broken = Android6!Sound
  BY SameCallbacks5 DEF Android5!Next
<1>2. ASSUME NEW t \in JavaThread,
             \/ Android5!setPreviewTarget(t) \/ Android5!startPreview(t) \/ Android5!stopPreview(t)
             \/ Android5!previewEnabled(t) \/ Android5!autoFocus(t) \/ Android5!sendCommand(t)
             \/ Android5!setHasPreviewCallback(t) \/ Android5!setPreviewCallbackSurface(t)
             \/ Android5!AddCallbackBuffer(t) \/ Android5!takePicture(t) \/ Android5!release(t)
      PROVE  BindingInv'
  BY <1>1, <1>2, CallStep, SameCalls5, Zenon
     DEF Android5!setPreviewTarget, Android5!startPreview, Android5!stopPreview,
     Android5!previewEnabled, Android5!autoFocus, Android5!sendCommand,
     Android5!setHasPreviewCallback, Android5!setPreviewCallbackSurface,
     Android5!AddCallbackBuffer, Android5!takePicture, Android5!release,
     Android5!Android6!setPreviewTarget, Android5!Android6!startPreview,
     Android5!Android6!stopPreview, Android5!Android6!previewEnabled,
     Android5!Android6!autoFocus, Android5!Android6!sendCommand
<1> QED BY <1>1, <1>2, SameCallbacks5, SetupStep, CallbackStep, LastReferenceStep
        DEF Android5!Next, Android5!native_setup, Android5!postData, Android5!postMetadata,
            Android5!notify

\* That for Android 4 has no callback surface and asks for the preview in
\* isPlayingCamera.
LEMMA Android4Step ==
  ASSUME BindingInv, Android4!Next
  PROVE  BindingInv'
<1>1. broken = Android6!Sound
  BY SameCallbacks4 DEF Android4!Next
<1>2. ASSUME NEW t \in JavaThread,
             \/ Android4!setPreviewDisplay(t) \/ Android4!startPreview(t) \/ Android4!stopPreview(t)
             \/ Android4!previewEnabled(t) \/ Android4!autoFocus(t) \/ Android4!isPlayingCamera(t)
             \/ Android4!sendCommand(t) \/ Android4!setHasPreviewCallback(t)
             \/ Android4!AddCallbackBuffer(t) \/ Android4!takePicture(t) \/ Android4!release(t)
      PROVE  BindingInv'
  BY <1>1, <1>2, CallStep, SameCalls4, Zenon
     DEF Android4!setPreviewDisplay, Android4!startPreview, Android4!stopPreview,
     Android4!previewEnabled, Android4!autoFocus, Android4!isPlayingCamera, Android4!sendCommand,
     Android4!setHasPreviewCallback, Android4!AddCallbackBuffer, Android4!takePicture,
     Android4!release, Android4!Android6!setPreviewTarget, Android4!Android6!startPreview,
     Android4!Android6!stopPreview, Android4!Android6!previewEnabled,
     Android4!Android6!autoFocus, Android4!Android6!sendCommand
<1> QED BY <1>1, <1>2, SameCallbacks4, SetupStep, CallbackStep, LastReferenceStep
        DEF Android4!Next, Android4!native_setup, Android4!postData, Android4!postMetadata,
            Android4!notify

-----------------------------------------------------------------------------
(* The theorems                                                            *)

\* No step of the application or of any of the three bindings breaks the
\* invariant.
LEMMA BindingStep ==
  ASSUME BindingInv, [MediaNext]_<<vars, jvars, binding>>
  PROVE  BindingInv'
<1>1. CASE UNCHANGED jvars
  BY <1>1 DEF jvars, BindingInv, BindingTypes, ReleaseInv, HoldInv, ManualInv, Clearing,
     Disconnecting, Releasing, Android6!HoldsCamera, Android6!Inside, Android6!OnlyReleaseRaces
<1> QED BY <1>1, Android4Step, Android5Step, Android6Step DEF MediaNext

\* There is no camera yet.
LEMMA BindingInit == ASSUME MediaInit PROVE BindingInv
BY DEF MediaInit, Android6!Init, Android6!NoContext, Android6!Idle, Android6!Sound, BindingInv,
   BindingTypes, ReleaseInv, HoldInv, ManualInv, Clearing, Disconnecting, Releasing, Contexts,
   Flags, Android6!HoldsCamera, Android6!Inside, Android6!OnlyReleaseRaces

\* In manual mode, whatever the Java threads call and whenever release() comes
\* between: while a buffer of the application waits to be filled and the
\* context has its camera, the camera is asked for frames.
THEOREM FramesKeepComing == MediaSpec => []ManualModeDelivers
<1>1. BindingInv => ManualModeDelivers
  BY DEF BindingInv, ManualInv, ManualModeDelivers, Android6!ManualModeDelivers
<1> QED BY <1>1, BindingInit, BindingStep, PTL DEF MediaSpec

\* A callback never meets a context that release() has taken apart, and of the
\* calls only those that change the preview callback do.
THEOREM OnlyReleaseRaces == MediaSpec => []Android6!OnlyReleaseRaces
<1>1. BindingInv => Android6!OnlyReleaseRaces
  BY DEF BindingInv
<1> QED BY <1>1, BindingInit, BindingStep, PTL DEF MediaSpec

-----------------------------------------------------------------------------
(* Both                                                                    *)

\* Work meets what is gone only after it was let go, in the library and in the
\* bindings.
THEOREM OnlyLetGo == MediaSpec => []OnlyLetGoFails
<1>1. FaultOnlyAfterStop /\ Android6!OnlyReleaseRaces => OnlyLetGoFails
  BY DEF OnlyLetGoFails
<1> QED BY <1>1, LibraryFaults, OnlyReleaseRaces, PTL
=============================================================================
