----------------------------- MODULE CodecMedia -----------------------------
(***************************************************************************)
(* The media library as the Java application sees it: the JNI entry points *)
(* of CodecMedia.cpp and what they drive, that is CodecSender with its     *)
(* camera and its RtpSender, FileEnCodec, FileDeCodec, CodecReceiver and   *)
(* the stand-alone RtpSender, all of them over the one codec of CodecBase. *)
(*                                                                         *)
(* The application calls from one thread, in any order, the entry points   *)
(* of one of the sets in Apps; todo holds what the call under way has      *)
(* still to do, one step of the list for each thing another thread could   *)
(* see.  AddEncoderData comes from a second thread of the application.     *)
(***************************************************************************)
EXTENDS CodecBase

CONSTANT Apps   \* the applications: the entry points each uses, a bound on its calls, and
                \* whether it has started and stopped something before

VARIABLES
  app, calls, todo,
  sdk,    \* this Android release is one the library has a build for
  m,      \* the library's objects and pointers (0 is NULL)
  sound   \* history: calls came in order and every start worked

vars == <<codecVars, app, calls, todo, sdk, m, sound>>

Camera    == <<"camera", 1>>
Java      == <<"java", 1>>
Reader(d) == <<"reader", d>>
Net(r)    == <<"net", r>>

ASSUME ProducerAssumption ==
  Producer \subseteq {Camera, Java} \cup {Reader(d) : d \in Life} \cup {Net(r) : r \in Life}

\* base and cam.ptr are the function pointers of CodecBaseLib and CameraLib,
\* which no constructor clears; cam.lib is CameraLib's handle, cam.ctx is
\* gListenContext, cam.cam its mCamera, cam.frame the context of the frame
\* being delivered; rtp holds the RtpSender of the CodecSender and the one of
\* SenderCreate.
NewMedia ==
  [base |-> "garbage",
   cam  |-> [lib |-> FALSE, ptr |-> "garbage", ctx |-> 0, cam |-> FALSE, preview |-> FALSE, frame |-> 0],
   mpCodecSend |-> 0, senders |-> 0,
   rtp  |-> [s \in {"codec", "jni"} |-> "none"],
   mpFileEncoder |-> 0, enc |-> [e \in Life |-> "unused"],
   mpFileDecoder |-> 0,
   dec  |-> [d \in Life |-> [file |-> "unused", mbRunning |-> FALSE, exit |-> FALSE, thread |-> FALSE]],
   mpCodecRecv |-> 0,
   recv |-> [r \in Life |-> [life |-> "unused", hears |-> FALSE, mRunning |-> FALSE, thread |-> FALSE]]]

Init ==
  /\ CodecInit
  /\ app \in Apps /\ calls = app.calls /\ todo = <<>>
  /\ sdk \in BOOLEAN /\ sound = TRUE
  /\ m = [NewMedia EXCEPT !.base = IF app.loaded /\ sdk THEN "loaded" ELSE @]

-----------------------------------------------------------------------------
(* The entry points as lists of steps                                      *)

\* Two more, CodecSenderData and SenderByteArray, change nothing here.
LibraryCall ==
  {"StopVideoSend", "StartFileDecoder", "StopFileDecoder", "StartFileEncoder", "StopFileEncoder",
   "AddEncoderData", "StartCodecSender", "StopCodecSender", "StartCameraVideo", "GetCameraParameter",
   "SetCameraParameter", "SetDisplayOrientation", "SenderCreate", "SenderConnect", "SenderDestroy",
   "StartCodecRecver", "StopCodecRecver"}

StartCodecSteps == <<"StartPlatform", "BuildTables", "RunThread">>
StopCodecSteps_FreeFirst == <<"DeleteTables", "StopPlatform", "RequestExit", "DropCodec">>
StopCodecSteps == <<"StopPlatform", "DeleteTables", "RequestExit", "DropCodec">>

StartCodecSender ==
  <<"LoadBaseLib", "CallBaseLib", "NewCodecSender", "InitSession", "LoadCameraLib", "CameraSetup",
    "CreateForSender", "RegisterSender", "ConnectDest">>
StartCameraVideo == StartCodecSteps \o <<"StartPreview">>
StopCodecSender  ==
  <<"StopPreview">> \o StopCodecSteps
  \o <<"CameraRelease", "ReleaseLib", "DeinitSession", "DeleteRtpSender", "DeleteCodecSender">>
StartFileEncoder ==
  <<"LoadBaseLib", "CallBaseLib", "NewFileEncoder", "CreateForFile", "RegisterEncoder">> \o StartCodecSteps
StopFileEncoder  == StopCodecSteps \o <<"CloseEncoder">>
StartFileDecoder ==
  <<"CallBaseLib", "NewFileDecoder", "CreateForFile">> \o StartCodecSteps \o <<"RunReader", "SetRunning">>
StopFileDecoder  ==
  <<"ClearRunning", "ExitReader">> \o StopCodecSteps \o <<"CloseDecoder">>
StartCodecRecver ==
  <<"LoadBaseLib", "CallBaseLib", "NewCodecRecver", "CreateForFile">> \o StartCodecSteps \o <<"StartReceive">>
StopCodecRecver  == <<"StopReceive">> \o StopCodecSteps \o <<"DeleteRecver">>

\* The steps a call of entry point e takes now, after its own early returns.
Steps(e) ==
  CASE e = "StartCodecSender" -> IF m.mpCodecSend # 0 THEN <<>> ELSE StartCodecSender
    [] e = "StartCameraVideo" -> IF m.mpCodecSend # 0 THEN StartCameraVideo ELSE <<>>
    [] e = "StopCodecSender"  -> IF m.mpCodecSend # 0 THEN StopCodecSender ELSE <<>>
    [] e = "GetCameraParameter" -> IF m.mpCodecSend # 0 THEN <<"GetParameters">> ELSE <<>>
    [] e = "SetCameraParameter" -> IF m.mpCodecSend # 0 THEN <<"SetParameters">> ELSE <<>>
    [] e = "SetDisplayOrientation" -> IF m.mpCodecSend # 0 THEN <<"SetOrientation">> ELSE <<>>
    [] e = "StartFileEncoder" -> StartFileEncoder
    [] e = "StopFileEncoder"  -> StopFileEncoder
    [] e = "StartFileDecoder" -> IF m.mpFileDecoder = 0 THEN StartFileDecoder ELSE <<"CallBaseLib">>
    [] e = "StopFileDecoder"  -> IF m.mpFileDecoder = 0 THEN <<>> ELSE StopFileDecoder
    [] e = "StartCodecRecver" -> StartCodecRecver
    [] e = "StopCodecRecver"  -> IF m.mpCodecRecv = 0 THEN <<"NullRecver">> ELSE StopCodecRecver
    [] e = "StopVideoSend"    -> <<"CallBaseLib">>
    [] OTHER                  -> <<e>>

\* What the order of the calls should have been.
InOrder(e) ==
  CASE e \in {"StartFileEncoder", "StartCodecRecver", "StartFileDecoder", "StartCodecSender"} ->
         gCodec = 0 /\ (e = "StartFileDecoder" => m.base = "loaded")
    [] e = "StopVideoSend"    -> m.base = "loaded"
    [] e = "StopFileEncoder"  -> m.mpFileEncoder # 0 /\ m.enc[m.mpFileEncoder] # "closed"
    [] e = "StopCodecRecver"  -> m.mpCodecRecv # 0
    [] OTHER                  -> TRUE

Call(e) ==
  /\ e \in app.uses /\ calls > 0 /\ todo = <<>>
  /\ calls' = calls - 1
  /\ todo'  = Steps(e)
  /\ sound' = (sound /\ InOrder(e))
  /\ UNCHANGED <<codecVars, app, sdk, m>>

-----------------------------------------------------------------------------
(* The steps                                                               *)

\* Bound: once a start has failed, or calls have come out of order, starts work.
MayFail == sound

Go(new)     == m' = new /\ todo' = Tail(todo) /\ UNCHANGED <<codecVars, sound>>
Return(new) == m' = new /\ todo' = <<>> /\ sound' = FALSE /\ UNCHANGED codecVars
Crash(why)  == Die("ui", 0, why) /\ UNCHANGED <<gCodec, codec, prod, m, todo, sound>>
Api(A)      == A /\ todo' = Tail(todo) /\ UNCHANGED <<m, sound>>
Trial(A, ok) == (ok \/ MayFail) /\ A /\ todo' = Tail(todo) /\ sound' = (sound /\ ok) /\ UNCHANGED m
Fresh(used(_)) == {o \in Life : ~used(o) /\ \A b \in Life : b < o => used(b)}

Create == \/ gCodec # 0 /\ UNCHANGED codecVars
          \/ \E c \in Life : CodecCreate(c)

CodecStep(s) ==
  \/ s = "StartPlatform" /\ \E ok \in BOOLEAN : Trial(StartPlatform(ok), ok)
  \/ s = "BuildTables" /\ \E got \in SUBSET Tables : Trial(BuildTables(got), got = Tables)
  \/ s = "RunThread" /\ Api(RunThread)
  \/ s = "StopPlatform" /\ Api(StopPlatform)
  \/ s = "DeleteTables" /\ Api(DeleteTables)
  \/ s = "RequestExit" /\ Api(RequestExit)
  \/ s = "DropCodec" /\ Api(DropCodec)
  \/ s = "CreateForFile" /\ Api(Create)
  \/ s = "RegisterEncoder" /\ Api(RegisterBufferCall("encoder", m.mpFileEncoder))
  \/ s = "RegisterSender" /\ Api(RegisterBufferCall("sender", m.mpCodecSend))

\* CodecContext: a second LoadBaseLib changes nothing.
LoadBaseLib ==
  Go([m EXCEPT !.base = IF @ = "loaded" THEN @ ELSE IF sdk THEN "loaded" ELSE "null"])

CallBaseLib == IF m.base = "loaded" THEN Go(m) ELSE Crash("library")

\* A call through one of CameraLib's pointers.
ThroughCameraLib(A) == IF m.cam.ptr = "loaded" /\ m.cam.lib THEN A ELSE Crash("library")

NewCodecSender == Go([m EXCEPT !.senders = @ + 1, !.mpCodecSend = m.senders + 1, !.rtp["codec"] = "new"])

InitSession ==
  \/ Go([m EXCEPT !.rtp["codec"] = "inited"])
  \/ Return(m)

LoadCameraLib == IF m.cam.lib THEN Return(m) ELSE Go([m EXCEPT !.cam.lib = TRUE, !.cam.ptr = "loaded"])

CameraSetup ==
  LET asked == [m EXCEPT !.cam.ctx = m.senders]
  IN \/ Go([asked EXCEPT !.cam.cam = TRUE])
     \/ Return(asked)
     \/ Return([asked EXCEPT !.cam.cam = TRUE])

CreateForSender == IF gCodec # 0 THEN Return(m) ELSE Api(Create)

ConnectDest == \E c \in {"inited", "connected"} : Go([m EXCEPT !.rtp["codec"] = c])

DeinitSession == Go([m EXCEPT !.rtp["codec"] = "new"])

DeleteRtpSender == Go([m EXCEPT !.rtp["codec"] = "none"])

DeleteCodecSender == Go([m EXCEPT !.mpCodecSend = 0])

SenderStep(s) ==
  \/ s = "NewCodecSender" /\ NewCodecSender
  \/ s = "InitSession" /\ InitSession
  \/ s = "LoadCameraLib" /\ LoadCameraLib
  \/ s = "CameraSetup" /\ CameraSetup
  \/ s = "CreateForSender" /\ CreateForSender
  \/ s = "ConnectDest" /\ ConnectDest
  \/ s = "DeinitSession" /\ DeinitSession
  \/ s = "DeleteRtpSender" /\ DeleteRtpSender
  \/ s = "DeleteCodecSender" /\ DeleteCodecSender

StartPreview ==
  ThroughCameraLib(IF m.cam.ctx # 0 /\ ~m.cam.cam THEN Crash("null")
                   ELSE Go([m EXCEPT !.cam.preview = (m.cam.ctx # 0)]))

StopPreview == ThroughCameraLib(Go([m EXCEPT !.cam.preview = FALSE]))

CameraRelease == ThroughCameraLib(Go([m EXCEPT !.cam.ctx = 0, !.cam.cam = FALSE, !.cam.preview = FALSE]))

ReleaseLib == Go([m EXCEPT !.cam.lib = FALSE])

GetParameters == ThroughCameraLib(IF m.cam.cam THEN Go(m) ELSE Crash("null"))

SetParameters == ThroughCameraLib(IF m.cam.ctx # 0 /\ ~m.cam.cam THEN Crash("null") ELSE Go(m))

SetOrientation == ThroughCameraLib(Go(m))

CameraStep(s) ==
  \/ s = "StartPreview" /\ StartPreview
  \/ s = "StopPreview" /\ StopPreview
  \/ s = "CameraRelease" /\ CameraRelease
  \/ s = "ReleaseLib" /\ ReleaseLib
  \/ s = "GetParameters" /\ GetParameters
  \/ s = "SetParameters" /\ SetParameters
  \/ s = "SetOrientation" /\ SetOrientation

\* An fopen that failed is not noticed; a file from elsewhere may announce
\* frames longer than mData.
NewFileEncoder ==
  \E e \in Fresh(LAMBDA o : m.enc[o] # "unused"), f \in {"open", "null"} :
    /\ f = "open" \/ MayFail
    /\ m' = [m EXCEPT !.mpFileEncoder = e, !.enc[e] = f]
    /\ sound' = (sound /\ f = "open")
    /\ todo' = Tail(todo) /\ UNCHANGED codecVars

CloseEncoder ==
  IF m.mpFileEncoder = 0 THEN Crash("null")
  ELSE IF m.enc[m.mpFileEncoder] # "open" THEN Crash("file")
  ELSE Go([m EXCEPT !.enc[m.mpFileEncoder] = "closed"])

NewFileDecoder ==
  \E d \in Fresh(LAMBDA o : m.dec[o].file # "unused"), f \in {"open", "foreign", "null"} :
    /\ f = "open" \/ MayFail
    /\ m' = [m EXCEPT !.mpFileDecoder = d, !.dec[d].file = f]
    /\ sound' = (sound /\ f = "open")
    /\ todo' = Tail(todo) /\ UNCHANGED codecVars

RunReader == Go([m EXCEPT !.dec[m.mpFileDecoder].thread = TRUE])

SetRunning == Go([m EXCEPT !.dec[m.mpFileDecoder].mbRunning = TRUE])

ClearRunning == Go([m EXCEPT !.dec[m.mpFileDecoder].mbRunning = FALSE])

ExitReader == Go([m EXCEPT !.dec[m.mpFileDecoder].exit = TRUE])

CloseDecoder ==
  IF m.dec[m.mpFileDecoder].file = "null" THEN Crash("file")
  ELSE Go([m EXCEPT !.dec[m.mpFileDecoder].file = "closed", !.mpFileDecoder = 0])

FileStep(s) ==
  \/ s = "NewFileEncoder" /\ NewFileEncoder
  \/ s = "CloseEncoder" /\ CloseEncoder
  \/ s = "NewFileDecoder" /\ NewFileDecoder
  \/ s = "RunReader" /\ RunReader
  \/ s = "SetRunning" /\ SetRunning
  \/ s = "ClearRunning" /\ ClearRunning
  \/ s = "ExitReader" /\ ExitReader
  \/ s = "CloseDecoder" /\ CloseDecoder

\* A receiver whose session could not be made runs all the same and hears nothing.
NewCodecRecver ==
  \E r \in Fresh(LAMBDA o : m.recv[o].life # "unused"), hears \in BOOLEAN :
    Go([m EXCEPT !.mpCodecRecv = r, !.recv[r].life = "alive", !.recv[r].hears = hears])

StartReceive == Go([m EXCEPT !.recv[m.mpCodecRecv].mRunning = TRUE, !.recv[m.mpCodecRecv].thread = TRUE])

StopReceive == Go([m EXCEPT !.recv[m.mpCodecRecv].mRunning = FALSE])

DeleteRecver == Go([m EXCEPT !.recv[m.mpCodecRecv].life = "deleted", !.mpCodecRecv = 0])

NullRecver == Crash("null")

RecverStep(s) ==
  \/ s = "NewCodecRecver" /\ NewCodecRecver
  \/ s = "StartReceive" /\ StartReceive
  \/ s = "StopReceive" /\ StopReceive
  \/ s = "DeleteRecver" /\ DeleteRecver
  \/ s = "NullRecver" /\ NullRecver

\* The stand-alone RtpSender, in this library and in SenderMedia: initSession
\* answers FALSE when it is initialised already, connect needs it initialised.
SenderCreate ==
  \E r \in {"new", "inited"} :
    Go([m EXCEPT !.rtp["jni"] = IF @ \in {"none", "new"} THEN r ELSE @])

SenderConnect ==
  \E r \in {"inited", "connected"} :
    Go([m EXCEPT !.rtp["jni"] = IF @ = "inited" THEN r ELSE @])

SenderDestroy == Go([m EXCEPT !.rtp["jni"] = "none"])

RtpStep(s) ==
  \/ s = "SenderCreate" /\ SenderCreate
  \/ s = "SenderConnect" /\ SenderConnect
  \/ s = "SenderDestroy" /\ SenderDestroy

UIStep ==
  /\ todo # <<>>
  /\ LET s == Head(todo)
     IN \/ CodecStep(s) \/ SenderStep(s) \/ CameraStep(s) \/ FileStep(s) \/ RecverStep(s) \/ RtpStep(s)
        \/ s = "LoadBaseLib" /\ LoadBaseLib
        \/ s = "CallBaseLib" /\ CallBaseLib
  /\ UNCHANGED <<app, calls, sdk>>

-----------------------------------------------------------------------------
(* The other threads                                                       *)

Quiet == UNCHANGED <<app, calls, todo, sdk, m, sound>>

\* The callback of an encoder, on the thread of object c: CodecSender passes
\* the frame to its RtpSender, which drops it unless it is initialised;
\* FileEnCodec writes the length and the frame.
onCodecBuffer(c) ==
  LET r == codec[c] IN
  /\ r.pc = "callback"
  /\ IF r.call = "sender" /\ (r.callId # m.mpCodecSend \/ m.rtp["codec"] = "none")
     THEN Die("codec", c, "owner") /\ UNCHANGED <<gCodec, codec, prod>>
     ELSE IF r.call = "encoder" /\ m.enc[r.callId] # "open"
     THEN Die("codec", c, "file") /\ UNCHANGED <<gCodec, codec, prod>>
     ELSE Thread(c, [r EXCEPT !.pc = "release"])
  /\ Quiet

\* postData takes a preview frame, which VideoSource converts and then adds to
\* the codec, and asks mCamera for the next one.
postData ==
  /\ prod[Camera].pc = "idle" /\ m.cam.preview
  /\ Step(Camera, "call")
  /\ m' = [m EXCEPT !.cam.frame = m.cam.ctx]
  /\ UNCHANGED <<gCodec, codec, fault, app, calls, todo, sdk, sound>>

AskNextFrame ==
  /\ prod[Camera].pc = "after"
  /\ IF m.cam.lib /\ m.cam.cam /\ m.cam.frame = m.cam.ctx
     THEN prod' = [prod EXCEPT ![Camera] = Idle] /\ UNCHANGED <<gCodec, codec, fault>>
     ELSE Die("camera", m.cam.frame, "camera") /\ UNCHANGED <<gCodec, codec, prod>>
  /\ Quiet

\* The pointer is not tested, and neither is any member used; the library's
\* AddBuffer is called whatever CodecBaseLib's pointer to it is.  The call is out
\* of order before the first StartFileEncoder, while a start is under way, and as
\* long as there is a codec that nobody has started; a frame that comes when the
\* codec is stopped is late from the beginning.
AddEncoderData ==
  /\ "AddEncoderData" \in app.uses /\ prod[Java].pc = "idle"
  /\ IF m.base = "loaded"
     THEN /\ prod' = [prod EXCEPT ![Java].pc = "call",
                                  ![Java].late = (gCodec = 0 \/ ~codec[gCodec].started)]
          /\ UNCHANGED fault
     ELSE Die("java", 0, "library") /\ UNCHANGED prod
  /\ sound' = (/\ sound /\ m.mpFileEncoder # 0
               /\ \A i \in DOMAIN todo : todo[i] # "RunThread"
               /\ gCodec # 0 => codec[gCodec].pc # "none")
  /\ UNCHANGED <<gCodec, codec, app, calls, todo, sdk, m>>

\* FileDeCodec's thread: an iteration that finds mbRunning clear does nothing.
threadLoop(d) ==
  /\ m.dec[d].thread /\ m.dec[d].mbRunning /\ prod[Reader(d)].pc = "idle"
  /\ Step(Reader(d), "read")
  /\ UNCHANGED <<gCodec, codec, fault>> /\ Quiet

\* The two reads, the second as long as the first says; at the end of the file
\* the iteration is over.
ReadFrame(d) ==
  /\ m.dec[d].thread /\ prod[Reader(d)].pc = "read"
  /\ CASE m.dec[d].file = "open"    -> /\ \/ Step(Reader(d), "call")
                                          \/ prod' = [prod EXCEPT ![Reader(d)] = Idle]
                                       /\ UNCHANGED fault
       [] m.dec[d].file = "foreign" -> Die("reader", d, "overflow") /\ UNCHANGED prod
       [] OTHER                     -> Die("reader", d, "file") /\ UNCHANGED prod
  /\ UNCHANGED <<gCodec, codec>> /\ Quiet

EndReader(d) ==
  /\ m.dec[d].thread /\ m.dec[d].exit /\ prod[Reader(d)].pc = "idle"
  /\ m' = [m EXCEPT !.dec[d].thread = FALSE]
  /\ UNCHANGED <<codecVars, app, calls, todo, sdk, sound>>

\* RtpReceive's thread (see RtpReceive) with a packet of the right type: mRunning
\* is looked at before the callback, which adds the frame.
ReceiveSource(r) ==
  /\ prod[Net(r)].pc = "idle" /\ m.recv[r].thread /\ m.recv[r].hears /\ m.recv[r].mRunning
  /\ Step(Net(r), "call")
  /\ UNCHANGED <<gCodec, codec, fault>> /\ Quiet

\* It looks at mRunning again, wherever the receiver is by then.
EndReceive(r) ==
  /\ prod[Net(r)].pc = "idle" /\ m.recv[r].thread /\ ~m.recv[r].mRunning
  /\ IF m.recv[r].life = "deleted"
     THEN Die("net", r, "owner") /\ UNCHANGED <<gCodec, codec, prod, m>>
     ELSE m' = [m EXCEPT !.recv[r].thread = FALSE] /\ UNCHANGED codecVars
  /\ UNCHANGED <<app, calls, todo, sdk, sound>>

BackFromAddBuffer(p) ==
  /\ p # Camera /\ prod[p].pc = "after"
  /\ prod' = [prod EXCEPT ![p] = Idle]
  /\ UNCHANGED <<gCodec, codec, fault>> /\ Quiet

ProducerStep(p) == (InAddBuffer(p) /\ Quiet) \/ BackFromAddBuffer(p)

EntryPoint == (UNION {a.uses : a \in Apps}) \ {"AddEncoderData"}

Next ==
  /\ fault = NoFault
  /\ \/ \E e \in EntryPoint : Call(e)
     \/ UIStep
     \/ \E c \in Life : (ThreadStep(c) \/ Convert(c)) /\ Quiet
     \/ \E c \in Life : onCodecBuffer(c)
     \/ \E p \in Producer : ProducerStep(p)
     \/ postData \/ AskNextFrame \/ AddEncoderData
     \/ \E d \in Life : threadLoop(d) \/ ReadFrame(d) \/ EndReader(d)
     \/ \E r \in Life : ReceiveSource(r) \/ EndReceive(r)

\* The threads that bring frames, by their number: an application has one family.
FeederStep(n) ==
  \/ \E p \in Producer : p[2] = n /\ ProducerStep(p)
  \/ ReadFrame(n) \/ EndReader(n) \/ EndReceive(n)
  \/ n = 1 /\ AskNextFrame

\* A call that has begun goes on, every thread that can take a step takes
\* one, the platform codec works, a frame being delivered is delivered.  No
\* new frame and no further call is promised.
Fairness ==
  /\ WF_vars(fault = NoFault /\ UIStep)
  /\ \A c \in Life : /\ WF_vars(fault = NoFault /\ ((ThreadStep(c) /\ Quiet) \/ onCodecBuffer(c)))
                     /\ WF_vars(fault = NoFault /\ Convert(c) /\ Quiet)
                     /\ SF_vars(fault = NoFault /\ FeederStep(c))

Spec == Init /\ [][Next]_vars /\ Fairness

-----------------------------------------------------------------------------
(* Properties                                                              *)

\* What the thread that died was working for had been switched off.
WorkStopped(f) ==
  IF f.who = "codec" THEN ~codec[f.id].started
  ELSE \/ f.late
       \/ f.who = "camera" /\ (~m.cam.preview \/ m.cam.frame # m.cam.ctx)
       \/ f.who = "reader" /\ ~m.dec[f.id].mbRunning
       \/ f.who = "net"    /\ ~m.recv[f.id].mRunning

\* As long as the application starts and stops in order and its starts work,
\* its own calls never touch what is gone, and a frame in flight does so only
\* once the stop has reached the work that frame belongs to: the codec before
\* its tables, the preview before the camera, mbRunning before the file.  A late
\* frame may even fail in a codec that has been started anew.
FaultOnlyAfterStop ==
  (fault # NoFault /\ sound /\ sdk) => fault.who # "ui" /\ WorkStopped(fault)

\* An object that StopCodec let go of ends its thread and goes away.
StoppedCodecGoes ==
  \A c \in Life : (codec[c].life = "alive" /\ gCodec # c) ~> (codec[c].life = "dead" \/ fault # NoFault)

\* A thread that waits in dequeueInputBuffer for ever is let go, however many
\* updates of mCount are lost, as long as every answer of the platform codec is
\* an output: each frame queued is followed by a look that takes all there is.
\* (An answer in place of an output ends that look early.  If the thread's
\* stale store has wiped out the later counts, nobody looks again.)
FeederNotStuck ==
  \A n \in Life :
    LET waiting == {p \in Producer : p[2] = n /\ prod[p].pc = "dequeue"}
    IN (waiting # {}) ~>
         (fault # NoFault \/ \A p \in waiting : codec[prod[p].codec].infos < Infos)
=============================================================================
