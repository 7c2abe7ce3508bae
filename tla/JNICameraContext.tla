-------------------------- MODULE JNICameraContext --------------------------
(***************************************************************************)
(* The Java binding of a camera (android_hardware_Camera6.cpp): the native *)
(* context behind a Java Camera object, the calls Java threads make        *)
(* through it, and what the camera sends back.                             *)
(*                                                                         *)
(* Every method of the context holds mLock.  A call takes the context and  *)
(* the camera from the Java object's field under sLock, lets go of sLock,  *)
(* and uses them; release() clears the field and then the context.  What   *)
(* an exception says is left out: a call that throws is a call that ends.  *)
(***************************************************************************)
EXTENDS Integers

CONSTANTS JavaThread,  \* the Java threads
          MaxBuffers   \* bound: the buffers an application adds at a time

VARIABLES
  uses,    \* the calls the application makes; never changes
  field,   \* the Java object's mNativeContext is set
  ctx,     \* the context it points to
  camera,  \* the camera, as its service sees it
  call,    \* what each Java thread is doing
  event,   \* the callback on its way from the camera
  broken   \* a call that used what is gone

jvars == <<uses, field, ctx, camera, call, event, broken>>

Idle   == [at |-> "idle", op |-> "none", arg |-> <<>>]
Sound  == [op |-> "none", why |-> "none"]

NoContext == [life |-> "none", java |-> FALSE, mCamera |-> FALSE, held |-> FALSE, mCallbackBuffers |-> 0,
              mRawImageCallbackBuffers |-> 0, mManualBufferMode |-> FALSE, mManualCameraCallbackSet |-> FALSE]

Init ==
  /\ field = FALSE /\ ctx = NoContext
  /\ camera = [on |-> FALSE, preview |-> FALSE, flag |-> "NOOP", shot |-> "none"]
  /\ call = [t \in JavaThread |-> Idle]
  /\ event = "none" /\ broken = Sound

Break(op, why) == broken' = [op |-> op, why |-> why]

-----------------------------------------------------------------------------
(* The context, under mLock: each operator gives the new context and the   *)
(* preview flag it sets, or nothing if it sets none                        *)

\* java stands for the references to the Java object and its classes; held
\* for the reference native_setup takes, that release gives back.
JNICameraContext == [NoContext EXCEPT !.life = "alive", !.java = TRUE, !.mCamera = TRUE, !.held = TRUE]

clearCallbackBuffers_l(c) == [c EXCEPT !.mCallbackBuffers = 0, !.mRawImageCallbackBuffers = 0]

Release(c) == [clearCallbackBuffers_l(c) EXCEPT !.java = FALSE, !.mCamera = FALSE]

\* What a context method does with the camera: nothing, or setPreviewCallbackFlags
\* through mCamera.
Keep(c)       == [ctx |-> c, flag |-> "keep"]
SetFlag(c, f) == [ctx |-> c, flag |-> f]

setCallbackMode_KeepsSet(c, installed, manual) ==
  LET mode == [c EXCEPT !.mManualBufferMode = manual]
      none == [mode EXCEPT !.mCallbackBuffers = 0]
  IN IF ~installed THEN SetFlag(none, "NOOP")
     ELSE IF ~manual THEN SetFlag(none, "BARCODE_SCANNER")
     ELSE IF c.mCallbackBuffers = 0 THEN Keep(mode)
     ELSE SetFlag([mode EXCEPT !.mManualCameraCallbackSet = TRUE], "CAMERA")
setCallbackMode(c, installed, manual) ==
  LET mode == [c EXCEPT !.mManualBufferMode = manual, !.mManualCameraCallbackSet = FALSE]
      none == [mode EXCEPT !.mCallbackBuffers = 0]
  IN IF ~installed THEN SetFlag(none, "NOOP")
     ELSE IF ~manual THEN SetFlag(none, "BARCODE_SCANNER")
     ELSE IF c.mCallbackBuffers = 0 THEN Keep(mode)
     ELSE SetFlag([mode EXCEPT !.mManualCameraCallbackSet = TRUE], "CAMERA")

addCallbackBuffer(c, type) ==
  LET more == [c EXCEPT !.mCallbackBuffers = @ + 1]
  IN IF type = "raw" THEN Keep([c EXCEPT !.mRawImageCallbackBuffers = @ + 1])
     ELSE IF c.mManualBufferMode /\ ~c.mManualCameraCallbackSet
     THEN SetFlag([more EXCEPT !.mManualCameraCallbackSet = TRUE], "CAMERA")
     ELSE Keep(more)

isRawImageCallbackBufferAvailable(c) == c.mRawImageCallbackBuffers > 0

\* The first buffer is used up, even if it is then found too small for the image.
getCallbackBuffer(buffers) == IF buffers > 0 THEN buffers - 1 ELSE 0

\* An image the context copies into a buffer of the application, or into a new one.
copyAndPost(c, type) ==
  LET left == getCallbackBuffer(c.mCallbackBuffers)
      used == [c EXCEPT !.mCallbackBuffers = left]
  IN IF type = "raw" THEN Keep([c EXCEPT !.mRawImageCallbackBuffers = getCallbackBuffer(@)])
     ELSE IF type = "frame" /\ c.mManualBufferMode
     THEN IF left = 0 THEN SetFlag([used EXCEPT !.mManualCameraCallbackSet = FALSE], "NOOP") ELSE Keep(used)
     ELSE Keep(c)

\* A method runs on the context: through an mCamera that release has cleared
\* there is no setting of flags.
Method(op, r) ==
  IF ctx.life = "freed" THEN Break(op, "freed") /\ UNCHANGED <<ctx, camera>>
  ELSE IF r.flag # "keep" /\ ~ctx.mCamera THEN Break(op, "null") /\ UNCHANGED <<ctx, camera>>
  ELSE /\ ctx' = r.ctx
       /\ camera' = IF r.flag = "keep" \/ ~camera.on THEN camera ELSE [camera EXCEPT !.flag = r.flag]
       /\ UNCHANGED broken

-----------------------------------------------------------------------------
(* Calls from Java                                                         *)

\* The Java object connects once, when it is constructed.
native_setup ==
  /\ ctx.life = "none"
  /\ field' = TRUE /\ ctx' = JNICameraContext
  /\ camera' = [camera EXCEPT !.on = TRUE]
  /\ UNCHANGED <<call, event, broken>>

\* A call that finds the field cleared throws.
get_native_camera(t, op, arg) ==
  /\ op \in uses /\ call[t] = Idle /\ ctx.life # "none"
  /\ call' = IF field THEN [call EXCEPT ![t] = [at |-> "inside", op |-> op, arg |-> arg]] ELSE call
  /\ UNCHANGED <<field, ctx, camera, event, broken>>

Inside(t, op) == call[t].at = "inside" /\ call[t].op = op

Return(t) == call' = [call EXCEPT ![t] = Idle] /\ UNCHANGED <<field, event>>

\* A call that only asks the camera for something; of a camera that is
\* disconnected by then it is refused.
Ask(t, op, asked) ==
  \/ get_native_camera(t, op, <<>>)
  \/ /\ Inside(t, op)
     /\ camera' \in (IF camera.on THEN {camera, asked} ELSE {camera})
     /\ Return(t) /\ UNCHANGED <<ctx, broken>>

setPreviewTarget(t) == Ask(t, "ask", camera)
startPreview(t)     == Ask(t, "startPreview", [camera EXCEPT !.preview = TRUE])
stopPreview(t)      == Ask(t, "stopPreview", [camera EXCEPT !.preview = FALSE])
previewEnabled(t)   == Ask(t, "ask", camera)
autoFocus(t)        == Ask(t, "ask", camera)

\* Parameters, lock and unlock, and the calls that are one sendCommand.
sendCommand(t) == Ask(t, "ask", camera)

\* The context is used without a lock that release would respect.
setHasPreviewCallback(t) ==
  \/ \E installed, manual \in BOOLEAN :
       get_native_camera(t, "setHasPreviewCallback", <<installed, manual>>)
  \/ /\ Inside(t, "setHasPreviewCallback")
     /\ Method(call[t].op, setCallbackMode(ctx, call[t].arg[1], call[t].arg[2]))
     /\ Return(t)

setPreviewCallbackSurface(t) ==
  \/ get_native_camera(t, "setPreviewCallbackSurface", <<>>)
  \/ /\ Inside(t, "setPreviewCallbackSurface")
     /\ Method(call[t].op, setCallbackMode(ctx, FALSE, FALSE))
     /\ Return(t)

\* The field is read without sLock, and a context that is gone is not noticed.
AddCallbackBuffer(t) ==
  \/ \E type \in {"frame", "raw"} :
       /\ ctx.mCallbackBuffers + ctx.mRawImageCallbackBuffers < MaxBuffers
       /\ get_native_camera(t, "addCallbackBuffer", <<type>>)
  \/ /\ Inside(t, "addCallbackBuffer")
     /\ Method(call[t].op, addCallbackBuffer(ctx, call[t].arg[1]))
     /\ Return(t)

\* The raw buffers are looked at without mLock; a picture comes with its raw
\* data, or with a notification.
takePicture(t) ==
  LET picture == IF isRawImageCallbackBufferAvailable(ctx) THEN "raw" ELSE "notify" IN
  \/ get_native_camera(t, "takePicture", <<>>)
  \/ /\ Inside(t, "takePicture")
     /\ IF ctx.life = "freed" THEN Break("takePicture", "freed") /\ UNCHANGED camera
        ELSE /\ camera' \in {camera, [camera EXCEPT !.shot = IF camera.on THEN picture ELSE @]}
             /\ UNCHANGED broken
     /\ Return(t) /\ UNCHANGED ctx

\* release: the field, the context, the camera, and the reference of native_setup.
release(t) ==
  \/ /\ call[t] = Idle /\ field
     /\ field' = FALSE
     /\ call' = [call EXCEPT ![t] = [at |-> "clear", op |-> "release", arg |-> <<>>]]
     /\ UNCHANGED <<ctx, camera, event, broken>>
  \/ /\ call[t].at = "clear"
     /\ ctx' = Release(ctx)
     /\ call' = [call EXCEPT ![t].at = "disconnect"]
     /\ UNCHANGED <<field, camera, event, broken>>
  \/ /\ call[t].at = "disconnect"
     /\ camera' = [on |-> FALSE, preview |-> FALSE, flag |-> "NOOP", shot |-> "none"]
     /\ ctx' = [ctx EXCEPT !.held = FALSE]
     /\ Return(t) /\ UNCHANGED broken

\* The camera lives while the context, its service, a callback or a call that
\* took it from get_native_camera holds it; as its listener the context lives
\* with it.
HoldsCamera(t) == call[t].at = "inside" /\ call[t].op # "addCallbackBuffer"

LastReference ==
  /\ ctx.life = "alive" /\ ~ctx.held /\ ~ctx.mCamera /\ ~camera.on /\ event = "none"
  /\ \A t \in JavaThread : ~HoldsCamera(t)
  /\ ctx' = [Release(ctx) EXCEPT !.life = "freed"]
  /\ UNCHANGED <<field, camera, call, event, broken>>

-----------------------------------------------------------------------------
(* Callbacks from the camera                                               *)

\* The service sends a frame while the flag asks for frames, one frame if it
\* is the flag of a scanner, and a picture when one was taken.
CameraSends ==
  /\ event = "none" /\ camera.on
  /\ \/ /\ camera.preview /\ camera.flag # "NOOP"
        /\ event' = "frame"
        /\ camera' = [camera EXCEPT !.flag = IF @ = "BARCODE_SCANNER" THEN "NOOP" ELSE @]
     \/ /\ camera.shot # "none"
        /\ event' = camera.shot
        /\ camera' = [camera EXCEPT !.shot = "none"]
     \/ /\ camera.preview
        /\ event' = "faces"
        /\ UNCHANGED camera
  /\ UNCHANGED <<field, ctx, call, broken>>

Delivered == event' = "none" /\ UNCHANGED <<field, call>>

\* An image without memory is posted as none; a raw image without a buffer too.
postData ==
  /\ event \in {"frame", "raw"}
  /\ IF ~ctx.java \/ (event = "raw" /\ ~isRawImageCallbackBufferAvailable(ctx))
     THEN UNCHANGED <<ctx, camera, broken>>
     ELSE Method("postData", Keep(ctx)) \/ Method("postData", copyAndPost(ctx, event))
  /\ Delivered

\* Faces found in a frame, and notifications, only go to Java.
postMetadata == event = "faces" /\ Delivered /\ UNCHANGED <<ctx, camera, broken>>

notify == event = "notify" /\ Delivered /\ UNCHANGED <<ctx, camera, broken>>

Next ==
  /\ broken = Sound
  /\ \/ native_setup \/ CameraSends \/ postData \/ postMetadata \/ notify \/ LastReference
     \/ \E t \in JavaThread :
          \/ setPreviewTarget(t) \/ startPreview(t) \/ stopPreview(t) \/ previewEnabled(t)
          \/ autoFocus(t) \/ sendCommand(t) \/ setHasPreviewCallback(t)
          \/ setPreviewCallbackSurface(t) \/ AddCallbackBuffer(t) \/ takePicture(t) \/ release(t)
  /\ UNCHANGED uses

-----------------------------------------------------------------------------
(* Properties                                                              *)

\* In manual mode frames never dry up: while the application's buffers wait
\* to be filled, the camera is asked for frames.
ManualModeDelivers ==
  (ctx.mManualBufferMode /\ ctx.mCamera /\ ctx.mCallbackBuffers > 0) => camera.flag = "CAMERA"

\* A callback never meets a context that is released or gone, and neither
\* does a call, except one that read the field before release() cleared it
\* and then changes the preview callback; only addCallbackBuffer, which takes
\* no reference, can even find the context freed.
OnlyReleaseRaces ==
  broken # Sound =>
    /\ ~field
    /\ broken.op \in {"setHasPreviewCallback", "setPreviewCallbackSurface", "addCallbackBuffer"}
    /\ broken.why = "freed" => broken.op = "addCallbackBuffer"
=============================================================================
