---------------------- MODULE android_hardware_Camera5 ----------------------
(***************************************************************************)
(* The Java binding of a camera on Android 5: function by function that of *)
(* Android 6 (JNICameraContext), with other messages in what it throws.    *)
(***************************************************************************)
CONSTANTS JavaThread, MaxBuffers
VARIABLES uses, field, ctx, camera, call, event, broken

Android6 == INSTANCE JNICameraContext

-----------------------------------------------------------------------------
(* The context                                                             *)

Context == Android6!JNICameraContext
Release(c) == Android6!Release(c)
setCallbackMode(c, installed, manual) == Android6!setCallbackMode(c, installed, manual)
addCallbackBuffer(c, type) == Android6!addCallbackBuffer(c, type)
clearCallbackBuffers_l(c) == Android6!clearCallbackBuffers_l(c)
getCallbackBuffer(buffers) == Android6!getCallbackBuffer(buffers)
copyAndPost(c, type) == Android6!copyAndPost(c, type)

-----------------------------------------------------------------------------
(* Calls and callbacks                                                     *)

get_native_camera(t, op, arg) == Android6!get_native_camera(t, op, arg)
native_setup == Android6!native_setup
setPreviewTarget(t) == Android6!setPreviewTarget(t)
startPreview(t) == Android6!startPreview(t)
stopPreview(t) == Android6!stopPreview(t)
previewEnabled(t) == Android6!previewEnabled(t)
autoFocus(t) == Android6!autoFocus(t)
sendCommand(t) == Android6!sendCommand(t)
setHasPreviewCallback(t) == Android6!setHasPreviewCallback(t)
setPreviewCallbackSurface(t) == Android6!setPreviewCallbackSurface(t)
AddCallbackBuffer(t) == Android6!AddCallbackBuffer(t)
takePicture(t) == Android6!takePicture(t)
release(t) == Android6!release(t)
postData == Android6!postData
postMetadata == Android6!postMetadata
notify == Android6!notify

Next ==
  /\ broken = Android6!Sound
  /\ \/ native_setup \/ Android6!CameraSends \/ postData \/ postMetadata \/ notify
     \/ Android6!LastReference
     \/ \E t \in JavaThread :
          \/ setPreviewTarget(t) \/ startPreview(t) \/ stopPreview(t) \/ previewEnabled(t)
          \/ autoFocus(t) \/ sendCommand(t) \/ setHasPreviewCallback(t)
          \/ setPreviewCallbackSurface(t) \/ AddCallbackBuffer(t) \/ takePicture(t) \/ release(t)
  /\ UNCHANGED uses
=============================================================================
