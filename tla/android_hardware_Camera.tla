---------------------- MODULE android_hardware_Camera  ----------------------
(***************************************************************************)
(* The Java binding of a camera on Android 4, for the library's own class  *)
(* GreatCamera.  It differs from that of Android 6 (JNICameraContext) in   *)
(* these calls: a failed native_setup throws, previews go to a display,    *)
(* there is no callback surface, and isPlayingCamera asks for the preview. *)
(***************************************************************************)
CONSTANTS JavaThread, MaxBuffers
VARIABLES uses, field, ctx, camera, call, event, broken

Android6 == INSTANCE JNICameraContext

-----------------------------------------------------------------------------
(* The context                                                             *)

Context == Android6!JNICameraContext
Release(c) == Android6!Release(c)
setCallbackMode(c, installed, manual) == Android6!setCallbackMode(c, installed, manual)
addCallbackBuffer(c, type) == Android6!addCallbackBuffer(c, type)
clearCallbackBuffers_l(c) == Android6!clearCallbackBuffers_l(c)
getCallbackBuffer(buffers) == Android6!getCallbackBuffer(buffers)
copyAndPost(c, type) == Android6!copyAndPost(c, type)

-----------------------------------------------------------------------------
(* Calls and callbacks                                                     *)

get_native_camera(t, op, arg) == Android6!get_native_camera(t, op, arg)
native_setup == Android6!native_setup
setPreviewDisplay(t) == Android6!setPreviewTarget(t)
startPreview(t) == Android6!startPreview(t)
stopPreview(t) == Android6!stopPreview(t)
previewEnabled(t) == Android6!previewEnabled(t)
autoFocus(t) == Android6!autoFocus(t)
isPlayingCamera(t) == Android6!Ask(t, "ask", camera)
sendCommand(t) == Android6!sendCommand(t)
setHasPreviewCallback(t) == Android6!setHasPreviewCallback(t)
AddCallbackBuffer(t) == Android6!AddCallbackBuffer(t)
takePicture(t) == Android6!takePicture(t)
release(t) == Android6!release(t)
postData == Android6!postData
postMetadata == Android6!postMetadata
notify == Android6!notify

Next ==
  /\ broken = Android6!Sound
  /\ \/ native_setup \/ Android6!CameraSends \/ postData \/ postMetadata \/ notify
     \/ Android6!LastReference
     \/ \E t \in JavaThread :
          \/ setPreviewDisplay(t) \/ startPreview(t) \/ stopPreview(t) \/ previewEnabled(t)
          \/ autoFocus(t) \/ isPlayingCamera(t) \/ sendCommand(t) \/ setHasPreviewCallback(t)
          \/ AddCallbackBuffer(t) \/ takePicture(t) \/ release(t)
  /\ UNCHANGED uses
=============================================================================
