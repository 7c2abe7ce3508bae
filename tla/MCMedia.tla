------------------------------ MODULE MCMedia ------------------------------
(* Each application uses one family of entry points.                       *)
EXTENDS Media

MCProducer == {<<"camera", 1>>, <<"java", 1>>, <<"reader", 1>>, <<"net", 1>>, <<"net", 2>>}
App(uses, n, loaded) == [uses |-> uses, calls |-> n, loaded |-> loaded, binding |-> "none"]
OwnCamera(b, uses) == [uses |-> uses, calls |-> 0, loaded |-> FALSE, binding |-> b]
MCApps ==
  {App({"StartCodecSender", "StartCameraVideo", "StopCodecSender"}, 4, FALSE),
   App({"StartCodecSender", "GetCameraParameter", "SetCameraParameter", "SetDisplayOrientation"}, 2, FALSE),
   App({"StartFileEncoder", "StopFileEncoder", "AddEncoderData"}, 3, FALSE),
   App({"StartFileDecoder", "StopVideoSend"}, 1, FALSE),
   App({"StartFileDecoder", "StopFileDecoder"}, 2, TRUE),
   App({"StartCodecRecver", "StopCodecRecver"}, 2, FALSE),
   App({"SenderCreate", "SenderConnect", "SenderDestroy"}, 4, FALSE),
   OwnCamera("Android6", {"setHasPreviewCallback", "addCallbackBuffer", "startPreview"}),
   OwnCamera("Android5", {"setHasPreviewCallback", "setPreviewCallbackSurface", "ask", "startPreview", "stopPreview"}),
   OwnCamera("Android4", {"addCallbackBuffer", "takePicture", "ask"})}
=============================================================================
