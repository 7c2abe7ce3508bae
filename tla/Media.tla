------------------------------- MODULE Media -------------------------------
(***************************************************************************)
(* An application on top of the media library: over the entry points of    *)
(* CodecMedia, or with a camera of its own through the Java binding of one *)
(* of the three Android releases.  binding says which.                     *)
(***************************************************************************)
EXTENDS CodecMedia

CONSTANTS JavaThread, MaxBuffers
VARIABLES binding, field, ctx, camera, call, event, broken

jvars == <<field, ctx, camera, call, event, broken>>

\* An application of the library uses the library's entry points.
ASSUME AppAssumption == \A a \in Apps : a.binding = "none" => a.uses \subseteq LibraryCall

Android4 == INSTANCE android_hardware_Camera WITH uses <- app.uses
Android5 == INSTANCE android_hardware_Camera5 WITH uses <- app.uses
Android6 == INSTANCE JNICameraContext WITH uses <- app.uses

MediaInit ==
  /\ Init /\ Android6!Init
  /\ binding = app.binding
  /\ binding # "none" => sdk

MediaNext ==
  /\ \/ binding = "none" /\ Next /\ UNCHANGED jvars
     \/ binding = "Android4" /\ UNCHANGED vars /\ Android4!Next
     \/ binding = "Android5" /\ UNCHANGED vars /\ Android5!Next
     \/ binding = "Android6" /\ UNCHANGED vars /\ Android6!Next
  /\ UNCHANGED binding

\* Nothing is promised of the camera.
MediaSpec == MediaInit /\ [][MediaNext]_<<vars, jvars, binding>> /\ Fairness

-----------------------------------------------------------------------------
(* Properties of the binding (see JNICameraContext)                        *)

\* In manual mode frames never dry up: while the application's buffers wait
\* to be filled, the camera is asked for frames.
ManualModeDelivers == Android6!ManualModeDelivers

\* Work meets what is gone only after it was let go: in the library after the
\* stop that the work belongs to (see CodecMedia), in the binding only a call
\* that read the field before release() cleared it (see JNICameraContext).
OnlyLetGoFails == FaultOnlyAfterStop /\ Android6!OnlyReleaseRaces
=============================================================================
