----------------------------- MODULE CodecBase -----------------------------
(***************************************************************************)
(* The codec of the media library: the global gCodec of CodecApi, the      *)
(* objects it has pointed to, the thread each object runs to fetch what    *)
(* the platform codec has finished, and the threads that feed it frames    *)
(* through AddBuffer.  Nothing here is locked.  An access to memory that   *)
(* is gone is recorded in fault, and the process takes no further step.    *)
(*                                                                         *)
(* The platform codec (MediaCodec) is external: InBuf input and OutBuf     *)
(* output buffers, a conversion that needs a free output buffer, answers   *)
(* such as "format changed" in place of an output (at most Infos of them), *)
(* and an error from every dequeue once it is stopped.                     *)
(***************************************************************************)
EXTENDS Integers, Sequences, FiniteSets

CONSTANTS Life,      \* the objects of one class the process may create
          Producer,  \* the threads that call AddBuffer
          InBuf, OutBuf, Infos,
          MaxCount   \* bound: mCount is not counted above this

ASSUME BufAssumption == /\ Life = 1 .. Cardinality(Life)
                        /\ {InBuf, OutBuf, Infos, MaxCount} \subseteq Nat
                        /\ InBuf > 0 /\ OutBuf > 0 /\ MaxCount > 0

VARIABLES gCodec,  \* the object gCodec points to, 0 for NULL
          codec,   \* the objects, with their thread and their platform codec
          prod,    \* where each producer is with its frame, and whether the codec
                   \* has been stopped since it took the frame (history: late)
          fault    \* what the process died of

codecVars == <<gCodec, codec, prod, fault>>

NoFault == [who |-> "none", id |-> 0, why |-> "none", late |-> FALSE]

\* The tables of the addresses of the input and of the output buffers.
Tables == {"in", "out"}

NewCodec == [life |-> "unused", started |-> FALSE, tables |-> {}, mCount |-> 0, call |-> "none",
             callId |-> 0, exit |-> FALSE, pc |-> "none", tmp |-> 0, queued |-> 0, ready |-> 0,
             infos |-> Infos]

DeadCodec == [NewCodec EXCEPT !.life = "dead", !.pc = "ended"]

Idle == [pc |-> "idle", codec |-> 0, tmp |-> 0, late |-> FALSE]

CodecInit ==
  /\ gCodec = 0
  /\ codec = [c \in Life |-> NewCodec]
  /\ prod  = [p \in Producer |-> Idle]
  /\ fault = NoFault

Die(who, id, why) == fault' = [who |-> who, id |-> id, why |-> why, late |-> FALSE]

\* Producer p dies with the frame it has.
DieAt(p, id, why) == fault' = [who |-> p[1], id |-> id, why |-> why, late |-> prod[p].late]

\* An object lives while gCodec or its own running thread holds it.
Held(c, g, t) == g = c \/ t \notin {"none", "ended"}

-----------------------------------------------------------------------------
(* CodecApi, called by the thread of the application                       *)

CodecCreate(c) ==
  /\ gCodec = 0 /\ codec[c].life = "unused"
  /\ \A b \in Life : b < c => codec[b].life # "unused"
  /\ gCodec' = c
  /\ codec' = [codec EXCEPT ![c].life = "alive"]
  /\ UNCHANGED <<prod, fault>>

OnCodec(new(_)) ==
  /\ codec' = IF gCodec = 0 THEN codec ELSE [codec EXCEPT ![gCodec] = new(codec[gCodec])]
  /\ UNCHANGED <<gCodec, prod, fault>>

RegisterBufferCall(call, id) ==
  LET register(r) == [r EXCEPT !.call = call, !.callId = id] IN OnCodec(register)

\* startCodec: the platform codec starts, then the tables of its buffers are
\* filled, then the thread runs, whatever of this has failed.  On an object that
\* runs already only the tables are built again.
StartPlatform(ok) == LET start(r) == [r EXCEPT !.started = @ \/ ok] IN OnCodec(start)

BuildTables(got) ==
  LET build(r) == [r EXCEPT !.tables = IF r.started THEN @ \cup got ELSE @] IN OnCodec(build)

RunThread ==
  LET spawn(r) == [r EXCEPT !.pc = IF @ = "none" THEN "loop" ELSE @] IN OnCodec(spawn)

\* stopCodec: the platform codec stops, then the tables go, then the thread is
\* asked to end; nobody waits for it.
Stopped(r) == [r EXCEPT !.started = FALSE, !.queued = 0, !.ready = 0, !.infos = Infos]

StopPlatform ==
  /\ codec' = IF gCodec = 0 THEN codec ELSE [codec EXCEPT ![gCodec] = Stopped(codec[gCodec])]
  /\ prod' = [p \in Producer |-> IF prod[p].pc = "idle" THEN prod[p]
                                 ELSE [prod[p] EXCEPT !.late = TRUE]]
  /\ UNCHANGED <<gCodec, fault>>

DeleteTables == LET del(r) == [r EXCEPT !.tables = {}] IN OnCodec(del)

NoExitRequest == OnCodec(LAMBDA r : r)
RequestExit == LET ask(r) == [r EXCEPT !.exit = TRUE] IN OnCodec(ask)

\* StopCodec ends with gCodec = NULL.
DropCodec ==
  /\ gCodec' = 0
  /\ codec' = [c \in Life |-> IF c = gCodec /\ ~Held(c, 0, codec[c].pc)
                              THEN DeadCodec ELSE codec[c]]
  /\ UNCHANGED <<prod, fault>>

-----------------------------------------------------------------------------
(* addBuffer, called by a producer p; the caller is back at "after"        *)

Step(p, pc) == prod' = [prod EXCEPT ![p].pc = pc]

\* AddBuffer tests gCodec and then reads it again to use the object, without a
\* reference.  By then it may be NULL, or another object.
TestCodec(p) ==
  /\ prod[p].pc = "call"
  /\ Step(p, IF gCodec = 0 THEN "after" ELSE "use")
  /\ UNCHANGED <<gCodec, codec, fault>>

UseCodec(p) ==
  /\ prod[p].pc = "use"
  /\ IF gCodec = 0 THEN DieAt(p, 0, "null") /\ UNCHANGED prod
     ELSE /\ prod' = [prod EXCEPT ![p].pc = "dequeue", ![p].codec = gCodec]
          /\ UNCHANGED fault
  /\ UNCHANGED <<gCodec, codec>>

HeldInputs(c) == Cardinality({p \in Producer : prod[p].pc = "copy" /\ prod[p].codec = c})

\* dequeueInputBuffer(-1) waits for a free buffer as long as the codec runs.
DequeueInput(p) ==
  LET c == prod[p].codec IN
  /\ prod[p].pc = "dequeue"
  /\ \/ codec[c].life = "dead" /\ DieAt(p, c, "codec") /\ UNCHANGED prod
     \/ /\ codec[c].life # "dead" /\ ~codec[c].started
        /\ prod' = [prod EXCEPT ![p].pc = "after", ![p].codec = 0] /\ UNCHANGED fault
     \/ codec[c].started /\ codec[c].queued + HeldInputs(c) < InBuf
        /\ Step(p, "copy") /\ UNCHANGED fault
  /\ UNCHANGED <<gCodec, codec>>

\* memcpy into the buffer the table names, and queueInputBuffer.
CopyAndQueue(p) ==
  LET c == prod[p].codec IN
  /\ prod[p].pc = "copy"
  /\ IF codec[c].life = "dead" \/ "in" \notin codec[c].tables
     THEN DieAt(p, c, "tables") /\ UNCHANGED <<codec, prod>>
     ELSE /\ codec' = [codec EXCEPT ![c].queued = IF codec[c].started THEN @ + 1 ELSE @]
          /\ Step(p, "load")
          /\ UNCHANGED fault
  /\ UNCHANGED gCodec

\* mCount++, a load and a store.
LoadCount(p) ==
  LET c == prod[p].codec IN
  /\ prod[p].pc = "load"
  /\ IF codec[c].life = "dead" THEN DieAt(p, c, "codec") /\ UNCHANGED prod
     ELSE /\ prod' = [prod EXCEPT ![p].pc = "store", ![p].tmp = codec[c].mCount]
          /\ UNCHANGED fault
  /\ UNCHANGED <<gCodec, codec>>

StoreCount(p) ==
  LET c == prod[p].codec IN
  /\ prod[p].pc = "store"
  /\ IF codec[c].life = "dead" THEN DieAt(p, c, "codec") /\ UNCHANGED <<codec, prod>>
     ELSE /\ codec' = [codec EXCEPT ![c].mCount = IF prod[p].tmp < MaxCount THEN prod[p].tmp + 1 ELSE MaxCount]
          /\ prod' = [prod EXCEPT ![p].pc = "after", ![p].codec = 0, ![p].tmp = 0]
          /\ UNCHANGED fault
  /\ UNCHANGED gCodec

InAddBuffer(p) ==
  TestCodec(p) \/ UseCodec(p) \/ DequeueInput(p) \/ CopyAndQueue(p) \/ LoadCount(p) \/ StoreCount(p)

-----------------------------------------------------------------------------
(* The thread of object c: threadLoop and getCodecBuffer                   *)

Thread(c, r) == codec' = [codec EXCEPT ![c] = r] /\ UNCHANGED <<gCodec, prod, fault>>

\* The platform's Thread looks at exitPending after every iteration, and the
\* object goes with its thread if nothing else holds it.
LoopBack(c, r) ==
  IF ~r.exit THEN [r EXCEPT !.pc = "loop"]
  ELSE IF Held(c, gCodec, "ended") THEN [r EXCEPT !.pc = "ended"] ELSE DeadCodec

\* if (mCount > 0) mCount--, a load and a store; otherwise the iteration is over.
TakeCount(c) ==
  /\ codec[c].pc = "loop"
  /\ IF codec[c].mCount > 0
     THEN Thread(c, [codec[c] EXCEPT !.pc = "store", !.tmp = codec[c].mCount])
     ELSE codec[c].exit /\ Thread(c, LoopBack(c, codec[c]))

StoreTaken(c) ==
  /\ codec[c].pc = "store"
  /\ Thread(c, [codec[c] EXCEPT !.pc = "dequeue", !.mCount = codec[c].tmp - 1, !.tmp = 0])

\* dequeueOutputBuffer with 12 ms: an output, or the end of the iteration.
DequeueOutput(c) ==
  /\ codec[c].pc = "dequeue"
  /\ \/ codec[c].ready > 0 /\ Thread(c, [codec[c] EXCEPT !.pc = "index"])
     \/ codec[c].ready > 0 /\ codec[c].infos > 0
        /\ Thread(c, LoopBack(c, [codec[c] EXCEPT !.infos = @ - 1]))
     \/ codec[c].ready = 0 /\ Thread(c, LoopBack(c, codec[c]))

\* The buffer is looked up only for a callback.
IndexOutput(c) ==
  /\ codec[c].pc = "index"
  /\ IF codec[c].call # "none" /\ "out" \notin codec[c].tables
     THEN Die("codec", c, "tables") /\ UNCHANGED <<gCodec, codec, prod>>
     ELSE Thread(c, [codec[c] EXCEPT !.pc = IF codec[c].call # "none"
                                            THEN "callback" ELSE "release"])

\* releaseOutputBuffer, and the loop asks for the next output.
KeepOutput(c) ==
  /\ codec[c].pc = "release"
  /\ Thread(c, [codec[c] EXCEPT !.pc = "dequeue"])
ReleaseOutput(c) ==
  /\ codec[c].pc = "release"
  /\ Thread(c, [codec[c] EXCEPT !.pc = "dequeue", !.ready = IF codec[c].started THEN @ - 1 ELSE @])

ThreadStep(c) ==
  TakeCount(c) \/ StoreTaken(c) \/ DequeueOutput(c) \/ IndexOutput(c) \/ ReleaseOutput(c)

\* The platform codec turns one input into an output, or keeps it to itself.
Convert(c) ==
  /\ codec[c].started /\ codec[c].queued > 0 /\ codec[c].ready < OutBuf
  /\ \E n \in {0, 1} :
       codec' = [codec EXCEPT ![c].queued = @ - 1, ![c].ready = @ + n]
  /\ UNCHANGED <<gCodec, prod, fault>>
=============================================================================
