# Verification of the greatone streaming library

greatone is the native half of an Android video application: it encodes camera
frames and sends them over RTP, and receives RTP packets and hands them to a
decoder.  The TLA+ modules here model the parts of it in which threads,
packets and timeouts meet; TLC checks them on small instances and TLAPS proves
the main properties of the core for every instance.  Paths are relative to the
repository's `src/`; `jrtplib/` stands for `RtpTrans/rtplib/jrtplib/`.

## 1. The system

| Part | State | Operations | Interaction |
|---|---|---|---|
| `RTPSources`, `RTPInternalSourceData`, `RTPSourceData` | a table of participants, the own entry, three counters, a sorted packet list per participant | create and delete the own entry, process an RTP packet or a compound RTCP packet, time out members, senders and BYEs | called by `RTPSession` under the sources mutex; calls back into `RTPSessionEx` |
| `RTPKeyHashTable`, `RTPHashTable` | buckets, a list through all elements, a cursor | add, delete, search, walk | behind the source table, the destination, multicast, accept and ignore lists |
| `RTPSessionEx` | the transmitter's destination list | `OnNewSource`, `OnBYEPacket`, `OnRemoveSource` | the poll thread calls it with the sources mutex held |
| `RTPCollisionList` | addresses that used our SSRC | update, time out, clear | decides whether a collision changes our SSRC |
| `RTPSession` | `created`, `sentpackets`, the queue of BYE packets, four mutexes | `Create`, `SendPacket*`, data access, setters, `SetMaximumPacketSize`, `ProcessPolledData`, `Destroy`, `BYEDestroy` | shared by the user's threads and the poll thread |
| `RTPPollThread`, `JThread` | `stop`, `running`, the mutexes of the start | start handshake, the loop, `Stop`, `Kill` | takes scheduler then sources in one place and sources then scheduler in the other |
| `RTCPScheduler` | next and previous RTCP time, BYE back-off | `IsTime`, `GetTransmissionDelay`, `AnalyseIncoming/Outgoing` | reads the counters of `RTPSources` |
| `RTCPPacketBuilder`, `RTCPCompoundPacketBuilder`, RTCP packet classes | which sources and SDES items this round has covered; a packet under construction | build the next report, a BYE, an APP packet; parse | flags in the source table; asked by `ProcessPolledData` |
| `RTPPacketBuilder`, `RTPPacket` | SSRC, sequence number, timestamp, defaults, contributing sources, counters | build a packet, change the SSRC, read a packet | `RTPSession::SendPacket`; the counters go into sender reports |
| `RTPUDPv4Transmitter`, `RTPUDPv6Transmitter`, `RTPExternalTransmitter`, `RTPFakeTransmitter` | sockets, lists, raw packets, the abort pipe, two mutexes | create, destroy, wait, abort, poll, send, the receive lists | behind the interface `RTPTransmitter` |
| `RtpSender`, `SenderMedia` (JNI) | `mInited`, `mbConnected`, the destination | connect, send whole or in fragments | called by several threads at once |
| `RtpReceive`, `CommonThread` | `mRunning`, the callback, a detached thread | `startThread`, `stopThread`, `threadLoop` | reads the table between `BeginDataAccess` and `EndDataAccess` and calls the decoder in between |
| `CodecBase`, `CodecApi`, `CodecContext` | the global codec, buffer tables, `mCount`, a detached thread | create, start, add a buffer, stop | fed by camera, file reader and receive thread; calls `onCodecBuffer` |
| `CodecMedia` (JNI) with `CodecSender`, `CodecReceiver`, `FileEnCodec`, `FileDeCodec` | the static pointers of the library | `Start...` and `Stop...` of each | creates, starts, stops and deletes all the parts above |
| `CameraContext`, `CameraApi`, `CameraListen` | the camera context, the loaded library | open, start and stop the preview, a listener | delivers frames from the camera service's thread |
| `Camera/cam4`, `cam5`, `cam6` | the native context of a Java `Camera` | the Java methods, `postData`, `notify` | Java threads and the camera service's thread |
| `Codec/base4`, `base5`, `base6` | | copies of the platform's `MediaCodec` bindings | not modelled |

What is hard here: the counters of the table are kept by increments at a dozen
places and are what the RTCP interval is computed from; SSRC collisions change
the identity of the session while user threads send; four mutexes are taken in
two orders; every stop deletes objects without joining the threads that work
on them; waiting for a thread has a limit of 5 seconds which the thread may
exceed; a counter is changed by two threads without a lock; rounds of report
blocks and SDES items stretch over several packets while the table changes;
a timer is reconsidered by every departure.  `PROJECT.json` lists each of these
with its line and the properties that watch it.

## 2. Modules

`PROJECT.json` maps every definition to its lines.

### The session

* `RTPSources` - the source table, the collision list and the destination list.
  One entry per SSRC is described by sets (`table`, `validated`, `senders`,
  `byed`) and functions (`probation`, `rtpaddr`, `rtcpaddr`).  One action
  handles one packet, or one item of a compound packet, which
  `ProcessRTCPCompoundPacket` dispatches; `phase` says where
  `ProcessPolledData` is, and `phase = "unlocked"` that the sources mutex is
  free.  Time is the set `quiet` of the sources that have not been heard for
  longer than the timeout: `TimePasses` adds to it, every packet takes its
  source out.  A sequence number is reduced to whether it is the expected one.
  Addresses are pairs of adjacent RTP and RTCP ports, so that `port - 1` of an
  RTCP address is the RTP address of the same pair; `Host` maps an address to
  its host.  `Self` is the null address of the own entry and of packets that
  we sent ourselves.  `MixerMode` says whether packets carry contributing
  sources.  Memory exhaustion is not modelled.
* `RTPSession` - the threads of a session, one step per lock and unlock.  The
  program counter of the poll thread walks through `RTPPollThread::Thread` and
  `ProcessPolledData` with all error returns; user threads call `SendPacket` and
  `SendRTCPAPPPacket`, use the table, change the bandwidth or the SDES texts.
  The data is the SSRC in the packet builder (`bssrc`) and in the table (`own`),
  the flag `sentpackets` and the queue of BYE packets.  `SendRTCPAPPPacket`
  reads the SSRC under the builder mutex, gives the mutex back and then builds
  and sends (`pending` is the SSRC it has read): the SSRC may change, and its
  BYE may leave, in between.  The history variable `kept` has the SSRCs given up
  under such a call, `late` those a packet went out with after their BYE, and
  `raced` those with which some call was under way while they changed.  The failure of `CreateOwnSSRC`
  after a change (out of memory) is left out.
* `RTPSourceStats` - one source: probation, the extension of 16-bit sequence
  numbers to 32 bits and the sorted packet list of
  `RTPInternalSourceData::ProcessRTPPacket`.  The n-th packet of the sender
  carries `n % W`; the network loses, repeats and reorders packets within
  `Late` and `Ahead`.  The history variables `first`, `high` and `crossed` hold
  the true numbers that the code never sees.  The code's `W` is 2^16, and the
  overflow of the 32-bit numbers after 2^16 cycles is left out.  The probation
  type is `ProbationStore`, the only one the application uses.
* `OrderedTable`, `RTPKeyHashTable`, `RTPHashTable` - the first is what those
  who walk a table rely on: entries in the order they were added, and a cursor
  that a deletion moves to the entry behind.  The second is the code, with
  every pointer of bucket lists, element list and cursor a variable; the third
  is the table without values.  The cursor is uninitialised before the first
  walk and dangling after `Clear`: the value `Wild`, of which nothing is
  assumed.  The source table and the lists of the transmitters are modelled as
  sets; this refinement is what entitles them to it.

### Reports

* `RTCPCompoundPacketBuilder` - one compound packet as a record of sizes: what
  still fits, what is allocated, how much is written, how the byte stream is
  split and recognised again by `ParseData`.
* `RTCPPacketBuilder` - which sources get a report block and which SDES items
  go into the next packet.  `processed` is the flag each source carries,
  `fresh` the sources with data since the last report, `counted` those with data
  since their own last block, which a full packet may have put off.
* `RTCPScheduler` - when the next packet is sent.  Times are relative to the
  present, cut off at `MaxTime`; intervals are drawn between 0.5 and 1.5 times
  the deterministic one.  The running average of the packet size may be any of
  `AvgSizes`.  The count of BYE packets heard while ours waits, which lengthens
  our wait without limit, is told apart up to `MaxByeMembers`; from there on the
  interval is any, also one that never passes.
* `RTCPReports` - composes the three with a changing table of sources, the
  queue of BYE packets of a collision, and APP packets of the user.

### Packets

* `RTPPacket` - what the constructor writes and the parser reads back, with
  padding, contributing sources and the extension.
* `RTPPacketBuilder` - the numbers, defaults and the pair of wall clock and
  timestamp for sender reports.  Numbers wrap at `SeqWidth` and `TsWidth`.
* `RtpSender` - several threads that send whole buffers or fragments through
  one session, connect and disconnect, and an SSRC collision in between.  A
  call of the session is one step.  The CSRC functions of the builder and the
  two `sendBufferEx` functions are public, although nothing in the repository
  calls them.
* `RTPPackets` - a packet at one of three `place`s: a program with a builder of
  its own, a sender with its threads, a receiver (`RTPSourceStats`).

### Transmitters

* `RTPTransmitter` - the abstract specification: what a session relies on.
  The receive lists are sets of addresses, and a destroyed transmitter is
  empty.
* `RTPUDPv4Transmitter` - every call, with all error paths of `Create` and of a
  join, the receive list as hosts with ports *or* whole hosts with excepted
  ports, and the raw packets.  The refinement mapping turns those lists into
  the sets of the interface.
* `RTPUDPv6Transmitter`, `RTPExternalTransmitter`, `RTPFakeTransmitter` - each
  function as that of the IPv4 transmitter where the code is a copy of it, and
  with the differences of its own where it is not.
* `TransmitterThreads` - `mainmutex`, `waitmutex`, `waitingfordata` and the
  pipe; threads that wait, abort, inject, create and destroy.
* `TransmitterConstants`, `Transmitters` - the constants; the composition.
  `kind` is the transmitter the session was created with, or one of the
  machines around it (the threads, the two hash tables, the session).
* `RTPSessionCreate` - the life of a session: `Create` and `InternalCreate` one
  step after the other, each of which may fail and then undoes what `Undone`
  lists; `Destroy`; and `SetMaximumPacketSize`, which changes the copies of the
  size in transmitter, RTP builder, RTCP builder and session in this order,
  with the restoring of those already set, while the poll thread builds and
  sends RTCP packets.  The calls of the application come from one thread:
  two concurrent calls of `SetMaximumPacketSize` could leave the copies apart,
  as only part of the function holds the builder mutex.

### Media

* `RtpReceive` - one receiver from `StartCodecRecver` to `StopCodecRecver`:
  the JNI thread, the detached receive thread and the poll thread, which is
  born with the handshake of `JThread`, with `sourcesmutex` and the unprotected
  flags.  Failures of `initSession` and of `pthread_create` are ignored as the
  code ignores them.  Time is reduced to `PollStuck`: the limit of 5 seconds
  passes exactly when the poll thread cannot end by itself that soon.  After
  the object is deleted nothing is modelled: what a thread does with it is
  undefined.
* `CodecBase` - the codec objects, `gCodec`, the two buffer tables, the load and
  the store of `mCount` as two steps, the threads that feed a codec and the
  thread that drains it.  The start of the platform's codec and each table may
  fail; `startCodec` goes on all the same.  A feeding thread takes its frame
  after a test of its own, and `AddBuffer` then tests `gCodec` and reads it a
  second time: three steps, so that a frame may reach no codec, or the next one
  before its tables are there.  `late` remembers that the codec was stopped
  since the frame was taken up.  An access to memory that is gone, or through
  a pointer nobody has set, is recorded in `fault`, and nothing happens any
  more.  The platform's codec is external.
* `CodecMedia` - the JNI entry points over `CodecBase`: `todo` is the list of
  what the call under way has still to do.  `Apps` says which entry points an
  application uses; it may call them in any order, also in orders the library
  was not made for, and `sound` remembers whether it did, or whether a start
  has failed.  `AddEncoderData` before a `StartFileEncoder` has come back is
  such an order: the pointer it calls through is uninitialised until `LoadBaseLib`
  has run (`CodecContext.cpp:16`).  Conversion of a frame and the reads of the
  file reader lie between the test of a flag and `AddBuffer`, and a stop and a
  start fit in between.  A file to decode may
  be one the library has not written: a frame length read from it is not
  compared with the size of the buffer (`FileDeCodec.cpp:111`).
* `JNICameraContext`, `android_hardware_Camera5`, `android_hardware_Camera` -
  the Java bindings of Android 6, 5 and 4, the latter two as differences from
  the first.  Java threads, and the frames, pictures and notifications of the
  camera service.  Nothing in the repository registers these native methods
  (`register_android_hardware_Camera` has no caller); an application that uses
  the Java class does.
* `Media` - the composition: an application of the library, or of a binding.

### Proofs and instances

* `Lists` - `Selected` and `Total`, what a loop over a list keeps of it and what
  it adds up, as recursive functions of how far the loop has come; used by
  `RTCPCompoundPacketBuilder`, `RTCPPacketBuilder` and `RTPPacketBuilder`, by the
  transmitters for what they poll and by `OrderedTable`.
* `Lists_proofs` - lemmas about these two, for the proofs about packets.
* `RTPSources_proofs`, `RTPSession_proofs`, `RtpReceive_proofs`,
  `RTCPReports_proofs`, `RTPPackets_proofs`, `Transmitters_proofs`,
  `Media_proofs` - theorems.
* `MCRTPSources`, `MCRTPSession`, `MCRTCPReports`, `MCTransmitters`, `MCMedia`,
  `MCRTPPackets` - instances for TLC.

## 3. Runs

Every run but the four `*_doc` runs passes.  A `*_doc` run states what a
comment or a header says and finds a behaviour of the code that breaks it.

| Run | Checks | Bounds and what they allow |
|---|---|---|
| `sources` | `CountsMatchTable`, `OwnSourceIntact`, `OneHostPerSource`, `SSRCChangesOncePerCollider` | 3 SSRCs and 2 addresses on different hosts, with mixers: collisions, probation, BYE, timeouts and the reuse of an identifier all happen |
| `sources_peers` | `ActiveCountExact`, `NoStaleDestination`, `SilentSourceLeaves` | 3 SSRCs and one address, without mixers: us and two participants that share the address, or one and an identifier to change to |
| `session`, `session_doc` | `MutexesComeFree`, `SSRCsAgree`, `BYEIsFinal`, `MissedBYEOnlyByRace`; `BYEOnlyAfterData` fails | 3 SSRCs (two changes, hence two queued BYEs) and 2 user threads, symmetric, so that an RTP and an APP packet may be under way in one change; one user thread is enough for the finding |
| `receive`, `receive_doc` | `DataAccessExclusive`, `LockLeakOnlyAtStop`, `StartWaitsForThread`, `StopWaitsForThread`, `CallsReturn`, `PacketsReachCodec`; `FullControl` fails | 3 packets in the table; the threads are those of the program |
| `reports` | `PacketsWellFormed`, `NeverFilledTooSoon`, `ReportsSpaced`, `IntervalsNotEmpty`, `EverythingReported`, `QueuedBYELeaves` | us and 2 participants, of which one sends all the time and the other, in front of it in the table, comes, goes, sends and falls silent; a sender report has room for one block and one of the two items, a receiver report for two blocks and no item or for one block and both, so that a round takes one packet or several, may stop between the items, and the second pass over the table happens; both items in every round; one departure, two collisions; times up to 3 ticks, which is the minimum interval; BYE packets of others without limit, told apart up to a count of 4, ours included |
| `reports_doc` | `NoBlockTwice` fails | 4 participants, two blocks to a packet: one round overflows by one; one of the two items in every other round |
| `packets` | `ListSorted`, `HighestNotUnderstated`, `ExactUntilLateWrap`, `SentReadsBack`, `ReportedTimeFits`, `FramesReassemble` | received numbers modulo 10, 24 of them (two wraps), reordering and loss by 2, a list of 3 and 2 packets on probation; sent numbers modulo 3 and timestamps modulo 2, 3 packets, 2 contributing sources, two sending threads, buffers around the limit of `sendBuffer` and frames of exactly one and two fragments |
| `transmitters` | `NothingLeftBehind`, `NoLostWakeup`, `ImplementsInterface`, `ImplementsTable`, `WaitsEnd`, `SizesAgree` | one host with two ports, a second address of our own, one group, two packets in flight; 3 threads, a pipe of 2 bytes; 3 keys in 2 buckets, two of them in the same one; a session with two possible packet sizes, created again as often as one likes |
| `inject_doc` | `InjectReturns` fails | 2 threads and a pipe of one byte |
| `media` | `OnlyLetGoFails`, `ManualModeDelivers`, `StoppedCodecGoes`, `FeederNotStuck` | two lives of each object, so that a stop is followed by a start; one input and one output buffer, one answer in place of an output; ten applications, each with the entry points of one family; 4 calls of the camera's and of the stand-alone sender, 3 of the file encoder, so that a frame of a stopped life meets a codec that is being started, 2 of decoder and receiver; after one failed start, or one call out of order, all starts work (`MayFail`) |

The bounds are small because the hazards are about two or three actors and one
repetition: a second SSRC change, a second start over a living object, a second
packet of a round, a wrap of a number, a reused table entry.  Each passing
property was also seen to fail when the definition it depends on is changed the
way a plausible bug would change it (the definitions marked as mutants).

`ExactUntilLateWrap`, `MissedBYEOnlyByRace`, `LockLeakOnlyAtStop`,
`OnlyLetGoFails` and `SizesAgree` state how far the damage of a known weakness
goes; each names the event that has to come before anything can be wrong.
`ReportsSpaced`, `IntervalsNotEmpty` and `SSRCChangesOncePerCollider` are action
properties.  `ImplementsInterface` and
`ImplementsTable` are refinements: every step of each transmitter is a step of
`RTPTransmitter`, every step of the pointer structure one of `OrderedTable`, or
a stutter.

`BYEIsFinal` and `MissedBYEOnlyByRace` name the calls they except: an APP packet
whose call had read the SSRC before it changed may follow its BYE, and a packet
whose call was under way during a change may cost its SSRC the BYE.

`QueuedBYELeaves` and `EverythingReported` promise nothing while a BYE of ours
waits and `MaxByeMembers` BYE packets have been counted (`TooManyBYEs`): each of
them adds to the interval, which is drawn anew whenever the timer runs out, so
that BYE packets that keep coming postpone ours for ever, and the reports with
it.

`ReportsSpaced` measures the distance of a report from the report or BYE packet
before it.  A BYE may follow a report sooner, and an APP packet is sent whenever
the user asks for it.

`FeederNotStuck` excuses a thread as soon as its codec has given one answer such
as "format changed" since it was started, whether or not that answer did any
harm.  The behaviour it is there for: `mCount` is loaded and stored without a
lock, and when the stale store of the codec thread coincides with such an
answer, nobody looks for outputs again.  So the property speaks only of codecs
all of whose answers have been outputs.

`OnlyLetGoFails` allows a fault of a thread whose frame was taken up before its
codec was stopped, in whatever codec that frame arrives, and claims nothing once
a call has come out of order or a start has failed.
`NoStaleDestination` allows one thing: two SSRCs may share an address (a
participant that restarted), and the timeout of the old one deletes the
destination of both.

Fairness.
* `sources_peers`: the poll thread keeps running, a packet has finitely many
  items and one `Poll` stores finitely many packets, so that `MultipleTimeouts`
  is reached again and again.
* `receive`: the scheduler runs every thread that can run, mutexes starve
  nobody, `select` ends (it has a timeout), a start that has begun goes on,
  and `addBuffer` returns once the codec was stopped; it need not return before
  that.  Nothing is assumed of the application.
* `reports`: `ProcessPolledData` asks `IsTime` again and again, a BYE that is
  due is sent, and time passes.
* `transmitters`, `inject_doc`: a thread that has begun a call goes on with it
  when it can (strong fairness, as mutexes are handed out fairly).  Nobody has
  to call anything, and a wait may be as long as one likes.
* `media`: a call that has begun goes on, every thread that can take a step
  takes one, the platform's codec converts.  Strong fairness for the feeding
  threads, taken together by their number (`FeederStep`; an application has one
  family of them): a thread waiting for an input buffer gets one that comes free
  again and again.  No frame and no call is promised, and nothing at all of the
  camera.

Deadlock is checked in `sources`, `sources_peers`, `session` and `reports`.
The others really may stop: a deleted receiver, a destroyed transmitter, an
application that has made its calls, a process that died, a sender with no
packets left.

### Findings

1. `jrtplib/rtpsession.cpp:1375`: `sentpackets` says that a packet was sent,
   not with which SSRC, against the comment at line 1381.
   `MissedBYEOnlyByRace` shows that only a `SendPacket` or `SendRTCPAPPPacket`
   call in flight can cost an SSRC its BYE.
2. `jrtplib/rtpsession.cpp:501` clears the table while the receive thread may
   be in it: `stopThread` does not wait, and `BYEDestroy` does not lock.
   `RtpReceive.cpp:178` returns with the sources mutex locked; the poll thread
   then never ends, `Stop` gives up after 5 seconds and `Kill` sends a signal
   that ends nothing.  A lost `AbortWait` has the same effect.
   `LockLeakOnlyAtStop`, `CallsReturn` and `StopWaitsForThread` (the poll thread
   at least has ended, unless `Stop` gave it up) show what still holds.
3. `jrtplib/rtpexternaltransmitter.cpp:803` writes a byte into the pipe for
   every packet injected, also when nobody waits; a receiver that always finds
   packets never reads it, and `InjectRTP` blocks with `mainmutex` locked.
4. `jrtplib/rtcppacketbuilder.cpp:248`: the second pass over the table, meant
   for sources of an earlier packet, reports on the sources of this packet a
   second time, over an interval that is empty.  `IntervalsNotEmpty` shows that
   this is the only way to a fraction lost of 0/0.

Remarks, which no run refutes by itself: `rtpsession.cpp:1159` lowers the
transmitter's limit before the builders' and outside the builder mutex, so that
an RTCP packet built for the old size can no longer be sent, and the failed
`SendRTCPData` ends the poll thread; `SizesAgree` shows that nothing but a
smaller size has this effect.  `rtpsources.cpp:357` validates an
existing entry without counting it, against `rtpsources.h:285`, and
`CountsMatchTable` shows the limit of the damage (never too large, right again
before the mutex is free).  `SendRTCPAPPPacket` (`rtpsession.cpp:710`) may send
with an SSRC whose BYE has left, which `BYEIsFinal` shows to be the only such
packet.  `rtpudpv4transmitter.cpp:385` unlocks `mainmutex` a second time,
possibly while another thread owns it; `TransmitterThreads` records this in
`stray` and no property claims anything about it, only that `Destroy` and the
wait it interrupts end (`WaitsEnd`).  `rtpsourcedata.cpp:156` takes a packet from before
a wrap that arrives behind one from after it for a packet of the next cycle,
against `rtpsourcedata.h:357`; `HighestNotUnderstated` and `ExactUntilLateWrap`
show what still holds.  `RtpSender::deinitSession` clears the destinations
before `BYEDestroy`, so the BYE goes to nobody; `connect` ignores the address
of a second call; a short frame of `sendBufferEx1` goes out with one octet
more, and the last fragment of `sendBufferEx` without the extension that the
others have.

## 4. Proofs

All theorems hold for every value of the constants that satisfies the named
assumptions, which say no more than that sizes and widths are numbers, threads
and tables are told apart, packets have the library's least size, keys are
finitely many and no pointer is one, and that producers and applications are of
the kinds named (`ConstantsAssumption`, `ThreadsAssumption`, `QueueAssumption`,
`StatsAssumption`, `BuilderAssumption`, `SenderAssumption`, `SizeAssumption`,
`ReportsAssumption`, `ScheduleAssumption`, `BoundsAssumption`,
`AddressAssumption`, `BufAssumption`, `HashAssumption`, `ProducerAssumption`,
`AppAssumption`).

* `RTPSources_proofs`.  `IndInv` adds to the type invariant what is known of
  the packet in hand (`PollInv`) and that an identifier outside the table has
  no flags, addresses or probation left (`FreshInv`): without it a reused
  identifier could bring back an old address, and `OwnSourceIntact` and
  `OneHostPerSource` would not be inductive.  `CountInv` relates the counters
  to cardinalities; each action adds or removes at most one entry, for which
  lemmas on the cardinality of finite sets are stated once, and
  `MultipleTimeouts` recounts.  From the two follow `TypeCorrect`,
  `OwnSourceSafe`, `SourcesHaveOneHost`, `CountsCorrect`,
  `ActiveCountExactWithoutMixers`, `SSRCChangesCorrect` (an action property)
  and `DestinationsCorrect`.
* `RTPSession_proofs`.  `LocksMatchProgram` is inductive with the types
  (`LockInvariance`).  That nobody waits in a circle follows from it without
  further induction: a circle needs a thread that holds one mutex and waits for
  another, only the poll thread does that, and what it waits for is then held
  by a user thread that waits for nothing it holds.  The two make
  `MutexesCorrect`.  `ByeInv` adds what `sentpackets` knows of the SSRC in use
  at each stage of a change (`FlagInv`), that identifiers in use, given up
  and queued are told apart (`SSRCInv`), and that an APP call has either the
  SSRC in use or one recorded in `kept` (`AppInv`), for `SSRCsAgreeCorrect`,
  `BYEIsFinalCorrect` and `MissedBYECorrect`.
* `RtpReceive_proofs`.  `OwnerInv` says who holds the mutex wherever the table
  is used, `StartInv` that the receive thread is born after the callback is
  registered, so that it is there wherever a packet is looked at.
  `HandshakeInv` relates the two mutexes of `JThread`, the flag `running` and
  the places of both threads: each mutex is held as long as the other side may
  not go on.  Since `Start` then returns with the thread at work
  (`StartWaitsCorrect`), a thread that does not run when `Stop` looks is one
  that has ended (`StopWaitsCorrect`).
* `Lists_proofs`.  The provers have no induction over data, but
  `WellFoundedInduction` gives every set of natural numbers a least element,
  and with the property to be proved written as the set of numbers that have it
  (`Induction`), and a recursive step as a function (`Recursion`), that is
  enough: `Total` of a concatenation is the sum of the totals (`TotalConcat`),
  and `Selected` keeps exactly the entries asked for, in their order
  (`SelectedProperties`); of a list without repetition, selecting all but one
  entry leaves the list without that place (`SelectWithout`).  `Division` is
  division with remainder, which the proofs about reports and about fragments
  need for numbers the provers do not know.
* `RTCPReports_proofs`.  A packet `WellBuilt` takes the bytes that
  `NeededBytes` counted for it, report by report and chunk by chunk, and
  `WellBuiltIsWellFormed` shows that `ParseData` reads it back.  `BuilderInv`
  says that the packet built last is one of those and that a round of SDES
  items is only left open with an item still to send: this is what makes the
  next round find room for it (`SpecNeverFilledTooSoon`).  `SpacingInv` says
  that the timer of the scheduler never runs ahead of the time since the last
  packet, and that the special rules for a BYE end with the last BYE queued;
  `ReportsSpaced` follows with the bounds of the randomised interval.
  `CountedInv` says that a source heard since the last report has packets in
  its interval, and before the first report every source that has sent data;
  `BuiltIsGood` that all blocks of a packet are for sources one is due to, in
  whichever of the walks they were added; `IntervalsNotEmpty` follows.
* `RTPPackets_proofs`, the receiver.  `OffsetInv` says that extended and true
  numbers differ by whole cycles, `CycleInv` that the highest number lies in
  the cycle counted, `RangeInv` how far the newest packets are apart.  Through
  the offset the lemmas `Newer` and `Older` say which arriving numbers are
  recognised: all newer ones, and the older ones of the same cycle.  The only
  assumption on the network is that `Late + Ahead` is less than half a cycle.
  `StoreStep`, `TailStep` and `TrimStep` are the facts about the list.
* `RTPPackets_proofs`, the builder.  `ReadsBack` is the lemma that
  `ParseRawPacket` undoes `Write` for every packet `BuildPacket` does not
  refuse: the header of the extension is one word, its data the words after it,
  and what is left of the length is the payload.  `BuiltInv` keeps such a
  packet, and the types of the builder's members.  For the sender reports
  `ReportInv` adds that `prevrtptimestamp` is the timestamp reported, so that
  "the timestamp has moved on" is seen exactly when it has.
* `RTPPackets_proofs`, the sender.  Per call, `SentSoFar`: the first `t`
  fragments have been sent, each where it belongs; `Divided` says that
  `FullFragments` leaves an octet at least and a full fragment at most for the
  last one.  Between calls, `MarkInv`: an undisturbed call finds the default
  marker as it left it, and of two calls in fragments none is undisturbed.
  Neither is inductive without the other, since a fragment takes its marker
  from a default that any thread may set.
* `Transmitters_proofs`, the session.  `PartsInv` says which parts are there
  before each step of `Create` (`Before`, a table like `Made` and `Undone`;
  `NextStep` and `ErrorPath` say that the three fit together) and `SizesInv`
  which copies of the size agree at each point of a change.  `FitsInv` adds
  that, as long as nobody has asked for less, every packet fits.
* `Transmitters_proofs`, the threads and the transmitters.  `NoLostWakeup` is
  inductive with `ByteSeen` (the byte a `select` reported is still there when
  the thread reads it), which needs that one thread waits at a time
  (`OneWait`) and that nobody creates the transmitter under a call
  (`CreateAlone`).  `TablesInv` says that descriptors are open exactly while a
  transmitter is created and that both sockets are in the listed groups;
  `CreateIsAllOrNothing` is this and `PartsInv`.
* `Transmitters_proofs`, the interface (`TransmittersKeepPromise`).  The
  operations of the four transmitters are of four kinds: those that change the
  list of sources, those that send or change destinations and groups, those
  that receive packets and hand them over, those that create, destroy or
  reconfigure.  For each kind one lemma shows that such a step is a step of
  `RTPTransmitter` (`ListPromise`, `SendPromise`, `PacketsPromise`,
  `LifePromise`), and for each transmitter one lemma that its operations are of
  these kinds.  The core of the first is that a host with ports, or without
  excepted ports, lists the same addresses before and after as the sets of the
  interface; of the third, that polling keeps a beginning of the queue and of
  it what is accepted, in order.  `DataInv` says what a transmitter that is not
  created has, and what the external and the fake one never use.
* `Transmitters_proofs`, the hash tables (`TablesAreOrdered`).  `TableInv` says
  that there is a list of keys without repetition such that the list pointers
  link just these in this order, each bucket links just those of them that
  belong into it, an entry that is not there points nowhere, and the cursor is
  at one of them or nowhere (`Holds`).  `UnlinkOne`, `LinkFirst` and `LinkLast`
  are the lemmas about doubly linked lists: what the assignments to the
  neighbours' pointers leave is a list again, without or with the entry.
  `WalkIsList` says that following the pointers gives the list back, so that
  the refinement mapping (`From`) has the value expected; `OthersStay` that
  the other buckets, which share the pointer fields, are not disturbed;
  `FoundIsHeld` that searching one bucket finds what is in the list of all.
* `Media_proofs`.  `ReleaseInv` says that one call of `release()` takes a
  context apart, in a fixed order; `HoldInv` that whoever holds the camera keeps
  the context alive; `ManualInv` that `mManualCameraCallbackSet` implies the
  camera was asked for frames and is set while there are buffers.  From the
  three follow `FramesKeepComing` and `OnlyReleaseRaces`, the half of
  `OnlyLetGoFails` that is about the bindings.
* `Media_proofs`, the library.  `LibraryInv` claims something only while the
  calls have come in order, every start has worked and the process lives:
  `Memory` (`CodecFacts`: the object `gCodec` points to is alive, has its tables
  as long as it is started and its thread runs, and a frame that is not late is
  on its way to that object, which is running; `OwnerFacts` and `FeedFacts`: its
  callback leads to an object that is there, only what the library points to
  feeds it, and only while it is running) and `Stages`,
  which has for every step of every entry point what the caller has made or
  taken apart before it.  Neither is inductive alone: that `StopFileEncoder`
  finds the file open is a stage, that the codec's thread no longer writes to
  it is memory.  The other threads see the caller's work only through a few
  fields (`SameView`), so one lemma, `StagesKeep`, does for all of them; each
  keeps the invariant or dies of a codec, a preview, a file or a receiver that
  had been stopped (`Outcome`).  `LibraryFaults` follows, and `OnlyLetGo` is
  this and `OnlyReleaseRaces`.  Assumed are `ProducerAssumption` (the threads
  that feed a codec are the camera's, one of the application, and those of
  decoders and receivers) and `AppAssumption` (an application of the library
  uses the entry points of `gMethods`).

Only model-checked: everything that needs fairness (`SilentSourceLeaves`,
`CallsReturn`, `PacketsReachCodec`, `EverythingReported`, `QueuedBYELeaves`,
`WaitsEnd`, `StoppedCodecGoes`, `FeederNotStuck`), which is beyond the prover.
Every other property of a passing run is a theorem.

## 5. Plan

1. The jitter of `RTPSourceStats` and the loss that a block of `RTCPReports`
   states: so far an interval either has packets in it or is empty.
2. The life of a receiver as an abstract specification that `RtpReceive`
   implements up to the findings.

## 6. Not modelled

* `Media/Codec/base4`, `base5`, `base6`: copies of the platform's bindings of
  `MediaCodec` and `MediaCrypto`, which convert arguments and results of calls
  into the platform.  What `CodecBase` needs of them is its external codec.
* `Media/Camera/old` and `temp`: older copies of files that are modelled, a
  camera driver and thread helpers, which nothing else includes; `Codec/old` is
  a header without code.
* The win32 branches, the `win32` directory of `jthread`, and the memory
  manager, debug, random and time helpers of `jrtplib`: platform code without
  state of interest here.
* The contents of report blocks (loss, jitter), the texts of SDES items, byte
  order and layout inside the headers: the models know sizes, order and
  presence.
* Exhausted memory, except where an error path of the code is taken for
  another reason as well.
* The camera service, the platform's codec, the network and the Java
  application: external, and free to do what the code has to cope with.
