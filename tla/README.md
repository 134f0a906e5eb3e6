# Kinesis Video Streams C++ producer: TLA+ models and proofs

The C++ producer SDK wraps the Platform Independent Codebase (PIC, a C library)
in three layers: the producer and its streams (`src/src/KinesisVideo*.cpp`), the
credential providers (`src/src/Auth.*`), and the GStreamer element `kvssink`
(`src/src/gstreamer`), and ships the applications that use them
(`src/samples`). These modules model the parts of it that keep state
which several threads, several calls or several sessions share. PIC, GStreamer,
the system clock and the heap are external: the modules contain what the C++
code relies on, no more. Line numbers below are those of `src/src/...`, those of a
sample of `src/samples/...`.

## 1. Inventory

| Component | State | Operations | Interacts with |
|---|---|---|---|
| Stream registry: `KinesisVideoProducer`, `ThreadSafeMap` | map handle → stream, mutex and once flag of the client | `createStream(Sync)`, `freeStream`, `freeStreams`, destructor | PIC (handles), `KinesisVideoStream` |
| `KinesisVideoStream` | PIC handle, once flag of the release | put, start, stop, reset, metadata, metrics, `free`, destructor | PIC, which resets the handle it is given |
| `CredentialProvider` and its subclasses | cached credentials, time of the next rotation, a mutex, the serialized token | `getCredentials`, `getUpdatedCredentials`, two callbacks of PIC | PIC threads, `updateCredentials` of the subclass |
| kvssink, sessions | element state, producer, stream, `stream_status`, `track_cpd_received`, shared ownership of `data` | `change_state`, `handle_buffer`, CAPS event, `finalize` | application thread, streaming threads, PIC threads |
| kvssink, tracks | pads, counts, media type, content type, codec ids (heap strings), track ids | request and release of pads, `init_track_data`, `create_kinesis_video_stream` | peers of the pads |
| kvssink, timestamps | `last_dts`, `first_pts`, `producer_start_time`, `pts_base` | `handle_buffer`, NULL→READY, `file-start-time` | upstream clock, system clock |
| `KvsSinkStreamCallbackProvider` | a share of `data` | `streamErrorReportHandler` | PIC threads; writes `stream_status` |
| kvssink: properties, metadata and EOS events | single values | `set_property`, `get_property`, two events | PIC |
| `KvsSinkUtil` | none | `gstructToMap`, date parsing | called by properties |
| `PutFrameHelper` (deprecated) | one frame buffer and its size, a flag that no put has failed | `getFrameDataBuffer`, `putFrameMultiTrack`, `putEofr`, `putFrameFailed` | `KinesisVideoStream`; nothing in the repository uses it |
| `StreamDefinition`, `StreamTags` | arrays of track infos and tags | construction, `addTrack`, `getStreamInfo` | producer |
| Callback providers: `CallbackProvider`, `DefaultCallbackProvider`, the client and stream providers | callback tables, the chain of the C library, ownership of the providers | construction, chaining, dispatch by static handlers, destruction | PIC threads, application objects |
| Sample `kvs_gstreamer_sample` | list of files, index of the last unpersisted one, time base of the session, `stream_status`, main loop | upload of files with retries, acks, stream errors, live sources | producer, PIC threads, GStreamer threads |
| Sample `kvssink_intermittent_sample` | `terminated`, two condition variables, main loop, state of the pipeline | stop and start in turns, timer, SIGINT | kvssink by way of the pipeline |
| Sample `kvssink_gstreamer_sample` | list of files and counters, `stream_status`, main loop | files with retries, live and RTSP sources, timer, SIGINT | kvssink by way of the pipeline |
| Other samples, tests | | | the audio and video sample repeats `kvs_gstreamer_sample` with two tracks |
| Device info, metrics, logging, clock | none that changes | getters | PIC |

What makes them hard, and what makes them correct:

* **Registry.** PIC hands out addresses as handles and may hand out a freed one
  again; the release of a stream, its removal from the map and the loop of
  `freeStreams` are separate steps. Correct means: a PIC stream is released once,
  by its own object; calls reach the PIC stream of their object; between calls the
  map contains the live streams and nothing else; nothing is left when the client goes.
* **Credentials.** The cache is written in two steps and read by many threads; the
  token is freed, made and read outside the mutex; times are unsigned and the
  maximum means "never", before and after it wraps. Correct means: no torn, stale
  or needlessly fetched credentials, and a token that PIC reads while it exists.
* **Sessions.** Three kinds of thread meet in `data`; transitions fail half way and
  the element is used again. Correct means: whatever handlers touch is alive, there
  is one PIC stream at most, errors are kept as long as they apply.
* **Tracks and timestamps.** Sequential code over fields that outlive a session, a
  track or a buffer. Correct means: the stream is created for the pads there are,
  and frames keep the order and distance of their captures.
* **Callbacks.** The C client calls back on its own threads while it is made, fails to
  be made, runs and is freed, through raw pointers to objects with owners of their
  own. Correct means: what a callback reaches exists, and however a producer ends
  nothing is left and the deletion returns.
* **Samples.** A main loop that only a running loop can be told to leave, a status two
  threads and a signal handler write, acks that refer to files of an earlier session,
  waits that miss their notification. Correct means: what is counted or reported as
  sent has been sent, nothing is skipped, and the program ends -- or it is known
  exactly what keeps it from ending.

Every hazard, at its line, is listed in `PROJECT.json`, with the properties that
would catch it, and a note where the code itself does not stand up to it.

## 2. Modules

| Module | What it is |
|---|---|
| `StreamRegistry` | abstract: streams are created and freed once, none outlives the client |
| `ProducerStreams` | the registry, the release of streams and the calls on them, by several threads; implements `StreamRegistry` (`RegistrySpec`) |
| `Credentials` | the cache and the token of a credential provider, by several threads |
| `KvsSink` | the element over its sessions: application, streaming and PIC threads |
| `KvsSinkTracks` | pads, track data and the stream definition over sessions |
| `KvsSinkFrames` | PTS and DTS over tracks and sessions |
| `CallbackProviders` | both kinds of callback provider over the life of a client, with its callbacks |
| `FileUpload` | `kvs_gstreamer_sample`: main, streaming thread and PIC thread over files and sessions |
| `IntermittentSample` | `kvssink_intermittent_sample`: main loop, stop/start thread, timer, SIGINT |
| `KvsSinkSample` | `kvssink_gstreamer_sample`: main loop, bus, timer, SIGINT over files and live sources |
| `MC…` | constants and symmetry for TLC |
| `ProducerStreamsProofs`, `CredentialsProofs`, `KvsSinkProofs`, `KvsSinkTracksProofs`, `KvsSinkFramesProofs`, `CallbackProvidersProofs`, `KvsSinkSampleProofs` (both kvssink samples), `FileUploadProofs` | theorems |

Operators introduced by a comment "Deviation" are variants of the operator after
them with a plausible mistake. No specification uses them; putting one in the
place of its original shows that a property notices the mistake.

### ProducerStreams

Each thread is in one call, `op[t]`, at the label `pc[t]`; a step is the code
between two points where another thread can be observed. `handle[s]` is
`stream_handle_`, `freeFlag[s]` the once flag, `active` the map, `owner` PIC's own
view of which object's stream lives at a handle value, `mutex` is
`free_client_mutex_`.

* `BeginCreate`, `PicCreate`/`PicCreateFails`, `MapPut`: createStreamSync. `put` is
  `emplace`, which keeps an old entry.
* `BeginUse`, `PicCall`: all calls that read the handle and hand it to PIC.
* `BeginFreeStream`, `CallOnce`/`CalledAlready`, `PicFreed`, `MapRemove`: freeStream,
  with `free()` in the middle. PIC releases the stream, later it resets the handle;
  the map entry goes last, by the value read at the beginning.
* `BeginFreeStreams`, `Lock`, `CountStreams`, `NextStream`, `Unlock`, `FreeClient`:
  freeStreams and the destructor. The bound is counted once; `getAt(0)` returns
  nullptr for an empty map, on which the catch block of the code dereferences null
  (`"nullDeref"`).
* `Destruct(s)`: the last shared pointer goes away.

Calls overlap in any way: two frees of one stream, a free with a create, a use, a
freeStreams. The only rule is that of every C++ object: while the producer is being
destroyed no other call on the producer runs (a stream outlives it and may be used,
`MayStart`). Calls of `KinesisVideoStream` read the handle and hand it on whether it
is valid or not, which PIC checks; the `assert` of `putFrame` is not in a release build.
Overlaps have their price, and the properties say exactly which:

* a stream created between the release and the removal of another can be given its
  handle value; `put` does not replace the old entry or the removal takes the new
  one, and the stream, which lives, is in no map (`KinesisVideoProducer.cpp:197`). The history
  variable `early` has the streams this can have happened to; `TrackedWhileLive` and
  `RegistrySpec`, which calls them strays, hold of all others without exception;
* freeStream beside freeStreams empties the map under the loop's bound, and the
  catch block dereferences a null stream (`KinesisVideoProducer.cpp:211`). The history variable `taken`
  says that a freeStream has taken an entry since the last count; `NoNullDeref` says
  that without it the loop never runs out;
* a use whose stream is freed under it hands PIC a freed handle, perhaps one that
  another stream has been given since; `CallsReachOwnStream` is about all other uses;
* `getMap` copies the map without its lock (`ThreadSafeMap.h:94`): beside a put or a
  remove the copy may be torn (`TearCopy`), after which the thread does nothing more.

What a stray does after the client it belongs to has been freed is PIC's affair; the model
keeps it alive until its object goes.

### Credentials

`Lock`, `Check`, `StoreCredentials`, `SetExpiration`, `CopyOut` are
getCredentials and getUpdatedCredentials under the mutex. The subclass writes
`credentials_` in two statements (the copy brings its own stored maximum, then the
expiration is set), so the model has the state in between. `FreeOld`, `Freed`,
`Create`/`CreateFails`, `Use`, `PicRead` are the rest of the two handlers, outside
the mutex; blocks of the heap show which token PIC reads. `Nanos` and `KinesisTime`
wrap like the unsigned arithmetic of the code: the maximum expiration of static
credentials is `Width - 1` and is multiplied like any other. Any number of handlers
run at the same time, as the comment on the mutex has it ("multiple clients may call
simultaneously", `Auth.cpp:18`). The mutex does not cover `security_token_`, so that two
handlers free it twice (`Auth.cpp:112`) and lose a block (116): the history variable
`raced` says that two handlers have been on the token at once. What the token handlers
keep is stated up to there (`TokenFreedOnce`, `NoTokenLeak`, half of `PicReadsOwnToken`);
what they read of the credentials is stated without it (`TokensComplete`, the other half).

### KvsSink

`app` is where `gst_kvs_sink_change_state` is; `pc` where
`gst_kvs_sink_handle_buffer` is between its load of `stream_status`
(`HandleBuffer`), the reset (`ResetStream`), the store of success (`ClearStatus`)
and the put (`PutFrame`). `HandleCaps` is the CAPS event, `StreamErrorReport` the
PIC callback, possible at any time while the stream lives. `ProducerInit` may fail
before and after it replaced the producer. `CreateStream`/`CreateStreamFails` are
the tries of `kinesis_video_stream_init`. `owners` are the holders of the
shared pointer `data`: the element, and the callback provider inside the producer
that `data` itself holds. `pic[s]` and `reported[s]` are PIC's side: whether the
stream lives, and the gravest error reported since it was last reset. `use` says
whether the pads have been active over the present stream, and whether more than once.

From GStreamer the model takes: one buffer at a time in `handle_buffer`
(GstCollectPads), CAPS from the thread of each pad but not while that pad's buffer
is handled, both only on active pads, deactivation waits for the buffer in
progress, no buffer after an error or refused CAPS until the pads are activated
again, a failed transition leaves the state as it was.

### KvsSinkTracks

One thread; what matters is the length of the histories. `RequestPad` (with
`gst_element_add_pad` refusing), `ReleasePad`, `Link` between sessions;
`NullToReady`, `InitTrack` for each pad, `FinishTracks` are `init_track_data`;
`CreateStream` is one try of `create_kinesis_video_stream`. Codec ids are heap
blocks, because `codec_id` can become an alias of `audio_codec_id`.
`definition` is what the stream was created with, `session` the pads it was created for.

### KvsSinkFrames

One buffer per step: `Drop`, `MapFails`, `PutFrame`, with `Dts`, `LastDts`,
`FirstPts`, `StartTime` and `Pts` for the fields it reads and writes; sessions
begin and end in `NullToReady` and `Stop`; the system clock ticks between any two.
Buffers may come without PTS: such a frame gets a PTS that wraps
(`gstkvssink.cpp:1387`), which is not followed, but it can be the one that sets
the time base. Assumed of the source: no B-frames, PTS of a track grow, a restart
takes longer than twice the latency of a buffer.

### CallbackProviders

`pc` is the application's thread from handing over its providers (`"providers"`)
through the constructor of `DefaultCallbackProvider` (`ConstructProvider`, which may
throw; `AddAuth` … `AddRetry`, the tables chained one after the other) to `create`
(`CreateProducer`, `ClientOpens`, `ClientFails`) and the destructor (`DeleteProducer`,
`ClientFreed`, `DestroyProvider`). `alive` holds the objects that exist, `chain` the
C library's chain, `table` the events the client has a function for: `ChainTable` of
the default provider, `BaseTable` of an application's own `CallbackProvider`, from
which `getCallbacks` leaves the two shutdown callbacks out. `call[t]` is what a
thread of the client is in: `Raise` (while the client opens, is open or closes),
`Handle` (the static handler, which asks the application's provider for its
function), `Answer` (the credentials, or an own provider), `AppReturns`, `Returns`.
From PIC the model takes that a failed creation and a free return only when no
callback runs.

### FileUpload

`pc` is `main` with its loop over the files; `main_loop` and `quitting` are the GLib
loop and the error handler between its test of `main_loop` and `g_main_loop_quit`,
which acts on a running loop only (`QuitLoop`). `OnNewSample`, `EosCb` are the
streaming thread; `StreamError`, `HandlerQuits`, `FragmentAck` PIC's; `GstError` and
`ErrorCb` an error of the pipeline, posted and dispatched. `fragments`, `received`, `acked`,
`persisted` are the service's side: what a session holds, how far it is acknowledged, and
what it has for good. `CountsAck` is the body of `fragmentAckReceivedHandler`, `Retry`
and `ResetState` the two halves of the retry. Files are sequences of samples with a
presentation time, key or not, droppable or not. Giving up after the last ack has come
reads `file_list[i]` behind the list (1203): the outcome is `"crashed"` or not.

### IntermittentSample

`main`, `ss` (the thread of `stopStartLoop`), `timer` and `sig` (the thread SIGINT
arrived on, which does nothing else until the handler is through) share `cv_mutex`,
`terminated` and the main loop. A `wait` releases the mutex, may time out
(`TimeOut`, only the timed ones), be notified (`Woken`) or return for no reason
(`SpuriousWake`, `TimerWoken`), and takes the mutex again (`EndWait`). `SendEos`,
`PostEos`, `BusEos` carry the EOS event to `bus_call`; `PauseAndFlush` and `Resume`
are the rest of the round. `mishap` remembers the first of the four things that
can keep the program from ending; nothing but `SampleEnds` reads it.

### KvsSinkSample

`pc` is `main` with `gstreamer_init` unfolded, because the order of starting the
pipeline, the timer and the main loop is what matters. `main_loop` is a dangling
pointer (`"freed"`) between its unref and its reset. The timer and the handler of
SIGINT are two steps each, quit and status, on a thread of their own. `ended` has the
files whose pipeline came to its end.

## 3. Runs

| Run | Asks | Bounds |
|---|---|---|
| `ProducerStreams` | streams are freed once and by their own object, calls reach their stream, the map loses and keeps nothing, no null dereference, freeStreams returns; refinement of `StreamRegistry` | 2 threads, 3 streams, 2 handle values, any overlap |
| `Credentials` | torn, stale and needless credentials; tokens complete, freed once, read while live, never leaked | 2 threads, 2 blocks, clock to 2, periods 1 and 3, grace 2 |
| `TokenFreedTwice` (violated) | is what a token handler frees allocated? | the same |
| `KvsSink` | stream usable, single, not stopped under the pads; codec data before frames; offline errors stick; state changes return | 2 streams (a restart), 2 tracks of which one PCM, 4 tries |
| `StatusLost` (violated) | does the element know how its stream stands? | the same |
| `DataLeak` (violated) | does finalize release data? | the same |
| `KvsSinkTracks` | counts, track ids and content type after any history of pads; the codec of a stream with an H.265 pad | 3 pads, 3 blocks, 2 codecs a type, 4 tries |
| `KvsSinkFrames` | order, distance, sessions in order, growing DTS | 2 tracks without DTS, clock 2…6, wrap at 64 |
| `CallbackProviders` | objects alive under callbacks, nothing left behind, deletion ends | 2 threads, 5 events of each group, 2 callbacks |
| `FileUpload` | counted files are persisted, acks stay in the list, the final report is true, fragments do not overlap, the upload ends | 2 files (2 fragments and a droppable frame), 2 retries, 2 errors |
| `IntermittentSample` | flush after EOS, the sample ends | 1 SIGINT, 1 wake-up without reason, 1 bus error |
| `KvsSinkSample` | counted files were played, none is left out, the upload ends | 3 files, 2 retries, 2 SIGINTs |

Why the bounds are enough. *Registry:* the interesting cases need a thread that
frees and one that frees the same stream, waits at the call_once with the mutex or
creates; a stream freed, one created at its handle value and one beside them, on two
handle values. The safety properties also hold for 3 threads, 3 streams and 3 values (under symmetry,
which the liveness property of the run rules out), and are proved for any number. *Credentials:* with
the grace period 2, the periods 1 and 3 lie on its two sides; the clock passes
the rotation time of the short period; `Width` is 64 so that the stored
maximum 63 wraps to 60 and 62 in the two conversions. *KvsSink:* two streams make
every restart from a failed, a stopped or a running session; a third gives
1.3 million states and nothing new, and the proofs are for any number. *Tracks:*
one more pad than types, so that a third is refused or replaces one; blocks for
both codec ids and a free one. *Frames:* four clock values after the epoch hold a
session, a restart and a second session; 64 is beyond twice any time, so a wrap
is only reached by a subtraction gone wrong or an unset PTS. *Callbacks:* the
events are dispatched by group, and the run raises one of each: client level,
upload, pressure (the one with two getters), credentials, shutdown; two threads
and two callbacks let one be in flight while the other begins or ends, in each phase of
the client, and the proofs are for any number. *FileUpload:*
two files so that an ack can be taken for the wrong one, the first with a fragment in
the middle and one at the end, the second with a frame that is never sent; two errors
so that a retry fails again and the third round gives up. They satisfy what the theorems
suppose of the samples (`InputsWellFormed`). *IntermittentSample:* the
program is single in each of its actors; a second SIGINT finds `terminated` set, and a
second wake-up or bus error does what the first did. *KvsSinkSample:* a file before and
one after the one that is cut or retried; two signals to cut two files.

Deadlock is checked in `Credentials`, `CallbackProviders` and `KvsSinkSample` (a terminated
program stutters explicitly). In the others the
system may stop: a thread that died of the null stream or the torn copy holds the mutex
(`ProducerStreams`), a finalized element rests (`KvsSink`), an audio
pad without caps crashes (`KvsSinkTracks`), the clock bound ends a session
(`KvsSinkFrames`), a program ends (`FileUpload`), a thread waits for its own mutex
(`IntermittentSample`, one of the four causes `SampleEnds` names).

**Fairness.** Only what runs is fair: `Step(t)` in `ProducerStreams`,
`ChangeState` and `BufferStep` in `KvsSink`; `Credentials`, `KvsSinkTracks` and
`KvsSinkFrames` have safety properties only. New calls, buffers, errors and clock ticks are never
owed. Weak fairness is enough there: once a step of a call is enabled nobody else
disables it for good, except that `Lock` can be taken by somebody first. So what
is claimed is what holds without a fair mutex: `FreeStreamsReturns` starts when
the mutex is held. In `CallbackProviders` the application's thread goes on but never owes
a delete, and callbacks that have begun return. In `FileUpload` the three threads run and
a stopSync that nothing answers times out; no ack and no error is owed. In
`KvsSinkSample` a file comes to its end or to an error, while a camera need not.
In `IntermittentSample` threads run, timed waits time out, kvssink handles an EOS, and
a mutex that is free again and again is got (strong fairness of the threads that
lock): the other threads hold `cv_mutex` for bounded code only. Errors, signals and
wake-ups without a reason are never owed.

## 4. Disagreements between the code and what it says

Each is a property in the words of a comment, a log message or a declaration of the
repository, and TLC finds a configuration that violates it. The first three are runs of `PROJECT.json`,
which quotes the line:

* `TokenFreedTwice`: "multiple clients may call simultaneously", "free current aws
  credential first" (`Auth.cpp:26`, 111): two handlers free the same block.
* `StatusLost`: "let higher level application do the retry", which restarts the
  element and meets the old error on the new stream. A second way to violate the
  property is a fatal error between the load and the store in handle_buffer.
* `DataLeak`: "Reset the smart pointers to properly release the data": the
  provider inside the producer inside data holds data.

The others are kept as configurations of the same modules, to be run by hand
(`tlc -config NullStream.cfg MCProducerStreams`); each checks the one property named at the end of
the module of its row.

| Configuration | The words | What happens |
|---|---|---|
| `StaleHandle` (`MCProducerStreams`, `FreedStreamsRefuse`) | "Consecutive calls will fail." (`KinesisVideoStream.h:193`) | a call that has read the handle passes it to PIC after the free (`KinesisVideoStream.cpp:39`) |
| `NullStream` (`LockProtectsStreams`) | "Used in a lock for freeing streams" (`KinesisVideoProducer.h:181`) | freeStream takes no lock, and freeStreams dereferences null (`KinesisVideoProducer.cpp:211`) |
| `TornCopy` (`MapIsThreadSafe`) | "Thread safe implementation of std::map." (`ThreadSafeMap.h:12`) | getMap copies beside a put or a remove (94) |
| `StreamOutlivesClient` (`NoneOutlivesClient`) | "Free the streams" (`KinesisVideoProducer.cpp:219`) | a stream that came early is in no map and outlives the client (197) |
| `TokenLost` (`MCCredentials`, `TokenStored`) | "Store the buffer so we can release it at the end" (`Auth.cpp:114`) | two handlers store one block over the other (116) |
| `ErrorWiped` (`MCKvsSink`, `FatalNotForgotten`) | "fatal cases" (`gstkvssink.cpp:1311`) | the second way of `StatusLost`, by itself (1320) |
| `CodecDataMissing` (`MCKvsSink`, `CpdReachesStream`) | "Send cpd to kinesis video stream" (1173) | `track_cpd_received` is never cleared: a second stream gets none (1166) |
| `StaleCodec` (`MCKvsSinkTracks`, `H264HasDefaultCodec`) | "default codec id is for h264 video." (1564) | the codec of an earlier session serves the next (1567) |
| `DtsGoesBack` (`MCKvsSinkFrames`, `DtsMonotonic`) | "Construct a monotonically increasing DTS" (1347) | beside a track with DTS the one without goes back (1348) |
| `CallbackNotRun` (`MCCallbackProviders`, `OfferedCallbacksRun`) | "The optional callbacks are virtual" (`StreamCallbackProvider.h:23`) | of two getters for the overflow the dispatch asks one; kvssink overrides the other (`KvsSinkStreamCallbackProvider.h:21`) |
| `FileCutShort` (`MCFileUpload`, `AllFilesPersisted`) | "All files have been persisted" (`kvs_gstreamer_sample.cpp:1190`) | an error of the pipeline leaves the status alone (471) |
| `QuitLost` (`MCFileUpload`, `ControlReturns`) | "control will return after gstreamer_init" (1164) | the quit comes before the loop runs (1077) |
| `LoopGone` (`MCFileUpload`, `LoopOutlivesHandler`) | the test of `main_loop` (261) | main unrefs it before the handler uses it (1083) |
| `SigintRelocks` (`MCIntermittentSample`, `SigintReturns`) | "repeat until an interrupt signal is received" (`README.md:220`) | the handler locks a mutex its own thread holds (`kvssink_intermittent_sample.cpp:171`) |
| `ShutdownMissed` (`MCIntermittentSample`, `DurationEnds`) | "terminate the sample after a specified duration" (372) | a sleep that just timed out goes on to an EOS nobody reports (163) |
| `FileMiscounted` (`MCKvsSinkSample`, `CountedFilesSent`) | "Finished sending file to kvs producer" (`kvssink_gstreamer_sample.cpp:839`) | SIGINT quits the loop before it sets the status (224) |
| `TimerLost` (`MCKvsSinkSample`, `RuntimeEnds`) | "how long the stream should run (seconds)" (118) | the number is slept in units of 100 ns; the timer fires before the main loop runs (213), which it then does for good |

The passing runs of these modules name each of them as the exception it is (`early`,
`taken`, `raced`, `LostQuit`, the causes in `SampleEnds`, one file a signal) and say
that there is no other.

Noticed on the way, without a counterexample of their own. *Library:*
the second try of an audio only stream frees the codec string and uses it
(`gstkvssink.cpp:423`, the reason why `CodecMatchesPads` stops at the first audio only stream);
the media type is not recomputed when a pad is released (1503); a pad that the
element refused still counts (1466); an audio pad without a peer is
dereferenced (1585); `file_start_time = 0` keeps the base of the session before (413;
the values of the run exclude 0); `ThreadSafeMap::getAt` never advances
its index (`ThreadSafeMap.h:58`); `CallbackProvider::getCallbacks` leaves the shutdown
callbacks out.
*`kvs_gstreamer_sample`:* `resetStream` begins a new session but `base_pts` goes on; an error
between `resetStream` and the reset of the status is erased (`ResetState`); `file_list[i]`
behind the list (1203); the live branch tests a `stream_status` that was never loaded (1222);
`on_new_sample` leaves early with `info` uninitialised and unmaps it (341, 415).
*`kvssink_intermittent_sample`:* the other two causes in `SampleEnds`.

## 5. Proofs

TLAPS proves these for all values of the constants, from the named assumptions in
the modules: `NoStream` is no stream, `Invalid` no handle, handles and pads are finitely
many; bounds are numbers; a block that is not allocated does not look like a codec; and
times fit their words, which for 2^64 nanoseconds is the case until the year 2500:
expirations with the grace period (`ClockAssumption`), buffers behind the start of
their file (`TimeAssumption` of `KvsSinkFrames`). The property `file-start-time` itself admits greater
values; with one of those the product wraps, and the theorems of
`KvsSinkFramesProofs` say nothing.

**ProducerStreamsProofs.** Without a hypothesis on the overlap of calls: `TypeCorrect`;
`HandlesOwned` (`HandleInv`); `NoDoubleFree` (`FreesOwnStream`). `FreesOwnStream` alone is not
inductive: it must be known that a live PIC stream belongs to exactly the object
that stores its handle and has not begun its call_once (`OwnerInv`), that an object
has a handle between creation and release (`ObjectInv`), that a thread
which creates has an object of its own and one that frees works on an object that
was returned (`ThreadInv`), and that the map holds only such objects (`ActiveInv`,
for the objects that `NextStream` takes from it). One lemma has a step per
action; the theorem follows by `OwnerInv` at the call_once.

`RegistryInvariant` (`RegistryInv`) adds what the map and freeStreams rest on: who holds the
mutex, and that the destructor is alone (`CallInv`); a stream half created or half freed is in the
hands of a thread (`ProgressInv`); a thread that frees has in its hands the handle value its
stream had (`FreerInv`, `AimInv`); each returned stream that did not come early is in the map at its
handle until it is freed (`PresentInv`), and beside those there are only entries that a freeStream
is about to remove (`EntryInv`); until a freeStream takes one, the iterations left are at
most the entries (`CountInv`, with lemmas on the cardinality of the map under `MapPut`
and `MapRemove`); and the destructor, which is alone, counts exactly and empties the map (`CloseInv`).
From it `UseOwnStream` (`CallsReachOwnStream`), `MapExact` (`TrackedWhileLive`),
`FreeStreamsFindsEntries` (`NoNullDeref`), and `ImplementsRegistry` (`RegistrySpec`): with the
live PIC streams for the abstract set and the early ones for the strays, `PicCreate` is the
abstract creation, `CallOnce` and `Destruct` the release, `FreeClient` the end, a step into or out
of freeing is `BeginFree` or `EndFree`, and every other step a stutter.

**CredentialsProofs.** `TypeCorrect`; `MutualExclusion`; `CacheGuarded`
(`CredentialsInv`); `CompleteCredentials` (`NoTornCredentials`). The last rests on
`CacheInv`: the stored maximum is in the cache only before the first fetch, which is
then due because the clock plus the grace period is positive, and inside an
update, where the mutex keeps every other thread out of `CopyOut`.
`RefreshConsistent` (`RefreshInv`) ties the rotation time to the expiration it was
computed from, outside of an update; `FreshCredentials` (`FreshOrJustFetched`) and
`FetchesNeeded` (`NoNeedlessFetch`) follow by `CheckDecides`, which computes the
comparison of refreshCredentials through its products: those of dates do not wrap
(`WordOfMoment`), and that of the maximum wraps to a word that lies behind every date
(`MaximumIsLast`). `TokensAreComplete` (`TokensComplete`) carries this
over to the blocks: none holds the maximum of a half-done update, however handlers overlap.
`TokenOwned` (`TokenInv`) says of any execution that, until two handlers have been on the
token at once, at most one thread is, and what `security_token_` refers to at each of its labels;
from it `FreedOnce` (`TokenFreedOnce`), `PicReadsLiveToken` (`PicReadsOwnToken`, whose part about
the expiration holds beyond that) and `NoBlockLost` (`NoTokenLeak`). There is no hypothesis on the handlers.

**KvsSinkProofs.** `TypeCorrect` and `SessionsSound` (`SessionInv`), which are
inductive together; from them `HandlersFindStream` (`StreamUsable`), `NoStreamLeft`
(`OneLiveStream`) and `OfflineErrorsStick`. `SessionInv` says for each state of the element and each point of a
transition where the producer and the stream stand: without it a failed
creation could leave READY without a stream. `PutsBeforeStop` (`NoPutAfterStop`) adds
`ActiveStreamReady`: the pads first become active over a stream nobody has
stopped. `CpdBeforeFrames` (`CpdReachesFirstStream`) adds `CpdInv`: no codec data is
recorded before the pads are active over the first stream, and from then on what
upstream announced, the element recorded and PIC has agree as long as buffers flow,
but for the buffer that was in progress when they ceased to.

**KvsSinkTracksProofs.** `TypeCorrect` and `CountsRight` (`PadCounts`) are part of
`TracksInv` (`TracksSound`), which is inductive only as a whole: the counts stay below two
because the request looks at them, the media type with one kind of track goes with pads of that
kind only, still with their first track id (`MediaInv`), a pad that collect does not
hold is in neither the element nor the session (`PadInv`), and `init_track_data` has
given each pad it has visited its id (`WalkInv`, which holds on through the tries).
From it `TrackIdsMatch` (`TrackIdsMatchStream`) and `ContentMatches`
(`ContentMatchesCaps`). `CodecMatches` (`CodecMatchesPads`) needs `CodecInv`: until the
first audio only stream the two codec ids are two blocks, so that replacing one
leaves the other alone. The steps on cardinalities are lemmas on sets of pads (`PadSet`, `OnePad`,
`CountsOf`).

**KvsSinkFramesProofs.** `TimesSound`, the inductive invariant: a session begins more
than twice the latency after the last one ended, and its frames end with it
(`SessionInv`); in realtime mode a frame lies from producer_start_time as its buffer
lies from first_pts, at most the latency before it and never after the clock
(`RealtimeInv`), in offline mode as its buffer from pts_base (`OfflineInv`). That
the sums do not wrap is part of the argument (`RealtimeWord`, `BaseWord`). From it
`TracksKeepStep` (`TracksInStep`) and `SessionsKeepOrder` (`SessionsInOrder`), whose
margin is used up exactly: the sessions before are stamped up to the latency behind their
end, this one from the latency before its beginning. `ConstructedDtsGrow`
(`DtsGrows`) has two hypotheses: no source gives a DTS (of two tracks the one without
would take up the other's), and last_dts has not reached the end of its 64 bits.

**CallbackProvidersProofs.** `TypeCorrect`; `ProvidersSound`, the inductive invariant:
the provider and what it points to are built before there is a client and go after
it (`LifeInv`), and a thread is in a callback only while there is one (`CallInv`). From it
`PointersLive` (`CallbacksReachLiveObjects`) and `NothingLeft` (`NothingLeftBehind`). All rest on what is taken from PIC: a failed creation
and a free return when no callback runs (`Quiet`).

**KvsSinkSampleProofs.** `TypeCorrect`; `UploadSound`; `FilesInOrder`
(`PlaysFirstUncounted`); `CountedEnded` (`CountedFilesEnded`). The last needs
`PaidFor`: signals pay not only for the files wrongly counted but also for the one
that was cut short and main has not looked at yet (`CutShort`).

Of the intermittent sample, which the module has as the instance `IS`:
`IntermittentTypes`; `FlushFollowsEos` (`FlushAfterEos`), for which `EosInv` carries the reason why the wait for the EOS ended
to the flush after it. Their hypothesis `Bounds` is what `IntermittentSample` assumes of
its bounds.

**FileUploadProofs.** For any files and any live source, any number of retries and
errors and any interleaving of main, the streaming thread and PIC: `UploadSound`
(`TypeOK` and `UploadInv`, inductive only together), `TypeCorrect`, `CountedPersisted`
(`PersistedFilesComplete`), `AcksEnd` (`AckWithinList`), `ReportTrue`
(`ReportedFilesPersisted`), `FragmentsApart` (`FragmentsDoNotOverlap`).

The handler of acks compares one timestamp in milliseconds, written by `eos_cb` perhaps
in an earlier session, with the fragments of this one. Why that counts the right file:

* The time line (`BaseInv`). `base_pts` goes on through the retries and each end of file
  adds a millisecond to it, so that nothing was put, and no timestamp noted, later than a
  millisecond before the file that plays now.
* So a timestamp of an earlier session is `Stale`: before every fragment of this
  session, by a millisecond, and never taken for one of them (`StaleMatches`).
* A file that came to its end in this pass is `Sent`: its timestamp is that of its last
  fragment, which with those before it holds all its frames; it is matched no
  earlier than there (`SentMatches`), and acks come in order, so that all of these are
  persisted (`AckInv`, `AckStep`).
* A file cut short keeps a stale timestamp, and no file after it is counted
  (`Tells`). What follows a cut in the same pass may overlap it; hence `Uncut` in
  `OrderInv` and `FillInv`.

`ControlInv` says where the threads, the pipeline and the session stand at each label of
main, `LiveInv` the base of a live stream, `FillInv` what has become of the samples
delivered so far, `OrderInv` the order of the fragments. The hypotheses
are about the recordings, not about the program. `WellFormed`: of each file something is
put, what is put begins with a key frame, the key frames of a source are a millisecond
or more apart, and no live frame lies before the first. `FragmentsApart` also needs
`ClosedFragments`: no frame is stamped behind the key frame of a later fragment. That the
key frames are apart excludes what the code gets wrong: with the last two key
frames of a file in one millisecond, the ack of the former counts the file, and TLC finds
`PersistedFilesComplete` violated, and `AckWithinList` when it is the last file. A file of which nothing is put would take
the timestamp of the file before it.

**Only model-checked.** Liveness, since temporal properties under fairness are outside this
prover's reach, as is ENABLED: `FreeStreamsReturns`, `StateChangeReturns`,
`DeleteEnds`, `SampleEnds` and both `UploadEnds`. Every other property of the passing runs
is a theorem, and so is `TypeOK` of every module with state of the code, which no run asks
for.

## 6. Not modelled

* PIC, the C producer library and GStreamer: external.
* Subclasses of `CredentialProvider` that hand over to C callbacks: no state.
* Property access, metadata and EOS events, device info, metrics, logging: single
  values or one PIC call.
* `KvsSinkUtil` (parsing), `PutFrameHelper` (deprecated, used by nothing),
  `StreamDefinition` and `StreamTags` (one call, one thread).
* Of the callback providers the strings at construction (the control plane URI is
  computed and then passed over, `DefaultCallbackProvider.cpp:438`), the log callback
  and the arguments of callbacks; of the samples the making of pipelines, kept as outcomes, and the
  samples that repeat a modelled one.
* In `KvsSinkFrames`: frame flags, index and payload, B-frames.
* Data races as such: reads of `stream_handle_` are single steps; a copy of the map that a
  put or a remove disturbs ends in `"tornCopy"`, a null stream in `"nullDeref"`, a main loop used
  after its unref in a quit that does nothing, and what undefined behaviour does then is not followed.
* What PIC makes of a stream that outlives its client.

## 7. Plan

The order so far: registry (with its abstract specification), credentials, sessions of
the element, tracks, timestamps; then the callback providers and the three samples with
behaviour of their own; theorems about each of them. Next:

1. The metadata and EOS events, as actions of `KvsSink`.
2. `KvsSink` composed with `StreamRegistry`: the element as a user of the registry that
   creates and frees its streams through producers.
