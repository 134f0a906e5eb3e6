------------------------------- MODULE KvsSink -------------------------------
(***************************************************************************)
(* The kvssink GStreamer element from the first NULL->READY transition to  *)
(* finalize: the application thread that runs gst_kvs_sink_change_state,   *)
(* the streaming threads that bring buffers and CAPS events, and the PIC   *)
(* thread that reports stream errors through KvsSinkStreamCallbackProvider *)
(* into data->stream_status.  A step is the code between two points where  *)
(* another of these threads can be observed.                               *)
(*                                                                         *)
(* GStreamer hands one buffer at a time to gst_kvs_sink_handle_buffer      *)
(* (GstCollectPads holds its stream lock) but CAPS events come from the    *)
(* thread of each pad; both need active pads, and deactivating the pads    *)
(* waits for a buffer in progress.  After GST_FLOW_ERROR upstream sends no *)
(* buffer until the pads are activated again.                              *)
(***************************************************************************)
EXTENDS Integers, FiniteSets

CONSTANTS MaxStreams,   \* bound: streams created in the element's life
          Tracks,       \* the pads of the element
          PcmTracks,    \* those that carry A-law or mu-law audio
          NoTrack,      \* no buffer in progress
          TotalRetry    \* DEFAULT_TOTAL_RETRY

Streams == 1..MaxStreams

ASSUME BoundAssumption == MaxStreams \in Nat
ASSUME TrackAssumption == PcmTracks \subseteq Tracks /\ NoTrack \notin Tracks
ASSUME RetryAssumption == TotalRetry \in Nat \ {0}

VARIABLES
  streaming_type,      \* "realtime" or "offline", a property of the element
  state, app,          \* GStreamer state; where change_state is
  retry_count,         \* of kinesis_video_stream_init
  collecting,          \* the collect pads are started
  active,              \* the pads are active (parent class)
  flow,                \* what upstream last got: "ok" or "error"
  stream,              \* data->kinesis_video_stream, 0 for nullptr
  use,                 \* the stream is "new", "played", or "replayed" after a stop
  pic,                 \* pic[s]: the PIC stream of s
  reported,            \* reported[s]: the gravest error reported since it was last reset
  cpd,                 \* cpd[s]: tracks whose codec private data PIC holds
  announced,           \* tracks whose codec data came since the pads became active
  track_cpd_received,  \* data->track_cpd_received
  stream_status,       \* data->stream_status
  pc, track,           \* where handle_buffer is, and the track of its buffer
  owners,              \* the holders of the shared_ptr data
  finalized            \* gst_kvs_sink_finalize has run

appVars    == <<state, app, retry_count, collecting, active>>
bufferVars == <<pc, track, flow>>
cpdVars    == <<cpd, announced, track_cpd_received>>
vars == <<streaming_type, appVars, bufferVars, cpdVars, stream, use, pic, reported,
          stream_status, owners, finalized>>

Statuses == {"success", "retriable", "fatal"}
Alive == {s \in Streams : pic[s] \in {"ready", "stopped"}}

TypeOK ==
  /\ streaming_type \in {"realtime", "offline"}
  /\ state \in {"NULL", "READY", "PAUSED"}
  /\ app \in {"idle", "producerInit", "createStream", "activatePads",
              "deactivatePads", "stopSync"}
  /\ retry_count \in 0..TotalRetry
  /\ collecting \in BOOLEAN /\ active \in BOOLEAN
  /\ flow \in {"ok", "error"}
  /\ stream \in 0..MaxStreams /\ use \in {"new", "played", "replayed"}
  /\ pic \in [Streams -> {"none", "ready", "stopped", "freed"}]
  /\ reported \in [Streams -> Statuses]
  /\ cpd \in [Streams -> SUBSET Tracks]
  /\ announced \in SUBSET Tracks
  /\ track_cpd_received \in SUBSET Tracks
  /\ stream_status \in Statuses
  /\ pc \in {"idle", "reset", "clear", "put"}
  /\ track \in Tracks \cup {NoTrack}
  /\ owners \in SUBSET {"element", "provider"}
  /\ finalized \in BOOLEAN

\* gst_kvs_sink_init: the constructor of KvsSinkCustomData.
Init ==
  /\ streaming_type \in {"realtime", "offline"}
  /\ state = "NULL" /\ app = "idle" /\ retry_count = 0
  /\ collecting = FALSE /\ active = FALSE /\ flow = "ok"
  /\ stream = 0 /\ use = "new"
  /\ pic = [s \in Streams |-> "none"]
  /\ reported = [s \in Streams |-> "success"]
  /\ cpd = [s \in Streams |-> {}]
  /\ announced = {} /\ track_cpd_received = {}
  /\ stream_status = "success"
  /\ pc = "idle" /\ track = NoTrack
  /\ owners = {"element"} /\ finalized = FALSE

------------------------------------------------------------------------------
(* gst_kvs_sink_change_state, run by the application thread *)

\* A failed transition leaves the element in the state it was in.
Fail ==
  /\ app' = "idle"
  /\ UNCHANGED <<state, retry_count, collecting, active>>

NullToReady ==
  /\ app = "idle" /\ state = "NULL" /\ ~finalized
  /\ stream < MaxStreams
  /\ app' = "producerInit"
  /\ UNCHANGED <<state, retry_count, collecting, active, streaming_type,
                 bufferVars, cpdVars, stream, use, pic, reported, stream_status,
                 owners, finalized>>

\* Deviation: the producer of the last session is kept.
KeepProducer == UNCHANGED pic /\ owners' = owners \cup {"provider"}

\* Assigning data->kinesis_video_producer destroys the producer it held, which
\* frees every stream of it; the new producer owns a callback provider that
\* holds data.
ReplaceProducer ==
  /\ pic' = [s \in Streams |-> IF s \in Alive THEN "freed" ELSE pic[s]]
  /\ owners' = owners \cup {"provider"}

\* kinesis_video_producer_init and init_track_data; either may throw.
ProducerInit ==
  /\ app = "producerInit"
  /\ \/ Fail /\ UNCHANGED <<pic, owners>>
     \/ Fail /\ ReplaceProducer
     \/ /\ ReplaceProducer
        /\ app' = "createStream" /\ retry_count' = TotalRetry
        /\ UNCHANGED <<state, collecting, active>>
  /\ UNCHANGED <<streaming_type, bufferVars, cpdVars, stream, use, reported,
                 stream_status, finalized>>

\* createStreamSync returns a stream in the ready state.
CreateStream ==
  /\ app = "createStream"
  /\ stream' = stream + 1 /\ use' = "new"
  /\ pic' = [pic EXCEPT ![stream + 1] = "ready"]
  /\ state' = "READY" /\ app' = "idle" /\ retry_count' = 0
  /\ UNCHANGED <<collecting, active, streaming_type, bufferVars, cpdVars,
                 reported, stream_status, owners, finalized>>

\* Deviation: the last failed try is taken for a success.
CreateStreamGivesUp ==
  /\ app = "createStream"
  /\ retry_count' = retry_count - 1
  /\ IF retry_count' = 0 THEN app' = "idle" /\ state' = "READY" ELSE UNCHANGED <<app, state>>
  /\ UNCHANGED <<collecting, active, streaming_type, bufferVars, cpdVars,
                 stream, use, pic, reported, stream_status, owners, finalized>>

\* Deviation: after the last try they begin again.
CreateStreamForever ==
  /\ app = "createStream"
  /\ retry_count' = IF retry_count > 1 THEN retry_count - 1 ELSE TotalRetry
  /\ UNCHANGED <<app, state, collecting, active, streaming_type, bufferVars, cpdVars,
                 stream, use, pic, reported, stream_status, owners, finalized>>

\* It throws: an internal error or the last try fails the transition,
\* another error is retried after a delay.
CreateStreamFails ==
  /\ app = "createStream"
  /\ \/ retry_count > 1 /\ retry_count' = retry_count - 1 /\ app' = app
     \/ retry_count' = 0 /\ app' = "idle"
  /\ UNCHANGED <<state, collecting, active, streaming_type, bufferVars, cpdVars,
                 stream, use, pic, reported, stream_status, owners, finalized>>

ReadyToPaused ==
  /\ app = "idle" /\ state = "READY"
  /\ collecting' = TRUE /\ app' = "activatePads"
  /\ UNCHANGED <<state, retry_count, active, streaming_type, bufferVars, cpdVars,
                 stream, use, pic, reported, stream_status, owners, finalized>>

\* The parent class activates the pads, or fails to.
ActivatePads ==
  /\ app = "activatePads"
  /\ \/ Fail /\ UNCHANGED <<flow, announced, use>>
     \/ /\ active' = TRUE /\ flow' = "ok" /\ announced' = {}
        /\ use' = IF use = "new" THEN "played" ELSE "replayed"
        /\ state' = "PAUSED" /\ app' = "idle"
        /\ UNCHANGED <<retry_count, collecting>>
  /\ UNCHANGED <<streaming_type, pc, track, cpd, track_cpd_received, stream, pic,
                 reported, stream_status, owners, finalized>>

\* Deviation: the stream is stopped before the parent class transition.
PausedToReadyStopping ==
  /\ app = "idle" /\ state = "PAUSED"
  /\ pic' = [pic EXCEPT ![stream] = "stopped"]
  /\ collecting' = FALSE /\ app' = "deactivatePads"
  /\ UNCHANGED <<state, retry_count, active, streaming_type, bufferVars, cpdVars,
                 stream, use, reported, stream_status, owners, finalized>>

PausedToReady ==
  /\ app = "idle" /\ state = "PAUSED"
  /\ collecting' = FALSE /\ app' = "deactivatePads"
  /\ UNCHANGED <<state, retry_count, active, streaming_type, bufferVars, cpdVars,
                 stream, use, pic, reported, stream_status, owners, finalized>>

\* The parent class waits for the streaming threads and deactivates the pads;
\* when it fails the stream is not stopped.
DeactivatePads ==
  /\ app = "deactivatePads" /\ pc = "idle"
  /\ \/ Fail
     \/ /\ active' = FALSE /\ app' = "stopSync"
        /\ UNCHANGED <<state, retry_count, collecting>>
  /\ UNCHANGED <<streaming_type, bufferVars, cpdVars, stream, use, pic, reported,
                 stream_status, owners, finalized>>

\* The result of stopSync is ignored: the stream may not have stopped.
StopSync ==
  /\ app = "stopSync"
  /\ \E p \in {pic[stream], "stopped"} : pic' = [pic EXCEPT ![stream] = p]
  /\ state' = "READY" /\ app' = "idle"
  /\ UNCHANGED <<retry_count, collecting, active, streaming_type, bufferVars,
                 cpdVars, stream, use, reported, stream_status, owners, finalized>>

\* READY->NULL only logs.
ReadyToNull ==
  /\ app = "idle" /\ state = "READY"
  /\ state' = "NULL"
  /\ UNCHANGED <<app, retry_count, collecting, active, streaming_type, bufferVars,
                 cpdVars, stream, use, pic, reported, stream_status, owners, finalized>>

\* The last reference to the element is dropped.  When nobody else holds data
\* its destructor destroys the producer and with it the streams.
Finalize ==
  /\ app = "idle" /\ state = "NULL" /\ ~finalized
  /\ finalized' = TRUE
  /\ owners' = owners \ {"element"}
  /\ pic' = [s \in Streams |->
               IF owners' = {} /\ s \in Alive THEN "freed" ELSE pic[s]]
  /\ UNCHANGED <<appVars, streaming_type, bufferVars, cpdVars, stream, use, reported,
                 stream_status>>

------------------------------------------------------------------------------
(* gst_kvs_sink_handle_buffer and the CAPS event, run by streaming threads *)

\* Deviation: offline streams are reset like the others.
FatalInAnyMode(status) == status = "fatal"

\* A failed status ends the flow in offline mode or when it is not retriable.
Fatal(status) ==
  status # "success" /\ (streaming_type = "offline" \/ status = "fatal")

\* Loads stream_status and acts on the value loaded.
HandleBuffer ==
  /\ active /\ collecting /\ flow = "ok" /\ pc = "idle"
  /\ \/ /\ Fatal(stream_status)
        /\ flow' = "error"
        /\ UNCHANGED <<pc, track>>
     \/ /\ ~Fatal(stream_status)
        /\ pc' = IF stream_status = "success" THEN "put" ELSE "reset"
        /\ track' \in Tracks
        /\ UNCHANGED flow
  /\ UNCHANGED <<appVars, streaming_type, cpdVars, stream, use, pic, reported,
                 stream_status, owners, finalized>>

\* resetStream; its result is ignored.
ResetStream ==
  /\ pc = "reset"
  /\ pc' = "clear"
  /\ \E e \in {reported[stream], "success"} :
        reported' = [reported EXCEPT ![stream] = e]
  /\ UNCHANGED <<appVars, track, flow, streaming_type, cpdVars, stream, use, pic,
                 stream_status, owners, finalized>>

\* data->stream_status = STATUS_SUCCESS, whatever was reported meanwhile.
ClearStatus ==
  /\ pc = "clear"
  /\ pc' = "put"
  /\ stream_status' = "success"
  /\ UNCHANGED <<appVars, track, flow, streaming_type, cpdVars, stream, use, pic,
                 reported, owners, finalized>>

\* The buffer is dropped or put into the stream; a failed put only warns.
PutFrame ==
  /\ pc = "put"
  /\ pc' = "idle" /\ track' = NoTrack
  /\ UNCHANGED <<appVars, flow, streaming_type, cpdVars, stream, use, pic, reported,
                 stream_status, owners, finalized>>

\* kinesis_video_stream->start.  When it fails the CAPS are refused: that pad
\* brings no buffer, without which GstCollectPads hands over none at all.
Start(t) ==
  \/ /\ cpd' = [cpd EXCEPT ![stream] = @ \cup {t}]
     /\ announced' = announced \cup {t}
     /\ UNCHANGED flow
  \/ /\ flow' = "error"
     /\ UNCHANGED <<cpd, announced>>

\* Deviation: one flag for the codec data of all tracks.
HandleCapsOnce(t) ==
  /\ active /\ t # track
  /\ \/ /\ track_cpd_received = {}
        /\ track_cpd_received' = {t}
        /\ Start(t)
     \/ /\ track_cpd_received # {}
        /\ announced' = announced \cup {t}
        /\ UNCHANGED <<cpd, track_cpd_received, flow>>
  /\ UNCHANGED <<appVars, pc, track, streaming_type, stream, use, pic, reported,
                 stream_status, owners, finalized>>

\* CAPS with codec data: PCM data is generated and sent every time, other
\* data only the first time the track brings some.  The thread of a pad whose
\* buffer is being handled waits for it.
HandleCaps(t) ==
  /\ active /\ t # track
  /\ \/ /\ t \in PcmTracks
        /\ Start(t)
        /\ UNCHANGED track_cpd_received
     \/ /\ t \notin PcmTracks /\ t \notin track_cpd_received
        /\ track_cpd_received' = track_cpd_received \cup {t}
        /\ Start(t)
     \/ /\ t \notin PcmTracks /\ t \in track_cpd_received
        /\ announced' = announced \cup {t}
        /\ UNCHANGED <<cpd, track_cpd_received, flow>>
  /\ UNCHANGED <<appVars, pc, track, streaming_type, stream, use, pic, reported,
                 stream_status, owners, finalized>>

------------------------------------------------------------------------------
(* KvsSinkStreamCallbackProvider, run by a thread of PIC *)

\* streamErrorReportHandler for an error that is not recoverable.
StreamErrorReport(s, status) ==
  /\ s \in Alive
  /\ stream_status' = status
  /\ reported' = [reported EXCEPT
                    ![s] = IF @ = "fatal" THEN @ ELSE status]
  /\ UNCHANGED <<appVars, bufferVars, cpdVars, streaming_type, stream, use, pic,
                 owners, finalized>>

------------------------------------------------------------------------------
ChangeState == \/ ProducerInit \/ CreateStream \/ CreateStreamFails
               \/ ActivatePads \/ DeactivatePads \/ StopSync

BufferStep == ResetStream \/ ClearStatus \/ PutFrame

Next ==
  \/ NullToReady \/ ReadyToPaused \/ PausedToReady \/ ReadyToNull \/ Finalize
  \/ ChangeState \/ HandleBuffer \/ BufferStep
  \/ \E t \in Tracks : HandleCaps(t)
  \/ \E s \in Streams, status \in {"retriable", "fatal"} : StreamErrorReport(s, status)

Spec == Init /\ [][Next]_vars

\* A call in progress goes on: each thread is scheduled.  Nothing obliges the
\* application, upstream or PIC to make a new one.
FairSpec == Spec /\ WF_vars(ChangeState) /\ WF_vars(BufferStep)

------------------------------------------------------------------------------
(* Properties *)

\* While the pads are active, buffers, CAPS, metadata and EOS events reach
\* data->kinesis_video_stream without a check: it must be a stream of the
\* producer that is alive, whatever transitions, failures and retries led here.
StreamUsable == active => stream \in Alive

\* A sink that is taken down and up again, with transitions failing half way,
\* never keeps the PIC stream of an earlier session alive beside the new one.
OneLiveStream == \A s, r \in Alive : s = r

\* Where the sink and its producer stand in each state of the element: what
\* StreamUsable and OneLiveStream rest on.
SessionInv ==
  /\ active => state = "PAUSED"
  /\ state # "NULL" => stream \in Alive /\ ~finalized
  /\ app \in {"producerInit", "createStream"} =>
       state = "NULL" /\ stream < MaxStreams /\ ~finalized
  /\ app = "createStream" => Alive = {}
  /\ app = "activatePads" => state = "READY"
  /\ app \in {"deactivatePads", "stopSync"} => state = "PAUSED"
  /\ app = "stopSync" => ~active
  /\ Alive \subseteq {stream}
  /\ pc # "idle" => active
  /\ pc \in {"reset", "clear"} => streaming_type = "realtime"

\* Unless the application plays the sink again without taking it to NULL first,
\* no frame is put into, and no reset made of, a stream that stopSync has
\* stopped, however the last buffer and the transition interleave.
NoPutAfterStop == pc # "idle" /\ use # "replayed" => pic[stream] = "ready"

\* Why: the pads first become active over a stream that nobody has stopped.
ActiveStreamReady ==
  /\ state = "PAUSED" => use # "new"
  /\ (active /\ use = "played") \/ (state = "READY" /\ use = "new")
       => pic[stream] = "ready"

\* Offline, an error that was reported is never forgotten: no later buffer
\* of this element can be streamed over it.
OfflineErrorSticks ==
  [][streaming_type = "offline" /\ stream_status # "success"
       => stream_status' # "success"]_vars

\* No frame of a track is put into the first stream before the codec data
\* that its CAPS brought, also when the stream is reset in between and when the
\* codec data of another track was refused.
CpdReachesFirstStream ==
  stream = 1 /\ use = "played" /\ pc = "put" /\ track \in announced
    => track \in cpd[stream]

\* Between buffers the sink knows how its stream stands: a fatal error is not
\* forgotten, and buffers of a new stream are not refused for an error of the
\* one before (gst_kvs_sink_handle_buffer errors out in the "fatal cases" to
\* "let higher level application do the retry"; the code keeps neither).
StatusOfStream ==
  state = "PAUSED" /\ app = "idle" /\ pc = "idle" =>
    /\ reported[stream] = "fatal" => stream_status # "success"
    /\ reported[stream] = "success" => ~Fatal(stream_status)

\* An error that is not retriable is one of the "fatal cases" that error out: no
\* buffer that answers an earlier, retriable error makes the sink forget it (the
\* code loads stream_status once and stores STATUS_SUCCESS later).
FatalNotForgotten ==
  [][stream_status = "fatal" => stream_status' # "success"]_vars

\* "Send cpd to kinesis video stream": the codec data the CAPS of a session
\* brought is in its stream before a frame of the track, in every session (the
\* code remembers the tracks it was sent for, not the stream it was sent to).
CpdReachesStream ==
  use = "played" /\ pc = "put" /\ track \in announced => track \in cpd[stream]

\* finalize releases data, so no PIC stream is left whose callbacks would use
\* the element (the comment on the smart pointers in gst_kvs_sink_finalize; the
\* code does not keep it).
DataReleased == finalized => owners = {} /\ Alive = {}

\* Every state change the application asks for returns: the retries of the
\* stream creation end, and the pads wait only for a buffer that completes.
StateChangeReturns == (app # "idle") ~> (app = "idle")
==============================================================================
