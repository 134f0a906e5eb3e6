----------------------------- MODULE FileUpload -----------------------------
(***************************************************************************)
(* samples/kvs_gstreamer_sample.cpp: files, or one live source, read by a  *)
(* GStreamer pipeline and put into one stream.  The main thread runs the   *)
(* loop over the files with its retries, and the GLib main loop while a    *)
(* pipeline plays; the streaming thread calls on_new_sample and eos_cb;    *)
(* a PIC thread reports stream errors and fragment acks.                   *)
(*                                                                         *)
(* External, as the sample uses them: a fragment ends where the next key   *)
(* frame begins or the stream is stopped; the service acknowledges the     *)
(* fragments of a session in order, first RECEIVED, then PERSISTED;        *)
(* resetStream drops what was not persisted, and stopSync succeeds only    *)
(* when everything put has been.  PIC serialises its callbacks with the    *)
(* calls the sample makes on the stream, not with its own data.            *)
(***************************************************************************)
EXTENDS Integers, Sequences, FiniteSets, FiniteSetsExt

CONSTANTS Files,              \* data.file_list: a sequence of samples for each file
          LiveSamples,        \* what the live source delivers
          Retries,            \* PUTFRAME_FAILURE_RETRY_COUNT
          ProducerStartTime,  \* producer_start_time
          TicksPerMs,         \* the nanoseconds of a millisecond, in coarser ticks
          MaxErrors           \* bound: errors reported by PIC or the pipeline

\* A sample: its pts, whether it is a key frame, whether it is droppable.
Sample == [pts : Nat, key : BOOLEAN, drop : BOOLEAN]
NFiles == Len(Files)
Indices == 1..NFiles
NoPts == -1

ASSUME FileAssumption == Files \in Seq(Seq(Sample)) /\ LiveSamples \in Seq(Sample)
ASSUME CountAssumption == Retries \in Nat \ {0} /\ MaxErrors \in Nat
ASSUME TimeAssumption == ProducerStartTime \in Nat \ {0} /\ TicksPerMs \in Nat \ {0}

VARIABLES
  source,              \* data.streamSource
  pc, idx,             \* the main thread, and its i (from 1)
  do_retry, continue_uploading, file_retry_count,
  outcome,             \* how the program ended, or "none"
  current_file_idx, last_unpersisted_file_idx, last_fragment_ts,
  stream_status, stream_started,
  base_pts, max_frame_pts, key_frame_pts, first_pts,
  main_loop,           \* "null", "made", "running" or "quit"
  quitting,            \* the error handler has seen main_loop # NULL
  pipe, pos, bus_error,\* the pipeline, its next sample, an error waiting on the bus
  session,             \* the stream: "none", "open", "closing" or "down"
  fragments, received, acked, \* what the session holds, how much of it is acknowledged
  persisted,           \* <<file, sample>> the service has persisted
  cut,                 \* files whose last pass a GST_ERROR cut short
  errors

mainVars == <<source, pc, idx, do_retry, continue_uploading, file_retry_count, outcome>>
fileVars == <<current_file_idx, last_unpersisted_file_idx, last_fragment_ts>>
ptsVars  == <<base_pts, max_frame_pts, key_frame_pts, first_pts>>
loopVars == <<main_loop, quitting>>
pipeVars == <<pipe, pos, bus_error>>
ackVars  == <<fragments, received, acked, persisted>>
vars == <<mainVars, fileVars, stream_status, stream_started, ptsVars, loopVars, pipeVars,
          session, ackVars, cut, errors>>

Statuses == {"success", "retriable", "fatal"}
Samples == IF source = "file" THEN Files[current_file_idx] ELSE LiveSamples

TypeOK ==
  /\ source \in {"file", "live", "rtsp"}
  /\ pc \in {"setup", "round", "files", "open", "play", "run", "check", "stopSync",
             "retry", "reset", "live", "cleanup", "end"}
  /\ idx \in 1..(NFiles + 1)
  /\ do_retry \in BOOLEAN /\ continue_uploading \in BOOLEAN
  /\ file_retry_count \in 0..Retries
  /\ outcome \in {"none", "exception", "noPipeline", "persisted", "fatal", "gaveUp", "crashed"}
  /\ current_file_idx \in Indices \cup {1} /\ last_unpersisted_file_idx \in 1..(NFiles + 1)
  /\ last_fragment_ts \in [Indices -> Nat]
  /\ stream_status \in Statuses /\ stream_started \in BOOLEAN
  /\ base_pts \in Nat /\ max_frame_pts \in Nat /\ key_frame_pts \in Nat
  /\ first_pts \in Nat \cup {NoPts}
  /\ main_loop \in {"null", "made", "running", "quit"} /\ quitting \in BOOLEAN
  /\ pipe \in {"none", "playing", "eos", "error"} /\ pos \in Nat /\ bus_error \in BOOLEAN
  /\ session \in {"none", "open", "closing", "down"}
  /\ fragments \in Seq([ts : Nat, last : Nat, frames : SUBSET (Nat \X Nat)])
  /\ received \in Nat /\ acked \in Nat
  /\ persisted \subseteq Nat \X Nat
  /\ cut \subseteq Nat
  /\ errors \in 0..MaxErrors

Init ==
  /\ source \in {"file", "live", "rtsp"}
  /\ pc = "setup" /\ idx = 1 /\ do_retry = TRUE /\ continue_uploading = TRUE
  /\ file_retry_count = Retries /\ outcome = "none"
  /\ current_file_idx = 1 /\ last_unpersisted_file_idx = 1
  /\ last_fragment_ts = [f \in Indices |-> 0]
  /\ stream_status = "success" /\ stream_started = FALSE
  /\ base_pts = 0 /\ max_frame_pts = 0 /\ key_frame_pts = 0 /\ first_pts = NoPts
  /\ main_loop = "null" /\ quitting = FALSE
  /\ pipe = "none" /\ pos = 1 /\ bus_error = FALSE
  /\ session = "none" /\ fragments = <<>> /\ received = 0 /\ acked = 0
  /\ persisted = {} /\ cut = {} /\ errors = 0

-----------------------------------------------------------------------------
(* What the threads share. *)

\* g_main_loop_quit: a loop that does not run yet forgets it was told to quit.
QuitLoop == main_loop' = IF main_loop = "running" THEN "quit" ELSE main_loop

\* The fragments that can be acknowledged: all but the one still being filled.
Complete == IF session = "closing" THEN Len(fragments) ELSE Len(fragments) - 1

InMs(ticks) == ticks \div TicksPerMs

-----------------------------------------------------------------------------
(* PIC's thread. *)

\* IS_RETRIABLE_ERROR while uploading files, or neither retriable nor recoverable.
Terminates(kind) == (kind = "retriable" /\ source = "file") \/ kind = "fatal"

\* streamErrorReportHandler up to its test of main_loop.  An error that ends the
\* upload breaks the session; a live stream continues after a retriable one.
StreamError(kind) ==
  /\ session # "none" /\ pc # "end" /\ ~quitting /\ errors < MaxErrors
  /\ errors' = errors + 1
  /\ IF Terminates(kind)
     THEN /\ stream_status' = kind
          /\ quitting' = (main_loop # "null")
          /\ session' = "down"
     ELSE UNCHANGED <<stream_status, quitting, session>>
  /\ UNCHANGED <<mainVars, fileVars, stream_started, ptsVars, main_loop, pipeVars, ackVars, cut>>

\* ... and its call of g_main_loop_quit, on whatever data->main_loop is by then.
HandlerQuits ==
  /\ quitting /\ quitting' = FALSE
  /\ QuitLoop
  /\ UNCHANGED <<mainVars, fileVars, stream_status, stream_started, ptsVars, pipeVars,
                 session, ackVars, cut, errors>>

\* Deviation: takes any ack for the persisted one.
CountsAnyAck(type, k) ==
  LET f == last_unpersisted_file_idx IN
  last_unpersisted_file_idx' =
    IF /\ source = "file"
       /\ InMs(last_fragment_ts[f]) # 0 /\ InMs(last_fragment_ts[f]) = InMs(fragments[k].ts)
    THEN f + 1 ELSE f

\* The body of fragmentAckReceivedHandler under file_list_mtx.  at() throws when
\* every file is persisted: AckWithinList says that no ack comes then.
CountsAck(type, k) ==
  LET f == last_unpersisted_file_idx IN
  last_unpersisted_file_idx' =
    IF /\ source = "file" /\ type = "PERSISTED"
       /\ InMs(last_fragment_ts[f]) # 0 /\ InMs(last_fragment_ts[f]) = InMs(fragments[k].ts)
    THEN f + 1 ELSE f

\* The service acknowledges the next fragment and fragmentAckReceivedHandler runs.
FragmentAck(type) ==
  /\ session \in {"open", "closing"} /\ pc # "end"
  /\ \/ /\ type = "RECEIVED" /\ received < Complete
        /\ received' = received + 1 /\ UNCHANGED <<acked, persisted>>
        /\ CountsAck(type, received + 1)
     \/ /\ type = "PERSISTED" /\ acked < received
        /\ acked' = acked + 1 /\ UNCHANGED received
        /\ persisted' = persisted \cup fragments[acked + 1].frames
        /\ CountsAck(type, acked + 1)
  /\ UNCHANGED <<mainVars, current_file_idx, last_fragment_ts, stream_status, stream_started,
                 ptsVars, loopVars, pipeVars, session, fragments, cut, errors>>

-----------------------------------------------------------------------------
(* The streaming thread. *)

\* What put_frame adds to the session, if there still is one.
PutFrame(ts, key) ==
  LET frame == <<current_file_idx, pos>>
      n == Len(fragments)
  IN IF session # "open" THEN UNCHANGED fragments
     ELSE IF key \/ fragments = <<>>
     THEN fragments' = Append(fragments, [ts |-> ts, last |-> ts, frames |-> {frame}])
     ELSE fragments' = [fragments EXCEPT ![n].frames = @ \cup {frame}, ![n].last = Max({@, ts})]

\* The pts of on_new_sample: files follow one another from base_pts; a live
\* stream counts from its first frame.
PutFileSample(s) ==
  LET ts == s.pts + base_pts + ProducerStartTime IN
  /\ max_frame_pts' = Max({max_frame_pts, s.pts})
  /\ key_frame_pts' = IF s.key THEN ts ELSE key_frame_pts
  /\ PutFrame(ts, s.key)
  /\ UNCHANGED <<base_pts, first_pts>>

PutLiveSample(s) ==
  LET first == IF first_pts = NoPts THEN s.pts ELSE first_pts IN
  /\ first_pts' = first
  /\ PutFrame(s.pts + ProducerStartTime - first, s.key)
  /\ UNCHANGED <<base_pts, max_frame_pts, key_frame_pts>>

OnNewSample ==
  /\ pipe = "playing" /\ pos <= Len(Samples)
  /\ IF stream_status # "success"
     THEN \* GST_FLOW_ERROR: the source posts an error and stops
          /\ pipe' = "error" /\ bus_error' = TRUE
          /\ UNCHANGED <<pos, stream_started, ptsVars, fragments>>
     ELSE LET s == Samples[pos] IN
          /\ stream_started' = TRUE          \* start(cpd) at the first sample
          /\ pos' = pos + 1
          /\ IF s.drop THEN UNCHANGED <<ptsVars, fragments>>
             ELSE IF source = "file" THEN PutFileSample(s) ELSE PutLiveSample(s)
          /\ UNCHANGED <<pipe, bus_error>>
  /\ UNCHANGED <<mainVars, fileVars, stream_status, loopVars, session, received, acked,
                 persisted, cut, errors>>

\* Deviation: forgets the millisecond between two files.
NextBaseTight == base_pts + max_frame_pts

NextBase == base_pts + max_frame_pts + TicksPerMs

\* eos_cb; only the pipeline of a file connects it.
EosCb ==
  /\ pipe = "playing" /\ source = "file" /\ pos > Len(Samples)
  /\ pipe' = "eos"
  /\ base_pts' = NextBase /\ max_frame_pts' = 0
  /\ last_fragment_ts' = [last_fragment_ts EXCEPT ![current_file_idx] = key_frame_pts]
  /\ cut' = cut \ {current_file_idx}
  /\ QuitLoop
  /\ UNCHANGED <<mainVars, current_file_idx, last_unpersisted_file_idx, stream_status,
                 stream_started, key_frame_pts, first_pts, quitting, pos, bus_error, session,
                 ackVars, errors>>

\* An element of the pipeline posts GST_MESSAGE_ERROR.
GstError ==
  /\ pipe = "playing" /\ errors < MaxErrors
  /\ pipe' = "error" /\ bus_error' = TRUE
  /\ cut' = cut \cup {current_file_idx}
  /\ errors' = errors + 1
  /\ UNCHANGED <<mainVars, fileVars, stream_status, stream_started, ptsVars, loopVars, pos,
                 session, ackVars>>

-----------------------------------------------------------------------------
(* The main thread. *)

\* kinesis_video_init: the credentials come from the environment, and the client
\* may not become ready; both end in an exception.
KinesisVideoInit == {"client", "exception"}

\* kinesis_video_stream_init starts the sample's view of a session afresh.
KinesisVideoStreamInit ==
  /\ session' = "open"
  /\ stream_status' = "success" /\ stream_started' = FALSE
  /\ IF source = "file" THEN base_pts' = 0 /\ max_frame_pts' = 0
                        ELSE UNCHANGED <<base_pts, max_frame_pts>>
  /\ UNCHANGED <<key_frame_pts, first_pts>>

Setup ==
  /\ pc = "setup"
  /\ \/ /\ "client" \in KinesisVideoInit
        /\ KinesisVideoStreamInit
        /\ pc' = IF source = "file" THEN "round" ELSE "open"
        /\ UNCHANGED outcome
     \/ /\ "exception" \in KinesisVideoInit
        /\ pc' = "end" /\ outcome' = "exception"
        /\ UNCHANGED <<session, stream_status, stream_started, ptsVars>>
  /\ UNCHANGED <<source, idx, do_retry, continue_uploading, file_retry_count, fileVars, loopVars,
                 pipeVars, ackVars, cut, errors>>

\* Deviation: resumes where the upload failed.
ResumeFileFailed == current_file_idx

\* Where a pass over the files begins: what is not persisted is sent again.
ResumeFile == last_unpersisted_file_idx

StartRound ==
  /\ pc = "round"
  /\ idx' = ResumeFile /\ continue_uploading' = TRUE
  /\ pc' = "files"
  /\ UNCHANGED <<source, do_retry, file_retry_count, outcome, fileVars, stream_status,
                 stream_started, ptsVars, loopVars, pipeVars, session, ackVars, cut, errors>>

\* The for loop: the next file, or the end of the pass.
NextFile ==
  /\ pc = "files"
  /\ IF idx <= NFiles /\ continue_uploading
     THEN pc' = "open" /\ current_file_idx' = idx
     ELSE pc' = (IF do_retry THEN "retry" ELSE "cleanup") /\ UNCHANGED current_file_idx
  /\ UNCHANGED <<source, idx, do_retry, continue_uploading, file_retry_count, outcome,
                 last_unpersisted_file_idx, last_fragment_ts, stream_status, stream_started,
                 ptsVars, loopVars, pipeVars, session, ackVars, cut, errors>>

\* gstreamer_live_source_init, gstreamer_rtsp_source_init and
\* gstreamer_file_source_init: any element, cap or link may be missing.
LiveSourceInit == {"ready", "failed"}
RtspSourceInit == {"ready", "failed"}
FileSourceInit == {"ready", "failed"}
SourceInit == CASE source = "live" -> LiveSourceInit
                [] source = "rtsp" -> RtspSourceInit
                [] source = "file" -> FileSourceInit

\* gstreamer_init up to the pipeline playing, or main's return 1 without it.
OpenPipeline ==
  /\ pc = "open"
  /\ first_pts' = NoPts
  /\ \E ret \in SourceInit :
       \/ /\ ret = "ready"
          /\ pipe' = "playing" /\ pos' = 1 /\ pc' = "play"
          /\ UNCHANGED outcome
       \/ /\ pc' = "end" /\ outcome' = "noPipeline"
          /\ UNCHANGED <<pipe, pos>>
  /\ UNCHANGED <<source, idx, do_retry, continue_uploading, file_retry_count, fileVars,
                 stream_status, stream_started, base_pts, max_frame_pts, key_frame_pts, loopVars,
                 bus_error, session, ackVars, cut, errors>>

\* g_main_loop_new, then g_main_loop_run: the pipeline plays all the while.
MakeLoop ==
  /\ pc = "play"
  /\ main_loop' = "made" /\ pc' = "run"
  /\ UNCHANGED <<source, idx, do_retry, continue_uploading, file_retry_count, outcome, fileVars,
                 stream_status, stream_started, ptsVars, quitting, pipeVars, session, ackVars,
                 cut, errors>>

RunLoop ==
  /\ pc = "run" /\ main_loop = "made"
  /\ main_loop' = "running"
  /\ UNCHANGED <<mainVars, fileVars, stream_status, stream_started, ptsVars, quitting, pipeVars,
                 session, ackVars, cut, errors>>

\* The main loop dispatches the error on the bus.
ErrorCb ==
  /\ main_loop = "running" /\ bus_error
  /\ bus_error' = FALSE
  /\ QuitLoop
  /\ UNCHANGED <<mainVars, fileVars, stream_status, stream_started, ptsVars, quitting, pipe, pos,
                 session, ackVars, cut, errors>>

\* gstreamer_init after the loop: stopping the pipeline joins its thread.
LeaveLoop ==
  /\ pc = "run" /\ main_loop = "quit"
  /\ main_loop' = "null" /\ pipe' = "none" /\ bus_error' = FALSE
  /\ pc' = IF source = "file" THEN "check" ELSE "live"
  /\ UNCHANGED <<source, idx, do_retry, continue_uploading, file_retry_count, outcome, fileVars,
                 stream_status, stream_started, ptsVars, quitting, pos, session, ackVars, cut,
                 errors>>

\* After a file: a failed status ends the pass, the last file closes the stream.
CheckFile ==
  /\ pc = "check" /\ ~quitting
  /\ IF stream_status # "success"
     THEN /\ continue_uploading' = FALSE
          /\ do_retry' = (stream_status = "retriable")
          /\ outcome' = IF stream_status = "fatal" THEN "fatal" ELSE outcome
          /\ session' = "down"
          /\ idx' = idx + 1 /\ pc' = "files"
     ELSE /\ IF idx = NFiles
             THEN /\ pc' = "stopSync" /\ UNCHANGED idx
                  /\ session' = IF session = "open" THEN "closing" ELSE session
             ELSE /\ pc' = "files" /\ idx' = idx + 1 /\ UNCHANGED session
          /\ UNCHANGED <<continue_uploading, do_retry, outcome>>
  /\ UNCHANGED <<source, file_retry_count, fileVars, stream_status, stream_started, ptsVars,
                 loopVars, pipeVars, ackVars, cut, errors>>

\* stopSync returns: everything was persisted, or it timed out or failed.
StopSync(ok) ==
  /\ pc = "stopSync" /\ ~quitting
  /\ ok => session = "closing" /\ acked = Len(fragments)
  /\ do_retry' = ~ok
  /\ outcome' = IF ok THEN "persisted" ELSE outcome
  /\ session' = "down"
  /\ idx' = idx + 1 /\ pc' = "files"
  /\ UNCHANGED <<source, continue_uploading, file_retry_count, fileVars, stream_status,
                 stream_started, ptsVars, loopVars, pipeVars, ackVars, cut, errors>>

\* Deviation: a retry count that nobody decrements.
RetriesKept == file_retry_count

RetriesLeft == file_retry_count - 1

\* if (do_retry): give up, or resetStream.  Giving up reads file_list[i].path
\* beyond the list when everything has been persisted.
Retry ==
  /\ pc = "retry" /\ ~quitting
  /\ file_retry_count' = RetriesLeft
  /\ IF RetriesLeft = 0
     THEN /\ idx' = last_unpersisted_file_idx
          /\ do_retry' = FALSE
          /\ session' = "down"
          /\ \/ pc' = "cleanup" /\ outcome' = "gaveUp"
             \/ idx' > NFiles /\ pc' = "end" /\ outcome' = "crashed"
          /\ UNCHANGED ackVars
     ELSE /\ fragments' = <<>> /\ received' = 0 /\ acked' = 0
          /\ session' = "open" /\ pc' = "reset"
          /\ UNCHANGED <<idx, do_retry, outcome, persisted>>
  /\ UNCHANGED <<source, continue_uploading, fileVars, stream_status, stream_started, ptsVars,
                 loopVars, pipeVars, cut, errors>>

\* ... and the state of the sample: an error reported in between is erased.
ResetState ==
  /\ pc = "reset"
  /\ stream_status' = "success" /\ stream_started' = FALSE
  /\ pc' = "round"
  /\ UNCHANGED <<source, idx, do_retry, continue_uploading, file_retry_count, outcome, fileVars,
                 ptsVars, loopVars, pipeVars, session, ackVars, cut, errors>>

\* The end of a live stream: main's own stream_status is still STATUS_SUCCESS, so
\* it always calls stopSync, whose result nobody reads.
StopLive ==
  /\ pc = "live"
  /\ session' = "down" /\ pc' = "cleanup"
  /\ UNCHANGED <<source, idx, do_retry, continue_uploading, file_retry_count, outcome, fileVars,
                 stream_status, stream_started, ptsVars, loopVars, pipeVars, ackVars, cut, errors>>

\* freeStream, and main returns.
CleanUp ==
  /\ pc = "cleanup" /\ ~quitting
  /\ session' = "none" /\ pc' = "end"
  /\ UNCHANGED <<source, idx, do_retry, continue_uploading, file_retry_count, outcome, fileVars,
                 stream_status, stream_started, ptsVars, loopVars, pipeVars, ackVars, cut, errors>>

Main ==
  \/ Setup \/ StartRound \/ NextFile \/ OpenPipeline \/ MakeLoop \/ RunLoop \/ ErrorCb
  \/ LeaveLoop \/ CheckFile \/ (\E ok \in BOOLEAN : StopSync(ok)) \/ Retry \/ ResetState
  \/ StopLive \/ CleanUp

Streaming == OnNewSample \/ EosCb

Next ==
  \/ Main
  \/ Streaming
  \/ GstError
  \/ HandlerQuits
  \/ \E kind \in {"retriable", "recoverable", "fatal"} : StreamError(kind)
  \/ \E type \in {"RECEIVED", "PERSISTED"} : FragmentAck(type)

Spec == Init /\ [][Next]_vars

\* The three threads run, and a stopSync that nothing answers times out; no error
\* and no ack is bound to come.
FairSpec == Spec /\ WF_vars(Main) /\ WF_vars(Streaming) /\ WF_vars(HandlerQuits)

-----------------------------------------------------------------------------
\* The samples that are put.
PutSamples(samples) == {k \in 1..Len(samples) : ~samples[k].drop}
FramesOf(f) == {<<f, k>> : k \in PutSamples(Files[f])}

(* What the theorems suppose of the samples, over the types; the runs satisfy it. *)

\* What is put begins with a key frame, and its key frames are a millisecond apart.
InOrder(samples) ==
  /\ \A j \in PutSamples(samples) : \E i \in PutSamples(samples) : i <= j /\ samples[i].key
  /\ \A i, j \in PutSamples(samples) :
       i < j /\ samples[i].key /\ samples[j].key => samples[i].pts + TicksPerMs <= samples[j].pts

\* No frame is before the first, from which a live stream counts.
FromFirst(samples) ==
  \A i, j \in PutSamples(samples) :
    (\A k \in PutSamples(samples) : k >= i) => samples[i].pts <= samples[j].pts

WellFormed ==
  /\ InOrder(LiveSamples) /\ FromFirst(LiveSamples)
  /\ \A f \in Indices : InOrder(Files[f]) /\ PutSamples(Files[f]) # {}

\* No frame of a fragment is behind the key frame of a later one.
Closed(samples) ==
  \A i, j \in PutSamples(samples) : i < j /\ samples[j].key => samples[i].pts < samples[j].pts

ClosedFragments == Closed(LiveSamples) /\ \A f \in Indices : Closed(Files[f])

-----------------------------------------------------------------------------

\* fragmentAckReceivedHandler advances last_unpersisted_file_idx by comparing one
\* timestamp, over files sent again in sessions whose base_pts differs; yet every
\* file before it has been persisted to its last frame.
PersistedFilesComplete ==
  \A f \in Indices : f < last_unpersisted_file_idx => FramesOf(f) \subseteq persisted

\* Once every file is persisted no ack is left that would make at() throw.
AckWithinList ==
  source = "file" /\ last_unpersisted_file_idx > NFiles /\ session \in {"open", "closing"}
    => received = Len(fragments) /\ acked = received

\* "All files have been persisted" is true of every file but those an error of
\* the pipeline cut short, which error_cb lets pass for sent.
ReportedFilesPersisted ==
  outcome = "persisted" => \A f \in Indices : FramesOf(f) \subseteq persisted \/ f \in cut

\* eos_cb keeps the files of a session apart on its timeline, retries included;
\* only a file cut short lets the next one begin in its time.
FragmentsDoNotOverlap ==
  cut = {} => \A k \in 1..(Len(fragments) - 1) : fragments[k].last < fragments[k + 1].ts

\* An end of stream, or an error on the bus, that came before the main loop ran
\* and left nothing to end it.
LostQuit == main_loop = "running" /\ pipe = "eos" /\ ~bus_error

\* Retries included, an upload ends unless its main loop was told to quit too early.
UploadEnds == source = "file" => <>(pc = "end" \/ LostQuit)

(* What the sample's own words say and some executions contradict.            *)

\* "All files have been persisted", without an exception.
AllFilesPersisted ==
  outcome = "persisted" => \A f \in Indices : FramesOf(f) \subseteq persisted

\* "Control will return after gstreamer_init after file eos or any GST_ERROR was
\* put on the bus": the main loop that runs for a file ends.
ControlReturns == source = "file" /\ main_loop = "running" ~> main_loop # "running"

\* The error handler quits the main loop if data->main_loop != NULL: the loop it
\* has seen is there until it has told it to quit.
LoopOutlivesHandler == quitting => main_loop # "null"
=============================================================================
