---------------------------- MODULE KvsSinkFrames ----------------------------
(***************************************************************************)
(* The timestamps kvssink puts on frames: what gst_kvs_sink_handle_buffer  *)
(* makes of the PTS and DTS of a buffer, from the fields of                *)
(* KvsSinkCustomData that outlive a buffer, a track and a session of the   *)
(* element (last_dts, first_pts, producer_start_time, pts_base).           *)
(*                                                                         *)
(* Times are unsigned words of Width values whose greatest is              *)
(* GST_CLOCK_TIME_NONE.  In realtime mode the buffers of a track carry the *)
(* running time of their capture, at most Latency ago; in offline mode     *)
(* they come from a file.  Buffers have no B-frames: the PTS of a track    *)
(* grow, and its DTS equals its PTS where the source gives one.  The       *)
(* payload, the flags and the index of a frame are left out.               *)
(***************************************************************************)
EXTENDS Integers, FiniteSetsExt

CONSTANTS Tracks,
          HasDts,         \* tracks whose buffers carry a DTS
          FileStarts,     \* values of the property file-start-time
          FrameDuration,  \* DEFAULT_FRAME_DURATION_MS in nanoseconds
          Second,         \* nanoseconds in a second
          Latency,        \* bound: from capture to handle_buffer
          Epoch, MaxTime, \* bounds of the clock
          Width           \* 2^64 in the code

NONE == Width - 1     \* GST_CLOCK_TIME_NONE

ASSUME TrackAssumption == HasDts \subseteq Tracks
\* Twice the clock, and a buffer behind the start of its file, fit a word.
ASSUME TimeAssumption ==
  /\ {FrameDuration, Second, Latency, Epoch, MaxTime, Width} \subseteq Nat \ {0}
  /\ FileStarts \subseteq Nat
  /\ Latency < Epoch /\ Epoch <= MaxTime /\ 2 * MaxTime < NONE
  /\ \A seconds \in FileStarts : seconds * Second + MaxTime < NONE

VARIABLES
  streaming_type,      \* "realtime" or "offline"
  use_original_pts,
  file_start_time,     \* properties of the element
  clock,               \* the system clock
  playing,             \* the element is in a session
  began, ended,        \* clock when this session began and the last one ended
  last_dts, first_pts, producer_start_time, pts_base,
  source,              \* source[t]: PTS of the last buffer of t in this session
  put,                 \* put[t]: the last frame of t in this session that had a PTS
  dts,                 \* dts[t]: DTS of the last frame of t in any session
  floor                \* the greatest PTS put in earlier sessions

propVars == <<streaming_type, use_original_pts>>
dataVars == <<last_dts, first_pts, producer_start_time, pts_base>>
vars == <<propVars, file_start_time, clock, playing, began, ended, dataVars,
          source, put, dts, floor>>

Words == 0..NONE
NoFrame == [source |-> -1, pts |-> -1]

TypeOK ==
  /\ streaming_type \in {"realtime", "offline"} /\ use_original_pts \in BOOLEAN
  /\ file_start_time \in FileStarts
  /\ clock \in Epoch..MaxTime /\ began \in 0..clock /\ ended \in 0..clock
  /\ playing \in BOOLEAN
  /\ last_dts \in Words /\ first_pts \in Words
  /\ producer_start_time \in Epoch..clock \cup {NONE} /\ pts_base \in Words
  /\ source \in [Tracks -> -1..MaxTime]
  /\ put \in [Tracks -> [source : Words, pts : Words] \cup {NoFrame}]
  /\ dts \in [Tracks -> Words \cup {-1}]
  /\ floor \in Words \cup {-1}

Init ==
  /\ streaming_type \in {"realtime", "offline"} /\ use_original_pts \in BOOLEAN
  /\ file_start_time \in FileStarts
  /\ clock = Epoch /\ playing = FALSE /\ began = 0 /\ ended = 0
  /\ last_dts = 0 /\ pts_base = 0
  /\ first_pts = NONE /\ producer_start_time = NONE
  /\ source = [t \in Tracks |-> -1]
  /\ put = [t \in Tracks |-> NoFrame]
  /\ dts = [t \in Tracks |-> -1]
  /\ floor = -1

Tick ==
  /\ clock < MaxTime
  /\ clock' = clock + 1
  /\ UNCHANGED <<propVars, file_start_time, playing, began, ended, dataVars,
                 source, put, dts, floor>>

------------------------------------------------------------------------------
(* Sessions *)

SetFileStartTime(seconds) ==
  /\ ~playing /\ seconds # file_start_time
  /\ file_start_time' = seconds
  /\ UNCHANGED <<propVars, clock, playing, began, ended, dataVars, source, put, dts, floor>>

\* create_kinesis_video_stream: the file start time in nanoseconds.
PtsBase ==
  IF streaming_type = "offline" /\ file_start_time # 0
    THEN file_start_time * Second ELSE pts_base

\* Deviation: the time of the first session is kept.
NullToReadySameStart ==
  /\ ~playing
  /\ ended > 0 => clock > ended + 2 * Latency
  /\ first_pts' = NONE
  /\ pts_base' = PtsBase
  /\ playing' \in BOOLEAN
  /\ began' = IF playing' THEN clock ELSE 0
  /\ UNCHANGED <<propVars, file_start_time, clock, ended, last_dts, producer_start_time,
                 source, put, dts, floor>>

\* NULL->READY up to the creation of the stream, which may fail; the element
\* takes longer to come up again than a buffer to arrive.
NullToReady ==
  /\ ~playing
  /\ ended > 0 => clock > ended + 2 * Latency
  /\ first_pts' = NONE /\ producer_start_time' = NONE
  /\ pts_base' = PtsBase
  /\ playing' \in BOOLEAN
  /\ began' = IF playing' THEN clock ELSE 0
  /\ UNCHANGED <<propVars, file_start_time, clock, ended, last_dts, source, put, dts, floor>>

Stop ==
  /\ playing
  /\ playing' = FALSE /\ began' = 0 /\ ended' = clock
  /\ floor' = Max({floor} \cup {put[t].pts : t \in Tracks})
  /\ source' = [t \in Tracks |-> -1]
  /\ put' = [t \in Tracks |-> NoFrame]
  /\ UNCHANGED <<propVars, file_start_time, clock, dataVars, dts>>

------------------------------------------------------------------------------
(* gst_kvs_sink_handle_buffer *)

\* The next buffers of a track.
Captures(t) ==
  IF streaming_type = "realtime"
    THEN {p \in source[t] + 1 .. clock - began : p >= clock - began - Latency}
    ELSE source[t] + 1 .. MaxTime - Epoch

\* A DTS of 0 in offline mode, that of the buffer, or one that is constructed.
Dts(t, p) ==
  LET given == IF t \in HasDts THEN p ELSE NONE
  IN  CASE streaming_type = "offline" -> IF use_original_pts THEN given ELSE 0
        [] OTHER -> IF given # NONE THEN given ELSE (last_dts + FrameDuration) % Width

\* Deviation: only the first frames have a DTS to start from.
LastDtsKept(d) == UNCHANGED last_dts

LastDts(d) == last_dts' = d

\* Deviation: every buffer is taken for the first one.
FirstPtsAlways(pts) == pts

FirstPts(pts) == IF first_pts = NONE THEN pts ELSE first_pts

StartTime == IF producer_start_time = NONE THEN clock ELSE producer_start_time

\* The PTS of the frame, with the fields it has set.
Pts(pts, d) ==
  CASE use_original_pts -> d
    [] streaming_type = "offline" -> (pts + pts_base) % Width
    [] OTHER -> (pts + producer_start_time' - first_pts') % Width

\* A buffer whose flags make it droppable.
Drop(t) == \E p \in Captures(t) :
  /\ playing
  /\ source' = [source EXCEPT ![t] = p]
  /\ UNCHANGED <<propVars, file_start_time, clock, playing, began, ended, dataVars,
                 put, dts, floor>>

\* A buffer that cannot be mapped.
MapFails(t) == \E p \in Captures(t) :
  /\ playing
  /\ source' = [source EXCEPT ![t] = p]
  /\ LastDts(Dts(t, p))
  /\ UNCHANGED <<propVars, file_start_time, clock, playing, began, ended, first_pts,
                 producer_start_time, pts_base, put, dts, floor>>

\* A buffer may come without a PTS: its frame gets one that wraps, which is not
\* followed, but it may be the first and set the time base.
PutFrame(t) == \E p \in Captures(t) : \E pts \in {p, NONE} :
  /\ playing
  /\ source' = [source EXCEPT ![t] = p]
  /\ LastDts(Dts(t, p))
  /\ IF streaming_type = "realtime"
       THEN first_pts' = FirstPts(pts) /\ producer_start_time' = StartTime
       ELSE UNCHANGED <<first_pts, producer_start_time>>
  /\ put' = IF pts = NONE THEN put
              ELSE [put EXCEPT ![t] = [source |-> p, pts |-> Pts(pts, Dts(t, p))]]
  /\ dts' = [dts EXCEPT ![t] = Dts(t, p)]
  /\ UNCHANGED <<propVars, file_start_time, clock, playing, began, ended, pts_base, floor>>

Next ==
  \/ Tick \/ NullToReady \/ Stop
  \/ \E seconds \in FileStarts : SetFileStartTime(seconds)
  \/ \E t \in Tracks : Drop(t) \/ MapFails(t) \/ PutFrame(t)

Spec == Init /\ [][Next]_vars

------------------------------------------------------------------------------
(* Properties *)

Frames == {t \in Tracks : put[t] # NoFrame}

\* Tracks stay in step: two frames of a session are as far apart as they were
\* when they were captured.
TracksInStep ==
  ~use_original_pts =>
    \A t, u \in Frames :
      put[t].pts - put[u].pts = put[t].source - put[u].source

\* A session of a realtime element is stamped after all sessions before it,
\* when it takes longer to restart than buffers are on their way.
SessionsInOrder ==
  streaming_type = "realtime" /\ ~use_original_pts =>
    \A t \in Frames : put[t].pts > floor

\* Without any DTS from the source, the constructed ones grow from frame to
\* frame of a track, over buffers that were dropped and sessions that ended.
DtsGrows ==
  [][\A t \in Tracks :
       streaming_type = "realtime" /\ put'[t] # put[t] /\ put'[t] # NoFrame
         => dts'[t] > dts[t]]_vars

\* "Construct a monotonically increasing DTS if GStreamer doesn't provide one":
\* the constructed DTS of a track grow, also beside a track that has its own (the
\* code counts on from the DTS of whichever buffer came last).
DtsMonotonic ==
  [][\A t \in Tracks \ HasDts :
       streaming_type = "realtime" /\ put'[t] # put[t] /\ put'[t] # NoFrame
         => dts'[t] > dts[t]]_vars
==============================================================================
