---------------------------- MODULE KvsSinkTracks ----------------------------
(***************************************************************************)
(* The tracks of the kvssink element: request and release of pads, the     *)
(* counts and the media type kept beside them, init_track_data when the    *)
(* element leaves NULL, and what create_kinesis_video_stream then tells    *)
(* the producer about the stream, with its retries.  All of it runs in the *)
(* application's thread; what makes it hard is the long sequences: pads    *)
(* relinked, released and requested again between sessions of an element   *)
(* whose fields outlive them.                                              *)
(*                                                                         *)
(* codec_id and audio_codec_id are strings on the heap; the model keeps    *)
(* the blocks, since g_free and g_strdup of one may touch the other.       *)
(***************************************************************************)
EXTENDS Integers, FiniteSets

CONSTANTS Pads,           \* pads an application requests
          Blocks,         \* heap blocks that hold a codec id
          Free,           \* the content of a block that is not allocated
          TotalRetry,     \* DEFAULT_TOTAL_RETRY
          VideoCaps,      \* caps of video peers: a subset of {"h264", "h265"}
          AudioCaps,      \* caps of audio peers: a subset of {"aac", "pcm"}
          NoCaps          \* a pad without a peer

ASSUME CapsAssumption ==
  VideoCaps \subseteq {"h264", "h265"} /\ AudioCaps \subseteq {"aac", "pcm"}
  /\ NoCaps \notin {"h264", "h265", "aac", "pcm"}
ASSUME PadAssumption == IsFiniteSet(Pads)
ASSUME BlockAssumption ==
  (\E a, b \in Blocks : a # b) /\ Free \notin {"h264", "h265", "aac", "pcm"}
ASSUME TrackRetryAssumption == TotalRetry \in Nat \ {0}

VARIABLES
  state,         \* "NULL", "initTracks", "createStream", "READY", "crashed"
  padType,       \* track_type of each pad in kvssink->collect
  onElement,     \* the pads gst_element_add_pad took
  caps,          \* gst_pad_get_allowed_caps of each pad
  track_id,      \* kvs_sink_track_data->track_id
  num_video_streams, num_audio_streams, num_streams,
  media_type,    \* data->media_type
  content_type,  \* kvssink->content_type: the caps it names, {} for NULL
  track_info_type,
  heap,          \* heap[b]: the codec id in block b
  codec_id, audio_codec_id,   \* blocks
  walk, seen,    \* init_track_data: pads left, caps met
  retry_count,   \* of kinesis_video_stream_init
  definition,    \* the StreamDefinition of this session's stream
  session        \* the pads it was created with that are still there

padVars == <<padType, onElement, track_id, num_video_streams,
             num_audio_streams, num_streams, media_type>>
codecVars == <<track_info_type, heap, codec_id, audio_codec_id>>
vars == <<state, padVars, caps, content_type, codecVars, walk, seen, retry_count,
          definition, session>>

DEFAULT_TRACKID == 1
DEFAULT_AUDIO_TRACKID == 2
Collected == {p \in Pads : padType[p] # "none"}
Codecs == {"h264", "h265", "aac", "pcm"}

NoDefinition ==
  [codec |-> Free, type |-> "video", tracks |-> {}, content |-> {}, caps |-> {}]

Init ==
  /\ state = "NULL"
  /\ padType = [p \in Pads |-> "none"]
  /\ onElement = {}
  /\ caps = [p \in Pads |-> NoCaps]
  /\ track_id = [p \in Pads |-> DEFAULT_TRACKID]
  /\ num_video_streams = 0 /\ num_audio_streams = 0 /\ num_streams = 0
  /\ media_type = "VIDEO_ONLY"
  /\ content_type = {}
  /\ track_info_type = "video"
  /\ \E a, b \in Blocks :
       /\ a # b /\ codec_id = a /\ audio_codec_id = b
       /\ heap = [x \in Blocks |-> CASE x = a -> "h264" [] x = b -> "aac" [] OTHER -> Free]
  /\ walk = {} /\ seen = {}
  /\ retry_count = 0
  /\ definition = NoDefinition
  /\ session = {}

------------------------------------------------------------------------------
(* Pads *)

MediaType(videos, audios) ==
  CASE videos > 0 /\ audios > 0 -> "AUDIO_VIDEO"
    [] videos > 0 /\ audios = 0 -> "VIDEO_ONLY"
    [] OTHER -> "AUDIO_ONLY"

\* A second pad of a type is refused.  When the element does not take the pad
\* the counts, the media type and the collect data of it stay.
RequestPad(p, type) ==
  /\ state \in {"NULL", "READY"}
  /\ padType[p] = "none"
  /\ IF type = "audio" THEN num_audio_streams # 1 ELSE num_video_streams # 1
  /\ padType' = [padType EXCEPT ![p] = type]
  /\ num_audio_streams' = num_audio_streams + (IF type = "audio" THEN 1 ELSE 0)
  /\ num_video_streams' = num_video_streams + (IF type = "video" THEN 1 ELSE 0)
  /\ media_type' = MediaType(num_video_streams', num_audio_streams')
  /\ track_id' = [track_id EXCEPT ![p] = DEFAULT_TRACKID]
  /\ \/ onElement' = onElement \cup {p} /\ num_streams' = num_streams + 1
     \/ UNCHANGED <<onElement, num_streams>>
  /\ UNCHANGED <<state, caps, content_type, codecVars, walk, seen,
                 retry_count, definition, session>>

\* Deviation: the counts of the pads ever requested.
ReleasePadUncounted(p) ==
  /\ state \in {"NULL", "READY"}
  /\ p \in onElement
  /\ padType' = [padType EXCEPT ![p] = "none"]
  /\ caps' = [caps EXCEPT ![p] = NoCaps]
  /\ onElement' = onElement \ {p}
  /\ session' = session \ {p}
  /\ UNCHANGED <<state, track_id, num_video_streams, num_audio_streams, num_streams,
                 media_type, content_type, codecVars, walk, seen, retry_count,
                 definition>>

ReleasePad(p) ==
  /\ state \in {"NULL", "READY"}
  /\ p \in onElement
  /\ num_video_streams' = num_video_streams - (IF padType[p] = "video" THEN 1 ELSE 0)
  /\ num_audio_streams' = num_audio_streams - (IF padType[p] = "audio" THEN 1 ELSE 0)
  /\ padType' = [padType EXCEPT ![p] = "none"]
  /\ caps' = [caps EXCEPT ![p] = NoCaps]
  /\ onElement' = onElement \ {p}
  /\ num_streams' = num_streams - 1
  /\ session' = session \ {p}
  /\ UNCHANGED <<state, track_id, media_type, content_type, codecVars, walk,
                 seen, retry_count, definition>>

\* The application links a pad to a peer, or unlinks it, between sessions.
Link(p, c) ==
  /\ state = "NULL" /\ p \in onElement /\ c # caps[p]
  /\ c \in {NoCaps} \cup (IF padType[p] = "video" THEN VideoCaps ELSE AudioCaps)
  /\ caps' = [caps EXCEPT ![p] = c]
  /\ UNCHANGED <<state, padVars, content_type, codecVars, walk, seen,
                 retry_count, definition, session>>

------------------------------------------------------------------------------
(* init_track_data *)

NullToReady ==
  /\ state = "NULL"
  /\ state' = "initTracks"
  /\ walk' = Collected /\ seen' = {}
  /\ UNCHANGED <<padVars, caps, content_type, codecVars, retry_count,
                 definition, session>>

\* g_free of a string and g_strdup of a new one.
Freed(b) == [heap EXCEPT ![b] = Free]
Strdup(freed, new, codec) ==
  /\ Freed(freed)[new] = Free
  /\ heap' = [Freed(freed) EXCEPT ![new] = codec]

\* Deviation: a pad keeps the track id it was made with.
KeepTrackId(p, id) == UNCHANGED track_id

AssignTrackId(p, id) ==
  track_id' = IF media_type = "AUDIO_VIDEO" THEN [track_id EXCEPT ![p] = id]
                                            ELSE track_id

InitVideoTrack(p) ==
  /\ padType[p] = "video"
  /\ AssignTrackId(p, DEFAULT_TRACKID)
  /\ IF caps[p] = "h265"
       THEN \E b \in Blocks : Strdup(codec_id, b, "h265") /\ codec_id' = b
       ELSE UNCHANGED <<heap, codec_id>>
  /\ UNCHANGED audio_codec_id

\* Deviation: the codec of an audio pad is stored as that of the stream.
InitAudioTrackShared(p) ==
  /\ padType[p] = "audio"
  /\ AssignTrackId(p, DEFAULT_AUDIO_TRACKID)
  /\ IF caps[p] = "pcm"
       THEN \E b \in Blocks : Strdup(codec_id, b, "pcm") /\ codec_id' = b
       ELSE UNCHANGED <<heap, codec_id>>
  /\ UNCHANGED audio_codec_id

InitAudioTrack(p) ==
  /\ padType[p] = "audio"
  /\ AssignTrackId(p, DEFAULT_AUDIO_TRACKID)
  /\ IF caps[p] = "pcm"
       THEN \E b \in Blocks : Strdup(audio_codec_id, b, "pcm") /\ audio_codec_id' = b
       ELSE UNCHANGED <<heap, audio_codec_id>>
  /\ UNCHANGED codec_id

\* One iteration.  A video pad without caps throws; those of an audio pad are
\* read without a check.
InitTrack(p) ==
  /\ state = "initTracks" /\ p \in walk
  /\ InitVideoTrack(p) \/ InitAudioTrack(p)
  /\ IF caps[p] = NoCaps
       THEN /\ state' = (IF padType[p] = "video" THEN "NULL" ELSE "crashed")
            /\ walk' = {} /\ seen' = {}
       ELSE /\ walk' = walk \ {p} /\ seen' = seen \cup {caps[p]}
            /\ UNCHANGED state
  /\ UNCHANGED <<padType, onElement, num_video_streams, num_audio_streams,
                 num_streams, media_type, caps, content_type, track_info_type,
                 retry_count, definition, session>>

\* Deviation: the content type is only found out once.
ContentTypeOnce(types) == IF content_type = {} THEN types ELSE content_type

\* The content type the walk arrives at: when a track of the media type is
\* missing, the one the element already had.
ContentType(types) ==
  LET video == types \cap {"h264", "h265"}
      audio == types \cap {"aac", "pcm"}
      found == CASE media_type = "AUDIO_VIDEO" -> IF video = {} \/ audio = {} THEN {} ELSE types
                 [] media_type = "VIDEO_ONLY" -> video
                 [] OTHER -> audio
  IN  IF found = {} THEN content_type ELSE found

FinishTracks ==
  /\ state = "initTracks" /\ walk = {}
  /\ content_type' = ContentType(seen)
  /\ seen' = {}
  /\ IF content_type' = {}
       THEN state' = "NULL" /\ UNCHANGED retry_count
       ELSE state' = "createStream" /\ retry_count' = TotalRetry
  /\ UNCHANGED <<padVars, caps, codecVars, walk, definition, session>>

------------------------------------------------------------------------------
(* create_kinesis_video_stream, tried until it succeeds or retry_count ends *)

\* An audio only stream takes the audio codec id as its codec id, and the
\* track type of audio.
SelectCodec ==
  IF media_type = "AUDIO_ONLY"
    THEN /\ heap' = Freed(codec_id) /\ codec_id' = audio_codec_id
         /\ track_info_type' = "audio"
    ELSE UNCHANGED <<heap, codec_id, track_info_type>>

CreateStream ==
  /\ state = "createStream"
  /\ SelectCodec
  /\ \/ /\ definition' = [codec   |-> heap'[codec_id'],
                          type    |-> track_info_type',
                          tracks  |-> {DEFAULT_TRACKID} \cup
                                      (IF media_type = "AUDIO_VIDEO"
                                         THEN {DEFAULT_AUDIO_TRACKID} ELSE {}),
                          content |-> content_type,
                          caps    |-> {caps[p] : p \in Collected}]
        /\ session' = Collected
        /\ state' = "READY" /\ retry_count' = 0
     \/ /\ retry_count' = retry_count - 1
        /\ state' = IF retry_count' = 0 THEN "NULL" ELSE state
        /\ UNCHANGED <<definition, session>>
  /\ UNCHANGED <<padVars, caps, content_type, audio_codec_id, walk, seen>>

ReadyToNull ==
  /\ state = "READY"
  /\ state' = "NULL"
  /\ definition' = NoDefinition /\ session' = {}
  /\ UNCHANGED <<padVars, caps, content_type, codecVars, walk, seen, retry_count>>

Next ==
  \/ \E p \in Pads : \/ RequestPad(p, "video") \/ RequestPad(p, "audio")
                     \/ ReleasePad(p) \/ InitTrack(p)
                     \/ \E c \in VideoCaps \cup AudioCaps \cup {NoCaps} : Link(p, c)
  \/ NullToReady \/ FinishTracks \/ CreateStream \/ ReadyToNull

Spec == Init /\ [][Next]_vars

------------------------------------------------------------------------------
(* Properties *)

TypeOK ==
  /\ state \in {"NULL", "initTracks", "createStream", "READY", "crashed"}
  /\ padType \in [Pads -> {"none", "video", "audio"}]
  /\ onElement \in SUBSET Pads
  /\ caps \in [Pads -> Codecs \cup {NoCaps}]
  /\ track_id \in [Pads -> {DEFAULT_TRACKID, DEFAULT_AUDIO_TRACKID}]
  /\ num_video_streams \in 0..1 /\ num_audio_streams \in 0..1
  /\ num_streams \in 0..Cardinality(Pads)
  /\ media_type \in {"VIDEO_ONLY", "AUDIO_ONLY", "AUDIO_VIDEO"}
  /\ content_type \in SUBSET Codecs /\ seen \in SUBSET Codecs
  /\ heap \in [Blocks -> Codecs \cup {Free}]
  /\ track_info_type \in {"video", "audio"}
  /\ codec_id \in Blocks /\ audio_codec_id \in Blocks
  /\ walk \in SUBSET Pads
  /\ retry_count \in 0..TotalRetry
  /\ definition \in [codec : Codecs \cup {Free}, type : {"video", "audio"},
                     tracks : SUBSET {DEFAULT_TRACKID, DEFAULT_AUDIO_TRACKID},
                     content : SUBSET Codecs, caps : SUBSET Codecs]
  /\ session \in SUBSET Pads

\* The counts are those of the pads that collect holds and that the element
\* has, after any sequence of requests, failed requests and releases: they
\* are what refuses a second pad of a type, and what ends in media_type.
PadCounts ==
  /\ num_video_streams = Cardinality({p \in Pads : padType[p] = "video"})
  /\ num_audio_streams = Cardinality({p \in Pads : padType[p] = "audio"})
  /\ num_streams = Cardinality(onElement)

\* The buffers of a pad that the session began with carry the id of a track
\* the stream was created with, and those of two such pads never the same id,
\* whatever pads came and went in this session and those before it.
TrackIdsMatchStream ==
  state = "READY" =>
    /\ \A p \in session : track_id[p] \in definition.tracks
    /\ \A p, q \in session : track_id[p] = track_id[q] => p = q

\* A stream is created with the content type its pads are linked to, not that
\* of a session before, unless a pad was released and none requested since,
\* which leaves media_type behind.
ContentMatchesCaps ==
  state = "createStream" /\ Collected # {}
    /\ media_type = MediaType(num_video_streams, num_audio_streams)
    => content_type = {caps[p] : p \in Collected}

\* An H.265 track never reaches the service under another codec, whatever codec
\* ids earlier sessions and tries left behind -- until the element has once made an
\* audio only stream, which leaves codec_id and audio_codec_id the same string.
CodecMatchesPads ==
  definition.type = "video" /\ "h265" \in definition.caps => definition.codec = "h265"

\* "default codec id is for h264 video": a stream with an H.264 track has that
\* codec id (the code leaves codec_id to what an earlier session made of it).
H264HasDefaultCodec ==
  definition.type = "video" /\ "h264" \in definition.caps => definition.codec = "h264"
==============================================================================
