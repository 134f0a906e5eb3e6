-------------------------- MODULE KvsSinkTracksProofs --------------------------
(***************************************************************************)
(* Proofs about KvsSinkTracks, for any number of pads, codec id blocks and *)
(* tries, and whatever the pads are linked to.                             *)
(***************************************************************************)
EXTENDS KvsSinkTracks, FiniteSetTheorems, TLAPS

USE CapsAssumption, PadAssumption, BlockAssumption, TrackRetryAssumption

VideoPads == {p \in Pads : padType[p] = "video"}
AudioPads == {p \in Pads : padType[p] = "audio"}

\* The pads the element or a session has are held by collect, and a pad is only
\* linked to a peer of its type.
PadInv ==
  /\ onElement \subseteq Collected /\ session \subseteq Collected
  /\ \A p \in Pads :
       /\ padType[p] = "none" => caps[p] = NoCaps
       /\ padType[p] = "video" => caps[p] \in VideoCaps \cup {NoCaps}
       /\ padType[p] = "audio" => caps[p] \in AudioCaps \cup {NoCaps}

\* A media type with one kind of track goes with pads of that kind only, which
\* still have the track id they were made with.
MediaInv ==
  /\ media_type = "VIDEO_ONLY" =>
       \A p \in Collected : padType[p] = "video" /\ track_id[p] = DEFAULT_TRACKID
  /\ media_type = "AUDIO_ONLY" =>
       \A p \in Collected : padType[p] = "audio" /\ track_id[p] = DEFAULT_TRACKID

\* What init_track_data has found out about the pads it has visited; nothing of
\* it changes while create_kinesis_video_stream tries.
WalkInv ==
  /\ state \in {"initTracks", "createStream"} =>
       /\ walk \subseteq Collected
       /\ \A p \in Collected \ walk :
            /\ caps[p] # NoCaps
            /\ media_type = "AUDIO_VIDEO" =>
                 track_id[p] = IF padType[p] = "video" THEN DEFAULT_TRACKID
                                                       ELSE DEFAULT_AUDIO_TRACKID
  /\ state = "initTracks" => seen = {caps[p] : p \in Collected \ walk}
  /\ state = "createStream" => walk = {} /\ retry_count > 0

\* Until an audio only stream is made the two codec ids are two strings, and
\* codec_id names the codec of an H.265 pad once that was visited.
CodecInv ==
  track_info_type = "video" =>
    /\ codec_id # audio_codec_id
    /\ heap[codec_id] # Free /\ heap[audio_codec_id] # Free
    /\ state \in {"initTracks", "createStream"} =>
         \A p \in Collected \ walk : caps[p] = "h265" => heap[codec_id] = "h265"

\* A set of pads is finite and has at most the pads there are.
LEMMA PadSet ==
  ASSUME NEW S \in SUBSET Pads
  PROVE  /\ IsFiniteSet(S) /\ Cardinality(S) \in 0..Cardinality(Pads)
         /\ Cardinality(S) = 0 <=> S = {}
         /\ \A p \in Pads \ S : Cardinality(S \cup {p}) = Cardinality(S) + 1
         /\ \A p \in S : Cardinality(S \ {p}) = Cardinality(S) - 1
<1>1. IsFiniteSet(S) /\ Cardinality(S) \in Nat /\ Cardinality(S) <= Cardinality(Pads)
      /\ Cardinality(Pads) \in Nat
  BY FS_Subset, FS_CardinalityType
<1>2. \A p \in Pads \ S : Cardinality(S \cup {p}) = Cardinality(S) + 1
  BY <1>1, FS_AddElement
<1>3. \A p \in S : Cardinality(S \ {p}) = Cardinality(S) - 1
  BY <1>1, FS_RemoveElement
<1>4. Cardinality(S) = 0 <=> S = {}
  BY <1>1, FS_EmptySet
<1>5. QED
  BY <1>1, <1>2, <1>3, <1>4

\* No two pads are in a set that counts one.
LEMMA OnePad ==
  ASSUME NEW S \in SUBSET Pads, Cardinality(S) \in 0..1, NEW p \in S, NEW q \in S
  PROVE  p = q
<1>1. SUFFICES ASSUME p # q PROVE FALSE
  OBVIOUS
<1>2. Cardinality(S \ {p}) = Cardinality(S) - 1 /\ S \ {p} \in SUBSET Pads /\ q \in S \ {p}
  BY <1>1, PadSet
<1>3. Cardinality((S \ {p}) \ {q}) = Cardinality(S \ {p}) - 1 /\ (S \ {p}) \ {q} \in SUBSET Pads
  BY <1>2, PadSet
<1>4. Cardinality((S \ {p}) \ {q}) \in 0..Cardinality(Pads) /\ Cardinality(Pads) \in Nat
  BY <1>3, PadSet, FS_CardinalityType
<1>5. QED
  BY <1>2, <1>3, <1>4

\* The counts in terms of the two sets of pads.
LEMMA CountsOf ==
  ASSUME TypeOK, PadCounts
  PROVE  /\ num_video_streams = Cardinality(VideoPads) /\ VideoPads \in SUBSET Pads
         /\ num_audio_streams = Cardinality(AudioPads) /\ AudioPads \in SUBSET Pads
         /\ num_video_streams = 0 => VideoPads = {}
         /\ num_audio_streams = 0 => AudioPads = {}
         /\ num_video_streams \in 0..1 /\ num_audio_streams \in 0..1
<1>1. num_video_streams \in 0..1 /\ num_audio_streams \in 0..1
  BY DEF TypeOK
<1>2. QED
  BY <1>1, PadSet DEF PadCounts, VideoPads, AudioPads

\* A step leaves every pad in the hands of collect.
LEMMA PadStep ==
  ASSUME TypeOK, PadInv, [Next]_vars
  PROVE  PadInv'
<1> USE DEF PadInv, TypeOK, Collected, padVars, codecVars
<1>1. ASSUME NEW p \in Pads, NEW type \in {"video", "audio"}, RequestPad(p, type)
      PROVE  PadInv'
  BY <1>1 DEF RequestPad
<1>2. ASSUME NEW p \in Pads, ReleasePad(p) PROVE PadInv'
  BY <1>2 DEF ReleasePad
<1>3. ASSUME NEW p \in Pads, NEW c \in VideoCaps \cup AudioCaps \cup {NoCaps}, Link(p, c)
      PROVE  PadInv'
  BY <1>3 DEF Link
<1>4. ASSUME NEW p \in Pads, InitTrack(p) PROVE PadInv'
  BY <1>4 DEF InitTrack
<1>5. CASE NullToReady \/ FinishTracks \/ CreateStream \/ ReadyToNull \/ UNCHANGED vars
  BY <1>5 DEF NullToReady, FinishTracks, CreateStream, ReadyToNull, vars
<1>6. QED
  BY <1>1, <1>2, <1>3, <1>4, <1>5 DEF Next

\* A step keeps the counts right, and below two for each kind of pad.
LEMMA CountStep ==
  ASSUME TypeOK, PadInv, PadCounts, [Next]_vars
  PROVE  /\ PadCounts'
         /\ num_video_streams' \in 0..1 /\ num_audio_streams' \in 0..1
         /\ num_streams' \in 0..Cardinality(Pads)
<1> DEFINE Kept == /\ PadCounts'
                   /\ num_video_streams' \in 0..1 /\ num_audio_streams' \in 0..1
<1>1. ASSUME NEW p \in Pads, NEW type \in {"video", "audio"}, RequestPad(p, type)
      PROVE  Kept
  <2>1. padType[p] = "none" /\ p \notin VideoPads \cup AudioPads /\ p \notin onElement
    BY <1>1 DEF RequestPad, VideoPads, AudioPads, PadInv, Collected
  <2>2. num_streams' = Cardinality(onElement')
    BY <1>1, <2>1, PadSet DEF RequestPad, PadCounts, TypeOK
  <2>3. CASE type = "video"
    <3>1. VideoPads' = VideoPads \cup {p} /\ AudioPads' = AudioPads
      BY <1>1, <2>1, <2>3 DEF RequestPad, VideoPads, AudioPads, TypeOK
    <3>2. num_video_streams' = num_video_streams + 1 /\ num_audio_streams' = num_audio_streams + 0
          /\ num_video_streams # 1
      BY <1>1, <2>3 DEF RequestPad
    <3>3. Cardinality(VideoPads') = Cardinality(VideoPads) + 1
      BY <2>1, <3>1, CountsOf, PadSet
    <3>4. /\ num_video_streams' = Cardinality(VideoPads') /\ num_video_streams' \in 0..1
          /\ num_audio_streams' = Cardinality(AudioPads') /\ num_audio_streams' \in 0..1
      BY <3>1, <3>2, <3>3, CountsOf
    <3>5. QED
      BY <2>2, <3>4 DEF PadCounts, VideoPads, AudioPads
  <2>4. CASE type = "audio"
    <3>1. AudioPads' = AudioPads \cup {p} /\ VideoPads' = VideoPads
      BY <1>1, <2>1, <2>4 DEF RequestPad, VideoPads, AudioPads, TypeOK
    <3>2. num_audio_streams' = num_audio_streams + 1 /\ num_video_streams' = num_video_streams + 0
          /\ num_audio_streams # 1
      BY <1>1, <2>4 DEF RequestPad
    <3>3. Cardinality(AudioPads') = Cardinality(AudioPads) + 1
      BY <2>1, <3>1, CountsOf, PadSet
    <3>4. /\ num_video_streams' = Cardinality(VideoPads') /\ num_video_streams' \in 0..1
          /\ num_audio_streams' = Cardinality(AudioPads') /\ num_audio_streams' \in 0..1
      BY <3>1, <3>2, <3>3, CountsOf
    <3>5. QED
      BY <2>2, <3>4 DEF PadCounts, VideoPads, AudioPads
  <2>5. QED
    BY <2>3, <2>4
<1>2. ASSUME NEW p \in Pads, ReleasePad(p) PROVE Kept
  <2>1. p \in onElement /\ padType[p] \in {"video", "audio"}
    BY <1>2 DEF ReleasePad, PadInv, Collected, TypeOK
  <2>2. num_streams' = Cardinality(onElement')
    BY <1>2, <2>1, PadSet DEF ReleasePad, PadCounts, TypeOK
  <2>3. CASE padType[p] = "video"
    <3>1. VideoPads' = VideoPads \ {p} /\ AudioPads' = AudioPads /\ p \in VideoPads
      BY <1>2, <2>3 DEF ReleasePad, VideoPads, AudioPads, TypeOK
    <3>2. num_video_streams' = num_video_streams - 1 /\ num_audio_streams' = num_audio_streams - 0
      BY <1>2, <2>3 DEF ReleasePad
    <3>3. Cardinality(VideoPads') = Cardinality(VideoPads) - 1 /\ num_video_streams # 0
      BY <3>1, CountsOf, PadSet
    <3>4. /\ num_video_streams' = Cardinality(VideoPads') /\ num_video_streams' \in 0..1
          /\ num_audio_streams' = Cardinality(AudioPads') /\ num_audio_streams' \in 0..1
      BY <3>1, <3>2, <3>3, CountsOf
    <3>5. QED
      BY <2>2, <3>4 DEF PadCounts, VideoPads, AudioPads
  <2>4. CASE padType[p] = "audio"
    <3>1. AudioPads' = AudioPads \ {p} /\ VideoPads' = VideoPads /\ p \in AudioPads
      BY <1>2, <2>4 DEF ReleasePad, VideoPads, AudioPads, TypeOK
    <3>2. num_audio_streams' = num_audio_streams - 1 /\ num_video_streams' = num_video_streams - 0
      BY <1>2, <2>4 DEF ReleasePad
    <3>3. Cardinality(AudioPads') = Cardinality(AudioPads) - 1 /\ num_audio_streams # 0
      BY <3>1, CountsOf, PadSet
    <3>4. /\ num_video_streams' = Cardinality(VideoPads') /\ num_video_streams' \in 0..1
          /\ num_audio_streams' = Cardinality(AudioPads') /\ num_audio_streams' \in 0..1
      BY <3>1, <3>2, <3>3, CountsOf
    <3>5. QED
      BY <2>2, <3>4 DEF PadCounts, VideoPads, AudioPads
  <2>5. QED
    BY <2>1, <2>3, <2>4
<1>3. ASSUME UNCHANGED <<padType, onElement, num_video_streams, num_audio_streams, num_streams>>
      PROVE  Kept
  BY <1>3 DEF PadCounts, TypeOK
<1>4. ASSUME \/ \E p \in Pads : \/ InitTrack(p)
                                \/ \E c \in VideoCaps \cup AudioCaps \cup {NoCaps} : Link(p, c)
             \/ NullToReady \/ FinishTracks \/ CreateStream \/ ReadyToNull \/ UNCHANGED vars
      PROVE  Kept
  <2>1. ASSUME NEW p \in Pads, InitTrack(p) PROVE Kept
    BY <1>3, <2>1 DEF InitTrack
  <2>2. ASSUME NEW p \in Pads, NEW c \in VideoCaps \cup AudioCaps \cup {NoCaps}, Link(p, c)
        PROVE  Kept
    BY <1>3, <2>2 DEF Link, padVars
  <2>3. CASE NullToReady \/ FinishTracks \/ CreateStream \/ ReadyToNull \/ UNCHANGED vars
    <3>1. UNCHANGED padVars
      BY <2>3 DEF NullToReady, FinishTracks, CreateStream, ReadyToNull, vars
    <3>2. QED
      BY <1>3, <3>1 DEF padVars
  <2>4. QED
    BY <1>4, <2>1, <2>2, <2>3
<1>5. Kept
  BY <1>1, <1>2, <1>4 DEF Next
<1>6. onElement' \in SUBSET Pads
  BY PadStep DEF PadInv, Collected
<1>7. QED
  BY <1>5, <1>6, PadSet DEF PadCounts

\* A step keeps the media type and the pads together.
LEMMA MediaStep ==
  ASSUME TypeOK, PadCounts, MediaInv, [Next]_vars
  PROVE  MediaInv'
<1> USE DEF MediaInv, TypeOK, Collected, padVars, codecVars
<1>1. ASSUME NEW p \in Pads, NEW type \in {"video", "audio"}, RequestPad(p, type)
      PROVE  MediaInv'
  <2>1. /\ padType' = [padType EXCEPT ![p] = type]
        /\ track_id' = [track_id EXCEPT ![p] = DEFAULT_TRACKID]
        /\ media_type' = MediaType(num_video_streams', num_audio_streams')
    BY <1>1 DEF RequestPad
  <2>2. CASE type = "video"
    <3>1. num_video_streams' > 0 /\ num_audio_streams' = num_audio_streams
          /\ num_video_streams = 0
      BY <1>1, <2>2 DEF RequestPad
    <3>2. media_type' # "AUDIO_ONLY" /\ (media_type' = "VIDEO_ONLY" => num_audio_streams = 0)
      BY <2>1, <3>1 DEF MediaType
    <3>3. VideoPads = {} /\ (num_audio_streams = 0 => AudioPads = {})
      BY <3>1, CountsOf
    <3>4. QED
      BY <2>1, <2>2, <3>2, <3>3 DEF VideoPads, AudioPads
  <2>3. CASE type = "audio"
    <3>1. num_audio_streams' > 0 /\ num_video_streams' = num_video_streams
          /\ num_audio_streams = 0
      BY <1>1, <2>3 DEF RequestPad
    <3>2. media_type' # "VIDEO_ONLY" /\ (media_type' = "AUDIO_ONLY" => num_video_streams = 0)
      BY <2>1, <3>1 DEF MediaType
    <3>3. AudioPads = {} /\ (num_video_streams = 0 => VideoPads = {})
      BY <3>1, CountsOf
    <3>4. QED
      BY <2>1, <2>3, <3>2, <3>3 DEF VideoPads, AudioPads
  <2>4. QED
    BY <2>2, <2>3
<1>2. ASSUME NEW p \in Pads, ReleasePad(p) PROVE MediaInv'
  BY <1>2 DEF ReleasePad
<1>3. ASSUME NEW p \in Pads, NEW c \in VideoCaps \cup AudioCaps \cup {NoCaps}, Link(p, c)
      PROVE  MediaInv'
  BY <1>3 DEF Link
<1>4. ASSUME NEW p \in Pads, InitTrack(p) PROVE MediaInv'
  BY <1>4 DEF InitTrack, InitVideoTrack, InitAudioTrack, AssignTrackId
<1>5. CASE NullToReady \/ FinishTracks \/ CreateStream \/ ReadyToNull \/ UNCHANGED vars
  BY <1>5 DEF NullToReady, FinishTracks, CreateStream, ReadyToNull, vars
<1>6. QED
  BY <1>1, <1>2, <1>3, <1>4, <1>5 DEF Next

\* A step keeps what the walk over the pads has found out.
LEMMA WalkStep ==
  ASSUME TypeOK, WalkInv, [Next]_vars
  PROVE  WalkInv'
<1> USE DEF WalkInv, TypeOK, Collected, padVars, codecVars
<1>1. ASSUME NEW p \in Pads, NEW type \in {"video", "audio"}, RequestPad(p, type)
      PROVE  WalkInv'
  BY <1>1 DEF RequestPad
<1>2. ASSUME NEW p \in Pads, ReleasePad(p) PROVE WalkInv'
  BY <1>2 DEF ReleasePad
<1>3. ASSUME NEW p \in Pads, NEW c \in VideoCaps \cup AudioCaps \cup {NoCaps}, Link(p, c)
      PROVE  WalkInv'
  BY <1>3 DEF Link
<1>4. ASSUME NEW p \in Pads, InitTrack(p) PROVE WalkInv'
  <2>1. CASE caps[p] = NoCaps
    BY <1>4, <2>1 DEF InitTrack
  <2>2. CASE caps[p] # NoCaps
    <3>1. /\ state = "initTracks" /\ p \in walk /\ p \in Collected
          /\ walk' = walk \ {p} /\ seen' = seen \cup {caps[p]}
          /\ UNCHANGED <<state, padType, media_type, caps, retry_count>>
      BY <1>4, <2>2 DEF InitTrack
    <3>2. track_id' = IF media_type = "AUDIO_VIDEO"
                        THEN [track_id EXCEPT ![p] = IF padType[p] = "video" THEN DEFAULT_TRACKID
                                                     ELSE DEFAULT_AUDIO_TRACKID]
                        ELSE track_id
      BY <1>4 DEF InitTrack, InitVideoTrack, InitAudioTrack, AssignTrackId
    <3>3. Collected' = Collected /\ Collected \ walk' = (Collected \ walk) \cup {p}
      BY <3>1
    <3>4. seen' = {caps'[q] : q \in Collected' \ walk'}
      BY <3>1, <3>3
    <3>5. QED
      BY <2>2, <3>1, <3>2, <3>3, <3>4
  <2>3. QED
    BY <2>1, <2>2
<1>5. CASE NullToReady
  BY <1>5 DEF NullToReady
<1>6. CASE FinishTracks
  BY <1>6 DEF FinishTracks
<1>7. CASE CreateStream
  BY <1>7 DEF CreateStream
<1>8. CASE ReadyToNull \/ UNCHANGED vars
  BY <1>8 DEF ReadyToNull, vars
<1>9. QED
  BY <1>1, <1>2, <1>3, <1>4, <1>5, <1>6, <1>7, <1>8 DEF Next

\* A step keeps the types; that the counts stay small is CountStep.
LEMMA TypeStep ==
  ASSUME TypeOK, PadInv, PadCounts, WalkInv, [Next]_vars
  PROVE  TypeOK'
<1>0. /\ num_video_streams' \in 0..1 /\ num_audio_streams' \in 0..1
      /\ num_streams' \in 0..Cardinality(Pads)
  BY CountStep
<1> USE DEF TypeOK, padVars, codecVars, Codecs, Collected
<1>1. ASSUME NEW p \in Pads, NEW type \in {"video", "audio"}, RequestPad(p, type)
      PROVE  TypeOK'
  <2>1. media_type' \in {"VIDEO_ONLY", "AUDIO_ONLY", "AUDIO_VIDEO"}
    BY <1>1 DEF RequestPad, MediaType
  <2>2. /\ padType' \in [Pads -> {"none", "video", "audio"}]
        /\ track_id' \in [Pads -> {DEFAULT_TRACKID, DEFAULT_AUDIO_TRACKID}]
        /\ onElement' \in SUBSET Pads
    BY <1>1 DEF RequestPad
  <2>3. QED
    BY <1>0, <1>1, <2>1, <2>2 DEF RequestPad
<1>2. ASSUME NEW p \in Pads, ReleasePad(p) PROVE TypeOK'
  <2>1. /\ padType' \in [Pads -> {"none", "video", "audio"}]
        /\ caps' \in [Pads -> Codecs \cup {NoCaps}]
        /\ onElement' \in SUBSET Pads /\ session' \in SUBSET Pads
    BY <1>2 DEF ReleasePad
  <2>2. QED
    BY <1>0, <1>2, <2>1 DEF ReleasePad
<1>3. ASSUME NEW p \in Pads, NEW c \in VideoCaps \cup AudioCaps \cup {NoCaps}, Link(p, c)
      PROVE  TypeOK'
  <2>1. caps' \in [Pads -> Codecs \cup {NoCaps}]
    BY <1>3 DEF Link
  <2>2. QED
    BY <1>0, <1>3, <2>1 DEF Link
<1>4. ASSUME NEW p \in Pads, InitTrack(p) PROVE TypeOK'
  <2>1. /\ heap' \in [Blocks -> Codecs \cup {Free}]
        /\ codec_id' \in Blocks /\ audio_codec_id' \in Blocks
    BY <1>4 DEF InitTrack, InitVideoTrack, InitAudioTrack, Strdup, Freed
  <2>2. track_id' \in [Pads -> {DEFAULT_TRACKID, DEFAULT_AUDIO_TRACKID}]
    BY <1>4 DEF InitTrack, InitVideoTrack, InitAudioTrack, AssignTrackId
  <2>3. /\ state' \in {"NULL", "crashed", "initTracks"}
        /\ walk' \in SUBSET Pads
        /\ caps[p] # NoCaps => seen' = seen \cup {caps[p]}
        /\ caps[p] = NoCaps => seen' = {}
    BY <1>4 DEF InitTrack
  <2>4. seen' \in SUBSET Codecs
    BY <2>3
  <2>5. QED
    BY <1>0, <1>4, <2>1, <2>2, <2>3, <2>4 DEF InitTrack
<1>5. CASE NullToReady
  BY <1>0, <1>5 DEF NullToReady
<1>6. CASE FinishTracks
  <2>1. content_type' \in SUBSET Codecs
    BY <1>6 DEF FinishTracks, ContentType
  <2>2. retry_count' \in {retry_count, TotalRetry} /\ state' \in {"NULL", "createStream"}
    BY <1>6 DEF FinishTracks
  <2>3. retry_count' \in 0..TotalRetry
    BY <2>2
  <2>4. seen' = {} /\ UNCHANGED <<padVars, caps, codecVars, walk, definition, session>>
    BY <1>6 DEF FinishTracks
  <2>5. QED
    BY <1>0, <2>1, <2>2, <2>3, <2>4
<1>7. CASE CreateStream
  <2>1. /\ heap' \in [Blocks -> Codecs \cup {Free}]
        /\ codec_id' \in Blocks /\ track_info_type' \in {"video", "audio"}
    BY <1>7 DEF CreateStream, SelectCodec, Freed
  <2>2. {caps[p] : p \in Collected} \in SUBSET Codecs
    BY <1>7 DEF CreateStream, WalkInv
  <2>3. definition' \in [codec : Codecs \cup {Free}, type : {"video", "audio"},
                         tracks : SUBSET {DEFAULT_TRACKID, DEFAULT_AUDIO_TRACKID},
                         content : SUBSET Codecs, caps : SUBSET Codecs]
    <3>1. CASE definition' = definition
      BY <3>1
    <3>2. CASE definition' # definition
      <4>1. definition' = [codec   |-> heap'[codec_id'],
                           type    |-> track_info_type',
                           tracks  |-> {DEFAULT_TRACKID} \cup
                                       (IF media_type = "AUDIO_VIDEO"
                                          THEN {DEFAULT_AUDIO_TRACKID} ELSE {}),
                           content |-> content_type,
                           caps    |-> {caps[p] : p \in Collected}]
        BY <1>7, <3>2 DEF CreateStream
      <4>2. heap'[codec_id'] \in Codecs \cup {Free}
        BY <2>1
      <4>3. QED
        BY <2>1, <2>2, <4>1, <4>2
    <3>3. QED
      BY <3>1, <3>2
  <2>4. retry_count' \in 0..TotalRetry
    BY <1>7 DEF CreateStream, WalkInv
  <2>5. session' \in SUBSET Pads /\ state' \in {"READY", "NULL", "createStream"}
    BY <1>7 DEF CreateStream
  <2>6. UNCHANGED <<padVars, caps, content_type, audio_codec_id, walk, seen>>
    BY <1>7 DEF CreateStream
  <2>7. QED
    BY <1>0, <2>1, <2>3, <2>4, <2>5, <2>6
<1>8. CASE ReadyToNull
  <2>1. definition' \in [codec : Codecs \cup {Free}, type : {"video", "audio"},
                         tracks : SUBSET {DEFAULT_TRACKID, DEFAULT_AUDIO_TRACKID},
                         content : SUBSET Codecs, caps : SUBSET Codecs]
    BY <1>8 DEF ReadyToNull, NoDefinition
  <2>2. QED
    BY <1>0, <1>8, <2>1 DEF ReadyToNull
<1>9. CASE UNCHANGED vars
  BY <1>9 DEF vars
<1>10. QED
  BY <1>1, <1>2, <1>3, <1>4, <1>5, <1>6, <1>7, <1>8, <1>9 DEF Next

\* The inductive invariant of the tracks.
TracksInv == TypeOK /\ PadInv /\ PadCounts /\ MediaInv /\ WalkInv

\* A new element satisfies it.
LEMMA TracksInit ==
  ASSUME Init
  PROVE  TracksInv
<1>1. PadInv /\ MediaInv /\ WalkInv
  BY DEF Init, PadInv, MediaInv, WalkInv, Collected
<1>2. PadCounts
  <2>1. {p \in Pads : padType[p] = "video"} = {} /\ {p \in Pads : padType[p] = "audio"} = {}
    BY DEF Init
  <2>2. QED
    BY <2>1, FS_EmptySet DEF Init, PadCounts
<1>3. heap \in [Blocks -> Codecs \cup {Free}] /\ codec_id \in Blocks /\ audio_codec_id \in Blocks
  BY DEF Init, Codecs
<1>4. NoDefinition \in [codec : Codecs \cup {Free}, type : {"video", "audio"},
                        tracks : SUBSET {DEFAULT_TRACKID, DEFAULT_AUDIO_TRACKID},
                        content : SUBSET Codecs, caps : SUBSET Codecs]
  BY DEF NoDefinition
<1>5. /\ num_video_streams \in 0..1 /\ num_audio_streams \in 0..1
      /\ num_streams \in 0..Cardinality(Pads) /\ retry_count \in 0..TotalRetry
  BY FS_CardinalityType DEF Init
<1>6. TypeOK
  BY <1>3, <1>4, <1>5 DEF Init, TypeOK
<1>7. QED
  BY <1>1, <1>2, <1>6 DEF TracksInv

\* After any sequence of requests, failures, releases and sessions the pads, the
\* counts, the media type and the track ids agree.
THEOREM TracksSound == Spec => []TracksInv
<1>1. Init => TracksInv
  BY TracksInit
<1>2. TracksInv /\ [Next]_vars => TracksInv'
  BY TypeStep, PadStep, CountStep, MediaStep, WalkStep DEF TracksInv
<1>3. QED
  BY <1>1, <1>2, PTL DEF Spec

\* The values every variable of the tracks takes.
THEOREM TypeCorrect == Spec => []TypeOK
BY TracksSound, PTL DEF TracksInv

\* The counts are those of the pads, whatever was requested, failed or released.
THEOREM CountsRight == Spec => []PadCounts
BY TracksSound, PTL DEF TracksInv

------------------------------------------------------------------------------
(* What the stream is told. *)

\* When the element goes to create its stream, two pads it holds have different
\* track ids, and each id is one the definition will name.
LEMMA IdsAtCreation ==
  ASSUME TracksInv, state = "createStream"
  PROVE  /\ \A p \in Collected :
              track_id[p] \in {DEFAULT_TRACKID} \cup
                              (IF media_type = "AUDIO_VIDEO" THEN {DEFAULT_AUDIO_TRACKID} ELSE {})
         /\ \A p, q \in Collected : track_id[p] = track_id[q] => p = q
<1>1. walk = {} /\ TypeOK /\ PadCounts
  BY DEF TracksInv, WalkInv
<1>2. \A p \in Collected : p \in VideoPads \cup AudioPads
  BY <1>1 DEF TypeOK, Collected, VideoPads, AudioPads
<1>3. \A p, q \in Pads : p \in VideoPads /\ q \in VideoPads => p = q
  BY <1>1, CountsOf, OnePad
<1>4. \A p, q \in Pads : p \in AudioPads /\ q \in AudioPads => p = q
  BY <1>1, CountsOf, OnePad
<1>5. CASE media_type = "AUDIO_VIDEO"
  <2>1. \A p \in Collected : track_id[p] = IF p \in VideoPads THEN DEFAULT_TRACKID
                                                              ELSE DEFAULT_AUDIO_TRACKID
    BY <1>1, <1>5 DEF TracksInv, WalkInv, VideoPads, Collected
  <2>2. QED
    BY <1>2, <1>3, <1>4, <1>5, <2>1 DEF DEFAULT_TRACKID, DEFAULT_AUDIO_TRACKID, Collected
<1>6. CASE media_type # "AUDIO_VIDEO"
  <2>1. /\ \A p \in Collected : track_id[p] = DEFAULT_TRACKID
        /\ (\A p \in Collected : p \in VideoPads) \/ (\A p \in Collected : p \in AudioPads)
    BY <1>1, <1>6 DEF TracksInv, TypeOK, MediaInv, VideoPads, AudioPads, Collected
  <2>2. QED
    BY <1>3, <1>4, <1>6, <2>1 DEF Collected
<1>7. QED
  BY <1>5, <1>6

\* The buffers of the pads a session began with carry the ids of the tracks of
\* its stream, each pad its own, while other pads come and go.
THEOREM TrackIdsMatch == Spec => []TrackIdsMatchStream
<1>1. Init => TrackIdsMatchStream
  BY DEF Init, TrackIdsMatchStream
<1>2. TracksInv /\ TrackIdsMatchStream /\ [Next]_vars => TrackIdsMatchStream'
  <2> SUFFICES ASSUME TracksInv, TrackIdsMatchStream, [Next]_vars, state' = "READY"
               PROVE  TrackIdsMatchStream'
    BY DEF TrackIdsMatchStream
  <2> USE DEF TrackIdsMatchStream
  <2>1. ASSUME NEW p \in Pads, NEW type \in {"video", "audio"}, RequestPad(p, type)
        PROVE  TrackIdsMatchStream'
    <3>1. p \notin session /\ session \subseteq Pads
      BY <2>1 DEF RequestPad, TracksInv, PadInv, Collected
    <3>2. \A q \in Pads \ {p} : track_id'[q] = track_id[q]
      BY <2>1 DEF RequestPad, TracksInv, TypeOK
    <3>3. state = "READY" /\ UNCHANGED <<session, definition>>
      BY <2>1 DEF RequestPad
    <3>4. QED
      BY <3>1, <3>2, <3>3
  <2>2. ASSUME NEW p \in Pads, ReleasePad(p) PROVE TrackIdsMatchStream'
    BY <2>2 DEF ReleasePad
  <2>3. ASSUME NEW p \in Pads, NEW c \in VideoCaps \cup AudioCaps \cup {NoCaps}, Link(p, c)
        PROVE  TrackIdsMatchStream'
    BY <2>3 DEF Link
  <2>4. ASSUME NEW p \in Pads, InitTrack(p) PROVE TrackIdsMatchStream'
    BY <2>4 DEF InitTrack
  <2>5. CASE NullToReady \/ FinishTracks \/ ReadyToNull
    BY <2>5 DEF NullToReady, FinishTracks, ReadyToNull
  <2>6. CASE CreateStream
    <3>1. /\ state = "createStream" /\ session' = Collected /\ track_id' = track_id
          /\ definition'.tracks = {DEFAULT_TRACKID} \cup
               (IF media_type = "AUDIO_VIDEO" THEN {DEFAULT_AUDIO_TRACKID} ELSE {})
      BY <2>6 DEF CreateStream, padVars
    <3>2. QED
      BY <3>1, IdsAtCreation
  <2>7. CASE UNCHANGED vars
    BY <2>7 DEF vars, padVars
  <2>8. QED
    BY <2>1, <2>2, <2>3, <2>4, <2>5, <2>6, <2>7 DEF Next
<1>3. QED
  BY <1>1, <1>2, TracksSound, PTL DEF Spec

\* What init_track_data has found when it has visited all pads and the media
\* type is that of the pads it visited.
LEMMA ContentFound ==
  ASSUME TracksInv, state = "initTracks", walk = {}, Collected # {},
         media_type = MediaType(num_video_streams, num_audio_streams)
  PROVE  ContentType(seen) = {caps[p] : p \in Collected}
<1>1. seen = {caps[p] : p \in Collected} /\ \A p \in Collected : caps[p] # NoCaps
  BY DEF TracksInv, WalkInv
<1>2. \A p \in Collected :
        \/ p \in VideoPads /\ caps[p] \in {"h264", "h265"}
        \/ p \in AudioPads /\ caps[p] \in {"aac", "pcm"}
  BY <1>1 DEF TracksInv, TypeOK, PadInv, Collected, VideoPads, AudioPads
<1>3. VideoPads \cup AudioPads = Collected
  BY DEF VideoPads, AudioPads, Collected, TracksInv, TypeOK
<1>4. /\ media_type = "AUDIO_VIDEO" => num_video_streams # 0 /\ num_audio_streams # 0
      /\ media_type = "VIDEO_ONLY" => num_audio_streams = 0
      /\ media_type = "AUDIO_ONLY" => num_video_streams = 0
      /\ media_type \in {"AUDIO_VIDEO", "VIDEO_ONLY", "AUDIO_ONLY"}
  <2>1. num_video_streams \in 0..1 /\ num_audio_streams \in 0..1
    BY DEF TracksInv, TypeOK
  <2>2. QED
    BY <2>1 DEF MediaType
<1>5. /\ num_video_streams = 0 <=> VideoPads = {}
      /\ num_audio_streams = 0 <=> AudioPads = {}
  BY CountsOf, PadSet DEF TracksInv
<1>6. CASE media_type = "AUDIO_VIDEO"
  <2>1. PICK v \in VideoPads, a \in AudioPads : TRUE
    BY <1>4, <1>5, <1>6
  <2>2. /\ v \in Collected /\ caps[v] \in {"h264", "h265"} /\ caps[v] \in seen
        /\ a \in Collected /\ caps[a] \in {"aac", "pcm"} /\ caps[a] \in seen
    BY <1>1, <1>2, <1>3, <2>1 DEF VideoPads, AudioPads
  <2>3. seen \cap {"h264", "h265"} # {} /\ seen \cap {"aac", "pcm"} # {}
    BY <2>2
  <2>4. seen \subseteq {"h264", "h265", "aac", "pcm"}
    BY <1>1, <1>2
  <2>5. QED
    BY <1>1, <1>6, <2>3, <2>4 DEF ContentType
<1>7. CASE media_type = "VIDEO_ONLY"
  <2>1. seen \cap {"h264", "h265"} = seen /\ seen # {}
    BY <1>1, <1>2, <1>3, <1>4, <1>5, <1>7
  <2>2. QED
    BY <1>1, <1>7, <2>1 DEF ContentType
<1>8. CASE media_type = "AUDIO_ONLY"
  <2>1. seen \cap {"aac", "pcm"} = seen /\ seen # {}
    BY <1>1, <1>2, <1>3, <1>4, <1>5, <1>8
  <2>2. QED
    BY <1>1, <1>8, <2>1 DEF ContentType
<1>9. QED
  BY <1>4, <1>6, <1>7, <1>8

\* Through all its tries a stream is created with the content type of the pads
\* as they are linked now, whatever the sessions before left in content_type.
THEOREM ContentMatches == Spec => []ContentMatchesCaps
<1>1. Init => ContentMatchesCaps
  BY DEF Init, ContentMatchesCaps
<1>2. TracksInv /\ ContentMatchesCaps /\ [Next]_vars => ContentMatchesCaps'
  <2> SUFFICES ASSUME TracksInv, ContentMatchesCaps, [Next]_vars, state' = "createStream"
               PROVE  ContentMatchesCaps'
    BY DEF ContentMatchesCaps
  <2>1. CASE FinishTracks
    <3>1. /\ state = "initTracks" /\ walk = {} /\ content_type' = ContentType(seen)
          /\ UNCHANGED <<caps, padType, media_type, num_video_streams, num_audio_streams>>
      BY <2>1 DEF FinishTracks, padVars
    <3>2. QED
      BY <3>1, ContentFound DEF ContentMatchesCaps, Collected
  <2>2. CASE CreateStream \/ UNCHANGED vars
    <3>1. /\ state = "createStream"
          /\ UNCHANGED <<caps, padType, media_type, num_video_streams, num_audio_streams,
                         content_type>>
      BY <2>2 DEF CreateStream, vars, padVars
    <3>2. QED
      BY <3>1 DEF ContentMatchesCaps, Collected
  <2>3. ASSUME NEW p \in Pads,
               RequestPad(p, "video") \/ RequestPad(p, "audio") \/ ReleasePad(p) \/ InitTrack(p)
        PROVE  FALSE
    BY <2>3 DEF RequestPad, ReleasePad, InitTrack
  <2>4. ASSUME NEW p \in Pads, NEW c \in VideoCaps \cup AudioCaps \cup {NoCaps}, Link(p, c)
        PROVE  FALSE
    BY <2>4 DEF Link
  <2>5. CASE NullToReady \/ ReadyToNull
    BY <2>5 DEF NullToReady, ReadyToNull
  <2>6. QED
    BY <2>1, <2>2, <2>3, <2>4, <2>5 DEF Next
<1>3. QED
  BY <1>1, <1>2, TracksSound, PTL DEF Spec

\* A step keeps the two codec ids apart and the codec of an H.265 pad in place.
LEMMA CodecStep ==
  ASSUME TracksInv, CodecInv, [Next]_vars
  PROVE  CodecInv'
<1> USE DEF CodecInv, Collected, padVars, codecVars
<1>1. ASSUME NEW p \in Pads, NEW type \in {"video", "audio"}, RequestPad(p, type)
      PROVE  CodecInv'
  BY <1>1 DEF RequestPad
<1>2. ASSUME NEW p \in Pads, ReleasePad(p) PROVE CodecInv'
  BY <1>2 DEF ReleasePad
<1>3. ASSUME NEW p \in Pads, NEW c \in VideoCaps \cup AudioCaps \cup {NoCaps}, Link(p, c)
      PROVE  CodecInv'
  BY <1>3 DEF Link
<1>4. ASSUME NEW p \in Pads, InitTrack(p) PROVE CodecInv'
  <2>1. /\ state = "initTracks" /\ p \in walk
        /\ UNCHANGED <<padType, caps, track_info_type>>
        /\ state' = "initTracks" => walk' = walk \ {p}
        /\ state' # "createStream"
    BY <1>4 DEF InitTrack
  <2>2. SUFFICES ASSUME track_info_type = "video"
                 PROVE  CodecInv'
    BY <2>1
  <2>3. CASE InitVideoTrack(p)
    <3>1. CASE caps[p] = "h265"
      <4>1. PICK b \in Blocks : Strdup(codec_id, b, "h265") /\ codec_id' = b
        BY <2>3, <3>1 DEF InitVideoTrack
      <4>2. b # audio_codec_id /\ heap'[b] = "h265" /\ audio_codec_id' = audio_codec_id
            /\ heap'[audio_codec_id] = heap[audio_codec_id]
        BY <2>2, <2>3, <4>1 DEF InitVideoTrack, Strdup, Freed, TracksInv, TypeOK
      <4>3. QED
        BY <2>1, <2>2, <4>1, <4>2
    <3>2. CASE caps[p] # "h265"
      BY <2>1, <2>2, <2>3, <3>2 DEF InitVideoTrack
    <3>3. QED
      BY <3>1, <3>2
  <2>4. CASE InitAudioTrack(p)
    <3>1. caps[p] # "h265" /\ codec_id' = codec_id
      <4>1. padType[p] = "audio" /\ codec_id' = codec_id
        BY <2>4 DEF InitAudioTrack
      <4>2. caps[p] \in AudioCaps \cup {NoCaps}
        BY <4>1 DEF TracksInv, PadInv
      <4>3. QED
        BY <4>1, <4>2
    <3>2. CASE caps[p] = "pcm"
      <4>1. PICK b \in Blocks : Strdup(audio_codec_id, b, "pcm") /\ audio_codec_id' = b
        BY <2>4, <3>2 DEF InitAudioTrack
      <4>2. b # codec_id /\ heap'[b] = "pcm" /\ heap'[codec_id] = heap[codec_id]
        BY <2>2, <4>1 DEF Strdup, Freed, TracksInv, TypeOK
      <4>3. QED
        BY <2>1, <2>2, <3>1, <4>1, <4>2
    <3>3. CASE caps[p] # "pcm"
      BY <2>1, <2>2, <2>4, <3>1, <3>3 DEF InitAudioTrack
    <3>4. QED
      BY <3>2, <3>3
  <2>5. QED
    BY <1>4, <2>3, <2>4 DEF InitTrack
<1>5. CASE NullToReady
  BY <1>5 DEF NullToReady
<1>6. CASE FinishTracks
  BY <1>6 DEF FinishTracks
<1>7. CASE CreateStream
  BY <1>7 DEF CreateStream, SelectCodec
<1>8. CASE ReadyToNull \/ UNCHANGED vars
  BY <1>8 DEF ReadyToNull, vars
<1>9. QED
  BY <1>1, <1>2, <1>3, <1>4, <1>5, <1>6, <1>7, <1>8 DEF Next

\* CodecInv holds in every execution.
LEMMA CodecIdsApart == Spec => []CodecInv
<1>1. Init => CodecInv
  BY DEF Init, CodecInv
<1>2. TracksInv /\ CodecInv /\ [Next]_vars => CodecInv'
  BY CodecStep
<1>3. QED
  BY <1>1, <1>2, TracksSound, PTL DEF Spec

\* Whatever earlier sessions and failed tries did to the two strings, a stream
\* with video that has an H.265 track is created as H.265.
THEOREM CodecMatches == Spec => []CodecMatchesPads
<1>1. Init => CodecMatchesPads
  BY DEF Init, CodecMatchesPads, NoDefinition
<1>2. TracksInv /\ CodecInv /\ CodecMatchesPads /\ [Next]_vars => CodecMatchesPads'
  <2> SUFFICES ASSUME TracksInv, CodecInv, CodecMatchesPads, [Next]_vars
               PROVE  CodecMatchesPads'
    OBVIOUS
  <2>1. CASE definition' = definition
    BY <2>1 DEF CodecMatchesPads
  <2>2. CASE ReadyToNull
    BY <2>2 DEF ReadyToNull, NoDefinition, CodecMatchesPads
  <2>3. CASE CreateStream /\ definition' # definition
    <3>1. /\ definition'.codec = heap'[codec_id'] /\ definition'.type = track_info_type'
          /\ definition'.caps = {caps[p] : p \in Collected}
      BY <2>3 DEF CreateStream
    <3>2. SUFFICES ASSUME track_info_type' = "video", NEW p \in Collected, caps[p] = "h265"
                   PROVE  heap'[codec_id'] = "h265"
      BY <3>1 DEF CodecMatchesPads
    <3>3. UNCHANGED <<heap, codec_id, track_info_type>>
      BY <2>3, <3>2 DEF CreateStream, SelectCodec
    <3>4. state = "createStream" /\ walk = {}
      BY <2>3 DEF CreateStream, TracksInv, WalkInv
    <3>5. QED
      BY <3>2, <3>3, <3>4 DEF CodecInv
  <2>4. QED
    BY <2>1, <2>2, <2>3 DEF Next, RequestPad, ReleasePad, InitTrack, Link, NullToReady,
                            FinishTracks, vars
<1>3. QED
  BY <1>1, <1>2, TracksSound, CodecIdsApart, PTL DEF Spec
==============================================================================
