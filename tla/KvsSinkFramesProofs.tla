------------------------- MODULE KvsSinkFramesProofs -------------------------
(***************************************************************************)
(* Proofs about KvsSinkFrames, for any tracks, any words wide enough for   *)
(* the times, and any number of buffers and sessions.                      *)
(***************************************************************************)
EXTENDS KvsSinkFrames, WellFoundedInduction, TLAPS

USE TrackAssumption, TimeAssumption

\* A session begins after the ones before it, and its frames end with it.
SessionInv ==
  /\ playing => began \in Epoch..clock /\ (ended > 0 => began > ended + 2 * Latency)
  /\ ~playing => \A t \in Tracks : put[t] = NoFrame
  /\ ended = 0 => floor = -1

\* In realtime mode a session is stamped from the clock at its first buffer,
\* which stands for the running time of the first buffer that has one: frames
\* are at most Latency before the start and after the clock.
RealtimeInv ==
  streaming_type = "realtime" /\ ~use_original_pts =>
    /\ floor <= ended + Latency
    /\ playing =>
         /\ producer_start_time # NONE => producer_start_time \in began..clock
         /\ first_pts # NONE =>
              /\ producer_start_time # NONE
              /\ first_pts \in 0..(clock - began)
              /\ first_pts >= producer_start_time - began - Latency
         /\ \A t \in Frames :
              /\ first_pts # NONE
              /\ put[t].source \in 0..(clock - began)
              /\ put[t].source >= first_pts - Latency
              /\ put[t].pts = put[t].source + producer_start_time - first_pts

\* In offline mode it is stamped from the start time of the file.
OfflineInv ==
  /\ pts_base \in Nat /\ pts_base + MaxTime < NONE
  /\ streaming_type = "offline" /\ ~use_original_pts =>
       \A t \in Frames :
         put[t].source \in 0..MaxTime /\ put[t].pts = put[t].source + pts_base

\* A word is left as it is.
LEMMA ShortWord ==
  ASSUME NEW n \in Nat, n < Width
  PROVE  n % Width = n
OBVIOUS

\* A remainder is a word.
LEMMA WordOf ==
  ASSUME NEW n \in Int
  PROVE  n % Width \in Words
<1>1. Width \in Nat \ {0}
  OBVIOUS
<1>2. n % Width \in 0..(Width - 1)
  BY <1>1
<1>3. QED
  BY <1>2 DEF Words, NONE

\* The order of the natural numbers as a relation.
LessThan == {ss \in Nat \X Nat : ss[1] < ss[2]}

LEMMA LessThanWellFounded == IsWellFoundedOn(LessThan, Nat)
BY NatLessThanWellFounded DEF OpToRel, LessThan

\* A set of words, or of words and -1, has a greatest element.
LEMMA GreatestWord ==
  ASSUME NEW S \in SUBSET (Words \cup {-1}), S # {}
  PROVE  Max(S) \in S /\ \A x \in S : x <= Max(S)
<1> DEFINE T == {n \in Nat : NONE - n \in S}
<1>1. NONE \in Nat
  BY DEF NONE
<1>2. T \subseteq Nat /\ T # {}
  <2>1. PICK x \in S : x \in Words \cup {-1}
    OBVIOUS
  <2>2. NONE - x \in Nat /\ NONE - (NONE - x) = x
    BY <1>1, <2>1 DEF Words
  <2>3. QED
    BY <2>1, <2>2
<1> HIDE DEF T
<1>3. PICK n \in T : \A m \in T : ~(<<m, n>> \in LessThan)
  BY <1>2, LessThanWellFounded, WFMin
<1>4. n \in Nat /\ \A m \in T : m \in Nat /\ n <= m
  <2>1. n \in Nat /\ \A m \in T : m \in Nat
    BY <1>2
  <2>2. ASSUME NEW m \in T, m < n PROVE FALSE
    <3>1. <<m, n>> \in LessThan
      BY <2>1, <2>2 DEF LessThan
    <3>2. QED
      BY <1>3, <3>1
  <2>3. QED
    BY <2>1, <2>2
<1>5. \A x \in S : NONE - x \in T /\ x \in Int
  BY <1>1 DEF T, Words
<1>6. NONE - n \in S /\ \A x \in S : NONE - n >= x
  BY <1>1, <1>4, <1>5 DEF T
<1>7. PICK x \in S : \A y \in S : x >= y
  BY <1>6
<1>8. Max(S) \in S /\ \A y \in S : Max(S) >= y
  BY <1>7 DEF Max
<1>9. QED
  BY <1>5, <1>8 DEF T

\* The time stamp of a buffer in realtime mode does not wrap.
LEMMA RealtimeWord ==
  ASSUME NEW p \in 0..MaxTime, NEW s \in Epoch..MaxTime, NEW f \in 0..MaxTime,
         p >= f - Latency
  PROVE  (p + s - f) % Width = p + s - f /\ p + s - f \in Words
<1>1. p + s - f \in Nat /\ p + s - f < NONE
  BY DEF NONE
<1>2. QED
  BY <1>1, ShortWord DEF NONE, Words

\* The DTS of a frame is a word, constructed from the last one or not.
LEMMA DtsWord ==
  ASSUME NEW t \in Tracks, NEW p \in 0..MaxTime, last_dts \in Words
  PROVE  Dts(t, p) \in Words
<1>1. p \in Words /\ NONE \in Words /\ 0 \in Words
  BY DEF Words, NONE
<1>2. last_dts + FrameDuration \in Int
  BY DEF Words, NONE
<1>3. (last_dts + FrameDuration) % Width \in Words
  BY <1>2, WordOf
<1>4. QED
  BY <1>1, <1>3 DEF Dts

\* The next buffers of a track come after its last one, and in realtime mode
\* they are as old as Latency allows.
LEMMA CapturesOf ==
  ASSUME TypeOK, playing => began \in Epoch..clock, playing,
         NEW t \in Tracks, NEW p \in Captures(t)
  PROVE  /\ p \in 0..MaxTime /\ p > source[t]
         /\ streaming_type = "realtime" =>
              p \in 0..(clock - began) /\ p >= clock - began - Latency
<1>1. source[t] \in -1..MaxTime /\ clock \in Epoch..MaxTime /\ began \in Epoch..clock
  BY DEF TypeOK
<1>2. QED
  BY <1>1 DEF Captures

\* The start of a file in nanoseconds is a word.
LEMMA BaseWord ==
  ASSUME TypeOK, pts_base \in Nat, pts_base + MaxTime < NONE
  PROVE  PtsBase \in Nat /\ PtsBase + MaxTime < NONE /\ PtsBase \in Words
<1>1. file_start_time \in FileStarts /\ file_start_time \in Nat
  BY DEF TypeOK
<1>2. file_start_time * Second + MaxTime < NONE /\ file_start_time * Second \in Nat
  BY <1>1
<1>3. QED
  BY <1>2 DEF PtsBase, Words, NONE

\* What handle_buffer does for a buffer of t captured at p, whose PTS is pts.
Puts(t, p, pts) ==
  /\ playing /\ source' = [source EXCEPT ![t] = p] /\ last_dts' = Dts(t, p)
  /\ IF streaming_type = "realtime"
       THEN first_pts' = FirstPts(pts) /\ producer_start_time' = StartTime
       ELSE UNCHANGED <<first_pts, producer_start_time>>
  /\ put' = IF pts = NONE THEN put
              ELSE [put EXCEPT ![t] = [source |-> p, pts |-> Pts(pts, Dts(t, p))]]
  /\ dts' = [dts EXCEPT ![t] = Dts(t, p)]
  /\ UNCHANGED <<propVars, file_start_time, clock, playing, began, ended, pts_base, floor>>

\* A step keeps the types.
LEMMA TypeStep ==
  ASSUME TypeOK, SessionInv, OfflineInv, [Next]_vars
  PROVE  TypeOK'
<1> USE DEF propVars, dataVars
<1>1. CASE Tick
  BY <1>1 DEF Tick, TypeOK
<1>2. CASE NullToReady
  <2>1. pts_base' \in Words
    BY <1>2, BaseWord DEF NullToReady, OfflineInv
  <2>2. began' \in 0..clock
    BY <1>2 DEF NullToReady, TypeOK
  <2>3. NONE \in Words
    BY DEF Words, NONE
  <2>4. QED
    BY <1>2, <2>1, <2>2, <2>3 DEF NullToReady, TypeOK
<1>3. CASE Stop
  <2> DEFINE S == {floor} \cup {put[t].pts : t \in Tracks}
  <2>1. S \in SUBSET (Words \cup {-1}) /\ S # {}
    BY DEF TypeOK, NoFrame
  <2>2. Max(S) \in Words \cup {-1}
    BY <2>1, GreatestWord
  <2>3. floor' \in Words \cup {-1}
    BY <1>3, <2>2 DEF Stop
  <2>4. /\ put' \in [Tracks -> [source : Words, pts : Words] \cup {NoFrame}]
        /\ source' \in [Tracks -> -1..MaxTime]
    BY <1>3 DEF Stop
  <2>5. clock \in Nat /\ ended' \in 0..clock /\ began' \in 0..clock
    BY <1>3 DEF Stop, TypeOK
  <2>6. QED
    BY <1>3, <2>3, <2>4, <2>5 DEF Stop, TypeOK
<1>4. ASSUME NEW seconds \in FileStarts, SetFileStartTime(seconds)
      PROVE  TypeOK'
  BY <1>4 DEF SetFileStartTime, TypeOK
<1>5. ASSUME NEW t \in Tracks, Drop(t)
      PROVE  TypeOK'
  <2>1. PICK p \in Captures(t) : playing /\ source' = [source EXCEPT ![t] = p]
    BY <1>5 DEF Drop
  <2>2. p \in 0..MaxTime
    BY <2>1, CapturesOf DEF SessionInv
  <2>3. source' \in [Tracks -> -1..MaxTime]
    BY <2>1, <2>2 DEF TypeOK
  <2>4. QED
    BY <1>5, <2>3 DEF Drop, TypeOK
<1>6. ASSUME NEW t \in Tracks, MapFails(t)
      PROVE  TypeOK'
  <2>1. PICK p \in Captures(t) :
          playing /\ source' = [source EXCEPT ![t] = p] /\ last_dts' = Dts(t, p)
    BY <1>6 DEF MapFails, LastDts
  <2>2. p \in 0..MaxTime
    BY <2>1, CapturesOf DEF SessionInv
  <2>3. source' \in [Tracks -> -1..MaxTime] /\ last_dts' \in Words
    BY <2>1, <2>2, DtsWord DEF TypeOK
  <2>4. QED
    BY <1>6, <2>3 DEF MapFails, TypeOK
<1>7. ASSUME NEW t \in Tracks, PutFrame(t)
      PROVE  TypeOK'
  <2>1. PICK p \in Captures(t) : \E q \in {p, NONE} : Puts(t, p, q)
    BY <1>7 DEF PutFrame, LastDts, Puts
  <2> PICK pts \in {p, NONE} : Puts(t, p, pts)
    BY <2>1
  <2> USE DEF Puts
  <2>2. p \in 0..MaxTime /\ p \in Words /\ NONE \in Words
    BY <2>1, CapturesOf DEF SessionInv, Words, NONE
  <2>3. source' \in [Tracks -> -1..MaxTime] /\ Dts(t, p) \in Words
        /\ last_dts' \in Words /\ dts' \in [Tracks -> Words \cup {-1}]
    BY <2>1, <2>2, DtsWord DEF TypeOK
  <2>4. first_pts' \in Words /\ producer_start_time' \in Epoch..clock \cup {NONE}
    BY <2>1, <2>2 DEF TypeOK, FirstPts, StartTime
  <2>5. Pts(pts, Dts(t, p)) \in Words
    <3>1. pts + pts_base \in Int /\ pts + producer_start_time' - first_pts' \in Int
      BY <2>1, <2>2, <2>4 DEF TypeOK, Words, NONE
    <3>2. QED
      BY <2>3, <3>1, WordOf DEF Pts
  <2>6. put' \in [Tracks -> [source : Words, pts : Words] \cup {NoFrame}]
    BY <2>1, <2>2, <2>5 DEF TypeOK
  <2>7. QED
    BY <1>7, <2>3, <2>4, <2>6 DEF PutFrame, TypeOK
<1>8. CASE UNCHANGED vars
  BY <1>8 DEF vars, TypeOK
<1>9. QED
  BY <1>1, <1>2, <1>3, <1>4, <1>5, <1>6, <1>7, <1>8 DEF Next

\* A step keeps a session after the ones before it.
LEMMA SessionStep ==
  ASSUME TypeOK, SessionInv, [Next]_vars
  PROVE  SessionInv'
<1> USE DEF propVars, dataVars
<1>1. CASE Tick
  BY <1>1 DEF Tick, TypeOK, SessionInv
<1>2. CASE NullToReady
  BY <1>2 DEF NullToReady, TypeOK, SessionInv
<1>3. CASE Stop
  <2>1. clock > 0
    BY DEF TypeOK
  <2>2. QED
    BY <1>3, <2>1 DEF Stop, SessionInv
<1>4. ASSUME NEW seconds \in FileStarts, SetFileStartTime(seconds)
      PROVE  SessionInv'
  BY <1>4 DEF SetFileStartTime, SessionInv
<1>5. ASSUME NEW t \in Tracks, Drop(t) \/ MapFails(t) \/ PutFrame(t)
      PROVE  SessionInv'
  <2>1. playing /\ UNCHANGED <<clock, playing, began, ended, floor>>
    BY <1>5 DEF Drop, MapFails, PutFrame
  <2>2. QED
    BY <2>1 DEF SessionInv
<1>6. CASE UNCHANGED vars
  BY <1>6 DEF vars, SessionInv
<1>7. QED
  BY <1>1, <1>2, <1>3, <1>4, <1>5, <1>6 DEF Next

\* A step keeps the frames of a file at their distance from its start.
LEMMA OfflineStep ==
  ASSUME TypeOK, SessionInv, OfflineInv, [Next]_vars
  PROVE  OfflineInv'
<1> USE DEF propVars, dataVars, Frames
<1>1. CASE Tick \/ UNCHANGED vars
  BY <1>1 DEF Tick, vars, OfflineInv
<1>2. CASE NullToReady
  <2>1. pts_base' \in Nat /\ pts_base' + MaxTime < NONE
    BY <1>2, BaseWord DEF NullToReady, OfflineInv
  <2>2. \A t \in Tracks : put'[t] = NoFrame
    BY <1>2 DEF NullToReady, SessionInv
  <2>3. QED
    BY <2>1, <2>2 DEF OfflineInv
<1>3. CASE Stop
  BY <1>3 DEF Stop, OfflineInv
<1>4. ASSUME NEW seconds \in FileStarts, SetFileStartTime(seconds)
      PROVE  OfflineInv'
  BY <1>4 DEF SetFileStartTime, OfflineInv
<1>5. ASSUME NEW t \in Tracks, Drop(t) \/ MapFails(t)
      PROVE  OfflineInv'
  BY <1>5 DEF Drop, MapFails, OfflineInv
<1>6. ASSUME NEW t \in Tracks, PutFrame(t)
      PROVE  OfflineInv'
  <2>1. PICK p \in Captures(t) : \E q \in {p, NONE} : Puts(t, p, q)
    BY <1>6 DEF PutFrame, LastDts, Puts
  <2> PICK pts \in {p, NONE} : Puts(t, p, pts)
    BY <2>1
  <2>2. UNCHANGED <<streaming_type, use_original_pts, pts_base>>
    BY DEF Puts
  <2>3. CASE pts = NONE
    BY <2>2, <2>3 DEF Puts, OfflineInv
  <2>4. CASE pts # NONE /\ streaming_type = "offline" /\ ~use_original_pts
    <3>1. p \in 0..MaxTime /\ pts = p
      BY <2>1, <2>4, CapturesOf DEF SessionInv, Puts
    <3>2. (p + pts_base) % Width = p + pts_base
      BY <3>1, ShortWord DEF OfflineInv, NONE
    <3>3. put' = [put EXCEPT ![t] = [source |-> p, pts |-> p + pts_base]]
      BY <2>4, <3>1, <3>2 DEF Puts, Pts
    <3>4. put'[t].source = p /\ put'[t].pts = p + pts_base
          /\ \A u \in Tracks \ {t} : put'[u] = put[u]
      BY <3>3 DEF TypeOK
    <3>5. QED
      BY <2>2, <3>1, <3>4 DEF OfflineInv
  <2>5. CASE ~(streaming_type = "offline" /\ ~use_original_pts)
    BY <2>2, <2>5 DEF OfflineInv
  <2>6. QED
    BY <2>3, <2>4, <2>5
<1>7. QED
  BY <1>1, <1>2, <1>3, <1>4, <1>5, <1>6 DEF Next

\* A step keeps the frames of a realtime session at their distance from its
\* start, and between the times the session may have.
LEMMA RealtimeStep ==
  ASSUME TypeOK, SessionInv, RealtimeInv, [Next]_vars
  PROVE  RealtimeInv'
<1> USE DEF propVars, dataVars, Frames
<1>1. SUFFICES ASSUME streaming_type = "realtime", ~use_original_pts,
                      streaming_type' = streaming_type, use_original_pts' = use_original_pts
               PROVE  RealtimeInv'
  <2>1. UNCHANGED propVars
    BY DEF Next, Tick, NullToReady, Stop, SetFileStartTime, Drop, MapFails, PutFrame, vars
  <2>2. QED
    BY <2>1 DEF RealtimeInv
<1>2. /\ clock \in Epoch..MaxTime /\ began \in 0..clock /\ ended \in 0..clock
      /\ floor \in Words \cup {-1} /\ first_pts \in Words
      /\ producer_start_time \in Epoch..clock \cup {NONE}
  BY DEF TypeOK
<1>3. NONE \in Nat /\ NONE > MaxTime
  BY DEF NONE
<1>4. CASE Tick
  BY <1>1, <1>2, <1>3, <1>4 DEF Tick, RealtimeInv
<1>5. CASE NullToReady
  BY <1>1, <1>2, <1>5 DEF NullToReady, RealtimeInv, SessionInv
<1>6. CASE Stop
  <2> DEFINE S == {floor} \cup {put[t].pts : t \in Tracks}
  <2>1. S \in SUBSET (Words \cup {-1}) /\ S # {}
    BY DEF TypeOK, NoFrame
  <2>2. \A t \in Tracks : put[t].pts <= clock + Latency
    <3>1. TAKE t \in Tracks
    <3>2. CASE put[t] = NoFrame
      BY <1>2, <3>2 DEF NoFrame
    <3>3. CASE put[t] # NoFrame
      <4>1. /\ put[t].source \in 0..(clock - began)
            /\ put[t].pts = put[t].source + producer_start_time - first_pts
            /\ first_pts \in Nat
            /\ first_pts >= producer_start_time - began - Latency
            /\ producer_start_time \in Nat
        BY <1>1, <1>2, <1>6, <3>3 DEF Stop, RealtimeInv
      <4>2. QED
        BY <1>2, <4>1
    <3>4. QED
      BY <3>2, <3>3
  <2>3. floor <= clock + Latency
    <3>1. floor <= ended + Latency
      BY <1>1 DEF RealtimeInv
    <3>2. floor \in Int /\ ended \in Nat /\ clock \in Nat /\ ended <= clock
      BY <1>2 DEF Words, NONE
    <3>3. QED
      BY <3>1, <3>2
  <2>4. Max(S) \in S
    BY <2>1, GreatestWord
  <2>5. Max(S) <= clock + Latency
    BY <2>2, <2>3, <2>4
  <2>6. QED
    BY <1>6, <2>5 DEF Stop, RealtimeInv
<1>7. ASSUME NEW seconds \in FileStarts, SetFileStartTime(seconds)
      PROVE  RealtimeInv'
  BY <1>7 DEF SetFileStartTime, RealtimeInv
<1>8. ASSUME NEW t \in Tracks, Drop(t) \/ MapFails(t)
      PROVE  RealtimeInv'
  BY <1>8 DEF Drop, MapFails, RealtimeInv
<1>9. ASSUME NEW t \in Tracks, PutFrame(t)
      PROVE  RealtimeInv'
  <2>1. PICK p \in Captures(t) : \E q \in {p, NONE} : Puts(t, p, q)
    BY <1>9 DEF PutFrame, LastDts, Puts
  <2> PICK pts \in {p, NONE} : Puts(t, p, pts)
    BY <2>1
  <2>2. /\ playing /\ UNCHANGED <<clock, playing, began, ended, floor>>
        /\ first_pts' = FirstPts(pts) /\ producer_start_time' = StartTime
    BY <1>1 DEF Puts
  <2>3. began \in Epoch..clock /\ p \in 0..MaxTime
        /\ p \in 0..(clock - began) /\ p >= clock - began - Latency
    BY <1>1, <2>1, <2>2, CapturesOf DEF SessionInv
  <2>4. /\ producer_start_time' \in began..clock /\ producer_start_time' # NONE
        /\ producer_start_time # NONE => producer_start_time' = producer_start_time
    BY <1>1, <1>2, <1>3, <2>2, <2>3 DEF RealtimeInv, StartTime
  <2>5. /\ first_pts # NONE => first_pts' = first_pts
        /\ first_pts = NONE => first_pts' = pts
    BY <2>2 DEF FirstPts
  <2>6. first_pts' # NONE =>
          first_pts' \in 0..(clock - began)
          /\ first_pts' >= producer_start_time' - began - Latency
    <3>1. CASE first_pts # NONE
      BY <1>1, <2>2, <2>4, <2>5, <3>1 DEF RealtimeInv
    <3>2. CASE first_pts = NONE
      BY <1>2, <2>3, <2>4, <2>5, <3>2
    <3>3. QED
      BY <3>1, <3>2
  <2>7. \A u \in Tracks : put[u] # NoFrame =>
          /\ first_pts' # NONE
          /\ put[u].source \in 0..(clock - began)
          /\ put[u].source >= first_pts' - Latency
          /\ put[u].pts = put[u].source + producer_start_time' - first_pts'
    BY <1>1, <2>2, <2>4, <2>5 DEF RealtimeInv
  <2>8. CASE pts = NONE
    <3>1. put' = put
      BY <2>8 DEF Puts
    <3>2. QED
      BY <1>1, <2>2, <2>4, <2>6, <2>7, <3>1 DEF RealtimeInv
  <2>9. CASE pts # NONE
    <3>1. pts = p /\ first_pts' # NONE
      BY <1>3, <2>3, <2>5, <2>9
    <3>2. first_pts' \in 0..MaxTime /\ p >= first_pts' - Latency
          /\ producer_start_time' \in Epoch..MaxTime
      BY <1>2, <2>3, <2>4, <2>6, <3>1
    <3>3. (p + producer_start_time' - first_pts') % Width
            = p + producer_start_time' - first_pts'
      BY <2>3, <3>2, RealtimeWord
    <3>4. put' = [put EXCEPT ![t] =
                   [source |-> p, pts |-> p + producer_start_time' - first_pts']]
      BY <1>1, <3>1, <3>3, <2>9 DEF Puts, Pts
    <3>5. /\ put'[t].source = p /\ put'[t].pts = p + producer_start_time' - first_pts'
          /\ \A u \in Tracks \ {t} : put'[u] = put[u]
      BY <3>4 DEF TypeOK
    <3>6. \A u \in Tracks : put'[u] # NoFrame =>
            /\ first_pts' # NONE
            /\ put'[u].source \in 0..(clock - began)
            /\ put'[u].source >= first_pts' - Latency
            /\ put'[u].pts = put'[u].source + producer_start_time' - first_pts'
      BY <2>3, <2>7, <3>1, <3>2, <3>5
    <3>7. floor <= ended + Latency
      BY <1>1 DEF RealtimeInv
    <3>8. QED
      BY <1>1, <2>2, <2>4, <2>6, <3>6, <3>7 DEF RealtimeInv
  <2>10. QED
    BY <2>8, <2>9
<1>10. CASE UNCHANGED vars
  BY <1>10 DEF vars, RealtimeInv
<1>11. QED
  BY <1>4, <1>5, <1>6, <1>7, <1>8, <1>9, <1>10 DEF Next

------------------------------------------------------------------------------
(* What holds of every execution *)

\* The times of kvssink keep their types, sessions and frames their order: the
\* invariant the theorems below rest on.
THEOREM TimesSound == Spec => [](TypeOK /\ SessionInv /\ OfflineInv /\ RealtimeInv)
<1>1. Init => TypeOK /\ SessionInv /\ OfflineInv /\ RealtimeInv
  <2> SUFFICES ASSUME Init PROVE TypeOK /\ SessionInv /\ OfflineInv /\ RealtimeInv
    OBVIOUS
  <2>1. NONE \in Words /\ 0 \in Words /\ MaxTime < NONE
    BY DEF Words, NONE
  <2>2. TypeOK
    <3>1. /\ source \in [Tracks -> -1..MaxTime] /\ dts \in [Tracks -> Words \cup {-1}]
          /\ put \in [Tracks -> [source : Words, pts : Words] \cup {NoFrame}]
      BY DEF Init
    <3>2. clock \in Epoch..MaxTime /\ began \in 0..clock /\ ended \in 0..clock
      BY DEF Init
    <3>3. QED
      BY <2>1, <3>1, <3>2 DEF Init, TypeOK
  <2>3. SessionInv /\ OfflineInv
    BY <2>1 DEF Init, SessionInv, OfflineInv, Frames
  <2>4. RealtimeInv
    BY DEF Init, RealtimeInv
  <2>5. QED
    BY <2>2, <2>3, <2>4
<1>2. TypeOK /\ SessionInv /\ OfflineInv /\ RealtimeInv /\ [Next]_vars
        => (TypeOK /\ SessionInv /\ OfflineInv /\ RealtimeInv)'
  BY TypeStep, SessionStep, OfflineStep, RealtimeStep
<1>3. QED
  BY <1>1, <1>2, PTL DEF Spec

\* The frames of a session, of whichever tracks, lie as far apart as the buffers
\* did: handle_buffer moves them all by the same distance, set by the first.
THEOREM TracksKeepStep == Spec => []TracksInStep
<1>1. TypeOK /\ SessionInv /\ OfflineInv /\ RealtimeInv => TracksInStep
  <2> SUFFICES ASSUME TypeOK, SessionInv, OfflineInv, RealtimeInv, ~use_original_pts,
                      NEW t \in Frames, NEW u \in Frames
               PROVE  put[t].pts - put[u].pts = put[t].source - put[u].source
    BY DEF TracksInStep
  <2>1. playing
    BY DEF SessionInv, Frames
  <2>2. CASE streaming_type = "realtime"
    <3>1. /\ put[t].source \in Int /\ put[u].source \in Int
          /\ producer_start_time \in Int /\ first_pts \in Int
      BY DEF TypeOK, Frames, Words, NONE
    <3>2. /\ put[t].pts = put[t].source + producer_start_time - first_pts
          /\ put[u].pts = put[u].source + producer_start_time - first_pts
      BY <2>1, <2>2 DEF RealtimeInv
    <3>3. QED
      BY <3>1, <3>2
  <2>3. CASE streaming_type = "offline"
    BY <2>3 DEF OfflineInv
  <2>4. QED
    BY <2>2, <2>3 DEF TypeOK
<1>2. QED
  BY <1>1, TimesSound, PTL

\* A realtime session is stamped behind the sessions before it, if the element
\* takes longer to come up again than a buffer to arrive.
THEOREM SessionsKeepOrder == Spec => []SessionsInOrder
<1>1. TypeOK /\ SessionInv /\ RealtimeInv => SessionsInOrder
  <2> SUFFICES ASSUME TypeOK, SessionInv, RealtimeInv, streaming_type = "realtime",
                      ~use_original_pts, NEW t \in Frames
               PROVE  put[t].pts > floor
    BY DEF SessionsInOrder
  <2>1. playing
    BY DEF SessionInv, Frames
  <2>2. /\ floor <= ended + Latency /\ floor \in Int /\ ended \in Nat
        /\ ended = 0 => floor = -1
        /\ ended > 0 => began > ended + 2 * Latency
        /\ began \in Epoch..clock /\ clock \in Nat
    BY <2>1 DEF TypeOK, SessionInv, RealtimeInv, Words, NONE
  <2>3. /\ producer_start_time \in began..clock /\ first_pts \in Nat
        /\ put[t].source \in Nat /\ put[t].source >= first_pts - Latency
        /\ put[t].pts = put[t].source + producer_start_time - first_pts
    BY <2>1, <2>2 DEF RealtimeInv
  <2>4. QED
    BY <2>2, <2>3
<1>2. QED
  BY <1>1, TimesSound, PTL

\* As long as the constructed DTS has not reached the end of its word, none of a
\* track is behind last_dts, over dropped buffers and sessions; so the next grows.
THEOREM ConstructedDtsGrow ==
  ASSUME HasDts = {}
  PROVE  Spec /\ [](last_dts + FrameDuration < NONE) => DtsGrows
<1> DEFINE Behind == streaming_type = "realtime" => \A t \in Tracks : dts[t] <= last_dts
<1> DEFINE Room == last_dts + FrameDuration < NONE
<1>1. Init => Behind
  BY DEF Init
<1>2. ASSUME TypeOK, SessionInv, Behind, Room, NEW t \in Tracks, PutFrame(t),
             streaming_type = "realtime"
      PROVE  /\ last_dts' = last_dts + FrameDuration
             /\ dts' = [dts EXCEPT ![t] = last_dts + FrameDuration]
  <2>1. PICK p \in Captures(t) : LastDts(Dts(t, p)) /\ dts' = [dts EXCEPT ![t] = Dts(t, p)]
    BY <1>2 DEF PutFrame
  <2>2. last_dts + FrameDuration \in Nat /\ last_dts + FrameDuration < Width
    BY <1>2 DEF TypeOK, Words, NONE
  <2>3. Dts(t, p) = last_dts + FrameDuration
    BY <1>2, <2>2, ShortWord DEF Dts, NONE
  <2>4. QED
    BY <2>1, <2>3 DEF LastDts
<1>3. TypeOK /\ SessionInv /\ Behind /\ Room /\ [Next]_vars => Behind'
  <2> SUFFICES ASSUME TypeOK, SessionInv, Behind, Room, [Next]_vars,
                      streaming_type' = "realtime"
               PROVE  \A u \in Tracks : dts'[u] <= last_dts'
    OBVIOUS
  <2>1. streaming_type = "realtime"
    BY DEF Next, Tick, NullToReady, Stop, SetFileStartTime, Drop, MapFails, PutFrame,
           vars, propVars
  <2>2. last_dts \in Nat /\ \A u \in Tracks : dts[u] \in Int /\ dts[u] <= last_dts
    BY <2>1 DEF TypeOK, Words, NONE
  <2>3. CASE Tick \/ NullToReady \/ Stop \/ UNCHANGED vars
             \/ (\E seconds \in FileStarts : SetFileStartTime(seconds))
             \/ (\E t \in Tracks : Drop(t))
    <3>1. UNCHANGED <<dts, last_dts>>
      BY <2>3 DEF Tick, NullToReady, Stop, SetFileStartTime, Drop, vars, dataVars
    <3>2. QED
      BY <2>2, <3>1
  <2>4. ASSUME NEW t \in Tracks, MapFails(t)
        PROVE  \A u \in Tracks : dts'[u] <= last_dts'
    <3>1. PICK p \in Captures(t) : last_dts' = Dts(t, p) /\ dts' = dts
      BY <2>4 DEF MapFails, LastDts
    <3>2. last_dts + FrameDuration \in Nat /\ last_dts + FrameDuration < Width
      BY <2>2 DEF NONE
    <3>3. last_dts' = last_dts + FrameDuration
      BY <2>1, <3>1, <3>2, ShortWord DEF Dts, NONE
    <3>4. QED
      BY <2>2, <3>1, <3>3
  <2>5. ASSUME NEW t \in Tracks, PutFrame(t)
        PROVE  \A u \in Tracks : dts'[u] <= last_dts'
    <3>1. /\ last_dts' = last_dts + FrameDuration
          /\ dts' = [dts EXCEPT ![t] = last_dts + FrameDuration]
      BY <1>2, <2>1, <2>5
    <3>2. QED
      BY <2>2, <3>1 DEF TypeOK
  <2>6. QED
    BY <2>3, <2>4, <2>5 DEF Next
<1>4. TypeOK /\ SessionInv /\ Behind /\ Room /\ [Next]_vars
        => [\A t \in Tracks :
              streaming_type = "realtime" /\ put'[t] # put[t] /\ put'[t] # NoFrame
                => dts'[t] > dts[t]]_vars
  <2> SUFFICES ASSUME TypeOK, SessionInv, Behind, Room, Next, NEW u \in Tracks,
                      streaming_type = "realtime", put'[u] # put[u], put'[u] # NoFrame
               PROVE  dts'[u] > dts[u]
    OBVIOUS
  <2>1. PICK t \in Tracks : PutFrame(t)
    <3>1. ~(Tick \/ NullToReady \/ Stop)
      BY DEF Tick, NullToReady, Stop
    <3>2. \A seconds \in FileStarts : ~SetFileStartTime(seconds)
      BY DEF SetFileStartTime
    <3>3. \A t \in Tracks : ~Drop(t) /\ ~MapFails(t)
      BY DEF Drop, MapFails
    <3>4. QED
      BY <3>1, <3>2, <3>3 DEF Next
  <2>2. u = t
    BY <2>1 DEF PutFrame, TypeOK
  <2>3. last_dts \in Nat /\ dts[u] \in Int /\ dts[u] <= last_dts
    BY DEF TypeOK, Words, NONE
  <2>4. dts' = [dts EXCEPT ![t] = last_dts + FrameDuration]
    BY <1>2, <2>1
  <2>5. dts'[u] = last_dts + FrameDuration
    BY <2>2, <2>4 DEF TypeOK
  <2>6. QED
    BY <2>3, <2>5
<1> HIDE DEF Behind, Room
<1>5. Spec /\ []Room => []Behind
  BY <1>1, <1>3, TimesSound, PTL DEF Spec
<1>6. QED
  BY <1>4, <1>5, TimesSound, PTL DEF Spec, DtsGrows, Room
=============================================================================
