---------------------------- MODULE KvsSinkProofs ----------------------------
(***************************************************************************)
(* Proofs about KvsSink, for any number of streams, tracks and tries.      *)
(***************************************************************************)
EXTENDS KvsSink, TLAPS

USE BoundAssumption, TrackAssumption, RetryAssumption

\* A new element has its types.
LEMMA InitType ==
  ASSUME Init
  PROVE  TypeOK
<1> USE DEF TypeOK, Statuses
<1>1. /\ pic \in [Streams -> {"none", "ready", "stopped", "freed"}]
      /\ reported \in [Streams -> Statuses]
      /\ cpd \in [Streams -> SUBSET Tracks]
  BY DEF Init
<1>2. owners \in SUBSET {"element", "provider"}
  BY DEF Init
<1>3. stream \in 0..MaxStreams /\ retry_count \in 0..TotalRetry
  BY DEF Init
<1>4. /\ announced \in SUBSET Tracks /\ track_cpd_received \in SUBSET Tracks
      /\ track \in Tracks \cup {NoTrack}
  BY DEF Init
<1>5. /\ collecting \in BOOLEAN /\ active \in BOOLEAN /\ finalized \in BOOLEAN
      /\ streaming_type \in {"realtime", "offline"}
      /\ state \in {"NULL", "READY", "PAUSED"}
      /\ app \in {"idle", "producerInit", "createStream", "activatePads",
                    "deactivatePads", "stopSync"}
      /\ flow \in {"ok", "error"} /\ use \in {"new", "played", "replayed"}
      /\ stream_status \in Statuses
      /\ pc \in {"idle", "reset", "clear", "put"}
  BY DEF Init
<1> QED
  BY <1>1, <1>2, <1>3, <1>4, <1>5

\* A step keeps the types; that a stream is created below the bound, and that
\* CAPS find a stream, are parts of SessionInv.
LEMMA TypeStep ==
  ASSUME TypeOK, SessionInv, [Next]_vars
  PROVE  TypeOK'
<1> USE DEF TypeOK, Statuses, appVars, bufferVars, cpdVars
<1>1. CASE NullToReady
  BY <1>1 DEF NullToReady
<1>2. CASE ProducerInit
  <2>1. pic' \in [Streams -> {"none", "ready", "stopped", "freed"}]
    BY <1>2 DEF ProducerInit, Fail, ReplaceProducer
  <2>2. owners' \in SUBSET {"element", "provider"}
    BY <1>2 DEF ProducerInit, Fail, ReplaceProducer
  <2>3. retry_count' \in 0..TotalRetry /\ app' \in {"idle", "createStream"}
    BY <1>2 DEF ProducerInit, Fail
  <2>4. UNCHANGED <<state, collecting, active, streaming_type, pc, track, flow, cpd,
                    announced, track_cpd_received, stream, use, reported, stream_status,
                    finalized>>
    BY <1>2 DEF ProducerInit, Fail
  <2> QED
    BY <2>1, <2>2, <2>3, <2>4
<1>3. CASE CreateStream
  <2>1. stream + 1 \in Streams
    BY <1>3 DEF CreateStream, SessionInv, Streams
  <2>2. stream' \in 0..MaxStreams
    BY <1>3, <2>1 DEF CreateStream, Streams
  <2>3. /\ pic' \in [Streams -> {"none", "ready", "stopped", "freed"}]
        /\ use' \in {"new", "played", "replayed"}
    BY <1>3, <2>1 DEF CreateStream
  <2>4. /\ state' = "READY" /\ app' = "idle" /\ retry_count' = 0
        /\ UNCHANGED <<collecting, active, streaming_type, bufferVars, cpdVars,
                       reported, stream_status, owners, finalized>>
    BY <1>3 DEF CreateStream
  <2>5. retry_count' \in 0..TotalRetry
    BY <2>4
  <2> QED
    BY <2>2, <2>3, <2>4, <2>5
<1>4. CASE CreateStreamFails
  BY <1>4 DEF CreateStreamFails
<1>5. CASE ReadyToPaused
  BY <1>5 DEF ReadyToPaused
<1>6. CASE ActivatePads
  <2>1. use' \in {"new", "played", "replayed"}
    BY <1>6 DEF ActivatePads
  <2>2. announced' \in SUBSET Tracks /\ flow' \in {"ok", "error"}
    BY <1>6 DEF ActivatePads, Fail
  <2>3. state' \in {"READY", "PAUSED", "NULL"} /\ app' = "idle" /\ active' \in BOOLEAN
    BY <1>6 DEF ActivatePads, Fail
  <2> QED
    BY <1>6, <2>1, <2>2, <2>3 DEF ActivatePads, Fail
<1>7. CASE PausedToReady
  BY <1>7 DEF PausedToReady
<1>8. CASE DeactivatePads
  <2>1. active' \in BOOLEAN /\ app' \in {"idle", "stopSync"}
    BY <1>8 DEF DeactivatePads, Fail
  <2>2. UNCHANGED <<state, retry_count, collecting, bufferVars, cpdVars, stream, use,
                    pic, reported, stream_status, owners, finalized, streaming_type>>
    BY <1>8 DEF DeactivatePads, Fail
  <2> QED
    BY <2>1, <2>2
<1>9. CASE StopSync
  <2>1. pic' \in [Streams -> {"none", "ready", "stopped", "freed"}]
    BY <1>9 DEF StopSync
  <2>2. state' = "READY" /\ app' = "idle"
    BY <1>9 DEF StopSync
  <2>3. UNCHANGED <<retry_count, collecting, active, streaming_type, bufferVars,
                    cpdVars, stream, use, reported, stream_status, owners, finalized>>
    BY <1>9 DEF StopSync
  <2> QED
    BY <2>1, <2>2, <2>3
<1>10. CASE ReadyToNull
  BY <1>10 DEF ReadyToNull
<1>11. CASE Finalize
  <2>1. pic' \in [Streams -> {"none", "ready", "stopped", "freed"}]
    BY <1>11 DEF Finalize
  <2> QED
    BY <1>11, <2>1 DEF Finalize
<1>12. CASE HandleBuffer
  BY <1>12 DEF HandleBuffer
<1>13. CASE BufferStep
  <2>1. CASE ResetStream
    <3>1. PICK e \in {reported[stream], "success"} :
            reported' = [reported EXCEPT ![stream] = e]
      BY <2>1 DEF ResetStream
    <3>2. stream \in Streams
      BY <2>1 DEF ResetStream, SessionInv, Alive
    <3>3. reported' \in [Streams -> Statuses]
      BY <3>1, <3>2
    <3> QED
      BY <2>1, <3>3 DEF ResetStream
  <2>2. CASE ClearStatus
    BY <2>2 DEF ClearStatus
  <2>3. CASE PutFrame
    BY <2>3 DEF PutFrame
  <2> QED
    BY <1>13, <2>1, <2>2, <2>3 DEF BufferStep
<1>14. ASSUME NEW t \in Tracks, HandleCaps(t) PROVE TypeOK'
  <2>1. /\ cpd' \in [Streams -> SUBSET Tracks] /\ announced' \in SUBSET Tracks
        /\ flow' \in {"ok", "error"}
    BY <1>14 DEF HandleCaps, Start
  <2>2. track_cpd_received' \in SUBSET Tracks
    BY <1>14 DEF HandleCaps
  <2> QED
    BY <1>14, <2>1, <2>2 DEF HandleCaps
<1>15. ASSUME NEW s \in Streams, NEW status \in {"retriable", "fatal"},
              StreamErrorReport(s, status)
       PROVE  TypeOK'
  <2>1. reported' \in [Streams -> Statuses]
    BY <1>15 DEF StreamErrorReport
  <2>2. stream_status' \in Statuses
    BY <1>15 DEF StreamErrorReport
  <2> QED
    BY <1>15, <2>1, <2>2 DEF StreamErrorReport
<1>16. CASE UNCHANGED vars
  BY <1>16 DEF vars
<1> QED
  BY <1>1, <1>2, <1>3, <1>4, <1>5, <1>6, <1>7, <1>8, <1>9, <1>10, <1>11,
     <1>12, <1>13, <1>14, <1>15, <1>16 DEF Next, ChangeState

\* A step keeps a stream that is alive behind the pads, and only one.
LEMMA SessionStep ==
  ASSUME TypeOK, SessionInv, [Next]_vars
  PROVE  SessionInv'
<1> USE DEF TypeOK, SessionInv, Alive, appVars, bufferVars, cpdVars
<1>1. CASE NullToReady
  BY <1>1 DEF NullToReady
<1>2. CASE ProducerInit
  <2>1. ~active /\ pc = "idle" /\ state' = state /\ state = "NULL"
    BY <1>2 DEF ProducerInit, Fail
  <2>2. Alive' \subseteq Alive
    BY <1>2 DEF ProducerInit, ReplaceProducer
  <2>3. app' = "createStream" => Alive' = {}
    BY <1>2 DEF ProducerInit, ReplaceProducer, Fail
  <2> QED
    BY <1>2, <2>1, <2>2, <2>3 DEF ProducerInit, Fail
<1>3. CASE CreateStream
  <2>1. stream + 1 \in Streams /\ stream' = stream + 1
    BY <1>3 DEF CreateStream, Streams
  <2>2. Alive' = {stream + 1}
    BY <1>3, <2>1 DEF CreateStream
  <2>3. ~active /\ pc = "idle" /\ ~finalized
    BY <1>3 DEF CreateStream
  <2> QED
    BY <1>3, <2>1, <2>2, <2>3 DEF CreateStream
<1>4. CASE CreateStreamFails
  BY <1>4 DEF CreateStreamFails
<1>5. CASE ReadyToPaused
  BY <1>5 DEF ReadyToPaused
<1>6. CASE ActivatePads
  BY <1>6 DEF ActivatePads, Fail
<1>7. CASE PausedToReady
  BY <1>7 DEF PausedToReady
<1>8. CASE DeactivatePads
  BY <1>8 DEF DeactivatePads, Fail
<1>9. CASE StopSync
  <2>1. Alive' = Alive
    BY <1>9 DEF StopSync
  <2> QED
    BY <1>9, <2>1 DEF StopSync
<1>10. CASE ReadyToNull
  BY <1>10 DEF ReadyToNull
<1>11. CASE Finalize
  <2>1. ~active /\ pc = "idle" /\ state = "NULL" /\ app = "idle"
    BY <1>11 DEF Finalize
  <2>2. Alive' \subseteq Alive
    BY <1>11 DEF Finalize
  <2> QED
    BY <1>11, <2>1, <2>2 DEF Finalize
<1>12. CASE HandleBuffer
  BY <1>12 DEF HandleBuffer, Fatal, Statuses
<1>13. CASE BufferStep
  BY <1>13 DEF BufferStep, ResetStream, ClearStatus, PutFrame
<1>14. ASSUME NEW t \in Tracks, HandleCaps(t) PROVE SessionInv'
  BY <1>14 DEF HandleCaps
<1>15. ASSUME NEW s \in Streams, NEW status \in {"retriable", "fatal"},
              StreamErrorReport(s, status)
       PROVE  SessionInv'
  BY <1>15 DEF StreamErrorReport
<1>16. CASE UNCHANGED vars
  BY <1>16 DEF vars
<1> QED
  BY <1>1, <1>2, <1>3, <1>4, <1>5, <1>6, <1>7, <1>8, <1>9, <1>10, <1>11,
     <1>12, <1>13, <1>14, <1>15, <1>16 DEF Next, ChangeState

\* The two together are inductive.
LEMMA SinkInv == Spec => [](TypeOK /\ SessionInv)
<1>1. Init => TypeOK /\ SessionInv
  BY InitType DEF Init, SessionInv, Alive
<1>2. TypeOK /\ SessionInv /\ [Next]_vars => TypeOK' /\ SessionInv'
  BY TypeStep, SessionStep
<1> QED
  BY <1>1, <1>2, PTL DEF Spec

\* The values every variable of kvssink takes.
THEOREM TypeCorrect == Spec => []TypeOK
BY SinkInv, PTL

\* In every state the element has a live stream of the producer, the only one,
\* or neither pads nor buffers that could reach it.
THEOREM SessionsSound == Spec => []SessionInv
BY SinkInv, PTL

\* No handler that runs while the pads are active finds a stream that is null,
\* freed or of an earlier producer.
THEOREM HandlersFindStream == Spec => []StreamUsable
<1>1. SessionInv => StreamUsable
  BY DEF SessionInv, StreamUsable
<1> QED
  BY <1>1, SinkInv, PTL

\* However often the sink is taken down and up, and whatever fails in between,
\* PIC has at most one stream of it.
THEOREM NoStreamLeft == Spec => []OneLiveStream
<1>1. SessionInv => OneLiveStream
  BY DEF SessionInv, OneLiveStream
<1> QED
  BY <1>1, SinkInv, PTL

\* The stream of a sink that was not played before is ready when the pads
\* become active, and stays so until stopSync.
LEMMA ReadyInv == Spec => []ActiveStreamReady
<1>1. Init => ActiveStreamReady
  BY DEF Init, ActiveStreamReady
<1>2. TypeOK /\ SessionInv /\ ActiveStreamReady /\ [Next]_vars => ActiveStreamReady'
  <2> SUFFICES ASSUME TypeOK, SessionInv, ActiveStreamReady, [Next]_vars
               PROVE  ActiveStreamReady'
    OBVIOUS
  <2> USE DEF ActiveStreamReady, appVars, bufferVars, cpdVars
  <2>1. CASE NullToReady
    BY <2>1 DEF NullToReady
  <2>2. CASE ProducerInit
    BY <2>2 DEF ProducerInit, Fail, SessionInv
  <2>3. CASE CreateStream
    <3>1. stream + 1 \in Streams
      BY <2>3 DEF CreateStream, SessionInv, TypeOK, Streams
    <3>2. pic'[stream'] = "ready"
      BY <2>3, <3>1 DEF CreateStream, TypeOK
    <3>3. state' = "READY"
      BY <2>3 DEF CreateStream
    <3> QED
      BY <3>2, <3>3
  <2>4. CASE CreateStreamFails
    BY <2>4 DEF CreateStreamFails, SessionInv
  <2>5. CASE ReadyToPaused \/ PausedToReady \/ ReadyToNull
    BY <2>5 DEF ReadyToPaused, PausedToReady, ReadyToNull
  <2>6. CASE ActivatePads
    BY <2>6 DEF ActivatePads, Fail, SessionInv, TypeOK
  <2>7. CASE DeactivatePads
    BY <2>7 DEF DeactivatePads, Fail, SessionInv
  <2>8. CASE StopSync
    BY <2>8 DEF StopSync, SessionInv
  <2>9. CASE Finalize
    BY <2>9 DEF Finalize, SessionInv
  <2>10. CASE HandleBuffer
    BY <2>10 DEF HandleBuffer
  <2>11. CASE BufferStep
    BY <2>11 DEF BufferStep, ResetStream, ClearStatus, PutFrame
  <2>12. ASSUME NEW t \in Tracks, HandleCaps(t) PROVE ActiveStreamReady'
    BY <2>12 DEF HandleCaps
  <2>13. ASSUME NEW s \in Streams, NEW status \in {"retriable", "fatal"},
                StreamErrorReport(s, status)
         PROVE  ActiveStreamReady'
    BY <2>13 DEF StreamErrorReport
  <2>14. CASE UNCHANGED vars
    BY <2>14 DEF vars
  <2> QED
    BY <2>1, <2>2, <2>3, <2>4, <2>5, <2>6, <2>7, <2>8, <2>9, <2>10, <2>11,
       <2>12, <2>13, <2>14 DEF Next, ChangeState
<1> QED
  BY <1>1, <1>2, SinkInv, PTL DEF Spec

\* Until the sink is played again without NULL in between, no frame is put into,
\* and no reset made of, a stopped stream.
THEOREM PutsBeforeStop == Spec => []NoPutAfterStop
<1>1. TypeOK /\ SessionInv /\ ActiveStreamReady => NoPutAfterStop
  BY DEF TypeOK, SessionInv, ActiveStreamReady, NoPutAfterStop
<1> QED
  BY <1>1, SinkInv, ReadyInv, PTL

\* Offline, no step of any thread makes the sink forget an error.
THEOREM OfflineErrorsStick == Spec => OfflineErrorSticks
<1>1. ASSUME TypeOK, SessionInv, [Next]_vars,
             streaming_type = "offline", stream_status # "success"
      PROVE  stream_status' # "success"
  <2> USE <1>1 DEF appVars, bufferVars, cpdVars
  <2>1. CASE ChangeState
    BY <2>1 DEF ChangeState, ProducerInit, CreateStream, CreateStreamFails,
                ActivatePads, DeactivatePads, StopSync
  <2>2. CASE NullToReady \/ ReadyToPaused \/ PausedToReady \/ ReadyToNull \/ Finalize
    BY <2>2 DEF NullToReady, ReadyToPaused, PausedToReady, ReadyToNull, Finalize
  <2>3. CASE HandleBuffer
    BY <2>3 DEF HandleBuffer
  <2>4. CASE BufferStep
    BY <2>4 DEF BufferStep, ResetStream, ClearStatus, PutFrame, SessionInv
  <2>5. ASSUME NEW t \in Tracks, HandleCaps(t) PROVE stream_status' # "success"
    BY <2>5 DEF HandleCaps
  <2>6. ASSUME NEW s \in Streams, NEW status \in {"retriable", "fatal"},
               StreamErrorReport(s, status)
        PROVE  stream_status' # "success"
    BY <2>6 DEF StreamErrorReport
  <2>7. CASE UNCHANGED vars
    BY <2>7 DEF vars
  <2> QED
    BY <2>1, <2>2, <2>3, <2>4, <2>5, <2>6, <2>7 DEF Next
<1>2. TypeOK /\ SessionInv /\ [Next]_vars =>
        [streaming_type = "offline" /\ stream_status # "success"
           => stream_status' # "success"]_vars
  BY <1>1
<1> QED
  BY <1>2, SinkInv, PTL DEF Spec, OfflineErrorSticks

------------------------------------------------------------------------------
(* Codec private data *)

\* No codec data was seen before the pads became active over the first stream;
\* from then on PIC has what the sink recorded, and what upstream announced,
\* unless a refused start has ended the flow.  The buffer that was being handled
\* when it ended is of a track whose data had come.
CpdInv ==
  /\ stream = 0 \/ (stream = 1 /\ use = "new") => track_cpd_received = {}
  /\ stream = 1 /\ use = "played" =>
       /\ flow = "ok" => track_cpd_received \cup announced \subseteq cpd[1]
       /\ pc # "idle" /\ track \in announced => track \in cpd[1]

\* CpdInv is inductive.
LEMMA CpdStep ==
  ASSUME TypeOK, SessionInv, ActiveStreamReady, CpdInv, [Next]_vars
  PROVE  CpdInv'
<1> USE DEF CpdInv, appVars, bufferVars, cpdVars
<1>1. CASE NullToReady \/ ReadyToPaused \/ PausedToReady \/ ReadyToNull \/ Finalize
  BY <1>1 DEF NullToReady, ReadyToPaused, PausedToReady, ReadyToNull, Finalize
<1>2. CASE ProducerInit \/ CreateStreamFails \/ DeactivatePads \/ StopSync
  BY <1>2 DEF ProducerInit, CreateStreamFails, DeactivatePads, StopSync, Fail
<1>3. CASE CreateStream
  BY <1>3 DEF CreateStream, TypeOK
<1>4. CASE ActivatePads
  BY <1>4 DEF ActivatePads, Fail, SessionInv, TypeOK
<1>5. CASE HandleBuffer
  BY <1>5 DEF HandleBuffer
<1>6. CASE BufferStep
  BY <1>6 DEF BufferStep, ResetStream, ClearStatus, PutFrame
<1>7. ASSUME NEW t \in Tracks, HandleCaps(t) PROVE CpdInv'
  <2>1. active /\ t # track /\ UNCHANGED <<stream, use, pc, track>>
    BY <1>7 DEF HandleCaps
  <2>2. stream \in Streams /\ use # "new"
    BY <2>1 DEF SessionInv, ActiveStreamReady, Alive
  <2>3. SUFFICES ASSUME stream = 1, use = "played"
                 PROVE  CpdInv'
    BY <2>1, <2>2 DEF Streams, TypeOK
  <2>4. /\ announced' \in {announced, announced \cup {t}}
        /\ cpd[1] \subseteq cpd'[1]
    BY <1>7, <2>2, <2>3 DEF HandleCaps, Start, TypeOK
  <2>5. flow' = "ok" => track_cpd_received' \cup announced' \subseteq cpd'[1]
    BY <1>7, <2>2, <2>3, <2>4 DEF HandleCaps, Start, TypeOK
  <2> QED
    BY <2>1, <2>3, <2>4, <2>5
<1>8. ASSUME NEW s \in Streams, NEW status \in {"retriable", "fatal"},
             StreamErrorReport(s, status)
      PROVE  CpdInv'
  BY <1>8 DEF StreamErrorReport
<1>9. CASE UNCHANGED vars
  BY <1>9 DEF vars
<1> QED
  BY <1>1, <1>2, <1>3, <1>4, <1>5, <1>6, <1>7, <1>8, <1>9 DEF Next, ChangeState

\* Before the sink is played a second time, no frame of a track goes into the
\* stream ahead of the codec data that its CAPS brought, whatever CAPS of other
\* tracks are refused and whenever they interleave with the buffer.
THEOREM CpdBeforeFrames == Spec => []CpdReachesFirstStream
<1>1. Init => CpdInv
  BY DEF Init, CpdInv
<1>2. TypeOK /\ SessionInv /\ ActiveStreamReady /\ CpdInv /\ [Next]_vars => CpdInv'
  BY CpdStep
<1>3. CpdInv => CpdReachesFirstStream
  BY DEF CpdInv, CpdReachesFirstStream
<1> QED
  BY <1>1, <1>2, <1>3, SinkInv, ReadyInv, PTL DEF Spec
==============================================================================
