-------------------------- MODULE FileUploadProofs --------------------------
(***************************************************************************)
(* Proofs about FileUpload, for any files and live source whose frames are *)
(* in order (WellFormed), any number of retries and of errors, and any     *)
(* interleaving of the three threads.                                      *)
(***************************************************************************)
EXTENDS FileUpload, SequenceTheorems, TLAPS

------------------------------------------------------------------------------
(* The inductive invariant *)

Up == session \in {"open", "closing"}

\* This pass is through with file f: it ended, was cut short or was left out
\* because it had been persisted before.
Done(f) ==
  /\ pc \notin {"setup", "reset", "round"}
  /\ \/ pc \in {"retry", "cleanup", "end"}
     \/ f < idx
     \/ f = idx /\ (pc \in {"check", "stopSync"} \/ pipe = "eos")

\* No file of this pass was cut short.
Uncut == \A f \in Indices : Done(f) /\ f >= last_unpersisted_file_idx => f \notin cut

\* Where the threads, the pipeline and the session stand at each label of main.
ControlInv ==
  /\ source # "file" => pc \in {"setup", "open", "play", "run", "live", "cleanup", "end"}
  /\ source = "file" => pc # "live"
  /\ pos >= 1
  /\ pipe # "none" <=> pc \in {"play", "run"}
  /\ main_loop # "null" <=> pc = "run"
  /\ source = "file" /\ pc \in {"open", "play", "run", "check", "stopSync"} =>
       idx = current_file_idx /\ idx \in Indices
  /\ pc = "stopSync" => idx = NFiles /\ session \in {"closing", "down"}
  /\ session = "closing" => pc = "stopSync"
  /\ pc = "setup" => session = "none" /\ ~quitting /\ pipe = "none" /\ pos = 1
  /\ bus_error => pipe = "error"
  /\ file_retry_count = 0 => pc \in {"cleanup", "end"}
  /\ session = "none" => pc \in {"setup", "end"}
  /\ pc = "open" /\ source # "file" => fragments = <<>> /\ pos = 1
  /\ pc \in {"setup", "reset", "round"} => fragments = <<>> /\ received = 0 /\ acked = 0
  /\ Up /\ pc # "reset" => stream_status = "success"
  /\ pc \in {"files", "open", "play", "run", "check"} /\ source = "file"
       /\ ~continue_uploading => pc = "files" /\ session = "down"
  /\ source = "file" /\ Up =>
       /\ pipe = "error" => idx \in cut
       /\ main_loop = "quit" => pipe \in {"eos", "error"}
       /\ ~quitting
  /\ outcome = "persisted" =>
       /\ pc \in {"files", "cleanup", "end"}
       /\ pc = "files" => idx = NFiles + 1 /\ ~do_retry

\* How far the session is acknowledged: never into the fragment still filled.
AckInv ==
  /\ acked <= received /\ received <= Len(fragments)
  /\ session = "open" /\ fragments # <<>> => received < Len(fragments)
  /\ \A j \in 1..acked : fragments[j].frames \subseteq persisted

\* What is added to the pts of a sample.
Offset ==
  IF source = "file" THEN base_pts + ProducerStartTime ELSE ProducerStartTime - first_pts

\* Fragment j has frames of the samples the pipeline has delivered ...
Within(j) ==
  \E i, n \in PutSamples(Samples) :
    /\ i < pos /\ n < pos /\ Samples[i].key
    /\ fragments[j].ts = Samples[i].pts + Offset
    /\ fragments[j].last = Samples[n].pts + Offset

\* ... or ends a millisecond before the file begins.
Before(j) == fragments[j].last + TicksPerMs <= base_pts + ProducerStartTime

\* The time line: nothing was put or noted behind the greatest pts so far.
BaseInv ==
  /\ pc = "setup" => base_pts = 0 /\ max_frame_pts = 0
  /\ source = "file" =>
    /\ \A j \in 1..Len(fragments) :
         /\ fragments[j].ts <= fragments[j].last
         /\ fragments[j].last <= base_pts + max_frame_pts + ProducerStartTime
    /\ key_frame_pts <= base_pts + max_frame_pts + ProducerStartTime
    /\ \A f \in Indices :
         last_fragment_ts[f] = 0
         \/ last_fragment_ts[f] + TicksPerMs <= base_pts + ProducerStartTime

\* A live stream counts from its first key frame.
LiveInv ==
  source # "file" =>
    /\ first_pts = NoPts => \A k \in PutSamples(LiveSamples) : k >= pos
    /\ first_pts # NoPts =>
         \E i \in PutSamples(LiveSamples) :
           /\ i < pos /\ LiveSamples[i].key /\ LiveSamples[i].pts = first_pts
           /\ \A k \in PutSamples(LiveSamples) : k >= i
    /\ pipe = "playing" => \A j \in 1..Len(fragments) : Within(j)

\* What has become of the samples delivered so far.
FillInv ==
  /\ pipe = "playing" /\ session = "open" =>
       /\ (\E k \in PutSamples(Samples) : k < pos) =>
            /\ fragments # <<>> /\ Within(Len(fragments))
            /\ source = "file" => key_frame_pts = fragments[Len(fragments)].ts
       /\ source = "file" =>
            \A k \in PutSamples(Samples) :
              k < pos => \E j \in 1..Len(fragments) : <<idx, k>> \in fragments[j].frames
  /\ source = "file" /\ Up /\ pc # "end" /\ Uncut /\ pipe # "error" =>
       \A j \in 1..Len(fragments) : Before(j) \/ (pipe = "playing" /\ Within(j))

\* The fragments of an uncut pass follow one another, a millisecond apart.
OrderInv ==
  (source = "file" => Uncut) =>
    \A j, k \in 1..Len(fragments) :
      j < k => /\ fragments[j].ts + TicksPerMs <= fragments[k].ts
               /\ ClosedFragments => fragments[j].last < fragments[k].ts

\* last_fragment_ts[f] names the last fragment of f, which holds, with those
\* before it, all frames of f.
Sent(f) ==
  \E k \in 1..Len(fragments) :
    /\ fragments[k].ts = last_fragment_ts[f]
    /\ \A j \in 1..(k - 1) : fragments[j].ts + TicksPerMs <= last_fragment_ts[f]
    /\ \A x \in FramesOf(f) : \E j \in 1..k : x \in fragments[j].frames
    /\ f = NFiles => k = Len(fragments)

\* A timestamp left by an earlier session is before all of this one.
Stale(f) ==
  last_fragment_ts[f] = 0
  \/ \A j \in 1..Len(fragments) : last_fragment_ts[f] + TicksPerMs <= fragments[j].ts

\* What is known of a file that is not counted yet, while a session is up.
Tells(f) ==
  /\ ~Done(f) \/ f \in cut => Stale(f)
  /\ Done(f) /\ f \notin cut =>
       \A x \in FramesOf(f) : \E j \in 1..Len(fragments) : x \in fragments[j].frames
  /\ Done(f) /\ (\A g \in last_unpersisted_file_idx..f : g \notin cut) => Sent(f)

SentInv ==
  source = "file" =>
    /\ pc \notin {"setup", "reset", "round"} =>
         \A f \in Indices : f < last_unpersisted_file_idx => Done(f)
    /\ Up /\ pc # "end" =>
         \A f \in Indices : f >= last_unpersisted_file_idx => Tells(f)

UploadInv ==
  /\ ControlInv /\ AckInv /\ BaseInv /\ LiveInv /\ FillInv /\ OrderInv /\ SentInv
  /\ PersistedFilesComplete /\ AckWithinList /\ ReportedFilesPersisted
------------------------------------------------------------------------------
(* The proofs *)

\* What the constants are.
LEMMA Constants ==
  /\ NFiles \in Nat /\ Retries \in Nat \ {0} /\ MaxErrors \in Nat
  /\ ProducerStartTime \in Nat \ {0} /\ TicksPerMs \in Nat \ {0}
  /\ \A f \in Indices : Files[f] \in Seq(Sample)
  /\ LiveSamples \in Seq(Sample)
BY FileAssumption, CountAssumption, TimeAssumption DEF NFiles, Indices

\* Timestamps a millisecond apart are of different milliseconds.
LEMMA MsApart ==
  ASSUME NEW a \in Nat, NEW b \in Nat, a + TicksPerMs <= b
  PROVE  InMs(a) # InMs(b)
<1>1. TicksPerMs \in Nat /\ TicksPerMs > 0
  BY TimeAssumption
<1> DEFINE p == TicksPerMs * InMs(a)
           q == TicksPerMs * InMs(b)
<1>2. p \in Int /\ q \in Int /\ a < p + TicksPerMs /\ q <= b /\ p <= a /\ b < q + TicksPerMs
  BY <1>1 DEF InMs
<1>3. p # q
  <2> HIDE DEF p, q
  <2> QED BY <1>1, <1>2
<1> QED BY <1>3

LEMMA MsZero == InMs(0) = 0
BY TimeAssumption DEF InMs

\* The greater of two numbers.
LEMMA MaxOfTwo ==
  ASSUME NEW a \in Nat, NEW b \in Nat
  PROVE  /\ Max({a, b}) \in Nat /\ Max({a, b}) >= a /\ Max({a, b}) >= b
         /\ Max({a, b}) = a \/ Max({a, b}) = b
<1>1. \E x \in {a, b} : \A y \in {a, b} : x >= y
  <2>1. CASE a >= b
    BY <2>1
  <2>2. CASE b >= a
    BY <2>2
  <2> QED BY <2>1, <2>2
<1>2. Max({a, b}) \in {a, b} /\ \A y \in {a, b} : Max({a, b}) >= y
  BY <1>1 DEF Max
<1> QED BY <1>2

LEMMA ControlInit == Init => ControlInv
BY Constants DEF Init, ControlInv, Up

\* Each step of a thread keeps to the labels of main.
LEMMA ControlStep == TypeOK /\ ControlInv /\ Next => ControlInv'
<1> SUFFICES ASSUME TypeOK, ControlInv, Next PROVE ControlInv'
  OBVIOUS
<1> USE DEF ControlInv, Up
<1>0. NFiles \in Nat
  BY Constants
<1>1. CASE Setup
  BY <1>0, <1>1 DEF TypeOK, Setup, KinesisVideoInit, KinesisVideoStreamInit,
     fileVars, loopVars, pipeVars, ackVars, ptsVars
<1>2. CASE StartRound
  BY <1>0, <1>2 DEF TypeOK, StartRound, fileVars, loopVars, pipeVars, ackVars, ptsVars
<1>3. CASE NextFile
  BY <1>0, <1>3 DEF TypeOK, NextFile, Indices, loopVars, pipeVars, ackVars, ptsVars
<1>4. CASE OpenPipeline
  BY <1>0, <1>4 DEF TypeOK, OpenPipeline, fileVars, loopVars, ackVars
<1>5. CASE MakeLoop
  BY <1>0, <1>5 DEF TypeOK, MakeLoop, fileVars, pipeVars, ackVars, ptsVars
<1>6. CASE RunLoop
  BY <1>0, <1>6 DEF TypeOK, RunLoop, mainVars, fileVars, pipeVars, ackVars, ptsVars
<1>7. CASE ErrorCb
  BY <1>0, <1>7 DEF TypeOK, ErrorCb, QuitLoop, mainVars, fileVars, ackVars, ptsVars
<1>8. CASE LeaveLoop
  BY <1>0, <1>8 DEF TypeOK, LeaveLoop, fileVars, ackVars, ptsVars
<1>9. CASE CheckFile
  BY <1>0, <1>9 DEF TypeOK, CheckFile, fileVars, loopVars, pipeVars, ackVars, ptsVars
<1>10. ASSUME NEW ok \in BOOLEAN, StopSync(ok) PROVE ControlInv'
  BY <1>0, <1>10 DEF TypeOK, StopSync, fileVars, loopVars, pipeVars, ackVars, ptsVars
<1>11. CASE Retry
  BY <1>0, <1>11 DEF TypeOK, Retry, RetriesLeft, fileVars, loopVars, pipeVars, ackVars, ptsVars
<1>12. CASE ResetState
  BY <1>0, <1>12 DEF TypeOK, ResetState, fileVars, loopVars, pipeVars, ackVars, ptsVars
<1>13. CASE StopLive
  BY <1>0, <1>13 DEF TypeOK, StopLive, fileVars, loopVars, pipeVars, ackVars, ptsVars
<1>14. CASE CleanUp
  BY <1>0, <1>14 DEF TypeOK, CleanUp, fileVars, loopVars, pipeVars, ackVars, ptsVars
<1>15. CASE OnNewSample
  BY <1>0, <1>15 DEF TypeOK, OnNewSample, mainVars, fileVars, loopVars
<1>16. CASE EosCb
  BY <1>0, <1>16 DEF TypeOK, EosCb, QuitLoop, mainVars, ackVars
<1>17. CASE GstError
  BY <1>0, <1>17 DEF TypeOK, GstError, mainVars, fileVars, loopVars, ackVars, ptsVars
<1>18. CASE HandlerQuits
  BY <1>0, <1>18 DEF TypeOK, HandlerQuits, QuitLoop, mainVars, fileVars, pipeVars, ackVars, ptsVars
<1>19. ASSUME NEW kind \in {"retriable", "recoverable", "fatal"}, StreamError(kind)
       PROVE  ControlInv'
  BY <1>0, <1>19 DEF TypeOK, StreamError, Terminates, mainVars, fileVars, pipeVars, ackVars, ptsVars
<1>20. ASSUME NEW type \in {"RECEIVED", "PERSISTED"}, FragmentAck(type)
       PROVE  ControlInv'
  BY <1>0, <1>20 DEF TypeOK, FragmentAck, Complete, mainVars, loopVars, pipeVars, ptsVars
<1> QED
  BY <1>1, <1>2, <1>3, <1>4, <1>5, <1>6, <1>7, <1>8, <1>9, <1>10, <1>11, <1>12, <1>13, <1>14,
     <1>15, <1>16, <1>17, <1>18, <1>19, <1>20 DEF Next, Main, Streaming

\* The steps that touch neither the time line nor what the session holds.
Still ==
  UNCHANGED <<source, fragments, received, acked, persisted, last_unpersisted_file_idx,
              last_fragment_ts, base_pts, max_frame_pts, key_frame_pts>>

\* ... nor start a session or a pipeline.
Quiet ==
  /\ Still /\ UNCHANGED <<pos, first_pts>>
  /\ pc' = "setup" => pc = "setup"
  /\ (session' = "open" => session = "open") /\ (Up' => Up)
  /\ pipe' = "playing" => pipe = "playing" /\ UNCHANGED <<idx, current_file_idx>>

\* All but six steps are quiet.
QuietStep ==
  \/ StartRound \/ NextFile \/ MakeLoop \/ RunLoop \/ ErrorCb \/ LeaveLoop \/ CheckFile
  \/ (\E ok \in BOOLEAN : StopSync(ok)) \/ ResetState \/ StopLive \/ CleanUp
  \/ GstError \/ HandlerQuits
  \/ \E kind \in {"retriable", "recoverable", "fatal"} : StreamError(kind)

LEMMA StepKinds ==
  ASSUME Next
  PROVE  \/ Setup \/ OpenPipeline \/ OnNewSample \/ EosCb \/ Retry
         \/ \E type \in {"RECEIVED", "PERSISTED"} : FragmentAck(type)
         \/ QuietStep
BY DEF Next, Main, Streaming, QuietStep

LEMMA QuietSteps ==
  ASSUME ControlInv, QuietStep
  PROVE  Quiet
<1> USE DEF Quiet, Still, Up, mainVars, fileVars, loopVars, pipeVars, ackVars, ptsVars
<1>0. pc \in {"round", "files", "check", "stopSync"} => pipe = "none"
  BY DEF ControlInv
<1>1. StartRound \/ NextFile \/ MakeLoop \/ RunLoop => Quiet
  BY <1>0 DEF StartRound, NextFile, MakeLoop, RunLoop
<1>2. ErrorCb \/ ResetState \/ StopLive \/ CleanUp => Quiet
  BY DEF ErrorCb, ResetState, StopLive, CleanUp
<1>3. LeaveLoop \/ GstError => Quiet
  BY DEF LeaveLoop, GstError
<1>4. CheckFile \/ (\E ok \in BOOLEAN : StopSync(ok)) => Quiet
  BY <1>0 DEF CheckFile, StopSync
<1>5. HandlerQuits \/ (\E kind \in {"retriable", "recoverable", "fatal"} : StreamError(kind)) =>
        Quiet
  BY DEF HandlerQuits, StreamError
<1> QED
  BY <1>1, <1>2, <1>3, <1>4, <1>5 DEF QuietStep

\* What such a step does to the files of the pass: it begins one, or leaves them
\* alone, or cuts short the one that plays, or leaves the one cut short.
PassKept ==
  /\ pc' \notin {"setup", "reset", "round"} =>
       \A f \in Indices : f < last_unpersisted_file_idx => Done(f)'
  /\ Up' /\ pc' # "end" => Up /\ pc # "end"
  /\ \/ /\ fragments = <<>>
        /\ \A f \in Indices : Done(f)' => f < last_unpersisted_file_idx
     \/ /\ \A f \in Indices : Done(f) => Done(f)'
        /\ cut \subseteq cut'
        /\ Up' /\ pc' # "end" =>
             \/ /\ cut' = cut /\ \A f \in Indices : Done(f)' => Done(f)
                /\ pipe' # pipe => pipe \notin {"playing", "error"}
             \/ /\ idx \in Indices /\ ~Done(idx) /\ idx \in cut'
                /\ pipe' = "error" \/ \A f \in Indices : f = idx => Done(f)'
                /\ \A f \in Indices : f # idx => (Done(f)' => Done(f))
                /\ \A f \in Indices : f # idx => (f \in cut' => f \in cut)

LEMMA PassStep ==
  ASSUME TypeOK, ControlInv, SentInv, source = "file", QuietStep \/ OpenPipeline
  PROVE  PassKept
<1> USE DEF ControlInv, Up, Done, PassKept
<1>0. /\ NFiles \in Nat /\ Indices = 1..NFiles
      /\ idx \in 1..(NFiles + 1) /\ last_unpersisted_file_idx \in 1..(NFiles + 1)
  BY Constants DEF Indices, TypeOK
<1>s. pc \notin {"setup", "reset", "round"} =>
        \A f \in Indices : f < last_unpersisted_file_idx => Done(f)
  BY DEF SentInv
<1>1. CASE StartRound
  BY <1>0, <1>1 DEF StartRound, ResumeFile, fileVars, loopVars, pipeVars, ackVars, ptsVars
<1>2. CASE NextFile
  BY <1>0, <1>s, <1>2 DEF NextFile, loopVars, pipeVars, ackVars, ptsVars
<1>3. CASE OpenPipeline
  BY <1>0, <1>s, <1>3 DEF OpenPipeline, fileVars, loopVars, ackVars
<1>4. CASE MakeLoop \/ RunLoop \/ ErrorCb
  BY <1>0, <1>s, <1>4 DEF MakeLoop, RunLoop, ErrorCb, QuitLoop, mainVars, fileVars, pipeVars, ackVars, ptsVars
<1>5. CASE LeaveLoop
  BY <1>0, <1>s, <1>5 DEF LeaveLoop, fileVars, ackVars, ptsVars
<1>6. CASE CheckFile
  BY <1>0, <1>s, <1>6 DEF CheckFile, fileVars, loopVars, pipeVars, ackVars, ptsVars
<1>7. ASSUME NEW ok \in BOOLEAN, StopSync(ok) PROVE PassKept
  BY <1>0, <1>s, <1>7 DEF StopSync, fileVars, loopVars, pipeVars, ackVars, ptsVars
<1>8. CASE ResetState
  BY <1>0, <1>8 DEF ResetState, fileVars, loopVars, pipeVars, ackVars, ptsVars
<1>9. CASE StopLive \/ CleanUp
  BY <1>0, <1>s, <1>9 DEF StopLive, CleanUp, fileVars, loopVars, pipeVars, ackVars, ptsVars
<1>10. CASE GstError
  BY <1>0, <1>s, <1>10 DEF GstError, mainVars, fileVars, loopVars, ackVars, ptsVars
<1>11. CASE HandlerQuits
  BY <1>0, <1>s, <1>11 DEF HandlerQuits, QuitLoop, mainVars, fileVars, pipeVars, ackVars, ptsVars
<1>12. ASSUME NEW kind \in {"retriable", "recoverable", "fatal"}, StreamError(kind)
       PROVE  PassKept
  BY <1>0, <1>s, <1>12 DEF StreamError, mainVars, fileVars, pipeVars, ackVars, ptsVars
<1> QED
  BY <1>1, <1>2, <1>3, <1>4, <1>5, <1>6, <1>7, <1>8, <1>9, <1>10, <1>11, <1>12
     DEF QuietStep

\* A pass that is uncut has been so all along.
LEMMA PassUncut ==
  ASSUME PassKept, last_unpersisted_file_idx' = last_unpersisted_file_idx, Uncut'
  PROVE  fragments = <<>> \/ Uncut
BY DEF PassKept, Uncut

------------------------------------------------------------------------------
(* A sample is put *)

Fragment == [ts : Nat, last : Nat, frames : SUBSET (Nat \X Nat)]

\* G is F and a last fragment that frame x begins.
Begins(F, G, ts, x) ==
  /\ Len(G) = Len(F) + 1
  /\ \A j \in 1..Len(F) : G[j] = F[j]
  /\ G[Len(G)].ts = ts /\ G[Len(G)].last = ts /\ G[Len(G)].frames = {x}

\* G is F with frame x in its last fragment.
Continues(F, G, ts, x) ==
  /\ Len(F) \in 1..Len(G) /\ Len(G) = Len(F)
  /\ \A j \in 1..(Len(F) - 1) : G[j] = F[j]
  /\ G[Len(F)].ts = F[Len(F)].ts
  /\ G[Len(F)].frames = F[Len(F)].frames \cup {x}
  /\ G[Len(F)].last >= F[Len(F)].last /\ G[Len(F)].last >= ts
  /\ G[Len(F)].last = F[Len(F)].last \/ G[Len(F)].last = ts

LEMMA AppendBegins ==
  ASSUME NEW F \in Seq(Fragment), NEW ts \in Nat, NEW x \in Nat \X Nat, NEW G,
         G = Append(F, [ts |-> ts, last |-> ts, frames |-> {x}])
  PROVE  G \in Seq(Fragment) /\ Begins(F, G, ts, x)
<1> DEFINE r == [ts |-> ts, last |-> ts, frames |-> {x}]
<1>1. r \in Fragment /\ r.ts = ts /\ r.last = ts /\ r.frames = {x}
  BY DEF Fragment
<1> HIDE DEF r
<1>2. G = Append(F, r)
  BY DEF r
<1>3. G \in Seq(Fragment) /\ Len(G) = Len(F) + 1 /\ G[Len(G)] = r
  BY <1>1, <1>2
<1>4. \A j \in 1..Len(F) : G[j] = F[j]
  BY <1>1, <1>2
<1> QED
  BY <1>1, <1>3, <1>4 DEF Begins

LEMMA Grown ==
  ASSUME NEW F \in Seq(Fragment), NEW G \in Seq(Fragment), NEW ts, NEW x,
         Begins(F, G, ts, x) \/ Continues(F, G, ts, x)
  PROVE  /\ Len(F) \in Nat /\ Len(G) \in Nat /\ Len(F) <= Len(G) /\ Len(G) >= 1
         /\ \A j \in 1..(Len(F) - 1) : G[j] = F[j]
         /\ \A j \in 1..Len(F) : G[j].ts = F[j].ts /\ F[j].frames \subseteq G[j].frames
         /\ x \in G[Len(G)].frames
<1>1. Len(F) \in Nat /\ Len(G) \in Nat
  BY LenProperties
<1>2. CASE Begins(F, G, ts, x)
  BY <1>1, <1>2 DEF Begins
<1>3. CASE Continues(F, G, ts, x)
  <2>1. /\ Len(G) = Len(F) /\ Len(G) >= 1 /\ G[Len(F)].ts = F[Len(F)].ts
        /\ G[Len(F)].frames = F[Len(F)].frames \cup {x}
        /\ \A j \in 1..(Len(F) - 1) : G[j] = F[j]
    BY <1>1, <1>3 DEF Continues
  <2>2. \A j \in 1..Len(F) : j \in 1..(Len(F) - 1) \/ j = Len(F)
    BY <1>1
  <2> QED
    BY <1>1, <2>1, <2>2
<1> QED
  BY <1>2, <1>3

LEMMA LastReplaced ==
  ASSUME NEW S, NEW F \in Seq(S), NEW n \in Nat, n = Len(F), n >= 1, NEW r \in S
  PROVE  /\ [F EXCEPT ![n] = r] \in Seq(S) /\ Len([F EXCEPT ![n] = r]) = n
         /\ [F EXCEPT ![n] = r][n] = r
         /\ \A j \in 1..(n - 1) : [F EXCEPT ![n] = r][j] = F[j]
<1>1. n \in 1..Len(F)
  OBVIOUS
<1>2. /\ [F EXCEPT ![n] = r] \in Seq(S) /\ Len([F EXCEPT ![n] = r]) = Len(F)
      /\ \A j \in 1..Len(F) : [F EXCEPT ![n] = r][j] = IF j = n THEN r ELSE F[j]
  BY <1>1, ExceptSeq
<1>3. \A j \in 1..(n - 1) : j \in 1..Len(F) /\ j # n
  OBVIOUS
<1> QED
  BY <1>1, <1>2, <1>3

LEMMA ExceptContinues ==
  ASSUME NEW F \in Seq(Fragment), F # <<>>, NEW ts \in Nat, NEW x \in Nat \X Nat, NEW G,
         G = [F EXCEPT ![Len(F)].frames = @ \cup {x}, ![Len(F)].last = Max({@, ts})]
  PROVE  G \in Seq(Fragment) /\ Continues(F, G, ts, x)
<1> DEFINE n == Len(F)
           r == [F[n] EXCEPT !.frames = @ \cup {x}, !.last = Max({@, ts})]
<1>1. n \in Nat /\ n >= 1 /\ n \in 1..n /\ F[n] \in Fragment
  BY EmptySeq, LenProperties, ElementOfSeq
<1>2. F[n].last \in Nat /\ F[n].ts \in Nat /\ F[n].frames \in SUBSET (Nat \X Nat)
  BY <1>1 DEF Fragment
<1>3. Max({F[n].last, ts}) \in Nat
  BY <1>2, MaxOfTwo
<1>4. /\ r \in Fragment /\ r.ts = F[n].ts /\ r.frames = F[n].frames \cup {x}
      /\ r.last = Max({F[n].last, ts})
  BY <1>1, <1>2, <1>3 DEF Fragment
<1>5. G = [F EXCEPT ![n] = r]
  BY <1>1
<1> HIDE DEF n, r
<1>6. n = Len(F)
  BY DEF n
<1>7. /\ G \in Seq(Fragment) /\ Len(G) = n /\ G[n] = r
      /\ \A j \in 1..(n - 1) : G[j] = F[j]
  <2>1. n \in Nat /\ n >= 1
    BY <1>1
  <2> QED
    BY ONLY F \in Seq(Fragment), <2>1, <1>4, <1>5, <1>6, LastReplaced
<1>9. r.last >= F[n].last /\ r.last >= ts /\ (r.last = F[n].last \/ r.last = ts)
  BY <1>2, <1>4, MaxOfTwo
<1> QED
  BY <1>1, <1>4, <1>6, <1>7, <1>9 DEF Continues

\* What the pipeline delivers while it plays.
LEMMA Playing ==
  ASSUME TypeOK, ControlInv, WellFormed, pipe = "playing"
  PROVE  /\ Samples \in Seq(Sample) /\ InOrder(Samples)
         /\ source = "file" =>
              /\ idx = current_file_idx /\ idx \in Indices
              /\ Samples = Files[idx] /\ PutSamples(Samples) # {}
<1>1. source = "file" => idx = current_file_idx /\ idx \in Indices
  BY DEF ControlInv
<1>2. CASE source = "file"
  BY <1>1, <1>2, Constants DEF Samples, WellFormed
<1>3. CASE source # "file"
  BY <1>3, Constants DEF Samples, WellFormed
<1> QED
  BY <1>2, <1>3

LEMMA SampleFacts ==
  ASSUME NEW samples \in Seq(Sample)
  PROVE  /\ Len(samples) \in Nat
         /\ \A k \in PutSamples(samples) :
              /\ k \in 1..Len(samples) /\ k \in Nat
              /\ samples[k].pts \in Nat /\ samples[k].key \in BOOLEAN
<1>1. \A k \in 1..Len(samples) : samples[k] \in Sample
  BY ElementOfSeq
<1> QED
  BY <1>1, LenProperties DEF PutSamples, Sample

\* The first sample that is put is a key frame.
LEMMA FirstIsKey ==
  ASSUME NEW samples \in Seq(Sample), InOrder(samples), NEW k \in PutSamples(samples),
         ~samples[k].key
  PROVE  \E i \in PutSamples(samples) : i < k /\ samples[i].key
<1>1. PICK i \in PutSamples(samples) : i <= k /\ samples[i].key
  BY DEF InOrder
<1>2. i \in Nat /\ k \in Nat /\ i # k
  BY <1>1, SampleFacts
<1> QED
  BY <1>1, <1>2

\* The timestamp of the sample that on_new_sample puts.
FirstPts == IF first_pts = NoPts THEN Samples[pos].pts ELSE first_pts
PutTs ==
  IF source = "file" THEN Samples[pos].pts + base_pts + ProducerStartTime
                     ELSE Samples[pos].pts + ProducerStartTime - FirstPts

\* on_new_sample puts a sample, in a fragment that goes with it.
PutStep ==
  /\ pipe = "playing" /\ pos \in PutSamples(Samples) /\ PutTs \in Nat
  /\ pos' = pos + 1 /\ pipe' = pipe /\ base_pts' = base_pts
  /\ source = "file" =>
       /\ max_frame_pts' = Max({max_frame_pts, Samples[pos].pts}) /\ first_pts' = first_pts
       /\ key_frame_pts' = IF Samples[pos].key THEN PutTs ELSE key_frame_pts
  /\ source # "file" => first_pts' = FirstPts /\ UNCHANGED <<max_frame_pts, key_frame_pts>>
  /\ fragments' \in Seq(Fragment)
  /\ \/ session # "open" /\ fragments' = fragments
     \/ /\ session = "open" /\ Samples[pos].key
        /\ Begins(fragments, fragments', PutTs, <<current_file_idx, pos>>)
     \/ /\ session = "open" /\ ~Samples[pos].key /\ Within(Len(fragments))
        /\ Continues(fragments, fragments', PutTs, <<current_file_idx, pos>>)

\* on_new_sample puts nothing.
SkipStep ==
  /\ UNCHANGED <<ptsVars, fragments>>
  /\ \/ pos' = pos /\ pipe' = "error" /\ stream_status # "success"
     \/ pos' = pos + 1 /\ pipe' = pipe /\ pos \notin PutSamples(Samples)

\* What on_new_sample never touches.
SampleFrame ==
  UNCHANGED <<mainVars, fileVars, stream_status, loopVars, session, received, acked,
              persisted, cut, errors>>

LEMMA SampleStep ==
  ASSUME TypeOK, ControlInv, LiveInv, FillInv, WellFormed, OnNewSample
  PROVE  SampleFrame /\ pos \in Nat /\ (SkipStep \/ PutStep)
<1>1. SampleFrame /\ pos \in Nat /\ pipe = "playing" /\ pos <= Len(Samples)
  BY DEF OnNewSample, SampleFrame, TypeOK
<1> SUFFICES SkipStep \/ PutStep
  BY <1>1
<1>2. CASE stream_status # "success"
  BY <1>2 DEF OnNewSample, SkipStep, ptsVars
<1>3. CASE stream_status = "success" /\ Samples[pos].drop
  BY <1>3 DEF OnNewSample, SkipStep, PutSamples, ptsVars
<1>4. CASE stream_status = "success" /\ ~Samples[pos].drop
  <2> DEFINE s == Samples[pos]
             x == <<current_file_idx, pos>>
  <2>1. /\ Samples \in Seq(Sample) /\ InOrder(Samples)
        /\ source # "file" => Samples = LiveSamples
    BY <1>1, Playing DEF Samples
  <2>2. pos \in PutSamples(Samples) /\ s.pts \in Nat /\ s.key \in BOOLEAN
    <3>1. pos >= 1
      BY DEF ControlInv
    <3>2. pos \in 1..Len(Samples)
      BY <1>1, <2>1, <3>1, SampleFacts
    <3> QED
      BY <1>4, <2>1, <3>2, SampleFacts DEF PutSamples
  <2>3. /\ source = "file" => PutFileSample(s)
        /\ source # "file" => PutLiveSample(s)
        /\ pos' = pos + 1 /\ pipe' = pipe
    BY <1>4 DEF OnNewSample
  <2>4. PutTs \in Nat
    <3>1. CASE source = "file"
      <4>1. base_pts \in Nat /\ ProducerStartTime \in Nat
        BY Constants DEF TypeOK
      <4> QED
        BY <2>2, <3>1, <4>1 DEF PutTs
    <3>2. CASE source # "file" /\ first_pts = NoPts
      BY <2>2, <3>2, Constants DEF PutTs, FirstPts
    <3>3. CASE source # "file" /\ first_pts # NoPts
      <4>1. PICK i \in PutSamples(Samples) : i < pos /\ Samples[i].key /\ Samples[i].pts = first_pts
                                        /\ \A k \in PutSamples(Samples) : k >= i
        BY <2>1, <3>3 DEF LiveInv
      <4>2. Samples[i].pts <= s.pts
        BY <2>1, <2>2, <3>3, <4>1 DEF WellFormed, FromFirst
      <4>3. first_pts \in Nat /\ first_pts <= s.pts
        BY <2>1, <4>1, <4>2, SampleFacts
      <4>4. PutTs = s.pts + ProducerStartTime - first_pts
        BY <3>3 DEF PutTs, FirstPts
      <4> QED
        BY <2>2, <4>3, <4>4, Constants
    <3> QED
      BY <3>1, <3>2, <3>3
  <2>5. PutFrame(PutTs, s.key)
    BY <2>3 DEF PutFileSample, PutLiveSample, PutTs, FirstPts
  <2>6. /\ base_pts' = base_pts
        /\ source = "file" =>
             /\ max_frame_pts' = Max({max_frame_pts, s.pts}) /\ first_pts' = first_pts
             /\ key_frame_pts' = IF s.key THEN PutTs ELSE key_frame_pts
        /\ source # "file" => first_pts' = FirstPts /\ UNCHANGED <<max_frame_pts, key_frame_pts>>
    BY <2>3 DEF PutFileSample, PutLiveSample, PutTs, FirstPts
  <2>7. fragments \in Seq(Fragment) /\ x \in Nat \X Nat
    <3>1. current_file_idx \in Nat
      BY Constants DEF TypeOK, Indices
    <3> QED
      BY <1>1, <3>1 DEF TypeOK, Fragment
  <2>8. CASE session # "open"
    BY <1>1, <2>2, <2>3, <2>4, <2>5, <2>6, <2>7, <2>8 DEF PutStep, PutFrame
  <2>9. CASE session = "open" /\ (s.key \/ fragments = <<>>)
    <3>1. fragments' = Append(fragments, [ts |-> PutTs, last |-> PutTs, frames |-> {x}])
      BY <2>5, <2>9 DEF PutFrame
    <3>2. fragments' \in Seq(Fragment) /\ Begins(fragments, fragments', PutTs, x)
      BY <2>4, <2>7, <3>1, AppendBegins
    <3>3. s.key
      <4>1. ASSUME ~s.key PROVE FALSE
        <5>1. \E i \in PutSamples(Samples) : i < pos
          BY <2>1, <2>2, <4>1, FirstIsKey
        <5> QED
          BY <1>1, <2>9, <4>1, <5>1 DEF FillInv
      <4> QED
        BY <4>1
    <3> QED
      BY <1>1, <2>2, <2>3, <2>4, <2>6, <2>9, <3>2, <3>3 DEF PutStep
  <2>10. CASE session = "open" /\ ~s.key /\ fragments # <<>>
    <3>1. fragments' = [fragments EXCEPT ![Len(fragments)].frames = @ \cup {x},
                                         ![Len(fragments)].last = Max({@, PutTs})]
      BY <2>5, <2>10 DEF PutFrame
    <3>2. fragments' \in Seq(Fragment) /\ Continues(fragments, fragments', PutTs, x)
      BY <2>4, <2>7, <2>10, <3>1, ExceptContinues
    <3>3. \E i \in PutSamples(Samples) : i < pos
      BY <2>1, <2>2, <2>10, FirstIsKey
    <3>4. Within(Len(fragments))
      BY <1>1, <2>10, <3>3 DEF FillInv
    <3> QED
      BY <1>1, <2>2, <2>3, <2>4, <2>6, <2>10, <3>2, <3>4 DEF PutStep
  <2> QED
    BY <2>2, <2>8, <2>9, <2>10
<1> QED
  BY <1>1, <1>2, <1>3, <1>4

------------------------------------------------------------------------------
(* A fragment is acknowledged *)

\* The number of the last unpersisted file goes up when that file has been sent
\* in this session, to its end, and every frame of it is now persisted.
Counted ==
  LET f == last_unpersisted_file_idx IN
  /\ last_unpersisted_file_idx' = f + 1
  /\ source = "file" /\ f \in Indices /\ Done(f) /\ f \notin cut
  /\ FramesOf(f) \subseteq persisted'
  /\ f = NFiles => acked' = Len(fragments)

\* A timestamp left by an earlier session, or none, matches no fragment.
LEMMA StaleMatches ==
  ASSUME TypeOK, NEW f \in Indices, Stale(f), NEW k \in 1..Len(fragments)
  PROVE  ~(InMs(last_fragment_ts[f]) # 0 /\ InMs(last_fragment_ts[f]) = InMs(fragments[k].ts))
<1>1. last_fragment_ts[f] \in Nat /\ fragments[k].ts \in Nat
  <2>1. fragments[k] \in Fragment
    BY ElementOfSeq DEF TypeOK, Fragment
  <2> QED
    BY <2>1 DEF TypeOK, Fragment
<1>2. CASE last_fragment_ts[f] = 0
  BY <1>2, MsZero
<1>3. CASE last_fragment_ts[f] + TicksPerMs <= fragments[k].ts
  BY <1>1, <1>3, MsApart
<1> QED
  BY <1>2, <1>3 DEF Stale

\* Of a file that was sent, the fragments up to the one that matches are all.
LEMMA SentMatches ==
  ASSUME TypeOK, AckInv, NEW f \in Indices, Sent(f), NEW k \in 1..Len(fragments),
         InMs(last_fragment_ts[f]) = InMs(fragments[k].ts)
  PROVE  /\ \A x \in FramesOf(f) : \E j \in 1..k : x \in fragments[j].frames
         /\ f = NFiles => k = Len(fragments)
<1>0. \A j \in 1..Len(fragments) : fragments[j] \in Fragment
  BY ElementOfSeq DEF TypeOK, Fragment
<1>1. PICK m \in 1..Len(fragments) :
        /\ fragments[m].ts = last_fragment_ts[f]
        /\ \A j \in 1..(m - 1) : fragments[j].ts + TicksPerMs <= last_fragment_ts[f]
        /\ \A x \in FramesOf(f) : \E j \in 1..m : x \in fragments[j].frames
        /\ f = NFiles => m = Len(fragments)
  BY DEF Sent
<1>2. last_fragment_ts[f] \in Nat /\ fragments[k].ts \in Nat
  BY <1>0 DEF TypeOK, Fragment
<1>3. Len(fragments) \in Nat /\ k \in Nat /\ m \in Nat
  BY LenProperties DEF TypeOK
<1>4. ~(k < m)
  <2>1. ASSUME k < m PROVE FALSE
    <3>1. k \in 1..(m - 1)
      BY <1>3, <2>1
    <3>2. fragments[k].ts + TicksPerMs <= last_fragment_ts[f]
      BY <1>1, <3>1
    <3> QED
      BY <1>2, <3>2, MsApart
  <2> QED
    BY <2>1
<1>5. 1..m \subseteq 1..k
  BY <1>3, <1>4
<1>6. f = NFiles => k = Len(fragments)
  BY <1>1, <1>3, <1>4
<1> QED
  BY <1>1, <1>5, <1>6

LEMMA AckStep ==
  ASSUME TypeOK, ControlInv, AckInv, SentInv, AckWithinList,
         NEW type \in {"RECEIVED", "PERSISTED"}, FragmentAck(type)
  PROVE  /\ UNCHANGED <<mainVars, current_file_idx, last_fragment_ts, ptsVars, pipeVars, session,
                        fragments, cut>>
         /\ session \in {"open", "closing"} /\ pc # "end"
         /\ acked' <= received' /\ received' <= Len(fragments)
         /\ session = "open" => received' < Len(fragments) \/ received' = received
         /\ \/ persisted' = persisted /\ acked' = acked
            \/ /\ persisted' = persisted \cup fragments[acked + 1].frames /\ acked' = acked + 1
               /\ received' = received
         /\ last_unpersisted_file_idx' = last_unpersisted_file_idx \/ Counted
<1>1. /\ UNCHANGED <<mainVars, current_file_idx, last_fragment_ts, ptsVars, pipeVars, session,
                     fragments, cut>>
      /\ session \in {"open", "closing"} /\ pc # "end"
  BY DEF FragmentAck
<1>2. /\ Len(fragments) \in Nat /\ received \in Nat /\ acked \in Nat
      /\ last_unpersisted_file_idx \in 1..(NFiles + 1)
  BY LenProperties DEF TypeOK
<1>3. CASE type = "RECEIVED"
  <2>1. /\ received < Complete /\ received' = received + 1 /\ acked' = acked
        /\ persisted' = persisted /\ last_unpersisted_file_idx' = last_unpersisted_file_idx
    BY <1>3 DEF FragmentAck, CountsAck
  <2> QED
    BY <1>1, <1>2, <2>1 DEF Complete, AckInv
<1>4. CASE type = "PERSISTED"
  <2> DEFINE k == acked + 1
             f == last_unpersisted_file_idx
  <2>1. /\ acked < received /\ acked' = k /\ received' = received
        /\ persisted' = persisted \cup fragments[k].frames
        /\ CountsAck(type, k)
    BY <1>4 DEF FragmentAck
  <2>2. k \in 1..Len(fragments) /\ acked' <= received' /\ received' <= Len(fragments)
    BY <1>2, <2>1 DEF AckInv
  <2>3. ASSUME f' # f PROVE Counted
    <3>1. /\ source = "file" /\ f' = f + 1
          /\ InMs(last_fragment_ts[f]) # 0 /\ InMs(last_fragment_ts[f]) = InMs(fragments[k].ts)
      BY <2>1, <2>3 DEF CountsAck
    <3>2. f \in Indices
      <4>1. ~(f > NFiles)
        BY <1>1, <1>2, <2>1, <3>1 DEF AckWithinList
      <4> QED
        BY <1>2, <4>1, Constants DEF Indices
    <3>3. ~Stale(f)
      BY <2>2, <3>1, <3>2, StaleMatches
    <3>4. f \in Nat /\ f >= f
      BY <3>2, Constants DEF Indices
    <3>5. Done(f) /\ f \notin cut
      BY <1>1, <3>1, <3>2, <3>3, <3>4 DEF SentInv, Tells, Up
    <3>6. \A g \in f..f : g \notin cut
      <4>1. \A g \in f..f : g = f
        BY <3>4
      <4> QED
        BY <3>5, <4>1
    <3>7. Sent(f)
      BY <1>1, <3>1, <3>2, <3>4, <3>5, <3>6 DEF SentInv, Tells, Up
    <3>8. /\ \A x \in FramesOf(f) : \E j \in 1..k : x \in fragments[j].frames
          /\ f = NFiles => k = Len(fragments)
      BY <2>2, <3>1, <3>2, <3>7, SentMatches
    <3>9. \A j \in 1..k : j \in 1..acked \/ j = k
      BY <1>2
    <3>10. FramesOf(f) \subseteq persisted'
      BY <2>1, <3>8, <3>9 DEF AckInv
    <3> QED
      BY <2>1, <3>1, <3>2, <3>5, <3>8, <3>10 DEF Counted
  <2> QED
    BY <1>1, <2>1, <2>2, <2>3
<1> QED
  BY <1>3, <1>4

LEMMA AckUncut ==
  ASSUME TypeOK, ControlInv, AckInv, SentInv, AckWithinList,
         NEW type \in {"RECEIVED", "PERSISTED"}, FragmentAck(type), Uncut'
  PROVE  Uncut
<1>1. /\ UNCHANGED <<mainVars, pipeVars, cut>>
      /\ last_unpersisted_file_idx' = last_unpersisted_file_idx \/ Counted
  BY AckStep
<1>2. \A f \in Indices : Done(f)' <=> Done(f)
  BY <1>1 DEF Done, mainVars, pipeVars
<1>3. CASE last_unpersisted_file_idx' = last_unpersisted_file_idx
  BY <1>1, <1>2, <1>3 DEF Uncut
<1>4. CASE Counted
  <2>1. \A f \in Indices : f >= last_unpersisted_file_idx =>
          f = last_unpersisted_file_idx \/ f >= last_unpersisted_file_idx'
    BY <1>4, Constants DEF Counted, Indices
  <2> QED
    BY <1>1, <1>2, <1>4, <2>1 DEF Uncut, Counted
<1> QED
  BY <1>1, <1>3, <1>4

------------------------------------------------------------------------------
(* Each part of the invariant is kept *)

\* What the other steps do to the session and the time line.
LEMMA SetupStep ==
  ASSUME ControlInv, BaseInv, Setup
  PROVE  /\ UNCHANGED <<source, fileVars, ptsVars, pipeVars, ackVars, cut, idx>>
         /\ fragments = <<>> /\ received = 0 /\ acked = 0 /\ pipe = "none"
         /\ pc = "setup" /\ pc' \in {"round", "open", "end"} /\ (pc' = "open" => source # "file")
         /\ outcome' # "persisted"
<1>1. /\ pc = "setup" /\ UNCHANGED <<source, fileVars, pipeVars, ackVars, cut, idx>>
      /\ pc' \in {"round", "open", "end"} /\ (pc' = "open" => source # "file")
  BY DEF Setup
<1>2. fragments = <<>> /\ received = 0 /\ acked = 0 /\ pipe = "none" /\ outcome # "persisted"
  BY <1>1 DEF ControlInv
<1>3. UNCHANGED ptsVars
  BY <1>1 DEF Setup, KinesisVideoStreamInit, BaseInv, ptsVars
<1>4. outcome' # "persisted"
  BY <1>2 DEF Setup
<1> QED
  BY <1>1, <1>2, <1>3, <1>4

LEMMA RetryStep ==
  ASSUME Retry
  PROVE  /\ UNCHANGED <<source, fileVars, ptsVars, pipeVars, persisted, cut>>
         /\ pc = "retry"
         /\ \/ UNCHANGED ackVars /\ session' = "down" /\ pc' \in {"cleanup", "end"}
            \/ /\ fragments' = <<>> /\ received' = 0 /\ acked' = 0 /\ pc' = "reset"
               /\ UNCHANGED <<idx, outcome>>
BY DEF Retry, ackVars

LEMMA EmptyFragments == Len(<<>>) = 0
BY EmptySeq

LEMMA AckInvStep ==
  ASSUME TypeOK, ControlInv, AckInv, BaseInv, LiveInv, FillInv, SentInv, AckWithinList, WellFormed, Next
  PROVE  AckInv'
<1>0. Len(fragments) \in Nat /\ received \in Nat /\ acked \in Nat
  BY LenProperties DEF TypeOK
<1>1. CASE Setup
  BY <1>1, SetupStep, EmptyFragments DEF AckInv, ackVars
<1>2. CASE Retry
  BY <1>2, RetryStep, EmptyFragments DEF AckInv, ackVars
<1>3. CASE OpenPipeline \/ EosCb
  BY <1>3 DEF AckInv, OpenPipeline, EosCb, ackVars
<1>4. CASE OnNewSample
  <2>1. UNCHANGED <<session, received, acked, persisted>>
    BY <1>4, SampleStep DEF SampleFrame
  <2>2. CASE fragments' = fragments
    BY <2>1, <2>2 DEF AckInv
  <2>3. CASE PutStep /\ fragments' # fragments
    <3>1. /\ session = "open"
          /\ Len(fragments) <= Len(fragments') /\ Len(fragments') \in Nat
          /\ Len(fragments') >= 1 /\ (fragments = <<>> => Len(fragments) = 0)
          /\ \A j \in 1..(Len(fragments) - 1) : fragments'[j] = fragments[j]
      <4>1. fragments \in Seq(Fragment)
        BY DEF TypeOK, Fragment
      <4>2. /\ Begins(fragments, fragments', PutTs, <<current_file_idx, pos>>)
               \/ Continues(fragments, fragments', PutTs, <<current_file_idx, pos>>)
            /\ fragments' \in Seq(Fragment) /\ session = "open"
        BY <2>3 DEF PutStep
      <4> QED
        BY <4>1, <4>2, Grown, EmptyFragments
    <3>2. fragments # <<>> => received < Len(fragments)
      BY <3>1 DEF AckInv
    <3>3. received' < Len(fragments') /\ acked' <= received'
      BY <1>0, <2>1, <3>1, <3>2 DEF AckInv
    <3>4. acked <= received /\ (acked = 0 \/ received < Len(fragments))
      BY <1>0, <3>1, <3>2 DEF AckInv
    <3>5. \A j \in 1..acked : fragments'[j].frames \subseteq persisted
      <4>1. \A j \in 1..acked : j \in 1..(Len(fragments) - 1)
        BY <1>0, <3>4
      <4> QED
        BY <3>1, <4>1 DEF AckInv
    <3> QED
      BY <1>0, <2>1, <3>1, <3>3, <3>5 DEF AckInv
  <2> QED
    BY <1>4, <2>2, <2>3, SampleStep DEF SkipStep
<1>5. ASSUME NEW type \in {"RECEIVED", "PERSISTED"}, FragmentAck(type) PROVE AckInv'
  <2>1. \A j \in 1..(acked + 1) : j \in 1..acked \/ j = acked + 1
    BY <1>0
  <2>2. acked' <= received' /\ received' <= Len(fragments)
    BY <1>5, AckStep
  <2>3. session = "open" /\ fragments # <<>> => received' < Len(fragments)
    BY <1>5, AckStep DEF AckInv
  <2>4. \A j \in 1..acked' : fragments[j].frames \subseteq persisted'
    BY <1>5, <2>1, AckStep DEF AckInv
  <2>5. UNCHANGED <<session, fragments>>
    BY <1>5, AckStep
  <2> QED
    BY <2>2, <2>3, <2>4, <2>5 DEF AckInv
<1>6. CASE QuietStep
  BY <1>6, QuietSteps DEF AckInv, Quiet, Still
<1> QED
  BY <1>1, <1>2, <1>3, <1>4, <1>5, <1>6, StepKinds

LEMMA FragmentFacts ==
  ASSUME TypeOK
  PROVE  /\ fragments \in Seq(Fragment) /\ Len(fragments) \in Nat
         /\ \A j \in 1..Len(fragments) :
              fragments[j].ts \in Nat /\ fragments[j].last \in Nat
<1>1. fragments \in Seq(Fragment)
  BY DEF TypeOK, Fragment
<1>2. \A j \in 1..Len(fragments) : fragments[j] \in Fragment
  BY <1>1, ElementOfSeq
<1> QED
  BY <1>1, <1>2, LenProperties DEF Fragment

LEMMA BaseInvStep ==
  ASSUME TypeOK, ControlInv, BaseInv, LiveInv, FillInv, SentInv, WellFormed, Next,
         AckInv, AckWithinList
  PROVE  BaseInv'
<1>0. /\ base_pts \in Nat /\ max_frame_pts \in Nat /\ key_frame_pts \in Nat
      /\ ProducerStartTime \in Nat /\ TicksPerMs \in Nat
  BY Constants DEF TypeOK
<1>1. CASE Setup
  BY <1>1, SetupStep DEF BaseInv, fileVars, ptsVars, ackVars
<1>2. CASE Retry
  BY <1>2, RetryStep, EmptyFragments DEF BaseInv, fileVars, ptsVars, ackVars
<1>3. CASE OpenPipeline
  BY <1>3 DEF BaseInv, OpenPipeline, fileVars, ackVars
<1>4. CASE EosCb
  <2>1. /\ source' = source /\ pc' = pc /\ pc # "setup" /\ fragments' = fragments
        /\ key_frame_pts' = key_frame_pts /\ max_frame_pts' = 0
        /\ base_pts' = base_pts + max_frame_pts + TicksPerMs
        /\ last_fragment_ts' = [last_fragment_ts EXCEPT ![current_file_idx] = key_frame_pts]
    BY <1>4 DEF EosCb, NextBase, mainVars, ackVars, ControlInv
  <2>2. SUFFICES ASSUME source = "file" PROVE BaseInv'
    BY <2>1 DEF BaseInv
  <2>3. \A j \in 1..Len(fragments) :
          /\ fragments[j].ts <= fragments[j].last
          /\ fragments[j].last <= base_pts + max_frame_pts + ProducerStartTime
    BY <2>2 DEF BaseInv
  <2>4. \A j \in 1..Len(fragments) :
          fragments[j].last <= base_pts' + max_frame_pts' + ProducerStartTime
    <3> DEFINE e == base_pts + max_frame_pts + ProducerStartTime
               e2 == base_pts' + max_frame_pts' + ProducerStartTime
    <3>1. e \in Nat /\ e2 \in Nat /\ e <= e2
      BY <1>0, <2>1
    <3>2. \A j \in 1..Len(fragments) : fragments[j].last <= e
      BY <2>3
    <3> HIDE DEF e, e2
    <3>3. \A j \in 1..Len(fragments) : fragments[j].last <= e2
      BY <3>1, <3>2, FragmentFacts
    <3> QED
      BY <3>3 DEF e2
  <2>5. key_frame_pts <= base_pts + max_frame_pts + ProducerStartTime
    BY <2>2 DEF BaseInv
  <2>6. ASSUME NEW f \in Indices
        PROVE  last_fragment_ts'[f] = 0 \/ last_fragment_ts'[f] + TicksPerMs <= base_pts' + ProducerStartTime
    <3>1. last_fragment_ts'[f] = key_frame_pts \/ last_fragment_ts'[f] = last_fragment_ts[f]
      BY <2>1 DEF TypeOK
    <3>2. last_fragment_ts[f] = 0 \/ last_fragment_ts[f] + TicksPerMs <= base_pts + ProducerStartTime
      BY <2>2 DEF BaseInv
    <3>3. last_fragment_ts[f] \in Nat
      BY DEF TypeOK
    <3> QED
      BY <1>0, <2>1, <2>5, <3>1, <3>2, <3>3
  <2>7. key_frame_pts' <= base_pts' + max_frame_pts' + ProducerStartTime
    BY <1>0, <2>1, <2>5
  <2> QED
    BY <2>1, <2>3, <2>4, <2>6, <2>7 DEF BaseInv
<1>5. CASE OnNewSample
  <2>1. UNCHANGED <<source, pc, last_fragment_ts>>
    BY <1>5, SampleStep DEF SampleFrame, mainVars, fileVars
  <2>2. CASE SkipStep
    BY <2>1, <2>2 DEF SkipStep, BaseInv, ptsVars
  <2>3. CASE PutStep /\ source # "file"
    BY <2>1, <2>3 DEF PutStep, BaseInv, ControlInv
  <2>4. CASE PutStep /\ source = "file"
    <3> DEFINE s == Samples[pos]
               end == base_pts + max_frame_pts' + ProducerStartTime
    <3>1. /\ s.pts \in Nat /\ pc # "setup" /\ base_pts' = base_pts
          /\ max_frame_pts' = Max({max_frame_pts, s.pts})
          /\ key_frame_pts' \in {PutTs, key_frame_pts}
          /\ PutTs = s.pts + base_pts + ProducerStartTime
      <4>1. pipe = "playing" /\ pos \in PutSamples(Samples)
        BY <2>4 DEF PutStep
      <4>2. s.pts \in Nat /\ pc # "setup"
        BY <4>1, Playing, SampleFacts DEF ControlInv
      <4> QED
        BY <2>4, <4>2 DEF PutStep, PutTs
    <3>2. max_frame_pts' \in Nat /\ max_frame_pts' >= max_frame_pts /\ max_frame_pts' >= s.pts
      BY <1>0, <3>1, MaxOfTwo
    <3>3. PutTs \in Nat /\ PutTs <= end /\ base_pts + max_frame_pts + ProducerStartTime <= end /\ end \in Nat
      BY <1>0, <3>1, <3>2
    <3> HIDE DEF end
    <3>4. \A j \in 1..Len(fragments) :
            fragments[j].ts <= fragments[j].last /\ fragments[j].last <= end
      <4>1. \A j \in 1..Len(fragments) :
              /\ fragments[j].ts <= fragments[j].last
              /\ fragments[j].last <= base_pts + max_frame_pts + ProducerStartTime
        BY <2>4 DEF BaseInv
      <4> QED
        BY <1>0, <3>3, <4>1, FragmentFacts
    <3>5. \A j \in 1..Len(fragments') :
            fragments'[j].ts <= fragments'[j].last /\ fragments'[j].last <= end
      <4>1. CASE fragments' = fragments
        BY <3>4, <4>1
      <4>2. CASE Begins(fragments, fragments', PutTs, <<current_file_idx, pos>>)
        <5>1. \A j \in 1..Len(fragments') : j \in 1..Len(fragments) \/ j = Len(fragments')
          BY <4>2, FragmentFacts DEF Begins
        <5> QED
          BY <3>3, <3>4, <4>2, <5>1 DEF Begins
      <4>3. CASE Continues(fragments, fragments', PutTs, <<current_file_idx, pos>>)
        <5>1. \A j \in 1..Len(fragments') : j \in 1..(Len(fragments) - 1) \/ j = Len(fragments)
          BY <4>3, FragmentFacts DEF Continues
        <5>2. \A j \in 1..(Len(fragments) - 1) : j \in 1..Len(fragments) /\ fragments'[j] = fragments[j]
          BY <4>3, FragmentFacts DEF Continues
        <5> DEFINE n == Len(fragments)
        <5>3. /\ n \in 1..Len(fragments) /\ fragments'[n].ts = fragments[n].ts
              /\ fragments'[n].last >= fragments[n].last
              /\ fragments'[n].last = fragments[n].last \/ fragments'[n].last = PutTs
          BY <4>3 DEF Continues
        <5>4. fragments[n].ts \in Nat /\ fragments[n].last \in Nat
          BY <5>3, FragmentFacts
        <5>5. fragments'[n].ts <= fragments'[n].last /\ fragments'[n].last <= end
          BY <3>3, <3>4, <5>3, <5>4
        <5> QED
          BY <3>4, <5>1, <5>2, <5>5
      <4> QED
        BY <2>4, <4>1, <4>2, <4>3 DEF PutStep
    <3>6. key_frame_pts' <= end
      <4>1. key_frame_pts <= base_pts + max_frame_pts + ProducerStartTime
        BY <2>4 DEF BaseInv
      <4> QED
        BY <1>0, <3>1, <3>3, <4>1
    <3> QED
      BY <2>1, <2>4, <3>1, <3>5, <3>6 DEF BaseInv, end
  <2> QED
    BY <1>5, <2>2, <2>3, <2>4, SampleStep
<1>6. ASSUME NEW type \in {"RECEIVED", "PERSISTED"}, FragmentAck(type) PROVE BaseInv'
  BY <1>6 DEF FragmentAck, BaseInv, mainVars, ptsVars
<1>7. CASE QuietStep
  BY <1>7, QuietSteps DEF BaseInv, Quiet, Still
<1> QED
  BY <1>1, <1>2, <1>3, <1>4, <1>5, <1>6, <1>7, StepKinds

\* Where the frames of a fragment were, they still are when a sample comes.
LEMMA WithinKept ==
  ASSUME NEW j, Within(j), UNCHANGED <<source, current_file_idx>>, Offset' = Offset,
         pos \in Nat, pos' \in {pos, pos + 1}, Samples \in Seq(Sample),
         fragments'[j].ts = fragments[j].ts,
         \/ fragments'[j].last = fragments[j].last
         \/ /\ fragments'[j].last = Samples[pos].pts + Offset
            /\ pos' = pos + 1 /\ pos \in PutSamples(Samples)
  PROVE  Within(j)'
<1>1. PICK i \in PutSamples(Samples) :
        \E n \in PutSamples(Samples) :
          /\ i < pos /\ n < pos /\ Samples[i].key
          /\ fragments[j].ts = Samples[i].pts + Offset
          /\ fragments[j].last = Samples[n].pts + Offset
  BY DEF Within
<1>2. PICK n \in PutSamples(Samples) :
        /\ i < pos /\ n < pos /\ Samples[i].key
        /\ fragments[j].ts = Samples[i].pts + Offset
        /\ fragments[j].last = Samples[n].pts + Offset
  BY <1>1
<1>3. Samples' = Samples
  BY DEF Samples
<1>4. i < pos' /\ n < pos' /\ (pos' = pos + 1 => pos < pos')
  BY <1>2, SampleFacts
<1>5. CASE fragments'[j].last = fragments[j].last
  BY <1>2, <1>3, <1>4, <1>5 DEF Within
<1>6. CASE fragments'[j].last = Samples[pos].pts + Offset /\ pos' = pos + 1 /\ pos \in PutSamples(Samples)
  BY <1>2, <1>3, <1>4, <1>6 DEF Within
<1> QED
  BY <1>5, <1>6

LEMMA PutWithin ==
  ASSUME TypeOK, ControlInv, LiveInv, FillInv, WellFormed, OnNewSample
  PROVE  /\ Samples' = Samples /\ fragments' \in Seq(Fragment)
         /\ \A j \in 1..Len(fragments) :
              Within(j) /\ fragments'[j] = fragments[j] => Within(j)'
         /\ \A j : Within(j) => Offset' = Offset
         /\ PutStep => /\ PutTs = Samples[pos].pts + Offset'
                       /\ session = "open" => Len(fragments') >= 1 /\ Within(Len(fragments))'
<1>1. /\ UNCHANGED <<source, current_file_idx>> /\ pos \in Nat /\ pipe = "playing"
      /\ SkipStep \/ PutStep
  BY SampleStep DEF SampleFrame, mainVars, fileVars, OnNewSample
<1>2. Samples \in Seq(Sample) /\ (source # "file" => Samples = LiveSamples)
  BY <1>1, Playing DEF Samples
<1>3. Samples' = Samples
  BY <1>1 DEF Samples
<1>4. fragments' \in Seq(Fragment)
  BY <1>1, FragmentFacts DEF PutStep, SkipStep
<1>5. pos' \in {pos, pos + 1}
  BY <1>1 DEF PutStep, SkipStep
<1>6. ASSUME NEW j, Within(j) PROVE Offset' = Offset
  <2>1. first_pts' = first_pts \/ (source # "file" /\ first_pts = NoPts)
    BY <1>1 DEF PutStep, SkipStep, FirstPts, ptsVars
  <2>2. ~(source # "file" /\ first_pts = NoPts)
    <3>1. PICK i \in PutSamples(Samples) : i < pos
      BY <1>6 DEF Within
    <3>2. i \in Nat
      BY <1>2, SampleFacts
    <3> QED
      BY <1>1, <1>2, <3>1, <3>2 DEF LiveInv
  <2>3. base_pts' = base_pts
    BY <1>1 DEF PutStep, SkipStep, ptsVars
  <2> QED
    BY <1>1, <2>1, <2>2, <2>3 DEF Offset
<1>7. ASSUME NEW j \in 1..Len(fragments), Within(j), fragments'[j] = fragments[j] PROVE Within(j)'
  BY <1>1, <1>2, <1>5, <1>6, <1>7, WithinKept
<1>8. ASSUME PutStep PROVE PutTs = Samples[pos].pts + Offset'
  <2>1. Samples[pos].pts \in Nat /\ ProducerStartTime \in Nat /\ base_pts \in Nat
    BY <1>2, <1>8, SampleFacts, Constants DEF PutStep, TypeOK
  <2>2. first_pts \in Nat \cup {NoPts}
    BY DEF TypeOK
  <2> DEFINE p == Samples[pos].pts
  <2>3. CASE source = "file"
    <3>1. PutTs = p + base_pts + ProducerStartTime /\ Offset' = base_pts + ProducerStartTime
      BY <1>1, <1>8, <2>3 DEF PutStep, PutTs, Offset
    <3> QED
      BY <2>1, <3>1
  <2>4. CASE source # "file"
    <3>1. FirstPts \in Nat
      BY <2>1, <2>2 DEF FirstPts
    <3>2. PutTs = p + ProducerStartTime - FirstPts /\ Offset' = ProducerStartTime - FirstPts
      BY <1>1, <1>8, <2>4 DEF PutStep, PutTs, Offset
    <3> QED
      BY <2>1, <3>1, <3>2
  <2> QED
    BY <2>3, <2>4
<1>9. ASSUME PutStep, session = "open" PROVE Len(fragments') >= 1 /\ Within(Len(fragments))'
  <2> DEFINE n == Len(fragments')
  <2>1. pos' = pos + 1 /\ pos < pos' /\ pos \in PutSamples(Samples)
    BY <1>1, <1>9 DEF PutStep
  <2>2. CASE Begins(fragments, fragments', PutTs, <<current_file_idx, pos>>) /\ Samples[pos].key
    <3>1. n >= 1
      BY <2>2, FragmentFacts DEF Begins
    <3>2. fragments'[n].ts = Samples[pos].pts + Offset' /\ fragments'[n].last = Samples[pos].pts + Offset'
      BY <1>8, <1>9, <2>2 DEF Begins
    <3> QED
      BY <1>3, <2>1, <2>2, <3>1, <3>2 DEF Within
  <2>3. CASE /\ Continues(fragments, fragments', PutTs, <<current_file_idx, pos>>)
             /\ Within(Len(fragments))
    <3>1. /\ n >= 1 /\ n = Len(fragments) /\ fragments'[n].ts = fragments[n].ts
          /\ fragments'[n].last = fragments[n].last \/ fragments'[n].last = PutTs
      BY <2>3, FragmentFacts DEF Continues
    <3>2. ASSUME NEW j, j = n PROVE Within(j)'
      <4>0. Within(j)
        BY <2>3, <3>1, <3>2 DEF Within
      <4>1. Offset' = Offset /\ Within(j)
        BY <1>6, <4>0
      <4>2. /\ fragments'[j].ts = fragments[j].ts
            /\ fragments'[j].last = fragments[j].last
               \/ fragments'[j].last = Samples[pos].pts + Offset
        BY <1>8, <1>9, <3>1, <3>2, <4>1
      <4> QED
        BY <1>1, <1>2, <2>1, <4>1, <4>2, WithinKept
    <3>3. \E j : j = n /\ Within(j)'
      BY <3>2
    <3> QED
      BY <3>1, <3>3 DEF Within
  <2> QED
    BY <1>9, <2>2, <2>3 DEF PutStep
<1> QED
  BY <1>3, <1>4, <1>6, <1>7, <1>8, <1>9

LEMMA LiveInvStep ==
  ASSUME TypeOK, ControlInv, BaseInv, LiveInv, FillInv, SentInv, WellFormed, Next,
         AckInv, AckWithinList
  PROVE  LiveInv'
<1> SUFFICES ASSUME source' # "file" PROVE LiveInv'
  BY DEF LiveInv
<1>0. pos \in Nat /\ pos >= 1 /\ PutSamples(LiveSamples) \subseteq Nat
      /\ \A k \in PutSamples(LiveSamples) : k >= 1
  BY Constants, SampleFacts DEF TypeOK, ControlInv, PutSamples
<1>1. CASE Setup
  BY <1>1, SetupStep DEF LiveInv, fileVars, ptsVars, ackVars, pipeVars
<1>2. CASE Retry \/ EosCb
  BY <1>2 DEF Retry, EosCb, ControlInv, mainVars
<1>3. CASE OpenPipeline
  <2>1. /\ first_pts' = NoPts /\ source' = source /\ fragments' = fragments
        /\ fragments = <<>> /\ pos = 1
    BY <1>3 DEF OpenPipeline, ackVars, ControlInv
  <2>2. pos' = 1 \/ (pos' = pos /\ pipe' = pipe)
    BY <1>3 DEF OpenPipeline
  <2> QED
    BY <1>0, <2>1, <2>2, EmptyFragments DEF LiveInv
<1>4. CASE OnNewSample
  <2>0. /\ UNCHANGED <<source, current_file_idx, session>> /\ pipe = "playing"
        /\ Samples' = Samples /\ Samples = LiveSamples /\ Samples \in Seq(Sample)
        /\ source # "file"
    BY <1>4, SampleStep, PutWithin, Playing DEF SampleFrame, mainVars, fileVars, OnNewSample, Samples
  <2>1. \A j \in 1..Len(fragments) : Within(j)
    BY <2>0 DEF LiveInv
  <2>2. CASE SkipStep
    <3>1. /\ fragments' = fragments /\ first_pts' = first_pts
          /\ pos' = pos \/ (pos' = pos + 1 /\ pos \notin PutSamples(LiveSamples))
      BY <2>0, <2>2 DEF SkipStep, ptsVars
    <3>2. \A j \in 1..Len(fragments') : Within(j)'
      BY <1>4, <2>1, <3>1, PutWithin
    <3>3. first_pts = NoPts => \A k \in PutSamples(LiveSamples) : k >= pos'
      <4>1. first_pts = NoPts => \A k \in PutSamples(LiveSamples) : k >= pos
        BY <2>0 DEF LiveInv
      <4> QED
        BY <1>0, <3>1, <4>1
    <3>4. first_pts # NoPts =>
            \E i \in PutSamples(LiveSamples) :
              /\ i < pos' /\ LiveSamples[i].key /\ LiveSamples[i].pts = first_pts
              /\ \A k \in PutSamples(LiveSamples) : k >= i
      <4>1. \A i \in PutSamples(LiveSamples) : i < pos => i < pos'
        BY <1>0, <3>1
      <4> QED
        BY <2>0, <4>1 DEF LiveInv
    <3> QED
      BY <2>0, <3>1, <3>2, <3>3, <3>4 DEF LiveInv
  <2>3. CASE PutStep
    <3> DEFINE s == Samples[pos]
    <3>1. /\ first_pts' = FirstPts /\ pos' = pos + 1 /\ pos \in PutSamples(Samples)
          /\ s.pts \in Nat
      BY <2>0, <2>3, SampleFacts DEF PutStep
    <3>2. FirstPts # NoPts
      BY <3>1 DEF FirstPts, NoPts
    <3>3. \E i \in PutSamples(LiveSamples) :
            /\ i < pos' /\ LiveSamples[i].key /\ LiveSamples[i].pts = first_pts'
            /\ \A k \in PutSamples(LiveSamples) : k >= i
      <4>1. CASE first_pts = NoPts
        <5>1. \A k \in PutSamples(LiveSamples) : k >= pos
          BY <2>0, <4>1 DEF LiveInv
        <5>2. s.key
          <6>1. ASSUME ~s.key PROVE \E i \in PutSamples(Samples) : i < pos
            BY <1>4, <2>0, <3>1, <6>1, Playing, FirstIsKey
          <6> QED
            BY <1>0, <2>0, <5>1, <6>1
        <5>3. first_pts' = s.pts /\ pos < pos'
          BY <1>0, <3>1, <4>1 DEF FirstPts
        <5> QED
          BY <2>0, <3>1, <5>1, <5>2, <5>3
      <4>2. CASE first_pts # NoPts
        <5>1. PICK i \in PutSamples(LiveSamples) :
                /\ i < pos /\ LiveSamples[i].key /\ LiveSamples[i].pts = first_pts
                /\ \A k \in PutSamples(LiveSamples) : k >= i
          BY <2>0, <4>2 DEF LiveInv
        <5>2. i < pos' /\ first_pts' = first_pts
          BY <1>0, <3>1, <4>2, <5>1 DEF FirstPts
        <5> QED
          BY <5>1, <5>2
      <4> QED
        BY <4>1, <4>2
    <3>4. \A j \in 1..Len(fragments') : Within(j)'
      <4>1. CASE fragments' = fragments
        BY <1>4, <2>1, <4>1, PutWithin
      <4>2. CASE /\ session = "open"
                 /\ \/ Begins(fragments, fragments', PutTs, <<current_file_idx, pos>>)
                    \/ Continues(fragments, fragments', PutTs, <<current_file_idx, pos>>)
        <5>1. ASSUME NEW j \in 1..Len(fragments'), j # Len(fragments') PROVE Within(j)'
          <6>1. j \in 1..Len(fragments) /\ fragments'[j] = fragments[j]
            BY <4>2, <5>1, FragmentFacts DEF Begins, Continues
          <6> QED
            BY <1>4, <2>1, <6>1, PutWithin
        <5>2. Within(Len(fragments))'
          BY <1>4, <2>3, <4>2, PutWithin
        <5>3. ASSUME NEW j, j = Len(fragments') PROVE Within(j)'
          BY <5>2, <5>3 DEF Within
        <5> QED
          BY <5>1, <5>3
      <4> QED
        BY <2>3, <4>1, <4>2 DEF PutStep
    <3> QED
      BY <2>0, <3>1, <3>2, <3>3, <3>4 DEF LiveInv
  <2> QED
    BY <1>4, <2>2, <2>3, SampleStep
<1>5. ASSUME NEW type \in {"RECEIVED", "PERSISTED"}, FragmentAck(type) PROVE LiveInv'
  BY <1>5 DEF FragmentAck, LiveInv, Within, Samples, Offset, mainVars, ptsVars, pipeVars
<1>6. CASE QuietStep
  BY <1>6, QuietSteps DEF LiveInv, Within, Samples, Offset, Quiet, Still
<1> QED
  BY <1>1, <1>2, <1>3, <1>4, <1>5, <1>6, StepKinds

LEMMA FillInvStep ==
  ASSUME TypeOK, ControlInv, BaseInv, LiveInv, FillInv, SentInv, WellFormed, Next,
         AckInv, AckWithinList
  PROVE  FillInv'
<1>0. /\ base_pts \in Nat /\ max_frame_pts \in Nat /\ key_frame_pts \in Nat
      /\ ProducerStartTime \in Nat /\ TicksPerMs \in Nat /\ NFiles \in Nat /\ pos \in Nat /\ pos >= 1
      /\ last_unpersisted_file_idx \in 1..(NFiles + 1)
  BY Constants DEF TypeOK, ControlInv
<1>1. CASE Setup
  BY <1>1, SetupStep, EmptyFragments DEF FillInv, pipeVars, ackVars
<1>2. CASE Retry
  BY <1>2, RetryStep, EmptyFragments DEF FillInv, Up, ControlInv, pipeVars, ackVars
<1>3. CASE EosCb
  <2>1. /\ source' = source /\ pipe' = "eos" /\ fragments' = fragments /\ source = "file"
        /\ base_pts' = base_pts + max_frame_pts + TicksPerMs
    BY <1>3 DEF EosCb, NextBase, mainVars, ackVars
  <2>2. \A j \in 1..Len(fragments) : fragments[j].last <= base_pts + max_frame_pts + ProducerStartTime
    BY <2>1 DEF BaseInv
  <2>3. ASSUME NEW j \in 1..Len(fragments)
        PROVE  fragments[j].last + TicksPerMs <= base_pts' + ProducerStartTime
    BY <1>0, <2>1, <2>2, FragmentFacts
  <2> QED
    BY <2>1, <2>3 DEF FillInv, Before
<1>4. CASE OnNewSample
  <2>0. /\ UNCHANGED <<source, pc, idx, current_file_idx, session, last_unpersisted_file_idx, cut>>
        /\ pipe = "playing" /\ Samples' = Samples /\ Samples \in Seq(Sample)
        /\ source = "file" => idx = current_file_idx
        /\ base_pts' = base_pts /\ (SkipStep \/ PutStep)
    <3>1. /\ UNCHANGED <<source, pc, idx, current_file_idx, session, last_unpersisted_file_idx, cut>>
          /\ SkipStep \/ PutStep
      BY <1>4, SampleStep DEF SampleFrame, mainVars, fileVars
    <3> QED
      BY <1>4, <3>1, PutWithin, Playing DEF OnNewSample, SkipStep, PutStep, ptsVars
  <2>1. source = "file" /\ Uncut' /\ pipe' # "error" => Uncut
    BY <2>0 DEF Uncut, Done, SkipStep, PutStep
  <2>2. source = "file" /\ Up /\ pc # "end" => session = "open"
    BY <2>0 DEF Up, ControlInv
  <2>3. CASE SkipStep
    <3>1. /\ fragments' = fragments /\ key_frame_pts' = key_frame_pts
          /\ pipe' = "error" \/ (pipe' = "playing" /\ pos' = pos + 1 /\ pos \notin PutSamples(Samples))
      BY <2>0, <2>3 DEF SkipStep, ptsVars
    <3>2. \A j \in 1..Len(fragments') : Within(j) => Within(j)'
      BY <1>4, <3>1, PutWithin
    <3>3. ASSUME pipe' = "playing" PROVE \A k \in PutSamples(Samples) : k < pos' => k < pos
      BY <1>0, <2>0, <3>1, <3>3, SampleFacts
    <3>4. fragments # <<>> /\ Within(Len(fragments)) => Within(Len(fragments))'
      <4>1. ASSUME fragments # <<>>, NEW j, j = Len(fragments), Within(j) PROVE Within(j)'
        <5>1. j \in 1..Len(fragments')
          BY <3>1, <4>1, FragmentFacts, EmptySeq
        <5> QED
          BY <3>2, <4>1, <5>1
      <4> QED
        BY <3>1, <4>1 DEF Within
    <3>5. \A j \in 1..Len(fragments') : Before(j) => Before(j)'
      BY <2>0, <3>1 DEF Before
    <3>6. CASE pipe' = "error"
      BY <3>6 DEF FillInv
    <3>7. CASE pipe' = "playing"
      <4>1. /\ pipe' = "playing" /\ session' = "open" =>
                 /\ (\E k \in PutSamples(Samples) : k < pos') =>
                      /\ fragments' # <<>> /\ Within(Len(fragments))'
                      /\ source = "file" => key_frame_pts' = fragments'[Len(fragments')].ts
                 /\ source = "file" =>
                      \A k \in PutSamples(Samples) :
                        k < pos' => \E j \in 1..Len(fragments') : <<idx', k>> \in fragments'[j].frames
        BY <2>0, <3>1, <3>3, <3>4, <3>7 DEF FillInv
      <4>2. source = "file" /\ Up /\ pc # "end" /\ Uncut' =>
              \A j \in 1..Len(fragments') : Before(j)' \/ Within(j)'
        BY <2>0, <2>1, <3>1, <3>2, <3>5, <3>7 DEF FillInv
      <4> QED
        BY <2>0, <3>7, <4>1, <4>2 DEF FillInv, Up
    <3> QED
      BY <3>1, <3>6, <3>7
  <2>4. CASE PutStep /\ session # "open"
    <3>1. pipe' = pipe /\ fragments' = fragments
      BY <2>4 DEF PutStep
    <3> QED
      BY <2>0, <2>2, <2>4 DEF FillInv, Up
  <2>5. CASE PutStep /\ session = "open"
    <3> DEFINE x == <<current_file_idx, pos>>
               n == Len(fragments')
    <3>1. /\ pipe' = pipe /\ pos' = pos + 1 /\ pos \in PutSamples(Samples)
          /\ Begins(fragments, fragments', PutTs, x) \/ Continues(fragments, fragments', PutTs, x)
          /\ fragments' \in Seq(Fragment)
      BY <2>5 DEF PutStep
    <3>2. /\ n >= 1 /\ n \in Nat /\ Within(Len(fragments))' /\ fragments' # <<>>
          /\ x \in fragments'[n].frames
          /\ \A j \in 1..Len(fragments) : j \in 1..n /\ fragments[j].frames \subseteq fragments'[j].frames
      <4>1. /\ Len(fragments) \in Nat /\ n \in Nat /\ Len(fragments) <= n /\ n >= 1
            /\ \A j \in 1..Len(fragments) : fragments[j].frames \subseteq fragments'[j].frames
            /\ x \in fragments'[n].frames
        BY <3>1, FragmentFacts, Grown
      <4>2. \A j \in 1..Len(fragments) : j \in 1..n
        BY <4>1
      <4>3. Within(Len(fragments))'
        BY <1>4, <2>5, PutWithin
      <4>4. fragments' # <<>>
        BY <4>1, EmptyFragments
      <4> QED
        BY <4>1, <4>2, <4>3, <4>4
    <3>3. source = "file" => key_frame_pts' = fragments'[n].ts
      <4>1. CASE Samples[pos].key /\ Begins(fragments, fragments', PutTs, x)
        BY <2>5, <4>1 DEF PutStep, Begins
      <4>2. CASE /\ ~Samples[pos].key /\ Within(Len(fragments))
                 /\ Continues(fragments, fragments', PutTs, x)
        <5>1. \E k \in PutSamples(Samples) : k < pos
          BY <4>2 DEF Within
        <5>2. source = "file" => key_frame_pts = fragments[Len(fragments)].ts
          BY <2>0, <2>5, <5>1 DEF FillInv
        <5> QED
          BY <2>5, <4>2, <5>2 DEF PutStep, Continues
      <4> QED
        BY <2>5, <4>1, <4>2 DEF PutStep
    <3>4. ASSUME source = "file", NEW k \in PutSamples(Samples), k < pos'
          PROVE  \E j \in 1..n : <<idx, k>> \in fragments'[j].frames
      <4>1. k < pos \/ k = pos
        <5>1. k \in Nat
          BY <2>0, SampleFacts
        <5> QED
          BY <1>0, <3>1, <3>4, <5>1
      <4>2. CASE k = pos
        <5>1. <<idx, k>> = x /\ n \in 1..n
          BY <2>0, <3>2, <3>4, <4>2
        <5> QED
          BY <3>2, <5>1
      <4>3. CASE k < pos
        <5>1. PICK j \in 1..Len(fragments) : <<idx, k>> \in fragments[j].frames
          BY <2>0, <2>5, <3>4, <4>3 DEF FillInv
        <5> QED
          BY <3>2, <5>1
      <4> QED
        BY <4>1, <4>2, <4>3
    <3>5. ASSUME source = "file", Uncut', NEW j \in 1..n
          PROVE  Before(j)' \/ Within(j)'
      <4>1. CASE j = n
        BY <3>2, <4>1 DEF Within
      <4>2. CASE j # n
        <5>1. j \in 1..Len(fragments) /\ fragments'[j] = fragments[j]
          BY <3>1, <4>2, FragmentFacts DEF Begins, Continues
        <5>2. Before(j) \/ Within(j)
          BY <2>0, <2>1, <2>5, <3>1, <3>5, <5>1 DEF FillInv, Up, ControlInv
        <5>3. Within(j) => Within(j)'
          BY <1>4, <5>1, PutWithin
        <5>4. Before(j) => Before(j)'
          BY <2>0, <5>1 DEF Before
        <5> QED
          BY <5>2, <5>3, <5>4
      <4> QED
        BY <4>1, <4>2
    <3> QED
      BY <2>0, <2>5, <3>1, <3>2, <3>3, <3>4, <3>5 DEF FillInv
  <2> QED
    BY <2>0, <2>3, <2>4, <2>5
<1>5. ASSUME NEW type \in {"RECEIVED", "PERSISTED"}, FragmentAck(type) PROVE FillInv'
  <2>1. /\ UNCHANGED <<mainVars, current_file_idx, ptsVars, pipeVars, session, fragments, cut>>
        /\ last_unpersisted_file_idx' = last_unpersisted_file_idx \/ Counted
    BY <1>5, AckStep
  <2>2. Uncut' => Uncut
    BY <1>5, AckUncut
  <2> QED
    BY <2>1, <2>2 DEF FillInv, Within, Before, Samples, Offset, Up, mainVars, ptsVars, pipeVars
<1>6. ASSUME QuietStep \/ OpenPipeline, source = "file", Up', pc' # "end", Uncut', pipe' # "error",
             NEW j \in 1..Len(fragments)
      PROVE  Before(j)' \/ (pipe' = "playing" /\ Within(j)')
  <2>1. /\ PassKept
        /\ UNCHANGED <<source, fragments, base_pts, last_unpersisted_file_idx>>
    BY <1>6, PassStep, QuietSteps DEF Quiet, Still, OpenPipeline, fileVars, ackVars
  <2>2. fragments # <<>> /\ Uncut /\ Up /\ pc # "end"
    BY <1>6, <2>1, PassUncut, EmptyFragments DEF PassKept
  <2>3. pipe # "error" /\ (pipe' # pipe => pipe # "playing")
    <3>1. ASSUME idx \in Indices, ~Done(idx), idx \in cut', \A f \in Indices : f = idx => Done(f)'
          PROVE  FALSE
      <4>1. idx >= last_unpersisted_file_idx
        <5>1. pc \notin {"setup", "reset", "round"}
          BY <2>2 DEF ControlInv
        <5>2. idx \in Indices /\ ~(idx < last_unpersisted_file_idx)
          BY <1>6, <3>1, <5>1 DEF SentInv
        <5> QED
          BY <1>0, <5>2 DEF Indices
      <4> QED
        BY <1>6, <2>1, <3>1, <4>1 DEF Uncut
    <3>2. ~(\A f \in Indices : Done(f)' => f < last_unpersisted_file_idx) \/ fragments # <<>>
      BY <2>2
    <3> QED
      BY <1>6, <2>1, <2>2, <3>1, <3>2 DEF PassKept
  <2>4. Before(j) \/ (pipe = "playing" /\ Within(j))
    BY <1>6, <2>2, <2>3 DEF FillInv
  <2>5. Before(j) => Before(j)'
    BY <2>1 DEF Before
  <2>6. CASE pipe = "playing"
    <3>1. pipe' = "playing" /\ UNCHANGED <<pos, current_file_idx, first_pts>>
      BY <1>6, <2>3, <2>6, QuietSteps DEF Quiet, OpenPipeline, ControlInv
    <3>2. Within(j) => Within(j)'
      BY <2>1, <3>1 DEF Within, Samples, Offset
    <3> QED
      BY <2>4, <2>5, <3>1, <3>2
  <2> QED
    BY <2>4, <2>5, <2>6
<1>7. CASE OpenPipeline
  <2>1. /\ UNCHANGED <<source, current_file_idx, session, fragments, base_pts>>
        /\ pipe = "none" /\ (pos' = 1 \/ pipe' = pipe)
    BY <1>7 DEF OpenPipeline, ackVars, fileVars, ControlInv
  <2>2. pipe' = "playing" => \A k \in PutSamples(Samples) : ~(k < pos')
    <3>1. Samples \in Seq(Sample)
      <4>1. source = "file" => current_file_idx \in Indices
        BY <1>7 DEF OpenPipeline, ControlInv
      <4> QED
        BY <4>1, Constants DEF Samples
    <3>2. \A k \in PutSamples(Samples) : k >= 1 /\ k \in Nat
      BY <3>1, SampleFacts DEF PutSamples
    <3> QED
      BY <2>1, <3>2
  <2>3. Samples' = Samples
    BY <2>1 DEF Samples
  <2> QED
    BY <1>6, <1>7, <2>1, <2>2, <2>3 DEF FillInv
<1>8. CASE QuietStep
  <2>1. UNCHANGED <<source, fragments>>
    BY <1>8, QuietSteps DEF Quiet, Still
  <2>2. pipe' = "playing" /\ session' = "open" =>
          /\ pipe = "playing" /\ session = "open"
          /\ UNCHANGED <<source, idx, current_file_idx, pos, fragments, ptsVars>>
    BY <1>8, QuietSteps DEF Quiet, Still, ptsVars
  <2> QED
    BY <1>6, <1>8, <2>1, <2>2 DEF FillInv, Within, Samples, Offset, ptsVars
<1> QED
  BY <1>1, <1>2, <1>3, <1>4, <1>5, <1>7, <1>8, StepKinds

LEMMA BehindBase ==
  ASSUME NEW ts \in Nat, NEW last \in Nat, NEW p \in Nat, NEW b \in Nat, NEW s \in Nat,
         NEW t \in Nat, t > 0, ts <= last, last + t <= b + s
  PROVE  last < p + b + s /\ ts + t <= p + b + s
OBVIOUS

LEMMA BehindFrames ==
  ASSUME NEW p \in Nat, NEW q \in Nat, NEW r \in Nat, NEW d \in Int, NEW t \in Nat,
         p + t <= r
  PROVE  (q < r => q + d < r + d) /\ p + d + t <= r + d
OBVIOUS

\* A key frame that is put comes behind what the session holds.
LEMMA PutBehind ==
  ASSUME TypeOK, ControlInv, BaseInv, LiveInv, FillInv, WellFormed, OnNewSample, PutStep,
         session = "open", Samples[pos].key, source = "file" => Uncut,
         NEW j \in 1..Len(fragments)
  PROVE  /\ fragments[j].ts + TicksPerMs <= PutTs
         /\ ClosedFragments => fragments[j].last < PutTs
<1>0. /\ fragments[j].ts \in Nat /\ fragments[j].last \in Nat /\ PutTs \in Nat
      /\ TicksPerMs \in Nat /\ TicksPerMs > 0 /\ ProducerStartTime \in Nat /\ base_pts \in Nat
  BY FragmentFacts, Constants DEF PutStep, TypeOK
<1>1. /\ Samples \in Seq(Sample) /\ InOrder(Samples) /\ pipe = "playing"
      /\ pos \in PutSamples(Samples)
  BY Playing DEF OnNewSample, PutStep
<1>2. (source = "file" /\ Before(j)) \/ Within(j)
  BY <1>1 DEF LiveInv, FillInv, ControlInv, Up
<1>3. CASE source = "file" /\ Before(j)
  <2>1. fragments[j].ts <= fragments[j].last
    BY <1>3 DEF BaseInv
  <2>2. PutTs = Samples[pos].pts + base_pts + ProducerStartTime /\ Samples[pos].pts \in Nat
    BY <1>1, <1>3, SampleFacts DEF PutTs
  <2>3. fragments[j].last + TicksPerMs <= base_pts + ProducerStartTime
    BY <1>3 DEF Before
  <2> QED
    BY ONLY <1>0, <2>1, <2>2, <2>3, BehindBase
<1>4. CASE Within(j)
  <2>1. PICK i \in PutSamples(Samples) :
          \E n \in PutSamples(Samples) :
            /\ i < pos /\ n < pos /\ Samples[i].key
            /\ fragments[j].ts = Samples[i].pts + Offset
            /\ fragments[j].last = Samples[n].pts + Offset
    BY <1>4 DEF Within
  <2>2. PICK n \in PutSamples(Samples) :
          /\ i < pos /\ n < pos /\ Samples[i].key
          /\ fragments[j].ts = Samples[i].pts + Offset
          /\ fragments[j].last = Samples[n].pts + Offset
    BY <2>1
  <2>3. PutTs = Samples[pos].pts + Offset
    BY <1>4, PutWithin
  <2>4. Samples[i].pts + TicksPerMs <= Samples[pos].pts
    BY <1>1, <2>2 DEF InOrder
  <2>5. ClosedFragments => Samples[n].pts < Samples[pos].pts
    <3>1. ClosedFragments => Closed(Samples)
      BY <1>1, Playing DEF ClosedFragments, Samples
    <3> QED
      BY <1>1, <2>2, <3>1 DEF Closed
  <2>6. /\ Samples[i].pts \in Nat /\ Samples[n].pts \in Nat /\ Samples[pos].pts \in Nat
        /\ Offset \in Int
    <3>1. Samples[i].pts \in Nat /\ Samples[n].pts \in Nat /\ Samples[pos].pts \in Nat
      BY <1>1, SampleFacts
    <3>2. first_pts \in Int
      BY DEF TypeOK, NoPts
    <3> QED
      BY <1>0, <3>1, <3>2 DEF Offset
  <2>7. /\ ClosedFragments => Samples[n].pts + Offset < Samples[pos].pts + Offset
        /\ Samples[i].pts + Offset + TicksPerMs <= Samples[pos].pts + Offset
    BY <1>0, <2>4, <2>5, <2>6, BehindFrames
  <2> QED
    BY <2>2, <2>3, <2>7
<1> QED
  BY <1>2, <1>3, <1>4

LEMMA OrderInvStep ==
  ASSUME TypeOK, ControlInv, BaseInv, LiveInv, FillInv, OrderInv, SentInv, WellFormed, Next,
         AckInv, AckWithinList
  PROVE  OrderInv'
<1>1. CASE Setup
  BY <1>1, SetupStep, EmptyFragments DEF OrderInv, ackVars
<1>2. CASE Retry
  <2>1. CASE fragments' = <<>>
    BY <2>1, EmptyFragments DEF OrderInv
  <2>2. CASE UNCHANGED ackVars /\ pc' \in {"cleanup", "end"}
    <3>1. UNCHANGED <<source, cut, last_unpersisted_file_idx, fragments>> /\ pc = "retry"
      BY <1>2, <2>2, RetryStep DEF ackVars, fileVars
    <3>2. Uncut' => Uncut
      BY <2>2, <3>1 DEF Uncut, Done
    <3> QED
      BY <3>1, <3>2 DEF OrderInv
  <2> QED
    BY <1>2, <2>1, <2>2, RetryStep
<1>3. CASE QuietStep \/ OpenPipeline
  <2>1. UNCHANGED <<source, fragments, last_unpersisted_file_idx>>
    BY <1>3, QuietSteps DEF Quiet, Still, OpenPipeline, fileVars, ackVars
  <2>2. source = "file" /\ Uncut' => fragments = <<>> \/ Uncut
    BY <1>3, <2>1, PassStep, PassUncut
  <2> QED
    BY <2>1, <2>2, EmptyFragments DEF OrderInv
<1>4. CASE EosCb
  <2>1. /\ UNCHANGED <<source, pc, idx, last_unpersisted_file_idx, fragments>>
        /\ pipe = "playing" /\ cut' = cut \ {idx} /\ source = "file"
    BY <1>4 DEF EosCb, ControlInv, mainVars, ackVars
  <2>2. ASSUME NEW f \in Indices, Done(f) PROVE Done(f)' /\ f # idx
    BY <2>1, <2>2, Constants DEF Done, ControlInv, Indices
  <2>3. Uncut' => Uncut
    BY <2>1, <2>2 DEF Uncut
  <2> QED
    BY <2>1, <2>3 DEF OrderInv
<1>5. ASSUME NEW type \in {"RECEIVED", "PERSISTED"}, FragmentAck(type) PROVE OrderInv'
  <2>1. UNCHANGED <<source, fragments>>
    BY <1>5, AckStep DEF mainVars
  <2> QED
    BY <1>5, <2>1, AckUncut DEF OrderInv
<1>6. CASE OnNewSample
  <2>1. /\ UNCHANGED <<source, pc, idx, last_unpersisted_file_idx, cut>>
        /\ pipe = "playing" /\ pipe' \in {"playing", "error"} /\ (SkipStep \/ PutStep)
    <3>1. UNCHANGED <<source, pc, idx, last_unpersisted_file_idx, cut>> /\ (SkipStep \/ PutStep)
      BY <1>6, SampleStep DEF SampleFrame, mainVars, fileVars
    <3> QED
      BY <1>6, <3>1 DEF OnNewSample, SkipStep, PutStep
  <2>2. Uncut' => Uncut
    BY <2>1 DEF Uncut, Done
  <2>3. CASE fragments' = fragments
    BY <2>1, <2>2, <2>3 DEF OrderInv
  <2>4. CASE PutStep /\ fragments' # fragments
    <3> SUFFICES ASSUME source = "file" => Uncut, NEW j \in 1..Len(fragments'),
                        NEW k \in 1..Len(fragments'), j < k
                 PROVE  /\ fragments'[j].ts + TicksPerMs <= fragments'[k].ts
                        /\ ClosedFragments => fragments'[j].last < fragments'[k].ts
      BY <2>1, <2>2 DEF OrderInv
    <3>0. /\ Len(fragments') \in Nat /\ Len(fragments) \in Nat /\ session = "open"
          /\ j \in 1..(Len(fragments') - 1)
      BY <2>4, LenProperties, FragmentFacts DEF PutStep
    <3>1. CASE Samples[pos].key /\ Begins(fragments, fragments', PutTs, <<current_file_idx, pos>>)
      <4>1. j \in 1..Len(fragments) /\ fragments'[j] = fragments[j]
        BY <3>0, <3>1 DEF Begins
      <4>2. CASE k \in 1..Len(fragments)
        BY <3>1, <4>1, <4>2 DEF OrderInv, Begins
      <4>3. CASE k = Len(fragments')
        BY <1>6, <2>4, <3>0, <3>1, <4>1, <4>3, PutBehind DEF Begins
      <4> QED
        BY <3>0, <3>1, <4>2, <4>3 DEF Begins
    <3>2. CASE Continues(fragments, fragments', PutTs, <<current_file_idx, pos>>)
      <4>1. /\ j \in 1..Len(fragments) /\ k \in 1..Len(fragments)
            /\ fragments'[j] = fragments[j]
        BY <3>0, <3>2 DEF Continues
      <4>2. fragments'[k].ts = fragments[k].ts
        BY <2>4, <3>2, <4>1, FragmentFacts, Grown DEF PutStep
      <4> QED
        BY <4>1, <4>2 DEF OrderInv
    <3> QED
      BY <2>4, <3>1, <3>2 DEF PutStep
  <2> QED
    BY <2>1, <2>3, <2>4 DEF SkipStep
<1> QED
  BY <1>1, <1>2, <1>3, <1>4, <1>5, <1>6, StepKinds

\* Nothing is known of a file in an empty session that has not come to it.
LEMMA TellsNothing ==
  ASSUME NEW f, fragments' = <<>>, ~Done(f)'
  PROVE  Tells(f)'
BY EmptyFragments DEF Tells, Stale

LEMMA SentInvStep ==
  ASSUME TypeOK, ControlInv, BaseInv, LiveInv, FillInv, OrderInv, SentInv, WellFormed, Next,
         AckInv, AckWithinList
  PROVE  SentInv'
<1> SUFFICES ASSUME source = "file", source' = "file" PROVE SentInv'
  <2>1. source' = source
    BY StepKinds, QuietSteps
       DEF Setup, OpenPipeline, OnNewSample, EosCb, Retry, FragmentAck, Quiet, Still, mainVars
  <2> QED
    BY <2>1 DEF SentInv
<1>0. /\ NFiles \in Nat /\ Indices = 1..NFiles
      /\ last_unpersisted_file_idx \in 1..(NFiles + 1)
      /\ pipe = "playing" => idx = current_file_idx /\ idx \in Indices
  BY Constants DEF TypeOK, ControlInv, Indices
<1>1. CASE Setup
  <2>1. fragments' = <<>> /\ pc' \in {"round", "end"}
    BY <1>1, SetupStep DEF ackVars
  <2> QED
    BY <2>1, TellsNothing DEF SentInv, Done
<1>2. CASE Retry
  <2>1. CASE session' = "down" /\ pc' \in {"cleanup", "end"}
    BY <2>1 DEF SentInv, Done, Up
  <2>2. CASE fragments' = <<>> /\ pc' = "reset"
    BY <2>2, TellsNothing DEF SentInv, Done
  <2> QED
    BY <1>2, <2>1, <2>2, RetryStep
<1>3. CASE QuietStep \/ OpenPipeline
  <2>1. /\ PassKept
        /\ UNCHANGED <<fragments, last_unpersisted_file_idx, last_fragment_ts>>
    BY <1>3, QuietSteps, PassStep DEF Quiet, Still, OpenPipeline, fileVars, ackVars
  <2>2. ASSUME Up', pc' # "end", NEW f \in Indices, f >= last_unpersisted_file_idx
        PROVE  Tells(f)'
    <3>1. CASE fragments = <<>> /\ ~Done(f)'
      BY <2>1, <3>1, TellsNothing
    <3>2. Up /\ pc # "end" /\ Tells(f)
      BY <2>1, <2>2 DEF PassKept, SentInv
    <3>3. (Sent(f)' <=> Sent(f)) /\ (Stale(f)' <=> Stale(f))
      BY <2>1 DEF Sent, Stale
    <3>4. CASE cut' = cut /\ (Done(f)' <=> Done(f))
      BY <2>1, <3>2, <3>3, <3>4 DEF Tells
    <3>5. CASE f = idx /\ ~Done(idx) /\ idx \in cut'
      <4>1. Stale(f)
        BY <3>2, <3>5 DEF Tells
      <4>2. f \in last_unpersisted_file_idx'..f
        BY <1>0, <2>1, <2>2
      <4> QED
        BY <3>3, <3>5, <4>1, <4>2 DEF Tells
    <3>6. CASE cut \subseteq cut' /\ (Done(f)' <=> Done(f)) /\ (f \in cut' => f \in cut)
      BY <2>1, <3>2, <3>3, <3>6 DEF Tells
    <3>7. \/ fragments = <<>> /\ ~Done(f)'
          \/ cut' = cut /\ (Done(f)' <=> Done(f))
          \/ f = idx /\ ~Done(idx) /\ idx \in cut'
          \/ cut \subseteq cut' /\ (Done(f)' <=> Done(f)) /\ (f \in cut' => f \in cut)
      <4>1. ~(f < last_unpersisted_file_idx)
        BY <1>0, <2>2
      <4> QED
        BY <2>1, <2>2, <4>1 DEF PassKept
    <3> QED
      BY <3>1, <3>4, <3>5, <3>6, <3>7
  <2> QED
    BY <2>1, <2>2 DEF SentInv, PassKept
<1>4. CASE EosCb
  <2>1. /\ UNCHANGED <<pc, idx, last_unpersisted_file_idx, fragments, session>>
        /\ pipe = "playing" /\ pipe' = "eos" /\ pc \in {"play", "run"}
        /\ idx = current_file_idx /\ idx \in Indices /\ cut' = cut \ {idx}
        /\ last_fragment_ts' = [last_fragment_ts EXCEPT ![idx] = key_frame_pts]
        /\ pos > Len(Samples)
    BY <1>0, <1>4 DEF EosCb, ControlInv, mainVars, ackVars
  <2>2. \A f \in Indices : (Done(f) <=> f < idx) /\ (Done(f)' <=> f < idx \/ f = idx)
    BY <1>0, <2>1 DEF Done
  <2>3. ASSUME Up', NEW f \in Indices, f >= last_unpersisted_file_idx PROVE Tells(f)'
    <3>0. Up /\ pc # "end" /\ session = "open" /\ Tells(f)
      BY <2>1, <2>3 DEF SentInv, Up, ControlInv
    <3>1. CASE f # idx
      <4>1. last_fragment_ts'[f] = last_fragment_ts[f]
        BY <2>1, <3>1 DEF TypeOK
      <4>2. /\ Sent(f)' <=> Sent(f)
            /\ Stale(f)' <=> Stale(f)
            /\ Done(f)' <=> Done(f)
            /\ f \in cut' <=> f \in cut
        BY <2>1, <2>2, <3>1, <4>1 DEF Sent, Stale
      <4>3. Done(f) => \A g \in last_unpersisted_file_idx..f : g # idx
        BY <1>0, <2>1, <2>2
      <4> QED
        BY <2>1, <3>0, <4>2, <4>3 DEF Tells
    <3>2. CASE f = idx
      <4> DEFINE n == Len(fragments)
      <4>1. /\ Samples \in Seq(Sample) /\ Samples = Files[idx] /\ PutSamples(Samples) # {}
        BY <2>1, Playing
      <4>2. \A k \in PutSamples(Samples) : k < pos
        BY <2>1, <4>1, SampleFacts DEF TypeOK
      <4>3. fragments # <<>> /\ key_frame_pts = fragments[n].ts
        BY <2>1, <3>0, <4>1, <4>2 DEF FillInv
      <4>4. n \in 1..n /\ n \in Nat
        BY <4>3, FragmentFacts, EmptySeq
      <4>5. \A x \in FramesOf(idx) : \E j \in 1..n : x \in fragments[j].frames
        <5>1. \A k \in PutSamples(Samples) : \E j \in 1..n : <<idx, k>> \in fragments[j].frames
          BY <2>1, <3>0, <4>2 DEF FillInv
        <5>2. \A x \in FramesOf(idx) : \E k \in PutSamples(Samples) : x = <<idx, k>>
          BY <4>1 DEF FramesOf, PutSamples
        <5> QED
          BY <5>1, <5>2
      <4>6. last_fragment_ts'[idx] = fragments[n].ts
        BY <2>1, <4>3 DEF TypeOK
      <4>7. ASSUME \A g \in last_unpersisted_file_idx..idx : g \notin cut' PROVE Sent(idx)'
        <5>1. Uncut
          <6>1. \A g \in Indices : g < idx /\ g >= last_unpersisted_file_idx =>
                  g \in last_unpersisted_file_idx..idx /\ g # idx
            BY <1>0, <2>1
          <6> QED
            BY <2>1, <2>2, <4>7, <6>1 DEF Uncut
        <5>2. \A j \in 1..(n - 1) : fragments[j].ts + TicksPerMs <= fragments[n].ts
          <6>1. \A j \in 1..(n - 1) : j \in 1..n /\ j < n
            BY <4>4
          <6> QED
            BY <4>4, <5>1, <6>1 DEF OrderInv
        <5> QED
          BY <2>1, <4>4, <4>5, <4>6, <5>2 DEF Sent
      <4>8. Done(idx)' /\ idx \notin cut'
        BY <2>1, <2>2
      <4> QED
        BY <2>1, <3>2, <4>5, <4>7, <4>8 DEF Tells
    <3> QED
      BY <3>1, <3>2
  <2>4. \A f \in Indices : f < last_unpersisted_file_idx => Done(f)'
    BY <2>1, <2>2 DEF SentInv
  <2> QED
    BY <2>1, <2>3, <2>4 DEF SentInv
<1>5. CASE OnNewSample
  <2>1. /\ UNCHANGED <<pc, idx, last_unpersisted_file_idx, session, cut, last_fragment_ts>>
        /\ pipe = "playing" /\ pipe' \in {"playing", "error"} /\ pc \in {"play", "run"}
        /\ idx \in Indices /\ (SkipStep \/ PutStep)
    <3>1. /\ UNCHANGED <<pc, idx, last_unpersisted_file_idx, session, cut, last_fragment_ts>>
          /\ SkipStep \/ PutStep
      BY <1>5, SampleStep DEF SampleFrame, mainVars, fileVars
    <3> QED
      BY <1>0, <1>5, <3>1 DEF OnNewSample, SkipStep, PutStep, ControlInv
  <2>2. \A f \in Indices : (Done(f) <=> f < idx) /\ (Done(f)' <=> f < idx)
    BY <1>0, <2>1 DEF Done
  <2>3. CASE fragments' = fragments
    BY <2>1, <2>2, <2>3 DEF SentInv, Tells, Sent, Stale, Up
  <2>4. CASE PutStep /\ fragments' # fragments
    <3> DEFINE n == Len(fragments)
               x == <<current_file_idx, pos>>
    <3>1. /\ n \in Nat /\ Len(fragments') \in Nat /\ n <= Len(fragments')
          /\ \A j \in 1..n : /\ fragments'[j].ts = fragments[j].ts
                             /\ fragments[j].frames \subseteq fragments'[j].frames
      BY <2>4, FragmentFacts, Grown DEF PutStep
    <3>2. \A j \in 1..n : j \in 1..Len(fragments')
      BY <3>1
    <3>3. \A j \in 1..Len(fragments') :
            j \in 1..n \/ (fragments'[j].ts = PutTs /\ j = Len(fragments'))
      BY <2>4, <3>1 DEF PutStep, Begins, Continues
    <3>4. ASSUME NEW f \in Indices, Stale(f) PROVE Stale(f)'
      <4>1. CASE last_fragment_ts[f] = 0
        BY <2>1, <4>1 DEF Stale
      <4>2. CASE last_fragment_ts[f] # 0
        <5>1. last_fragment_ts[f] + TicksPerMs <= base_pts + ProducerStartTime
          BY <4>2 DEF BaseInv
        <5>2. PutTs = Samples[pos].pts + base_pts + ProducerStartTime /\ Samples[pos].pts \in Nat
          BY <2>1, <2>4, Playing, SampleFacts DEF PutTs, PutStep
        <5>3. base_pts \in Nat /\ ProducerStartTime \in Nat /\ TicksPerMs \in Nat /\ last_fragment_ts[f] \in Nat
          BY Constants DEF TypeOK
        <5>4. last_fragment_ts[f] + TicksPerMs <= PutTs
          BY <5>1, <5>2, <5>3
        <5> QED
          <6>1. \A j \in 1..n : last_fragment_ts[f] + TicksPerMs <= fragments[j].ts
            BY <3>4, <4>2 DEF Stale
          <6>2. \A j \in 1..Len(fragments') :
                  last_fragment_ts[f] + TicksPerMs <= fragments'[j].ts
            BY <3>1, <3>3, <5>4, <6>1
          <6> QED
            BY <2>1, <6>2 DEF Stale
      <4> QED
        BY <4>1, <4>2
    <3>5. ASSUME NEW f \in Indices, Sent(f), f < idx PROVE Sent(f)'
      <4>1. PICK k \in 1..n :
              /\ fragments[k].ts = last_fragment_ts[f]
              /\ \A j \in 1..(k - 1) : fragments[j].ts + TicksPerMs <= last_fragment_ts[f]
              /\ \A y \in FramesOf(f) : \E j \in 1..k : y \in fragments[j].frames
        BY <3>5 DEF Sent
      <4>2. k \in 1..Len(fragments') /\ fragments'[k].ts = last_fragment_ts'[f] /\ f # NFiles
        BY <1>0, <2>1, <3>1, <3>2, <3>5, <4>1
      <4>3. \A j \in 1..k : j \in 1..n
        BY <3>1, <4>1
      <4>4. \A j \in 1..(k - 1) : j \in 1..k
        BY <3>1, <4>1
      <4>5. \A j \in 1..(k - 1) : fragments'[j].ts + TicksPerMs <= last_fragment_ts'[f]
        BY <2>1, <3>1, <4>1, <4>3, <4>4
      <4>6. \A y \in FramesOf(f) : \E j \in 1..k : y \in fragments'[j].frames
        BY <3>1, <4>1, <4>3
      <4> QED
        BY <4>2, <4>5, <4>6 DEF Sent
    <3>6. ASSUME Up', NEW f \in Indices, f >= last_unpersisted_file_idx PROVE Tells(f)'
      <4>1. Tells(f)
        BY <2>1, <3>6 DEF SentInv, Up
      <4>2. Done(f) /\ f \notin cut =>
              \A y \in FramesOf(f) : \E j \in 1..Len(fragments') : y \in fragments'[j].frames
        BY <3>1, <3>2, <4>1 DEF Tells
      <4> QED
        BY <2>1, <2>2, <3>4, <3>5, <4>1, <4>2 DEF Tells
    <3>7. \A f \in Indices : f < last_unpersisted_file_idx => Done(f)'
      BY <2>1, <2>2 DEF SentInv
    <3> QED
      BY <2>1, <3>6, <3>7 DEF SentInv
  <2> QED
    BY <2>1, <2>3, <2>4 DEF SkipStep
<1>6. ASSUME NEW type \in {"RECEIVED", "PERSISTED"}, FragmentAck(type) PROVE SentInv'
  <2>1. /\ UNCHANGED <<mainVars, last_fragment_ts, pipeVars, session, fragments, cut>>
        /\ session \in {"open", "closing"} /\ pc # "end"
        /\ last_unpersisted_file_idx' = last_unpersisted_file_idx \/ Counted
    BY <1>6, AckStep
  <2>2. \A f \in Indices : /\ Done(f)' <=> Done(f)
                           /\ Sent(f)' <=> Sent(f)
                           /\ Stale(f)' <=> Stale(f)
    BY <2>1 DEF Done, Sent, Stale, mainVars, pipeVars
  <2>3. CASE last_unpersisted_file_idx' = last_unpersisted_file_idx
    BY <2>1, <2>2, <2>3 DEF SentInv, Tells, Up, mainVars, pipeVars
  <2>4. CASE Counted
    <3> DEFINE u == last_unpersisted_file_idx
    <3>1. u' = u + 1 /\ u \in Nat /\ u \notin cut /\ Done(u)
      BY <1>0, <2>4 DEF Counted
    <3>2. ASSUME NEW f \in Indices, f < u' PROVE Done(f)'
      <4>1. f < u \/ f = u
        BY <1>0, <3>1, <3>2
      <4>2. pc \notin {"setup", "reset", "round"}
        BY <3>1 DEF Done
      <4>3. Done(f)
        BY <3>1, <4>1, <4>2 DEF SentInv
      <4> QED
        BY <2>2, <4>3
    <3>3. ASSUME NEW f \in Indices, f >= u' PROVE Tells(f)'
      <4>1. f >= u /\ \A g \in u..f : g = u \/ g \in (u + 1)..f
        BY <1>0, <3>1, <3>3
      <4>2. Tells(f)
        BY <2>1, <4>1 DEF SentInv, Up
      <4> QED
        BY <2>1, <2>2, <3>1, <4>1, <4>2 DEF Tells
    <3> QED
      BY <3>2, <3>3 DEF SentInv
  <2> QED
    BY <2>1, <2>3, <2>4
<1> QED
  BY <1>1, <1>2, <1>3, <1>4, <1>5, <1>6, StepKinds

\* The types of what the threads steer by, and of what they measure and move.
ControlTypes ==
  /\ source \in {"file", "live", "rtsp"}
  /\ pc \in {"setup", "round", "files", "open", "play", "run", "check", "stopSync",
             "retry", "reset", "live", "cleanup", "end"}
  /\ idx \in 1..(NFiles + 1)
  /\ do_retry \in BOOLEAN /\ continue_uploading \in BOOLEAN
  /\ file_retry_count \in 0..Retries
  /\ outcome \in {"none", "exception", "noPipeline", "persisted", "fatal", "gaveUp", "crashed"}
  /\ stream_status \in Statuses /\ stream_started \in BOOLEAN
  /\ main_loop \in {"null", "made", "running", "quit"} /\ quitting \in BOOLEAN
  /\ pipe \in {"none", "playing", "eos", "error"} /\ bus_error \in BOOLEAN
  /\ session \in {"none", "open", "closing", "down"}
  /\ errors \in 0..MaxErrors

UploadTypes ==
  /\ current_file_idx \in Indices \cup {1} /\ last_unpersisted_file_idx \in 1..(NFiles + 1)
  /\ last_fragment_ts \in [Indices -> Nat]
  /\ base_pts \in Nat /\ max_frame_pts \in Nat /\ key_frame_pts \in Nat
  /\ first_pts \in Nat \cup {NoPts} /\ pos \in Nat
  /\ fragments \in Seq(Fragment)
  /\ received \in Nat /\ acked \in Nat
  /\ persisted \subseteq Nat \X Nat /\ cut \subseteq Nat

LEMMA TypeParts == TypeOK <=> ControlTypes /\ UploadTypes
BY DEF TypeOK, ControlTypes, UploadTypes, Fragment

LEMMA ControlTypeStep == TypeOK /\ ControlInv /\ Next => ControlTypes'
<1> SUFFICES ASSUME ControlTypes, ControlInv, last_unpersisted_file_idx \in 1..(NFiles + 1), Next
             PROVE  ControlTypes'
  BY DEF TypeOK, ControlTypes
<1> USE DEF ControlTypes
<1>0. NFiles \in Nat /\ Indices = 1..NFiles /\ Retries \in Nat /\ MaxErrors \in Nat /\ Retries >= 1
  BY Constants DEF Indices
<1>1. CASE Setup
  BY <1>1 DEF Setup, KinesisVideoStreamInit, Statuses, loopVars, pipeVars
<1>2. CASE StartRound
  BY <1>2 DEF StartRound, ResumeFile, loopVars, pipeVars
<1>3. CASE NextFile
  BY <1>3 DEF NextFile, loopVars, pipeVars
<1>4. CASE OpenPipeline
  BY <1>4 DEF OpenPipeline, loopVars
<1>5. CASE MakeLoop \/ RunLoop
  BY <1>5 DEF MakeLoop, RunLoop, mainVars, pipeVars
<1>6. CASE ErrorCb
  <2>1. bus_error' \in BOOLEAN /\ main_loop' \in {"null", "made", "running", "quit"}
    BY <1>6 DEF ErrorCb, QuitLoop
  <2> QED
    BY <1>6, <2>1 DEF ErrorCb, mainVars
<1>7. CASE LeaveLoop
  BY <1>7 DEF LeaveLoop
<1>8. CASE CheckFile
  <2>1. idx \in Indices
    BY <1>8 DEF CheckFile, ControlInv
  <2>2. idx + 1 \in 1..(NFiles + 1)
    BY <1>0, <2>1
  <2> QED
    <3>1. continue_uploading' \in BOOLEAN /\ do_retry' \in BOOLEAN
      BY <1>8 DEF CheckFile
    <3>2. /\ pc' \in {"files", "stopSync"} /\ session' \in {"down", "closing", session}
          /\ outcome' \in {"fatal", outcome}
      BY <1>8 DEF CheckFile
    <3>3. idx' \in {idx, idx + 1}
      BY <1>8 DEF CheckFile
    <3> QED
      BY <1>8, <2>2, <3>1, <3>2, <3>3 DEF CheckFile, loopVars, pipeVars
<1>9. ASSUME NEW ok \in BOOLEAN, StopSync(ok) PROVE ControlTypes'
  <2>1. idx \in Indices
    BY <1>9 DEF StopSync, ControlInv
  <2>2. idx + 1 \in 1..(NFiles + 1)
    BY <1>0, <2>1
  <2> QED
    BY <1>9, <2>2 DEF StopSync, loopVars, pipeVars
<1>10. CASE Retry
  <2>1. RetriesLeft \in 0..Retries
    BY <1>0, <1>10 DEF Retry, RetriesLeft, ControlInv
  <2> QED
    BY <1>10, <2>1 DEF Retry, loopVars, pipeVars
<1>11. CASE ResetState
  <2>1. stream_status' \in Statuses /\ stream_started' \in BOOLEAN
    BY <1>11 DEF ResetState, Statuses
  <2> QED
    BY <1>11, <2>1 DEF ResetState, loopVars, pipeVars
<1>12. CASE StopLive \/ CleanUp
  BY <1>12 DEF StopLive, CleanUp, loopVars, pipeVars
<1>13. CASE OnNewSample
  <2>1. stream_started' \in BOOLEAN /\ bus_error' \in BOOLEAN
    BY <1>13 DEF OnNewSample
  <2>2. pipe' \in {"playing", "error"}
    BY <1>13 DEF OnNewSample
  <2> QED
    BY <1>13, <2>1, <2>2 DEF OnNewSample, mainVars, loopVars
<1>14. CASE EosCb
  BY <1>14 DEF EosCb, QuitLoop, mainVars
<1>15. CASE GstError
  BY <1>0, <1>15 DEF GstError, mainVars, loopVars
<1>16. CASE HandlerQuits
  <2>1. quitting' \in BOOLEAN /\ main_loop' \in {"null", "made", "running", "quit"}
    BY <1>16 DEF HandlerQuits, QuitLoop
  <2> QED
    BY <1>16, <2>1 DEF HandlerQuits, mainVars, pipeVars
<1>17. ASSUME NEW kind \in {"retriable", "recoverable", "fatal"}, StreamError(kind)
       PROVE  ControlTypes'
  <2>1. errors' \in 0..MaxErrors
    BY <1>0, <1>17 DEF StreamError
  <2>2. stream_status' \in Statuses
    BY <1>17 DEF StreamError, Terminates, Statuses
  <2> QED
    <3>1. quitting' \in BOOLEAN
      BY <1>17 DEF StreamError
    <3>2. session' \in {"down", session}
      BY <1>17 DEF StreamError
    <3> QED
      BY <1>17, <2>1, <2>2, <3>1, <3>2 DEF StreamError, mainVars, pipeVars
<1>18. ASSUME NEW type \in {"RECEIVED", "PERSISTED"}, FragmentAck(type)
       PROVE  ControlTypes'
  BY <1>18 DEF FragmentAck, mainVars, loopVars, pipeVars
<1> QED
  BY <1>1, <1>2, <1>3, <1>4, <1>5, <1>6, <1>7, <1>8, <1>9, <1>10, <1>11, <1>12, <1>13, <1>14,
     <1>15, <1>16, <1>17, <1>18 DEF Next, Main, Streaming

LEMMA UploadTypeStep ==
  ASSUME TypeOK, ControlInv, BaseInv, LiveInv, FillInv, SentInv, WellFormed, Next,
         AckInv, AckWithinList
  PROVE  UploadTypes'
<1>0. UploadTypes /\ NFiles \in Nat /\ Indices = 1..NFiles /\ TicksPerMs \in Nat
  BY Constants, TypeParts DEF Indices
<1> USE DEF UploadTypes
<1>1. CASE Setup
  BY <1>0, <1>1, SetupStep DEF fileVars, ptsVars, pipeVars, ackVars
<1>2. CASE Retry
  <2>1. <<>> \in Seq(Fragment)
    BY EmptySeq
  <2>2. UNCHANGED <<source, fileVars, ptsVars, pipeVars, persisted, cut>>
    BY <1>2, RetryStep
  <2>3. /\ fragments' \in {fragments, <<>>}
        /\ received' \in {received, 0} /\ acked' \in {acked, 0}
    BY <1>2 DEF Retry, ackVars
  <2>4. fragments' \in Seq(Fragment)
    BY <1>0, <2>1, <2>3
  <2>5. received' \in Nat /\ acked' \in Nat
    BY <1>0, <2>3
  <2> QED
    BY <1>0, <2>2, <2>4, <2>5 DEF fileVars, ptsVars, pipeVars
<1>3. CASE OpenPipeline
  BY <1>0, <1>3 DEF OpenPipeline, fileVars, ackVars
<1>4. CASE QuietStep
  <2>1. current_file_idx' \in Indices \cup {1}
    BY <1>0, <1>4 DEF QuietStep, StartRound, NextFile, MakeLoop, RunLoop, ErrorCb, LeaveLoop,
       CheckFile, StopSync, ResetState, StopLive, CleanUp, GstError, HandlerQuits, StreamError, fileVars, TypeOK
  <2>2. cut' = cut \/ cut' = cut \cup {current_file_idx}
    BY <1>4 DEF QuietStep, StartRound, NextFile, MakeLoop, RunLoop, ErrorCb, LeaveLoop,
       CheckFile, StopSync, ResetState, StopLive, CleanUp, GstError, HandlerQuits, StreamError
  <2>3. cut' \subseteq Nat
    <3>1. current_file_idx \in Nat
      BY <1>0
    <3> QED
      BY <1>0, <2>2, <3>1
  <2> QED
    BY <1>0, <1>4, <2>1, <2>3, QuietSteps DEF Quiet, Still
<1>5. CASE OnNewSample
  <2>1. SampleFrame /\ (SkipStep \/ PutStep)
    BY <1>5, SampleStep
  <2>2. CASE SkipStep
    BY <1>0, <2>1, <2>2 DEF SampleFrame, SkipStep, fileVars, ptsVars
  <2>3. CASE PutStep
    <3>1. Samples[pos].pts \in Nat
      BY <1>5, <2>3, Playing, SampleFacts DEF PutStep, OnNewSample
    <3>2. base_pts' \in Nat /\ pos' \in Nat
      BY <1>0, <2>3 DEF PutStep
    <3>3. max_frame_pts' \in Nat
      BY <1>0, <2>3, <3>1, MaxOfTwo DEF PutStep
    <3>4. key_frame_pts' \in Nat /\ first_pts' \in Nat \cup {NoPts}
      BY <1>0, <2>3, <3>1 DEF PutStep, FirstPts
    <3>5. fragments' \in Seq(Fragment)
      BY <2>3 DEF PutStep
    <3> QED
      BY <1>0, <2>1, <3>2, <3>3, <3>4, <3>5 DEF SampleFrame, fileVars
  <2> QED
    BY <2>1, <2>2, <2>3
<1>6. CASE EosCb
  <2>1. /\ max_frame_pts' = 0 /\ base_pts' = base_pts + max_frame_pts + TicksPerMs
        /\ cut' = cut \ {current_file_idx}
        /\ last_fragment_ts' = [last_fragment_ts EXCEPT ![current_file_idx] = key_frame_pts]
        /\ UNCHANGED <<current_file_idx, last_unpersisted_file_idx, key_frame_pts, first_pts, pos,
                       ackVars>>
    BY <1>6 DEF EosCb, NextBase
  <2>2. base_pts' \in Nat /\ max_frame_pts' \in Nat
    BY <1>0, <2>1
  <2>3. last_fragment_ts' \in [Indices -> Nat] /\ cut' \subseteq Nat
    BY <1>0, <2>1
  <2> QED
    BY <1>0, <2>1, <2>2, <2>3 DEF ackVars
<1>7. ASSUME NEW type \in {"RECEIVED", "PERSISTED"}, FragmentAck(type) PROVE UploadTypes'
  <2>1. /\ UNCHANGED <<current_file_idx, last_fragment_ts, ptsVars, pipeVars, fragments, cut>>
        /\ received' \in {received, received + 1} /\ acked' \in {acked, acked + 1}
    BY <1>7 DEF FragmentAck
  <2>2. last_unpersisted_file_idx' \in 1..(NFiles + 1)
    <3>1. CASE Counted
      <4>1. last_unpersisted_file_idx \in 1..NFiles
        BY <1>0, <3>1 DEF Counted
      <4>2. last_unpersisted_file_idx' = last_unpersisted_file_idx + 1
        BY <3>1 DEF Counted
      <4> QED
        BY <1>0, <4>1, <4>2
    <3> QED
      BY <1>0, <1>7, <3>1, AckStep
  <2>3. persisted' \subseteq Nat \X Nat
    <3>1. CASE persisted' = persisted
      BY <1>0, <3>1
    <3>2. CASE /\ persisted' = persisted \cup fragments[acked + 1].frames
               /\ acked' = acked + 1 /\ acked' <= received' /\ received' <= Len(fragments)
      <4>1. acked + 1 \in 1..Len(fragments)
        BY <1>0, <2>1, <3>2, FragmentFacts
      <4>2. fragments[acked + 1] \in Fragment
        BY <4>1, FragmentFacts, ElementOfSeq
      <4> QED
        BY <1>0, <3>2, <4>2 DEF Fragment
    <3> QED
      BY <1>7, <3>1, <3>2, AckStep
  <2>4. received' \in Nat /\ acked' \in Nat
    BY <1>0, <2>1
  <2> QED
    BY <1>0, <2>1, <2>2, <2>3, <2>4 DEF ptsVars, pipeVars
<1> QED
  BY <1>1, <1>2, <1>3, <1>4, <1>5, <1>6, <1>7, StepKinds

------------------------------------------------------------------------------
(* What the runs check *)

LEMMA PersistedStep ==
  ASSUME TypeOK, ControlInv, BaseInv, LiveInv, FillInv, SentInv, WellFormed, Next,
         AckInv, AckWithinList, PersistedFilesComplete
  PROVE  PersistedFilesComplete'
<1>1. CASE UNCHANGED <<persisted, last_unpersisted_file_idx>>
  BY <1>1 DEF PersistedFilesComplete
<1>2. ASSUME NEW type \in {"RECEIVED", "PERSISTED"}, FragmentAck(type)
      PROVE  PersistedFilesComplete'
  <2>1. persisted \subseteq persisted'
    BY <1>2, AckStep
  <2>2. CASE last_unpersisted_file_idx' = last_unpersisted_file_idx
    BY <2>1, <2>2 DEF PersistedFilesComplete
  <2>3. CASE Counted
    <3>1. \A f \in Indices : f < last_unpersisted_file_idx + 1 =>
            f < last_unpersisted_file_idx \/ f = last_unpersisted_file_idx
      BY <2>3, Constants DEF Counted, Indices
    <3> QED
      BY <2>1, <2>3, <3>1 DEF PersistedFilesComplete, Counted
  <2> QED
    BY <1>2, <2>2, <2>3, AckStep
<1>3. OnNewSample => UNCHANGED <<persisted, last_unpersisted_file_idx>>
  BY DEF OnNewSample, fileVars
<1>4. QuietStep \/ Setup \/ Retry => UNCHANGED <<persisted, last_unpersisted_file_idx>>
  BY QuietSteps, RetryStep DEF Quiet, Still, Setup, fileVars, ackVars
<1>5. OpenPipeline \/ EosCb => UNCHANGED <<persisted, last_unpersisted_file_idx>>
  BY DEF OpenPipeline, EosCb, fileVars, ackVars
<1> QED
  BY <1>1, <1>2, <1>3, <1>4, <1>5, StepKinds

LEMMA AcksInListStep ==
  ASSUME TypeOK, ControlInv, BaseInv, LiveInv, FillInv, SentInv, WellFormed, Next,
         AckInv, AckWithinList
  PROVE  AckWithinList'
<1>0. /\ NFiles \in Nat /\ Indices = 1..NFiles /\ last_unpersisted_file_idx \in 1..(NFiles + 1)
      /\ received \in Nat /\ acked \in Nat /\ Len(fragments) \in Nat
  BY Constants, FragmentFacts DEF TypeOK, Indices
<1>1. CASE Setup
  BY <1>1, SetupStep, EmptyFragments DEF AckWithinList, ackVars
<1>2. CASE Retry
  BY <1>2, RetryStep, EmptyFragments DEF AckWithinList
<1>3. CASE QuietStep
  BY <1>3, QuietSteps DEF AckWithinList, Quiet, Still, Up
<1>4. CASE OpenPipeline \/ EosCb
  BY <1>4 DEF AckWithinList, OpenPipeline, EosCb, mainVars, fileVars, ackVars
<1>5. CASE OnNewSample
  <2>1. UNCHANGED <<source, last_unpersisted_file_idx>> /\ pipe = "playing"
    BY <1>5 DEF OnNewSample, mainVars, fileVars
  <2>2. ASSUME source = "file" PROVE ~(last_unpersisted_file_idx > NFiles)
    <3>1. idx \in Indices /\ pc \in {"play", "run"}
      BY <2>1, <2>2 DEF ControlInv
    <3>2. ~Done(idx)
      BY <1>0, <2>1, <3>1 DEF Done
    <3>3. ~(idx < last_unpersisted_file_idx)
      BY <2>2, <3>1, <3>2 DEF SentInv
    <3> QED
      BY <1>0, <3>1, <3>3
  <2> QED
    BY <2>1, <2>2 DEF AckWithinList
<1>6. ASSUME NEW type \in {"RECEIVED", "PERSISTED"}, FragmentAck(type) PROVE AckWithinList'
  <2>1. /\ UNCHANGED <<source, session, fragments>>
        /\ acked' <= received' /\ received' <= Len(fragments)
        /\ last_unpersisted_file_idx' = last_unpersisted_file_idx \/ Counted
    BY <1>6, AckStep DEF mainVars
  <2>2. received' \in {received, received + 1} /\ acked' \in {acked, acked + 1}
    BY <1>6 DEF FragmentAck
  <2>3. CASE last_unpersisted_file_idx' = last_unpersisted_file_idx
    <3>1. ASSUME received = Len(fragments), acked = received
          PROVE  received' = Len(fragments) /\ acked' = received'
      BY <1>0, <2>1, <2>2, <3>1
    <3> QED
      BY <2>1, <2>3, <3>1 DEF AckWithinList
  <2>4. CASE Counted
    <3>1. last_unpersisted_file_idx' > NFiles => last_unpersisted_file_idx = NFiles
      BY <1>0, <2>4 DEF Counted
    <3>2. ASSUME acked' = Len(fragments) PROVE received' = Len(fragments) /\ acked' = received'
      BY <1>0, <2>1, <2>2, <3>2
    <3> QED
      BY <2>1, <2>4, <3>1, <3>2 DEF AckWithinList, Counted
  <2> QED
    BY <2>1, <2>3, <2>4
<1> QED
  BY <1>1, <1>2, <1>3, <1>4, <1>5, <1>6, StepKinds

LEMMA ReportedStep ==
  ASSUME TypeOK, ControlInv, BaseInv, LiveInv, FillInv, SentInv, WellFormed, Next,
         AckInv, AckWithinList, PersistedFilesComplete, ReportedFilesPersisted
  PROVE  ReportedFilesPersisted'
<1>1. CASE (outcome' = "persisted" => outcome = "persisted") /\ persisted \subseteq persisted' /\ cut \subseteq cut'
  BY <1>1 DEF ReportedFilesPersisted
<1>2. CASE outcome' # "persisted"
  BY <1>2 DEF ReportedFilesPersisted
<1>3. ASSUME NEW ok \in BOOLEAN, StopSync(ok) PROVE ReportedFilesPersisted'
  <2>1. CASE ok
    <3>1. /\ pc = "stopSync" /\ session = "closing" /\ acked = Len(fragments)
          /\ UNCHANGED <<persisted, cut>>
      BY <1>3, <2>1 DEF StopSync, ackVars
    <3>2. /\ source = "file" /\ idx = NFiles /\ NFiles \in Nat /\ Indices = 1..NFiles
          /\ last_unpersisted_file_idx \in 1..(NFiles + 1)
      BY <3>1, Constants DEF ControlInv, Indices, TypeOK
    <3>3. ASSUME NEW f \in Indices, f \notin cut PROVE FramesOf(f) \subseteq persisted
      <4>1. CASE f < last_unpersisted_file_idx
        BY <4>1 DEF PersistedFilesComplete
      <4>2. CASE f >= last_unpersisted_file_idx
        <5>1. Done(f)
          BY <3>1, <3>2 DEF Done
        <5>2. Tells(f)
          BY <3>1, <3>2, <4>2 DEF SentInv, Up
        <5>3. \A x \in FramesOf(f) : \E j \in 1..acked : x \in fragments[j].frames
          BY <3>1, <3>3, <5>1, <5>2 DEF Tells
        <5> QED
          BY <5>3 DEF AckInv
      <4> QED
        BY <3>2, <4>1, <4>2
    <3> QED
      BY <3>1, <3>3 DEF ReportedFilesPersisted
  <2>2. CASE ~ok
    BY <1>1, <1>3, <2>2 DEF StopSync, ackVars
  <2> QED
    BY <2>1, <2>2
<1>4. CASE Setup
  BY <1>2, <1>4, SetupStep
<1>5. CASE Retry
  <2>1. outcome # "persisted"
    BY <1>5 DEF Retry, ControlInv
  <2>2. outcome' \in {outcome, "gaveUp", "crashed"}
    BY <1>5 DEF Retry
  <2> QED
    BY <1>2, <2>1, <2>2
<1>6. CASE EosCb
  <2>1. outcome' # "persisted"
    BY <1>6 DEF EosCb, ControlInv, mainVars
  <2> QED
    BY <1>2, <2>1
<1>7. CASE OnNewSample \/ OpenPipeline
  BY <1>1, <1>7 DEF OnNewSample, OpenPipeline, mainVars, ackVars
<1>8. ASSUME NEW type \in {"RECEIVED", "PERSISTED"}, FragmentAck(type)
      PROVE  ReportedFilesPersisted'
  BY <1>1, <1>8, AckStep DEF mainVars
<1>9. CASE QuietStep /\ \A ok \in BOOLEAN : ~StopSync(ok)
  <2>1. /\ outcome' = "persisted" => outcome = "persisted"
        /\ cut \subseteq cut'
    BY <1>9 DEF QuietStep, StartRound, NextFile, MakeLoop, RunLoop, ErrorCb, LeaveLoop,
       CheckFile, ResetState, StopLive, CleanUp, GstError, HandlerQuits, StreamError, mainVars
  <2>2. persisted' = persisted
    BY <1>9, QuietSteps DEF Quiet, Still
  <2> QED
    BY <1>1, <2>1, <2>2
<1> QED
  BY <1>3, <1>4, <1>5, <1>6, <1>7, <1>8, <1>9, StepKinds

------------------------------------------------------------------------------
(* The theorems *)

LEMMA UploadInit ==
  ASSUME Init, WellFormed
  PROVE  TypeOK /\ UploadInv
<1>0. /\ NFiles \in Nat /\ Retries \in Nat /\ Retries >= 1 /\ MaxErrors \in Nat
      /\ ProducerStartTime \in Nat
  BY Constants
<1>1. ControlTypes
  <2>1. /\ do_retry \in BOOLEAN /\ continue_uploading \in BOOLEAN
        /\ stream_started \in BOOLEAN /\ quitting \in BOOLEAN /\ bus_error \in BOOLEAN
    BY DEF Init
  <2>2. idx \in 1..(NFiles + 1) /\ file_retry_count \in 0..Retries /\ errors \in 0..MaxErrors
    BY <1>0 DEF Init
  <2> QED
    BY <2>1, <2>2 DEF Init, ControlTypes, Statuses
<1>2. UploadTypes
  <2>1. <<>> \in Seq(Fragment)
    BY EmptySeq
  <2>2. last_fragment_ts \in [Indices -> Nat]
    BY DEF Init
  <2> QED
    BY <1>0, <2>1, <2>2 DEF Init, UploadTypes
<1>3. ControlInv /\ AckInv
  BY ControlInit, EmptyFragments DEF Init, AckInv
<1>4. BaseInv
  BY <1>0, EmptyFragments DEF Init, BaseInv
<1>5. LiveInv
  <2>1. \A k \in PutSamples(LiveSamples) : k >= 1
    BY Constants, SampleFacts DEF PutSamples
  <2> QED
    BY <2>1, EmptyFragments DEF Init, LiveInv
<1>6. FillInv /\ OrderInv
  BY EmptyFragments DEF Init, FillInv, OrderInv, Up
<1>7. SentInv /\ AckWithinList /\ ReportedFilesPersisted
  BY DEF Init, SentInv, AckWithinList, ReportedFilesPersisted, Up
<1>8. PersistedFilesComplete
  <2>1. \A f \in Indices : ~(f < 1)
    BY <1>0 DEF Indices
  <2> QED
    BY <2>1 DEF Init, PersistedFilesComplete
<1> QED
  BY <1>1, <1>2, <1>3, <1>4, <1>5, <1>6, <1>7, <1>8, TypeParts DEF UploadInv

LEMMA UploadStutters ==
  ASSUME TypeOK, UploadInv, UNCHANGED vars
  PROVE  TypeOK' /\ UploadInv'
<1> USE DEF vars, mainVars, fileVars, loopVars, pipeVars, ackVars, ptsVars
<1>1. TypeOK'
  BY DEF TypeOK
<1>2. ControlInv' /\ AckInv'
  BY DEF UploadInv, ControlInv, AckInv, Up
<1>3. BaseInv' /\ LiveInv' /\ FillInv'
  BY DEF UploadInv, BaseInv, LiveInv, FillInv, Within, Before, Samples, Offset, Up, Uncut, Done
<1>4. OrderInv' /\ SentInv'
  BY DEF UploadInv, OrderInv, SentInv, Tells, Sent, Stale, Up, Uncut, Done
<1>5. PersistedFilesComplete' /\ AckWithinList' /\ ReportedFilesPersisted'
  BY DEF UploadInv, PersistedFilesComplete, AckWithinList, ReportedFilesPersisted
<1> QED
  BY <1>1, <1>2, <1>3, <1>4, <1>5 DEF UploadInv

\* The types of FileUpload's variables, and the invariant by which the time line,
\* the session's fragments and last_fragment_ts tell one file from another.
THEOREM UploadSound == ASSUME WellFormed PROVE Spec => [](TypeOK /\ UploadInv)
<1>1. Init => TypeOK /\ UploadInv
  BY UploadInit
<1>2. TypeOK /\ UploadInv /\ [Next]_vars => (TypeOK /\ UploadInv)'
  <2> SUFFICES ASSUME TypeOK, UploadInv, [Next]_vars PROVE (TypeOK /\ UploadInv)'
    OBVIOUS
  <2>1. CASE UNCHANGED vars
    BY <2>1, UploadStutters
  <2>2. CASE Next
    <3> USE <2>2 DEF UploadInv
    <3>1. ControlInv' /\ AckInv'
      BY ControlStep, AckInvStep
    <3>2. BaseInv' /\ LiveInv'
      BY BaseInvStep, LiveInvStep
    <3>3. FillInv' /\ OrderInv'
      BY FillInvStep, OrderInvStep
    <3>4. SentInv' /\ TypeOK'
      <4>1. ControlTypes' /\ UploadTypes'
        BY ControlTypeStep, UploadTypeStep
      <4>2. TypeOK'
        BY <4>1 DEF TypeOK, ControlTypes, UploadTypes, Fragment
      <4> QED
        BY <4>2, SentInvStep
    <3>5. PersistedFilesComplete' /\ AckWithinList' /\ ReportedFilesPersisted'
      BY PersistedStep, AcksInListStep, ReportedStep
    <3> QED
      BY <3>1, <3>2, <3>3, <3>4, <3>5
  <2> QED
    BY <2>1, <2>2
<1> QED
  BY <1>1, <1>2, PTL DEF Spec

\* In every state FileUpload's variables have their types.
THEOREM TypeCorrect == ASSUME WellFormed PROVE Spec => []TypeOK
BY UploadSound, PTL

\* fragmentAckReceivedHandler counts a file only when the service has persisted
\* every frame of it and of the files before it.
THEOREM CountedPersisted == ASSUME WellFormed PROVE Spec => []PersistedFilesComplete
<1>1. TypeOK /\ UploadInv => PersistedFilesComplete
  BY DEF UploadInv
<1> QED
  BY <1>1, UploadSound, PTL

\* It never reads last_fragment_ts beyond the list of files.
THEOREM AcksEnd == ASSUME WellFormed PROVE Spec => []AckWithinList
<1>1. TypeOK /\ UploadInv => AckWithinList
  BY DEF UploadInv
<1> QED
  BY <1>1, UploadSound, PTL

\* "All files have been persisted" is true of every file that was not cut short.
THEOREM ReportTrue == ASSUME WellFormed PROVE Spec => []ReportedFilesPersisted
<1>1. TypeOK /\ UploadInv => ReportedFilesPersisted
  BY DEF UploadInv
<1> QED
  BY <1>1, UploadSound, PTL

\* eos_cb and on_new_sample keep the fragments of a session apart on its time line.
THEOREM FragmentsApart == ASSUME WellFormed, ClosedFragments PROVE Spec => []FragmentsDoNotOverlap
<1>1. TypeOK /\ UploadInv => FragmentsDoNotOverlap
  <2> SUFFICES ASSUME TypeOK, UploadInv, cut = {}, NEW k \in 1..(Len(fragments) - 1)
               PROVE  fragments[k].last < fragments[k + 1].ts
    BY DEF FragmentsDoNotOverlap
  <2>1. k \in 1..Len(fragments) /\ k + 1 \in 1..Len(fragments) /\ k < k + 1
    BY FragmentFacts
  <2>2. Uncut /\ OrderInv
    BY DEF Uncut, UploadInv
  <2> QED
    BY <2>1, <2>2 DEF OrderInv
<1> QED
  BY <1>1, UploadSound, PTL
=============================================================================
