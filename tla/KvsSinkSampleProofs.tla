------------------------ MODULE KvsSinkSampleProofs ------------------------
(***************************************************************************)
(* The two kvssink samples.  What holds of kvssink_gstreamer_sample for    *)
(* any number of files, retries and signals: the files are played in       *)
(* order, and each file that is counted without having come to its end was *)
(* paid for by a SIGINT.                                                   *)
(*                                                                         *)
(* What holds of kvssink_intermittent_sample, at the end, for any number   *)
(* of wake-ups and errors: the pipeline outlives the threads that use it,  *)
(* and it is flushed only after the EOS went through.                      *)
(***************************************************************************)
EXTENDS KvsSinkSample, FiniteSetTheorems, TLAPS

USE DEF control, upload, others

(* The types of what is counted, and of the rest.                          *)
Counts ==
  /\ file \in 0..Files /\ unpersisted \in 0..Files
  /\ file_retry_count \in 0..Retries
  /\ signals \in 0..MaxSignals
  /\ ended \subseteq 0..(Files - 1)

Flags ==
  /\ streamSource \in {"live", "rtsp", "file"} /\ max_runtime \in BOOLEAN
  /\ pc \in {"files", "init", "play", "timer", "make", "run", "running",
             "unref", "clear", "check", "retry", "done"}
  /\ main_loop \in {"NULL", "made", "running", "quit", "freed"}
  /\ stream_status \in {"success", "error", "interrupted"}
  /\ bus \in {"none", "eos", "error"}
  /\ do_retry \in BOOLEAN
  /\ timer \in {"none", "sleeping", "status", "done"}
  /\ handler \in {"idle", "status"}

(* What a file source does: it has no timer, and main comes to the end of  *)
(* a pipeline with the loop that was quit.                                 *)
ControlInv ==
  /\ pc \in {"files", "check", "retry"} => streamSource = "file"
  /\ streamSource = "file" => timer = "none"
  /\ streamSource = "file" /\ pc # "done" => max_runtime = FALSE
  /\ main_loop = "running" => pc = "running"
  /\ main_loop = "quit" => pc \in {"running", "unref"}
  /\ pc = "running" => main_loop \in {"running", "quit"}

(* A step keeps the types of the rest, and the control.                    *)
LEMMA ControlStep ==
  ASSUME Flags, ControlInv, [Next]_vars
  PROVE  Flags' /\ ControlInv'
<1> USE DEF Flags, ControlInv
<1>1. CASE LiveSourceInit \/ RtspSourceInit \/ FileSourceInit
  BY <1>1 DEF LiveSourceInit, RtspSourceInit, FileSourceInit, SourceInit
<1>2. CASE Play \/ StartTimer \/ MakeLoop \/ RunLoop
  BY <1>2 DEF Play, StartTimer, MakeLoop, RunLoop
<1>3. CASE LeaveLoop \/ UnrefLoop \/ ClearLoop
  BY <1>3 DEF LeaveLoop, UnrefLoop, ClearLoop
<1>4. CASE NextFile \/ FilesDone
  BY <1>4 DEF NextFile, FilesDone
<1>5. CASE CheckFile
  BY <1>5 DEF CheckFile
<1>6. CASE Retry \/ GiveUp
  BY <1>6 DEF Retry, GiveUp
<1>7. CASE EosCb \/ ErrorCb
  BY <1>7 DEF EosCb, ErrorCb, QuitLoop
<1>8. CASE PostMessage
  BY <1>8 DEF PostMessage
<1>9. CASE Timer
  BY <1>9 DEF Timer, TimerQuits, TimerStatus, QuitLoop
<1>10. CASE SigintHandler \/ SigintStatus
  BY <1>10 DEF SigintHandler, SigintStatus, QuitLoop
<1>11. CASE UNCHANGED vars
  BY <1>11 DEF vars
<1> QED
  BY <1>1, <1>2, <1>3, <1>4, <1>5, <1>6, <1>7, <1>8, <1>9, <1>10, <1>11
     DEF Next, Main, Terminated

(* The next file to play is the first that is not counted, and there is    *)
(* one while a pipeline is up; retries remain while files are retried.     *)
Pipelines == {"init", "play", "timer", "make", "run", "running", "unref",
              "clear", "check"}

OrderInv ==
  /\ file = unpersisted
  /\ pc \in Pipelines => file < Files
  /\ pc # "done" => file_retry_count > 0

(* What only the loop over the files changes.                              *)
Unmoved == UNCHANGED <<file, unpersisted, file_retry_count>>

(* Nothing is counted at first.                                            *)
LEMMA OrderInit == Init => Flags /\ ControlInv /\ Counts /\ OrderInv
<1> SUFFICES ASSUME Init PROVE Flags /\ ControlInv /\ Counts /\ OrderInv
  OBVIOUS
<1>1. Flags /\ ControlInv
  BY DEF Init, Flags, ControlInv
<1>2. Counts
  BY FilesAssumption, RetriesAssumption, MaxSignalsAssumption DEF Init, Counts
<1>3. OrderInv
  BY FilesAssumption, RetriesAssumption DEF Init, OrderInv
<1> QED
  BY <1>1, <1>2, <1>3

(* CheckFile counts the file it moves on from; a retry moves back to it.   *)
LEMMA OrderStep ==
  ASSUME Flags, ControlInv, Counts, OrderInv, [Next]_vars
  PROVE  Counts' /\ OrderInv'
<1> USE FilesAssumption, RetriesAssumption, MaxSignalsAssumption
<1> USE DEF Counts, OrderInv, Pipelines
<1>1. CASE LiveSourceInit \/ RtspSourceInit \/ FileSourceInit \/ Play
           \/ StartTimer \/ MakeLoop \/ RunLoop \/ LeaveLoop \/ UnrefLoop
           \/ ClearLoop
  <2>1. Unmoved /\ UNCHANGED <<signals, ended>>
    BY <1>1 DEF LiveSourceInit, RtspSourceInit, FileSourceInit, SourceInit, Play,
            StartTimer, MakeLoop, RunLoop, LeaveLoop, UnrefLoop, ClearLoop, Unmoved
  <2>2. pc \in Pipelines
    BY <1>1 DEF LiveSourceInit, RtspSourceInit, FileSourceInit, SourceInit, Play,
            StartTimer, MakeLoop, RunLoop, LeaveLoop, UnrefLoop, ClearLoop
  <2> QED
    BY <2>1, <2>2 DEF Unmoved
<1>2. CASE NextFile \/ FilesDone
  BY <1>2 DEF NextFile, FilesDone
<1>3. CASE CheckFile
  <2>1. /\ file < Files /\ file_retry_count > 0
        /\ pc' \notin Pipelines
        /\ UNCHANGED <<file_retry_count, signals, ended>>
    BY <1>3 DEF CheckFile
  <2>2. \/ unpersisted' = unpersisted + 1 /\ file' = file + 1
        \/ UNCHANGED <<unpersisted, file>>
    BY <1>3 DEF CheckFile
  <2> QED
    BY <2>1, <2>2
<1>4. CASE Retry
  <2>1. /\ file_retry_count' = file_retry_count - 1 /\ file_retry_count' # 0
        /\ file' = unpersisted /\ pc' = "files" /\ pc = "retry"
        /\ UNCHANGED <<unpersisted, signals, ended>>
    BY <1>4 DEF Retry, RetriesLeft, ResumeFile
  <2> QED
    BY <2>1
<1>5. CASE GiveUp
  <2>1. /\ pc = "retry" /\ pc' = "done"
        /\ \/ UNCHANGED file_retry_count
           \/ file_retry_count' = file_retry_count - 1
        /\ UNCHANGED <<file, unpersisted, signals, ended>>
    BY <1>5 DEF GiveUp, RetriesLeft
  <2> QED
    BY <2>1
<1>6. CASE EosCb
  <2>1. /\ Unmoved /\ UNCHANGED <<signals, pc>> /\ pc \in Pipelines
        /\ ended' \subseteq ended \cup {file}
    BY <1>6 DEF EosCb, ControlInv, Unmoved
  <2> QED
    BY <2>1 DEF Unmoved
<1>7. CASE SigintHandler
  <2>1. /\ Unmoved /\ UNCHANGED <<ended, pc>>
        /\ signals < MaxSignals /\ signals' = signals + 1
    BY <1>7 DEF SigintHandler, Unmoved
  <2> QED
    BY <2>1 DEF Unmoved
<1>8. CASE ErrorCb \/ PostMessage \/ Timer \/ SigintStatus \/ UNCHANGED vars
  <2>1. Unmoved /\ UNCHANGED <<signals, ended, pc>>
    BY <1>8 DEF ErrorCb, PostMessage, Timer, TimerQuits, TimerStatus,
            SigintStatus, Unmoved, vars
  <2> QED
    BY <2>1 DEF Unmoved
<1> QED
  BY <1>1, <1>2, <1>3, <1>4, <1>5, <1>6, <1>7, <1>8 DEF Next, Main, Terminated

(* The inductive invariant behind the rest.                                *)
THEOREM UploadSound == Spec => [](Flags /\ ControlInv /\ Counts /\ OrderInv)
  BY OrderInit, ControlStep, OrderStep, PTL DEF Spec

(* The variables keep their types.                                         *)
THEOREM TypeCorrect == Spec => []TypeOK
<1>1. Flags /\ Counts => TypeOK
  BY DEF Flags, Counts, TypeOK
<1> QED
  BY <1>1, UploadSound, PTL

(* What is played is the first file not yet counted.                       *)
THEOREM FilesInOrder == Spec => []PlaysFirstUncounted
<1>1. OrderInv => PlaysFirstUncounted
  BY DEF OrderInv, PlaysFirstUncounted
<1> QED
  BY <1>1, UploadSound, PTL

----------------------------------------------------------------------------
(* The files counted that never came to their end, and one more while main *)
(* has not yet looked at a pipeline that was cut short with a good status. *)
Missing == 0..(unpersisted - 1) \ ended

CutShort ==
  /\ stream_status = "success" /\ file \notin ended /\ streamSource = "file"
  /\ \/ pc = "running" /\ main_loop = "quit"
     \/ pc \in {"unref", "clear", "check"}

(* Signals pay for both.                                                   *)
PaidFor ==
  /\ CutShort => Cardinality(Missing) + 1 <= signals
  /\ Cardinality(Missing) <= signals

(* What Missing is made of is finite.                                      *)
LEMMA GapFinite ==
  ASSUME NEW n \in Nat, NEW S
  PROVE  /\ IsFiniteSet(0..(n - 1) \ S)
         /\ Cardinality(0..(n - 1) \ S) \in Nat
<1>1. n - 1 \in Int
  OBVIOUS
<1>2. IsFiniteSet(0..(n - 1))
  BY <1>1, FS_Interval
<1>3. IsFiniteSet(0..(n - 1) \ S)
  BY <1>2, FS_Subset
<1> QED
  BY <1>3, FS_CardinalityType

(* Of what quits the loop of a file, the end of the stream leaves no       *)
(* Missing, an error no good status, and a SIGINT pays for both.           *)
LEMMA PaidStep ==
  ASSUME Flags, ControlInv, Counts, OrderInv, Counts', PaidFor, [Next]_vars
  PROVE  PaidFor'
<1>0. /\ IsFiniteSet(Missing) /\ Cardinality(Missing) \in Nat
      /\ Cardinality(Missing') \in Nat /\ signals \in Nat
  <2>1. unpersisted \in Nat /\ unpersisted' \in Nat /\ signals \in Nat
    BY FilesAssumption, MaxSignalsAssumption DEF Counts
  <2> QED
    BY <2>1, GapFinite DEF Missing
<1>1. CASE LiveSourceInit \/ RtspSourceInit \/ FileSourceInit \/ Play
           \/ StartTimer \/ MakeLoop \/ RunLoop \/ NextFile \/ FilesDone
           \/ Retry \/ GiveUp
  <2>1. UNCHANGED <<unpersisted, ended, signals>>
    BY <1>1 DEF LiveSourceInit, RtspSourceInit, FileSourceInit, SourceInit, Play,
            StartTimer, MakeLoop, RunLoop, NextFile, FilesDone, Retry, GiveUp
  <2>2. ~CutShort'
    BY <1>1 DEF LiveSourceInit, RtspSourceInit, FileSourceInit, SourceInit, Play,
            StartTimer, MakeLoop, RunLoop, NextFile, FilesDone, Retry, GiveUp, CutShort
  <2> QED
    BY <2>1, <2>2 DEF PaidFor, Missing
<1>2. CASE LeaveLoop \/ UnrefLoop \/ ClearLoop
  <2>1. UNCHANGED <<unpersisted, file, ended, signals, streamSource, stream_status>>
    BY <1>2 DEF LeaveLoop, UnrefLoop, ClearLoop
  <2>2. CutShort' => CutShort
    BY <1>2, <2>1 DEF LeaveLoop, UnrefLoop, ClearLoop, CutShort
  <2> QED
    BY <2>1, <2>2 DEF PaidFor, Missing
<1>3. CASE CheckFile
  <2>1. ~CutShort' /\ UNCHANGED <<ended, signals>>
    BY <1>3 DEF CheckFile, CutShort
  <2>2. CASE stream_status = "success"
    <3>1. unpersisted' = unpersisted + 1 /\ file = unpersisted
      BY <1>3, <2>2 DEF CheckFile, OrderInv
    <3>2. unpersisted \in Nat
      BY FilesAssumption DEF Counts
    <3>3. CASE file \in ended
      <4>1. Missing' = Missing
        BY <2>1, <3>1, <3>2, <3>3 DEF Missing
      <4> QED
        BY <2>1, <4>1 DEF PaidFor
    <3>4. CASE file \notin ended
      <4>1. Missing' = Missing \cup {unpersisted}
        BY <2>1, <3>1, <3>2, <3>4 DEF Missing
      <4>2. unpersisted \notin Missing
        BY <3>2 DEF Missing
      <4>3. Cardinality(Missing') = Cardinality(Missing) + 1
        BY <1>0, <4>1, <4>2, FS_AddElement
      <4>4. CutShort
        BY <1>3, <2>2, <3>4 DEF CheckFile, CutShort, ControlInv
      <4> QED
        BY <2>1, <4>3, <4>4 DEF PaidFor
    <3> QED
      BY <3>3, <3>4
  <2>3. CASE stream_status # "success"
    <3>1. UNCHANGED unpersisted
      BY <1>3, <2>3 DEF CheckFile
    <3> QED
      BY <2>1, <3>1 DEF PaidFor, Missing
  <2> QED
    BY <2>2, <2>3
<1>4. CASE EosCb
  <2>1. ended \subseteq ended' /\ UNCHANGED <<unpersisted, signals>>
    BY <1>4 DEF EosCb
  <2>2. ~CutShort'
    BY <1>4 DEF EosCb, CutShort, ControlInv
  <2>3. Missing' \in SUBSET Missing
    BY <2>1 DEF Missing
  <2>4. Cardinality(Missing') <= Cardinality(Missing)
    BY <1>0, <2>3, FS_Subset
  <2> QED
    BY <1>0, <2>1, <2>2, <2>4 DEF PaidFor
<1>5. CASE ErrorCb \/ SigintStatus
  <2>1. ~CutShort' /\ UNCHANGED <<unpersisted, ended, signals>>
    BY <1>5 DEF ErrorCb, SigintStatus, CutShort
  <2> QED
    BY <2>1 DEF PaidFor, Missing
<1>6. CASE SigintHandler
  <2>1. signals' = signals + 1 /\ UNCHANGED <<unpersisted, ended>>
    BY <1>6 DEF SigintHandler
  <2>2. Missing' = Missing
    BY <2>1 DEF Missing
  <2> QED
    BY <1>0, <2>1, <2>2 DEF PaidFor
<1>7. CASE Timer
  <2>1. ~CutShort' /\ UNCHANGED <<unpersisted, ended, signals>>
    BY <1>7 DEF Timer, TimerQuits, TimerStatus, CutShort, ControlInv
  <2> QED
    BY <2>1 DEF PaidFor, Missing
<1>8. CASE PostMessage \/ UNCHANGED vars
  <2>1. UNCHANGED <<unpersisted, file, ended, signals, streamSource, stream_status,
                    pc, main_loop>>
    BY <1>8 DEF PostMessage, vars
  <2> QED
    BY <2>1 DEF PaidFor, Missing, CutShort
<1> QED
  BY <1>1, <1>2, <1>3, <1>4, <1>5, <1>6, <1>7, <1>8 DEF Next, Main, Terminated

(* Nothing is owed at first.                                               *)
LEMMA PaidInit == Init => PaidFor
<1> SUFFICES ASSUME Init PROVE PaidFor
  OBVIOUS
<1>1. Missing = {}
  BY DEF Init, Missing
<1>2. ~CutShort /\ signals = 0
  BY DEF Init, CutShort
<1> QED
  BY <1>1, <1>2, FS_EmptySet DEF PaidFor

(* A file that was counted came to its end, but for one a signal.          *)
THEOREM CountedEnded == Spec => []CountedFilesEnded
<1>1. PaidFor => CountedFilesEnded
  BY DEF PaidFor, Missing, CountedFilesEnded
<1>2. Spec => []PaidFor
  BY PaidInit, PaidStep, UploadSound, PTL DEF Spec
<1> QED
  BY <1>1, <1>2, PTL

------------------------------------------------------------------------------
(* kvssink_intermittent_sample: main_loop and timer are loop and           *)
(* timer_thread here, where the other sample has a loop and a timer too.   *)
CONSTANTS Sigints, MaxSpurious, MaxErrors
VARIABLES source_type, terminated, cv_mutex, main, loop, ss, wake, timer_thread, sig, eos,
          eos_handled, flushing, playing, mishap, spurious, errors

IS == INSTANCE IntermittentSample
        WITH MaxSignals <- Sigints, main_loop <- loop, timer <- timer_thread

(* The variables keep their types.                                         *)
THEOREM IntermittentTypes ==
  ASSUME IS!Bounds PROVE IS!Spec => []IS!TypeOK
<1> USE DEF IS!ssVars, IS!gstVars, IS!Waiting
<1>1. IS!Init => IS!TypeOK
  <2>1. 0 \in 0..MaxSpurious /\ 0 \in 0..MaxErrors
    BY DEF IS!Bounds
  <2> QED
    BY <2>1 DEF IS!Init, IS!TypeOK
<1>2. IS!TypeOK /\ [IS!Next]_IS!vars => IS!TypeOK'
  <2> SUFFICES ASSUME IS!TypeOK, [IS!Next]_IS!vars PROVE IS!TypeOK'
    OBVIOUS
  <2> USE DEF IS!Bounds, IS!TypeOK, IS!Woken, IS!Elsewhere, IS!Record
  <2>1. CASE IS!Main
    BY <2>1
       DEF IS!Main, IS!Setup, IS!StartThreads, IS!RunLoop, IS!LeaveLoop, IS!CleanUp, IS!BusEos
  <2>2. CASE IS!Begin \/ IS!Loop \/ IS!SendEos \/ IS!WaitEos \/ IS!Leave
    BY <2>2 DEF IS!Begin, IS!Loop, IS!SendEos, IS!WaitEos, IS!Leave
  <2>3. CASE IS!EndWait
    BY <2>3 DEF IS!EndWait
  <2>4. CASE IS!PauseAndFlush \/ IS!PauseFails
    BY <2>4 DEF IS!PauseAndFlush, IS!PauseFails
  <2>5. CASE IS!Resume \/ IS!ResumeFails
    BY <2>5 DEF IS!Resume, IS!ResumeFails
  <2>6. CASE IS!TimerWaits \/ IS!TimerExpires
    BY <2>6 DEF IS!TimerWaits, IS!TimerExpires
  <2>7. CASE IS!TimerShutsDown
    BY <2>7 DEF IS!TimerShutsDown, IS!ShutdownSample
  <2>8. CASE IS!SigintHandler
    BY <2>8 DEF IS!SigintHandler, IS!ShutdownSample, IS!TimerNotified
  <2>9. CASE IS!TimeOut \/ IS!PostEos \/ IS!BusError
    BY <2>9 DEF IS!TimeOut, IS!PostEos, IS!BusError, IS!MayTimeOut
  <2>10. CASE IS!SpuriousWake \/ IS!TimerWoken
    BY <2>10 DEF IS!SpuriousWake, IS!TimerWoken
  <2>11. CASE \E t \in {"main", "ss", "timer"} : IS!Sigint(t)
    BY <2>11 DEF IS!Sigint
  <2>12. CASE UNCHANGED IS!vars
    BY <2>12 DEF IS!vars
  <2> QED
    BY <2>1, <2>2, <2>3, <2>4, <2>5, <2>6, <2>7, <2>8, <2>9, <2>10, <2>11, <2>12
       DEF IS!Next, IS!StopStart, IS!Timer
<1> QED
  BY <1>1, <1>2, PTL DEF IS!Spec

(* What the wait for the EOS has to show once it is over: that bus_call    *)
(* had it, or one of the two excuses FlushAfterEos allows.                 *)
Excused == eos_handled \/ terminated \/ spurious > 0

EosInv ==
  /\ ss = "pause" => Excused
  /\ ss = "waitEos" => wake \in {"none", "notified"}
  /\ ss = "waitEos" /\ wake = "notified" => Excused

(* It is inductive, given the types.                                       *)
LEMMA IntermittentInv ==
  ASSUME IS!Bounds PROVE IS!Spec => []EosInv
<1> USE DEF IS!ssVars, IS!gstVars, IS!Waiting
<1>1. IS!Init => EosInv
  BY DEF IS!Init, EosInv
<1>2. IS!TypeOK /\ EosInv /\ [IS!Next]_IS!vars => EosInv'
  <2> SUFFICES ASSUME IS!TypeOK, EosInv, [IS!Next]_IS!vars PROVE EosInv'
    OBVIOUS
  <2> USE DEF IS!Bounds, IS!TypeOK, IS!Woken, IS!Elsewhere, IS!Record,
              EosInv, Excused
  <2>1. CASE IS!Main
    BY <2>1
       DEF IS!Main, IS!Setup, IS!StartThreads, IS!RunLoop, IS!LeaveLoop, IS!CleanUp, IS!BusEos,
           IS!Joined
  <2>2. CASE IS!Begin \/ IS!Loop \/ IS!SendEos \/ IS!WaitEos \/ IS!Leave
    BY <2>2 DEF IS!Begin, IS!Loop, IS!SendEos, IS!WaitEos, IS!Leave
  <2>3. CASE IS!EndWait
    BY <2>3 DEF IS!EndWait
  <2>4. CASE IS!PauseAndFlush \/ IS!PauseFails
    BY <2>4 DEF IS!PauseAndFlush, IS!PauseFails
  <2>5. CASE IS!Resume \/ IS!ResumeFails
    BY <2>5 DEF IS!Resume, IS!ResumeFails
  <2>6. CASE IS!TimerWaits \/ IS!TimerExpires
    BY <2>6 DEF IS!TimerWaits, IS!TimerExpires
  <2>7. CASE IS!TimerShutsDown
    BY <2>7 DEF IS!TimerShutsDown, IS!ShutdownSample
  <2>8. CASE IS!SigintHandler
    BY <2>8 DEF IS!SigintHandler, IS!ShutdownSample, IS!TimerNotified
  <2>9. CASE IS!TimeOut \/ IS!PostEos \/ IS!BusError
    BY <2>9 DEF IS!TimeOut, IS!PostEos, IS!BusError, IS!MayTimeOut
  <2>10. CASE IS!SpuriousWake \/ IS!TimerWoken
    BY <2>10 DEF IS!SpuriousWake, IS!TimerWoken
  <2>11. CASE \E t \in {"main", "ss", "timer"} : IS!Sigint(t)
    BY <2>11 DEF IS!Sigint
  <2>12. CASE UNCHANGED IS!vars
    BY <2>12 DEF IS!vars
  <2> QED
    BY <2>1, <2>2, <2>3, <2>4, <2>5, <2>6, <2>7, <2>8, <2>9, <2>10, <2>11, <2>12
       DEF IS!Next, IS!StopStart, IS!Timer
<1> QED
  BY <1>1, <1>2, IntermittentTypes, PTL DEF IS!Spec

(* Every flush follows an EOS that bus_call has had, a shutdown, or a wait *)
(* that ended for no reason.                                               *)
THEOREM FlushFollowsEos ==
  ASSUME IS!Bounds PROVE IS!Spec => IS!FlushAfterEos
<1> USE DEF IS!ssVars, IS!gstVars, IS!Waiting
<1>1. IS!TypeOK /\ EosInv /\ [IS!Next]_IS!vars
        => [~flushing /\ flushing' => eos_handled \/ terminated \/ spurious > 0]_IS!vars
  <2> SUFFICES ASSUME IS!TypeOK, EosInv, IS!Next, ~flushing, flushing' PROVE Excused
    BY DEF Excused
  <2>1. IS!PauseAndFlush
    BY DEF IS!TypeOK, IS!Next, IS!Main, IS!StopStart, IS!Timer, IS!Elsewhere, IS!Record,
           IS!Setup, IS!StartThreads, IS!RunLoop, IS!LeaveLoop, IS!CleanUp, IS!BusEos,
           IS!Begin, IS!Loop, IS!EndWait, IS!SendEos, IS!WaitEos, IS!PauseFails, IS!Resume,
           IS!ResumeFails, IS!Leave, IS!TimerWaits, IS!TimerExpires, IS!TimerShutsDown,
           IS!TimeOut, IS!PostEos, IS!SigintHandler, IS!BusError, IS!SpuriousWake,
           IS!TimerWoken, IS!Sigint
  <2> QED
    BY <2>1 DEF IS!PauseAndFlush, EosInv
<1> QED
  BY <1>1, IntermittentTypes, IntermittentInv, PTL DEF IS!Spec, IS!FlushAfterEos
=============================================================================
