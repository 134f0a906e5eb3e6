--------------------------- MODULE KvsSinkSample ---------------------------
(***************************************************************************)
(* samples/kvssink_gstreamer_sample.cpp: a pipeline ending in kvssink,     *)
(* played from a camera, an RTSP source or a list of files.  Three threads *)
(* and a signal handler share one global: the main thread makes, runs and  *)
(* frees a main loop per pipeline, the pipeline posts its end or an error  *)
(* on the bus (dispatched by the loop), the detached timer quits the loop  *)
(* of a live stream when its runtime is over, and the handler of SIGINT    *)
(* quits it at any time, on whichever thread the signal arrives.           *)
(*                                                                         *)
(* The runtime is a number of seconds handed to THREAD_SLEEP, whose unit   *)
(* is 100 ns: the timer may fire at any time after it was started.         *)
(***************************************************************************)
EXTENDS Integers, FiniteSets

CONSTANTS Files,      \* length of file_list
          Retries,    \* PUTFRAME_FAILURE_RETRY_COUNT
          MaxSignals  \* bound: SIGINTs

ASSUME FilesAssumption == Files \in Nat \ {0}
ASSUME RetriesAssumption == Retries \in Nat \ {0}
ASSUME MaxSignalsAssumption == MaxSignals \in Nat

VARIABLES
  streamSource,  \* "live", "rtsp" or "file"
  max_runtime,   \* whether a positive runtime was given
  pc,            \* where the main thread is
  main_loop,     \* "NULL", "made", "running", "quit", or "freed" (dangling)
  stream_status, \* "success", "error" or "interrupted"
  bus,           \* the first message of the pipeline, not dispatched yet
  file,          \* current_file_idx
  unpersisted,   \* last_unpersisted_file_idx
  do_retry, file_retry_count,
  timer,         \* "none", "sleeping", "status" (loop quit) or "done"
  handler,       \* "idle" or "status": the handler has quit the loop
  signals,
  ended          \* the files whose pipeline reached the end of the stream

control == <<streamSource, max_runtime>>
upload == <<file, unpersisted, do_retry, file_retry_count>>
others == <<timer, handler, signals>>
vars == <<control, pc, main_loop, stream_status, bus, upload, others, ended>>

Init ==
  /\ streamSource \in {"live", "rtsp", "file"}
  /\ max_runtime = FALSE
  /\ pc = IF streamSource = "file" THEN "files" ELSE "init"
  /\ main_loop = "NULL" /\ stream_status = "success" /\ bus = "none"
  /\ file = 0 /\ unpersisted = 0
  /\ do_retry = TRUE /\ file_retry_count = Retries
  /\ timer = "none" /\ handler = "idle" /\ signals = 0
  /\ ended = {}

----------------------------------------------------------------------------
(* gstreamer_init.  The source's function reads the rest of the command    *)
(* line (the runtime, for a live source), makes the elements, picks a      *)
(* resolution the camera has, links the pipeline; an argument that is no   *)
(* number, a resolution out of reach, a missing element or a file of       *)
(* another format makes it return 1, and main with it.                     *)
SourceInit(source, runtimes) ==
  /\ pc = "init" /\ streamSource = source
  /\ max_runtime' \in runtimes
  /\ pc' \in {"play", "done"}
  /\ UNCHANGED <<streamSource, main_loop, stream_status, bus, upload, others,
                 ended>>

LiveSourceInit == SourceInit("live", BOOLEAN)
RtspSourceInit == SourceInit("rtsp", BOOLEAN)
FileSourceInit == SourceInit("file", {FALSE})

(* The bus is watched and the pipeline set to PLAYING.                     *)
Play ==
  /\ pc = "play"
  /\ \/ pc' = "timer" /\ UNCHANGED stream_status
     \/ pc' = "done" /\ stream_status' = "error"
  /\ UNCHANGED <<control, main_loop, bus, upload, others, ended>>

StartTimer ==
  /\ pc = "timer"
  /\ timer' = IF streamSource # "file" /\ max_runtime THEN "sleeping"
                                                      ELSE timer
  /\ pc' = "make"
  /\ UNCHANGED <<control, main_loop, stream_status, bus, upload, handler,
                 signals, ended>>

MakeLoop ==
  /\ pc = "make"
  /\ main_loop' = "made"
  /\ pc' = "run"
  /\ UNCHANGED <<control, stream_status, bus, upload, others, ended>>

(* Whatever asked the loop to quit before this is forgotten.               *)
RunLoop ==
  /\ pc = "run"
  /\ main_loop' = "running"
  /\ pc' = "running"
  /\ UNCHANGED <<control, stream_status, bus, upload, others, ended>>

LeaveLoop ==
  /\ pc = "running" /\ main_loop = "quit"
  /\ bus' = "none"
  /\ pc' = "unref"
  /\ UNCHANGED <<control, main_loop, stream_status, upload, others, ended>>

UnrefLoop ==
  /\ pc = "unref"
  /\ main_loop' = "freed"
  /\ pc' = "clear"
  /\ UNCHANGED <<control, stream_status, bus, upload, others, ended>>

ClearLoop ==
  /\ pc = "clear"
  /\ main_loop' = "NULL"
  /\ pc' = IF streamSource = "file" THEN "check" ELSE "done"
  /\ UNCHANGED <<control, stream_status, bus, upload, others, ended>>

----------------------------------------------------------------------------
(* The pipeline, from PLAYING until the loop is left: it posts an error,   *)
(* or the end of the stream, which a camera does not have.                 *)
Playing == pc \in {"timer", "make", "run", "running"}

PostMessage ==
  /\ Playing /\ bus = "none"
  /\ bus' \in {"error"} \cup (IF streamSource = "live" THEN {} ELSE {"eos"})
  /\ UNCHANGED <<control, pc, main_loop, stream_status, upload, others, ended>>

(* g_main_loop_quit: only a running loop is stopped by it.                 *)
QuitLoop == main_loop' = IF main_loop = "running" THEN "quit" ELSE main_loop

EosCb ==
  /\ main_loop = "running" /\ bus = "eos"
  /\ ended' = IF streamSource = "file" THEN ended \cup {file} ELSE ended
  /\ bus' = "none"
  /\ QuitLoop
  /\ UNCHANGED <<control, pc, stream_status, upload, others>>

(* Deviation: an error on the bus only ends the loop.                      *)
ErrorCbQuits ==
  /\ main_loop = "running" /\ bus = "error"
  /\ bus' = "none"
  /\ QuitLoop
  /\ UNCHANGED <<control, pc, stream_status, upload, others, ended>>

ErrorCb ==
  /\ main_loop = "running" /\ bus = "error"
  /\ bus' = "none"
  /\ QuitLoop
  /\ stream_status' = "error"
  /\ UNCHANGED <<control, pc, upload, others, ended>>

----------------------------------------------------------------------------
(* The timer and the handler of SIGINT: quit the loop, then the status.    *)
TimerQuits ==
  /\ pc # "done" /\ timer = "sleeping"
  /\ timer' = "status"
  /\ QuitLoop
  /\ UNCHANGED <<control, pc, stream_status, bus, upload, handler, signals,
                 ended>>

TimerStatus ==
  /\ pc # "done" /\ timer = "status"
  /\ timer' = "done"
  /\ stream_status' = "success"
  /\ UNCHANGED <<control, pc, main_loop, bus, upload, handler, signals, ended>>

Timer == TimerQuits \/ TimerStatus

SigintHandler ==
  /\ pc # "done" /\ handler = "idle" /\ signals < MaxSignals
  /\ signals' = signals + 1
  /\ handler' = "status"
  /\ QuitLoop
  /\ UNCHANGED <<control, pc, stream_status, bus, upload, timer, ended>>

SigintStatus ==
  /\ pc # "done" /\ handler = "status"
  /\ handler' = "idle"
  /\ stream_status' = "interrupted"
  /\ UNCHANGED <<control, pc, main_loop, bus, upload, timer, signals, ended>>

----------------------------------------------------------------------------
(* The file loop of main.                                                  *)
NextFile ==
  /\ pc = "files" /\ file < Files
  /\ pc' = "init"
  /\ UNCHANGED <<control, main_loop, stream_status, bus, upload, others,
                 ended>>

FilesDone ==
  /\ pc = "files" /\ file >= Files
  /\ pc' = "retry"
  /\ UNCHANGED <<control, main_loop, stream_status, bus, upload, others,
                 ended>>

(* A file is counted when its status is good; an error is retried, an      *)
(* interrupt is not.                                                       *)
CheckFile ==
  /\ pc = "check"
  /\ IF stream_status = "success"
       THEN /\ unpersisted' = unpersisted + 1
            /\ do_retry' = (do_retry /\ file # Files - 1)
            /\ file' = file + 1
            /\ pc' = "files"
       ELSE /\ do_retry' = (stream_status = "error")
            /\ pc' = "retry"
            /\ UNCHANGED <<unpersisted, file>>
  /\ UNCHANGED <<control, main_loop, stream_status, bus, file_retry_count,
                 others, ended>>

RetriesKept == file_retry_count  \* Deviation: the retries are not counted.
RetriesLeft == file_retry_count - 1

RestartFile == 0  \* Deviation: a retry begins with the first file.
ResumeFile == unpersisted

Retry ==
  /\ pc = "retry" /\ do_retry /\ RetriesLeft # 0
  /\ file_retry_count' = RetriesLeft
  /\ stream_status' = "success"
  /\ file' = ResumeFile
  /\ pc' = "files"
  /\ UNCHANGED <<control, main_loop, bus, unpersisted, do_retry, others,
                 ended>>

GiveUp ==
  /\ pc = "retry"
  /\ IF do_retry THEN RetriesLeft = 0 /\ file_retry_count' = RetriesLeft
                 ELSE UNCHANGED file_retry_count
  /\ do_retry' = FALSE
  /\ pc' = "done"
  /\ UNCHANGED <<control, main_loop, stream_status, bus, file, unpersisted,
                 others, ended>>

----------------------------------------------------------------------------
Main ==
  \/ LiveSourceInit \/ RtspSourceInit \/ FileSourceInit
  \/ Play \/ StartTimer \/ MakeLoop \/ RunLoop \/ LeaveLoop
  \/ UnrefLoop \/ ClearLoop \/ NextFile \/ FilesDone \/ CheckFile
  \/ Retry \/ GiveUp \/ EosCb \/ ErrorCb

Terminated == pc = "done" /\ UNCHANGED vars

Next ==
  \/ Main \/ Timer \/ PostMessage \/ SigintHandler \/ SigintStatus
  \/ Terminated

(* The main thread runs (its loop dispatches the callbacks), so do the     *)
(* timer's thread and a handler that has begun; a file comes to its end,   *)
(* or to an error.  Nothing makes a camera stop or a signal arrive.        *)
Fairness ==
  /\ WF_vars(Main) /\ WF_vars(Timer) /\ WF_vars(SigintStatus)
  /\ WF_vars(PostMessage /\ streamSource = "file")

Spec == Init /\ [][Next]_vars /\ Fairness

----------------------------------------------------------------------------
(* Types.                                                                  *)
TypeOK ==
  /\ streamSource \in {"live", "rtsp", "file"} /\ max_runtime \in BOOLEAN
  /\ pc \in {"files", "init", "play", "timer", "make", "run", "running",
             "unref", "clear", "check", "retry", "done"}
  /\ main_loop \in {"NULL", "made", "running", "quit", "freed"}
  /\ stream_status \in {"success", "error", "interrupted"}
  /\ bus \in {"none", "eos", "error"}
  /\ file \in 0..Files /\ unpersisted \in 0..Files
  /\ do_retry \in BOOLEAN /\ file_retry_count \in 0..Retries
  /\ timer \in {"none", "sleeping", "status", "done"}
  /\ handler \in {"idle", "status"}
  /\ signals \in 0..MaxSignals
  /\ ended \subseteq 0..(Files - 1)

(* A file counted as sent was played to its end, unless SIGINT cut it      *)
(* short: its handler quits the loop before it sets the status, so main    *)
(* may look in between and find success, once for each signal.             *)
CountedFilesEnded ==
  Cardinality(0..(unpersisted - 1) \ ended) <= signals

(* What is played is the first file not yet counted: over errors, retries  *)
(* and interrupts no file is left out and none is sent again after it was  *)
(* counted.                                                                *)
PlaysFirstUncounted ==
  streamSource = "file" /\ pc \in {"init", "play", "timer", "make", "run",
                                   "running", "unref", "clear", "check"}
    => file = unpersisted

(* An upload ends, whatever errors its pipelines report.                   *)
UploadEnds == streamSource = "file" ~> pc = "done"

(* The comment on max_runtime: "Used to determine how long the stream      *)
(* should run (seconds)".  A live stream with a runtime ends.              *)
RuntimeEnds == streamSource = "live" /\ max_runtime ~> pc = "done"

(* "Finished sending file to kvs producer": whatever is counted as sent    *)
(* was played to its end, SIGINT or not.                                   *)
CountedFilesSent == 0..(unpersisted - 1) \subseteq ended
============================================================================
