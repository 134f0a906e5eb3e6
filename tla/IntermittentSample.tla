------------------------- MODULE IntermittentSample -------------------------
(***************************************************************************)
(* samples/kvssink_intermittent_sample.cpp: a kvssink pipeline that is     *)
(* stopped and started in turns.  Four actors share cv, cv_mutex and       *)
(* terminated: main with its GLib main loop (which runs bus_call), the     *)
(* thread of stopStartLoop, the timer thread and the SIGINT handler, which *)
(* runs on any of these threads and holds that thread up.                  *)
(*                                                                         *)
(* Time is abstract: a timed wait may time out whenever it waits.  Waits   *)
(* of std::condition_variable may also return for no reason.               *)
(***************************************************************************)
EXTENDS Naturals

CONSTANTS MaxSignals,   \* bound: SIGINTs, 0 or 1
          MaxSpurious,  \* bound: wake-ups without a reason
          MaxErrors     \* bound: errors posted on the bus

Bounds == MaxSignals \in {0, 1} /\ MaxSpurious \in Nat /\ MaxErrors \in Nat
ASSUME BoundAssumption == Bounds

VARIABLES
  source_type,     \* "test" or "device"
  terminated,
  cv_mutex,        \* "free" or "ss": shutdown_sample holds it within one step
  main,            \* "setup", "start", "run", "join", "end" or "exit" (return -1)
  main_loop,       \* "ready", "running" or "quit"
  ss, wake,        \* the thread of stopStartLoop; how its wait has ended
  timer,           \* the timer thread
  sig,             \* the thread SIGINT interrupts, "none" before and "done" after
  eos,             \* the EOS event: "none", "sent", or "posted" on the bus
  eos_handled,     \* bus_call has had the EOS message of this round
  flushing, playing, \* flush_start without flush_stop; the source's state
  mishap,          \* the first of the four that can hold up the end, or "none"
  spurious, errors

ssVars  == <<ss, wake, cv_mutex>>
gstVars == <<eos, eos_handled, flushing, playing>>
vars == <<source_type, terminated, main, main_loop, ssVars, timer, sig, gstVars, mishap, spurious,
          errors>>

Waiting == {"sleepPlay", "waitEos", "sleepPause"}

TypeOK ==
  /\ source_type \in {"test", "device"}
  /\ terminated \in BOOLEAN
  /\ cv_mutex \in {"free", "ss"}
  /\ main \in {"setup", "start", "run", "join", "end", "exit"}
  /\ main_loop \in {"ready", "running", "quit"}
  /\ ss \in Waiting \cup {"none", "begin", "loop", "sendEos", "eosSent", "pause", "resume",
                          "shutdown", "leave", "done"}
  /\ wake \in {"none", "timeout", "notified"}
  /\ timer \in {"none", "begin", "wait", "shutdown", "done"}
  /\ sig \in {"none", "main", "ss", "timer", "done"}
  /\ eos \in {"none", "sent", "posted"} /\ eos_handled \in BOOLEAN
  /\ flushing \in BOOLEAN /\ playing \in BOOLEAN
  /\ mishap \in {"none", "relock", "earlyQuit", "lateTimeout", "timerWoken"}
  /\ spurious \in 0..MaxSpurious /\ errors \in 0..MaxErrors

Init ==
  /\ source_type \in {"test", "device"}
  /\ terminated = FALSE /\ cv_mutex = "free"
  /\ main = "setup" /\ main_loop = "ready"
  /\ ss = "none" /\ wake = "none" /\ timer = "none" /\ sig = "none"
  /\ eos = "none" /\ eos_handled = FALSE /\ flushing = FALSE /\ playing = FALSE
  /\ mishap = "none" /\ spurious = 0 /\ errors = 0

\* cv.notify_all wakes the one thread that may be waiting.
Woken == IF ss \in Waiting /\ wake = "none" THEN "notified" ELSE wake

\* mishap remembers the first of its kind that happens.
Record(kind) == mishap' = IF mishap = "none" THEN kind ELSE mishap

-----------------------------------------------------------------------------
(* shutdown_sample, within one step: nothing in it waits but for cv_mutex. *)

\* Deviation: wakes only the timer.
ShutdownTimerOnly ==
  /\ terminated' = TRUE
  /\ main_loop' = IF main_loop = "running" THEN "quit" ELSE main_loop
  /\ UNCHANGED <<wake, mishap>>

\* g_main_loop_quit does nothing to a loop that does not run yet.
ShutdownSample ==
  /\ terminated' = TRUE
  /\ wake' = Woken
  /\ main_loop' = IF main_loop = "running" THEN "quit" ELSE main_loop
  /\ IF main_loop = "ready" THEN Record("earlyQuit")
     ELSE IF ss = "sleepPlay" /\ wake = "timeout" THEN Record("lateTimeout")
     ELSE UNCHANGED mishap

TimerNotified == IF timer = "wait" THEN "done" ELSE timer

\* SIGINT is delivered to a thread that runs, which does nothing else meanwhile.
Sigint(t) ==
  /\ sig = "none" /\ MaxSignals = 1
  /\ \/ t = "main" /\ main \notin {"end", "exit"}
     \/ t = "ss" /\ ss \notin {"none", "done"}
     \/ t = "timer" /\ timer \notin {"none", "done"}
  /\ sig' = t
  /\ IF t = "ss" /\ cv_mutex = "ss" THEN Record("relock") ELSE UNCHANGED mishap
  /\ UNCHANGED <<source_type, terminated, main, main_loop, ssVars, timer, gstVars, spurious, errors>>

\* The handler takes cv_mutex, for ever if its own thread holds it.
SigintHandler ==
  /\ sig \in {"main", "ss", "timer"} /\ cv_mutex = "free"
  /\ ShutdownSample
  /\ timer' = TimerNotified
  /\ sig' = "done"
  /\ UNCHANGED <<source_type, main, ss, cv_mutex, gstVars, spurious, errors>>

-----------------------------------------------------------------------------
(* main *)

\* The arguments, the elements and their links, the pipeline's first state.
ParseArguments == {"ok", "exit"}
DetermineAwsCredentials == {"iot", "file", "environment"}
MakePipeline == IF DetermineAwsCredentials # {} THEN {"ok", "exit"} ELSE {"exit"}
StartPipeline == {"ok", "exit"}

Setup ==
  /\ main = "setup" /\ sig # "main"
  /\ \E args \in ParseArguments, made \in MakePipeline, started \in StartPipeline :
       IF args = "ok" /\ made = "ok" /\ started = "ok"
       THEN main' = "start" /\ playing' = TRUE
       ELSE main' = "exit" /\ UNCHANGED playing
  /\ UNCHANGED <<source_type, terminated, main_loop, ssVars, timer, sig, eos, eos_handled, flushing,
                 mishap, spurious, errors>>

StartThreads ==
  /\ main = "start" /\ sig # "main" /\ ss = "none"
  /\ ss' = "begin" /\ timer' = "begin"
  /\ UNCHANGED <<source_type, terminated, main, main_loop, wake, cv_mutex, sig, gstVars, mishap, spurious,
                 errors>>

RunLoop ==
  /\ main = "start" /\ sig # "main" /\ ss # "none"
  /\ main' = "run" /\ main_loop' = "running"
  /\ UNCHANGED <<source_type, terminated, ssVars, timer, sig, gstVars, mishap, spurious, errors>>

LeaveLoop ==
  /\ main = "run" /\ sig # "main" /\ main_loop = "quit"
  /\ main' = "join"
  /\ UNCHANGED <<source_type, terminated, main_loop, ssVars, timer, sig, gstVars, mishap, spurious, errors>>

Joined == ss = "done" /\ timer = "done"

\* Both joins, then the pipeline is stopped and released.
CleanUp ==
  /\ main = "join" /\ sig # "main" /\ Joined
  /\ main' = "end" /\ playing' = FALSE
  /\ UNCHANGED <<source_type, terminated, main_loop, ssVars, timer, sig, eos, eos_handled, flushing,
                 mishap, spurious, errors>>

\* bus_call, on the main loop; it notifies without cv_mutex.
BusEos ==
  /\ main_loop = "running" /\ sig # "main" /\ eos = "posted"
  /\ eos' = "none" /\ eos_handled' = TRUE
  /\ wake' = Woken
  /\ UNCHANGED <<source_type, terminated, main, main_loop, ss, cv_mutex, timer, sig, flushing,
                 playing, mishap, spurious, errors>>

\* An error quits the loop and tells no thread.
BusError ==
  /\ main_loop = "running" /\ sig # "main" /\ errors < MaxErrors
  /\ errors' = errors + 1
  /\ main_loop' = "quit"
  /\ UNCHANGED <<source_type, terminated, main, ssVars, timer, sig, gstVars, mishap, spurious>>

\* kvssink has handled the EOS event and the pipeline posts its message.
PostEos ==
  /\ eos = "sent" /\ main # "end" /\ eos' = "posted"
  /\ UNCHANGED <<source_type, terminated, main, main_loop, ssVars, timer, sig, eos_handled, flushing,
                 playing, mishap, spurious, errors>>

-----------------------------------------------------------------------------
(* stopStartLoop, which holds cv_mutex except in its waits. *)

\* What its steps leave to the others.
Elsewhere == UNCHANGED <<source_type, main, main_loop, timer, sig, terminated, errors>>

Begin ==
  /\ ss = "begin" /\ sig # "ss" /\ cv_mutex = "free"
  /\ ss' = "loop" /\ cv_mutex' = "ss"
  /\ UNCHANGED <<wake, gstVars, spurious>> /\ Elsewhere /\ UNCHANGED mishap

\* while (!terminated), and the first wait_for.
Loop ==
  /\ ss = "loop" /\ sig # "ss"
  /\ IF terminated THEN ss' = "leave" /\ UNCHANGED cv_mutex
                   ELSE ss' = "sleepPlay" /\ cv_mutex' = "free"
  /\ wake' = "none"
  /\ UNCHANGED <<gstVars, spurious>> /\ Elsewhere /\ UNCHANGED mishap

\* Deviation: a timed wait for the EOS.
MayTimeOutAlways == ss \in Waiting

MayTimeOut == ss \in {"sleepPlay", "sleepPause"}

TimeOut ==
  /\ MayTimeOut /\ sig # "ss" /\ wake = "none"
  /\ wake' = "timeout"
  /\ UNCHANGED <<ss, cv_mutex, gstVars, spurious>> /\ Elsewhere /\ UNCHANGED mishap

SpuriousWake ==
  /\ ss \in Waiting /\ wake = "none" /\ spurious < MaxSpurious
  /\ wake' = "notified" /\ spurious' = spurious + 1
  /\ UNCHANGED <<ss, cv_mutex, gstVars>> /\ Elsewhere /\ UNCHANGED mishap

\* A wait returns with cv_mutex; a timed one breaks the loop if it was notified.
EndWait ==
  /\ ss \in Waiting /\ sig # "ss" /\ wake # "none" /\ cv_mutex = "free"
  /\ cv_mutex' = "ss" /\ UNCHANGED wake
  /\ ss' = CASE ss = "waitEos" -> "pause"
             [] wake = "notified" /\ ss # "waitEos" -> "leave"
             [] wake = "timeout" /\ ss = "sleepPlay" -> "sendEos"
             [] wake = "timeout" /\ ss = "sleepPause" -> "resume"
  /\ UNCHANGED <<gstVars, spurious>> /\ Elsewhere /\ UNCHANGED mishap

\* The EOS event is sent before the wait begins.
SendEos ==
  /\ ss = "sendEos" /\ sig # "ss"
  /\ eos' = "sent" /\ eos_handled' = FALSE
  /\ ss' = "eosSent"
  /\ UNCHANGED <<wake, cv_mutex, flushing, playing, spurious>> /\ Elsewhere /\ UNCHANGED mishap

WaitEos ==
  /\ ss = "eosSent" /\ sig # "ss"
  /\ ss' = "waitEos" /\ wake' = "none" /\ cv_mutex' = "free"
  /\ UNCHANGED <<gstVars, spurious>> /\ Elsewhere /\ UNCHANGED mishap

\* The test source is paused; a failure calls shutdown_sample under cv_mutex.
PauseFails ==
  /\ ss = "pause" /\ sig # "ss" /\ source_type = "test"
  /\ ss' = "shutdown" /\ Record("relock")
  /\ UNCHANGED <<wake, cv_mutex, gstVars, spurious>> /\ Elsewhere

\* flush_start drops an EOS that is still on its way; terminated is read again.
PauseAndFlush ==
  /\ ss = "pause" /\ sig # "ss"
  /\ playing' = (playing /\ source_type = "device")
  /\ flushing' = TRUE
  /\ eos' = IF eos = "sent" THEN "none" ELSE eos
  /\ IF terminated THEN ss' = "leave" /\ UNCHANGED <<cv_mutex, wake>>
                   ELSE ss' = "sleepPause" /\ cv_mutex' = "free" /\ wake' = "none"
  /\ UNCHANGED <<eos_handled, spurious>> /\ Elsewhere /\ UNCHANGED mishap

Resume ==
  /\ ss = "resume" /\ sig # "ss"
  /\ flushing' = FALSE /\ playing' = TRUE
  /\ ss' = "loop"
  /\ UNCHANGED <<wake, cv_mutex, eos, eos_handled, spurious>> /\ Elsewhere /\ UNCHANGED mishap

ResumeFails ==
  /\ ss = "resume" /\ sig # "ss" /\ source_type = "test"
  /\ flushing' = FALSE
  /\ ss' = "shutdown" /\ Record("relock")
  /\ UNCHANGED <<wake, cv_mutex, eos, eos_handled, playing, spurious>> /\ Elsewhere

Leave ==
  /\ ss = "leave" /\ sig # "ss"
  /\ ss' = "done" /\ cv_mutex' = "free"
  /\ UNCHANGED <<wake, gstVars, spurious>> /\ Elsewhere /\ UNCHANGED mishap

-----------------------------------------------------------------------------
(* The timer thread. *)

\* wait_for looks at nothing before it waits.
TimerWaits ==
  /\ timer = "begin" /\ sig # "timer" /\ timer' = "wait"
  /\ UNCHANGED <<source_type, terminated, main, main_loop, ssVars, sig, gstVars, mishap, spurious, errors>>

TimerWoken ==
  /\ timer = "wait" /\ spurious < MaxSpurious
  /\ timer' = "done" /\ spurious' = spurious + 1 /\ Record("timerWoken")
  /\ UNCHANGED <<source_type, terminated, main, main_loop, ssVars, sig, gstVars, errors>>

TimerExpires ==
  /\ timer = "wait" /\ sig # "timer"
  /\ timer' = IF terminated THEN "done" ELSE "shutdown"
  /\ UNCHANGED <<source_type, terminated, main, main_loop, ssVars, sig, gstVars, mishap, spurious, errors>>

TimerShutsDown ==
  /\ timer = "shutdown" /\ sig # "timer" /\ cv_mutex = "free"
  /\ ShutdownSample
  /\ timer' = "done"
  /\ UNCHANGED <<source_type, main, ss, cv_mutex, sig, gstVars, spurious, errors>>

-----------------------------------------------------------------------------
Main == Setup \/ StartThreads \/ RunLoop \/ LeaveLoop \/ CleanUp \/ BusEos
StopStart == \/ Begin \/ Loop \/ EndWait \/ SendEos \/ WaitEos
             \/ PauseAndFlush \/ PauseFails \/ Resume \/ ResumeFails \/ Leave
Timer == TimerWaits \/ TimerExpires \/ TimerShutsDown

Next ==
  \/ Main \/ StopStart \/ Timer
  \/ TimeOut \/ PostEos \/ SigintHandler
  \/ BusError \/ SpuriousWake \/ TimerWoken
  \/ \E t \in {"main", "ss", "timer"} : Sigint(t)

Spec == Init /\ [][Next]_vars

\* Threads run, timed waits time out, a mutex that is free again and again is got,
\* kvssink handles an EOS; errors, signals and spurious wake-ups need not come.
FairSpec ==
  /\ Spec
  /\ WF_vars(Main) /\ WF_vars(PostEos) /\ WF_vars(TimeOut)
  /\ SF_vars(StopStart) /\ SF_vars(Timer) /\ SF_vars(SigintHandler)

-----------------------------------------------------------------------------
\* The plain cv.wait sends flush_start only once bus_call has had the EOS, unless
\* the sample is shut down or the wait ends for no reason.
FlushAfterEos ==
  [][ ~flushing /\ flushing' => eos_handled \/ terminated \/ spurious > 0 ]_vars

\* Whatever the interleaving, only four things keep the sample from ending:
\* shutdown_sample asking for the cv_mutex of its own thread ("relock"); a SIGINT
\* before g_main_loop_run ("earlyQuit"); a sleep that has timed out when
\* shutdown_sample notifies it, after which the EOS it waits for reaches no main
\* loop ("lateTimeout"); and a timer woken for no reason ("timerWoken").
SampleEnds == <>(main \in {"end", "exit"} \/ mishap # "none")

-----------------------------------------------------------------------------
(* What the sample's own words say and some executions contradict. *)

\* It repeats "until an interrupt signal is received", and breaks its "sleep early
\* upon signal interrupt": the handler of a SIGINT gets to shutdown_sample's end.
SigintReturns == sig \in {"main", "ss", "timer"} ~> sig = "done"

\* The timer thread is there "to terminate the sample after a specified
\* duration": when it shuts the running sample down, the sample ends.
DurationEnds == timer = "shutdown" /\ main_loop = "running" ~> main = "end"
=============================================================================
