--------------------------- MODULE ProducerStreams ---------------------------
(***************************************************************************)
(* The stream registry of KinesisVideoProducer: createStreamSync,          *)
(* freeStream, freeStreams and the destructor, the per-stream call_once    *)
(* that releases the PIC stream, and the calls of KinesisVideoStream that  *)
(* read stream_handle_ and pass it to the platform independent codebase    *)
(* (PIC).  Each thread of the application runs at most one call at a time; *)
(* a step of the model is the code between two points where another thread *)
(* can be observed: a call into PIC, a lock taken or left, a call_once.    *)
(*                                                                         *)
(* A PIC handle is the address of a PIC stream, so a freed handle value    *)
(* can be handed out again.  The application may make any calls at the     *)
(* same time; only the destructor of the producer, as for any C++ object,  *)
(* runs when no other call on the producer does.                           *)
(***************************************************************************)
EXTENDS Naturals, FiniteSets

CONSTANTS Threads,     \* threads of the application
          Streams,     \* KinesisVideoStream objects
          NoStream,    \* a null shared_ptr
          Handles,     \* values PIC hands out as STREAM_HANDLE
          Invalid      \* INVALID_STREAM_HANDLE_VALUE

ASSUME StreamsAssumption == NoStream \notin Streams
ASSUME HandlesAssumption == Invalid \notin Handles /\ IsFiniteSet(Handles)
OnProducer == {"create", "freeStream", "freeStreams", "destroy"}
Ops == OnProducer \cup {"use"}

VARIABLES
  obj,       \* obj[s]: "none", "creating" (not yet returned) or "held" by the application
  handle,    \* handle[s]: stream_handle_
  freeFlag,  \* freeFlag[s]: free_kinesis_video_stream_flag_
  active,    \* active[h]: the entry of active_streams_ at h, or NoStream
  owner,     \* owner[h]: whose PIC stream lives at h, or NoStream (PIC's state)
  client,    \* the PIC client: "live" or "freed"
  mutex,     \* the threads inside free_client_mutex_
  pc, op,    \* where each thread is, and the call it runs
  arg,       \* the stream the call works on
  saved,     \* the handle value the call has read
  left,      \* freeStreams: iterations left (num_streams - i)
  early,     \* history: streams that PIC created at a handle value which a
             \* call inside freeStream still had in its hands
  taken      \* history: an application's freeStream removed an entry since
             \* the last freeStreams counted them

history == <<early, taken>>
vars == <<obj, handle, freeFlag, active, owner, client, mutex,
          pc, op, arg, saved, left, history>>

Freeing == {"once", "freeing", "mapRemove"}  \* inside freeStream

\* A thread at nullDeref or tornCopy has reached undefined behaviour.
Labels == {"idle", "picCreate", "mapPut", "picCall", "lock", "copy", "loop",
           "freeClient", "nullDeref", "tornCopy"} \cup Freeing

TypeOK ==
  /\ obj \in [Streams -> {"none", "creating", "held"}]
  /\ handle \in [Streams -> Handles \cup {Invalid}]
  /\ freeFlag \in [Streams -> {"unset", "running", "done"}]
  /\ active \in [Handles -> Streams \cup {NoStream}]
  /\ owner \in [Handles -> Streams \cup {NoStream}]
  /\ client \in {"live", "freed"}
  /\ mutex \in SUBSET Threads
  /\ pc \in [Threads -> Labels]
  /\ op \in [Threads -> Ops \cup {"none"}]
  /\ arg \in [Threads -> Streams \cup {NoStream}]
  /\ saved \in [Threads -> Handles \cup {Invalid}]
  /\ left \in [Threads -> Nat]
  /\ early \in SUBSET (Streams \cup {NoStream})
  /\ taken \in BOOLEAN

Init ==
  /\ obj = [s \in Streams |-> "none"]
  /\ handle = [s \in Streams |-> Invalid]
  /\ freeFlag = [s \in Streams |-> "unset"]
  /\ active = [h \in Handles |-> NoStream]
  /\ owner = [h \in Handles |-> NoStream]
  /\ client = "live"
  /\ mutex = {}
  /\ pc = [t \in Threads |-> "idle"]
  /\ op = [t \in Threads |-> "none"]
  /\ arg = [t \in Threads |-> NoStream]
  /\ saved = [t \in Threads |-> Invalid]
  /\ left = [t \in Threads |-> 0]
  /\ early = {} /\ taken = FALSE

------------------------------------------------------------------------------
\* Thread t may start any call beside those in progress, but for the rule that
\* nobody uses an object that is being destroyed.
MayStart(t, o) ==
  /\ pc[t] = "idle"
  /\ \A u \in Threads :
       op[u] \in OnProducer /\ o \in OnProducer => "destroy" \notin {o, op[u]}

Start(t, o, label, s, h) ==
  /\ MayStart(t, o)
  /\ op' = [op EXCEPT ![t] = o]
  /\ pc' = [pc EXCEPT ![t] = label]
  /\ arg' = [arg EXCEPT ![t] = s]
  /\ saved' = [saved EXCEPT ![t] = h]
  /\ UNCHANGED left

Goto(t, label) ==
  /\ pc' = [pc EXCEPT ![t] = label]
  /\ UNCHANGED <<op, arg, saved, left>>

Return(t) ==
  /\ pc' = [pc EXCEPT ![t] = "idle"]
  /\ op' = [op EXCEPT ![t] = "none"]
  /\ arg' = [arg EXCEPT ![t] = NoStream]
  /\ saved' = [saved EXCEPT ![t] = Invalid]
  /\ left' = [left EXCEPT ![t] = 0]

------------------------------------------------------------------------------
(* createStreamSync *)

\* The stream object is constructed with an invalid handle.
BeginCreate(t) == \E s \in Streams :
  /\ client = "live" /\ obj[s] = "none"
  /\ Start(t, "create", "picCreate", s, Invalid)
  /\ obj' = [obj EXCEPT ![s] = "creating"]
  /\ UNCHANGED <<handle, freeFlag, active, owner, client, mutex, history>>

\* createKinesisVideoStreamSync: PIC stores the handle of a new stream.
PicCreate(t) == \E h \in Handles :
  /\ pc[t] = "picCreate" /\ owner[h] = NoStream
  /\ owner' = [owner EXCEPT ![h] = arg[t]]
  /\ handle' = [handle EXCEPT ![arg[t]] = h]
  /\ early' = IF \E u \in Threads : pc[u] \in Freeing /\ saved[u] = h
              THEN early \cup {arg[t]} ELSE early
  /\ Goto(t, "mapPut")
  /\ UNCHANGED <<obj, freeFlag, active, client, mutex, taken>>

\* PIC fails: the exception destroys the object, whose handle is still invalid.
PicCreateFails(t) ==
  /\ pc[t] = "picCreate"
  /\ obj' = [obj EXCEPT ![arg[t]] = "none"]
  /\ Return(t)
  /\ UNCHANGED <<handle, freeFlag, active, owner, client, mutex, history>>

\* active_streams_.put: map_.emplace keeps an entry that is already there.
MapPut(t) ==
  /\ pc[t] = "mapPut"
  /\ LET h == handle[arg[t]]
     IN  active' = IF active[h] = NoStream
                   THEN [active EXCEPT ![h] = arg[t]] ELSE active
  /\ obj' = [obj EXCEPT ![arg[t]] = "held"]
  /\ Return(t)
  /\ UNCHANGED <<handle, freeFlag, owner, client, mutex, history>>

------------------------------------------------------------------------------
(* putFrame, start, stop, resetStream, resetConnection, the metadata calls  *)
(* and getMetrics of KinesisVideoStream: each reads stream_handle_, lock    *)
(* or no lock, and hands the value to PIC, which refuses an invalid one.    *)
(* (The assert of putFrame is not there in a release build.)                *)

BeginUse(t) == \E s \in Streams :
  /\ obj[s] = "held"
  /\ Start(t, "use", "picCall", s, handle[s])
  /\ UNCHANGED <<obj, handle, freeFlag, active, owner, client, mutex, history>>

PicCall(t) ==
  /\ pc[t] = "picCall"
  /\ Return(t)
  /\ UNCHANGED <<obj, handle, freeFlag, active, owner, client, mutex, history>>

------------------------------------------------------------------------------
(* freeStream: called by the application, or by freeStreams for each entry. *)

BeginFreeStream(t) == \E s \in Streams :
  /\ client = "live" /\ obj[s] = "held"
  /\ Start(t, "freeStream", "once", s, handle[s])
  /\ UNCHANGED <<obj, handle, freeFlag, active, owner, client, mutex, history>>

\* Deviation: every caller frees, as without the once flag.
CallAlways(t) ==
  /\ pc[t] = "once"
  /\ owner' = [h \in Handles |-> IF h = handle[arg[t]] THEN NoStream ELSE owner[h]]
  /\ Goto(t, "freeing")
  /\ UNCHANGED <<obj, handle, freeFlag, active, client, mutex, history>>

\* Deviation: freeStream takes free_client_mutex_, which freeStreams holds.
CallOnceLocking(t) ==
  /\ pc[t] = "once" /\ freeFlag[arg[t]] = "unset" /\ mutex = {}
  /\ freeFlag' = [freeFlag EXCEPT ![arg[t]] = "running"]
  /\ owner' = [h \in Handles |-> IF h = handle[arg[t]] THEN NoStream ELSE owner[h]]
  /\ Goto(t, "freeing")
  /\ UNCHANGED <<obj, handle, active, client, mutex, history>>

\* call_once lets one thread run freeKinesisVideoStream, which frees the PIC
\* stream at *getStreamHandle().  A thread that finds the flag running waits.
CallOnce(t) ==
  /\ pc[t] = "once" /\ freeFlag[arg[t]] = "unset"
  /\ freeFlag' = [freeFlag EXCEPT ![arg[t]] = "running"]
  /\ owner' = [h \in Handles |-> IF h = handle[arg[t]] THEN NoStream ELSE owner[h]]
  /\ Goto(t, "freeing")
  /\ UNCHANGED <<obj, handle, active, client, mutex, history>>

\* A later caller of call_once goes on without doing anything.
CalledAlready(t) ==
  /\ pc[t] = "once" /\ freeFlag[arg[t]] = "done"
  /\ Goto(t, "mapRemove")
  /\ UNCHANGED <<obj, handle, freeFlag, active, owner, client, mutex, history>>

\* PIC sets the caller's handle to INVALID_STREAM_HANDLE_VALUE and returns.
PicFreed(t) ==
  /\ pc[t] = "freeing"
  /\ handle' = [handle EXCEPT ![arg[t]] = Invalid]
  /\ freeFlag' = [freeFlag EXCEPT ![arg[t]] = "done"]
  /\ Goto(t, "mapRemove")
  /\ UNCHANGED <<obj, active, owner, client, mutex, history>>

\* freeStreams drops its shared_ptr at the end of each iteration.
EndIteration(t) ==
  /\ pc' = [pc EXCEPT ![t] = "loop"]
  /\ arg' = [arg EXCEPT ![t] = NoStream]
  /\ saved' = [saved EXCEPT ![t] = Invalid]
  /\ UNCHANGED <<op, left>>

\* The keys of the map.
Entries == {h \in Handles : active[h] # NoStream}

\* What an application's freeStream takes from a freeStreams in progress.
Take(t) ==
  /\ taken' = (taken \/ (op[t] = "freeStream" /\ saved[t] \in Entries))
  /\ UNCHANGED early

\* Deviation: the entry is looked up with the handle that free() has reset.
MapRemoveByObject(t) ==
  /\ pc[t] = "mapRemove"
  /\ active' = [h \in Handles |-> IF h = handle[arg[t]] THEN NoStream ELSE active[h]]
  /\ IF op[t] = "freeStream" THEN Return(t) ELSE EndIteration(t)
  /\ Take(t)
  /\ UNCHANGED <<obj, handle, freeFlag, owner, client, mutex>>

\* active_streams_.remove(stream_handle), with the handle saved on entry.
MapRemove(t) ==
  /\ pc[t] = "mapRemove"
  /\ active' = [h \in Handles |-> IF h = saved[t] THEN NoStream ELSE active[h]]
  /\ IF op[t] = "freeStream" THEN Return(t) ELSE EndIteration(t)
  /\ Take(t)
  /\ UNCHANGED <<obj, handle, freeFlag, owner, client, mutex>>

------------------------------------------------------------------------------
(* freeStreams, and the destructor, which calls it and frees the client.    *)

\* What active_streams_.getAt(0) may return: the entry with the smallest key,
\* which can be any entry since keys are addresses, or nullptr.
First == IF Entries = {} THEN {NoStream} ELSE {active[h] : h \in Entries}

\* Deviation: the destructor frees the client without freeing the streams.
BeginFreeStreamsOrClient(t) == \E o \in {"freeStreams", "destroy"} :
  /\ client = "live"
  /\ Start(t, o, IF o = "destroy" THEN "freeClient" ELSE "lock", NoStream, Invalid)
  /\ UNCHANGED <<obj, handle, freeFlag, active, owner, client, mutex, history>>

BeginFreeStreams(t) == \E o \in {"freeStreams", "destroy"} :
  /\ client = "live"
  /\ Start(t, o, "lock", NoStream, Invalid)
  /\ UNCHANGED <<obj, handle, freeFlag, active, owner, client, mutex, history>>

\* Deviation: no free_client_mutex_.
LockNothing(t) ==
  /\ pc[t] = "lock"
  /\ mutex' = mutex \cup {t}
  /\ Goto(t, "copy")
  /\ UNCHANGED <<obj, handle, freeFlag, active, owner, client, history>>

\* free_client_mutex_ is taken; getMap() then copies the map without its lock.
Lock(t) ==
  /\ pc[t] = "lock" /\ mutex = {}
  /\ mutex' = {t}
  /\ Goto(t, "copy")
  /\ UNCHANGED <<obj, handle, freeFlag, active, owner, client, history>>

\* The copy is complete: its size is num_streams.
CountStreams(t) ==
  /\ pc[t] = "copy"
  /\ left' = [left EXCEPT ![t] = Cardinality(Entries)]
  /\ pc' = [pc EXCEPT ![t] = "loop"]
  /\ taken' = FALSE
  /\ UNCHANGED <<op, arg, saved>>
  /\ UNCHANGED <<obj, handle, freeFlag, active, owner, client, mutex, early>>

\* A put or a remove changes the nodes of the map that is being copied.
TearCopy(t) ==
  /\ pc[t] = "copy" /\ \E u \in Threads : pc[u] \in {"mapPut", "mapRemove"}
  /\ Goto(t, "tornCopy")
  /\ UNCHANGED <<obj, handle, freeFlag, active, owner, client, mutex, history>>

\* One iteration: getAt(0), and freeStream reads the handle of what it got.
\* freeStream throws on a null stream; the catch block then dereferences it.
NextStream(t) == \E s \in First :
  /\ pc[t] = "loop" /\ left[t] > 0
  /\ left' = [left EXCEPT ![t] = @ - 1]
  /\ arg' = [arg EXCEPT ![t] = s]
  /\ saved' = [saved EXCEPT ![t] = IF s = NoStream THEN Invalid ELSE handle[s]]
  /\ pc' = [pc EXCEPT ![t] = IF s = NoStream THEN "nullDeref" ELSE "once"]
  /\ UNCHANGED op
  /\ UNCHANGED <<obj, handle, freeFlag, active, owner, client, mutex, history>>

\* The lock_guard leaves scope; freeStreams returns, the destructor goes on.
Unlock(t) ==
  /\ pc[t] = "loop" /\ left[t] = 0
  /\ mutex' = mutex \ {t}
  /\ IF op[t] = "freeStreams" THEN Return(t) ELSE Goto(t, "freeClient")
  /\ UNCHANGED <<obj, handle, freeFlag, active, owner, client, history>>

\* freeKinesisVideoClient, once.
FreeClient(t) ==
  /\ pc[t] = "freeClient"
  /\ client' = "freed"
  /\ Return(t)
  /\ UNCHANGED <<obj, handle, freeFlag, active, owner, mutex, history>>

------------------------------------------------------------------------------
\* The last shared_ptr goes away: ~KinesisVideoStream calls free(), whose
\* call_once frees the PIC stream unless freeStream did.
Destruct(s) ==
  /\ obj[s] = "held"
  /\ \A h \in Handles : active[h] # s
  /\ \A t \in Threads : arg[t] # s
  /\ owner' = [h \in Handles |-> IF h = handle[s] /\ freeFlag[s] = "unset"
                                 THEN NoStream ELSE owner[h]]
  /\ obj' = [obj EXCEPT ![s] = "none"]
  /\ handle' = [handle EXCEPT ![s] = Invalid]
  /\ freeFlag' = [freeFlag EXCEPT ![s] = "unset"]
  /\ early' = early \ {s}
  /\ UNCHANGED <<active, client, mutex, pc, op, arg, saved, left, taken>>

\* createSync: the application makes its next producer once the last one and
\* its streams are gone.
CreateProducer ==
  /\ client = "freed"
  /\ \A t \in Threads : pc[t] = "idle"
  /\ \A s \in Streams : obj[s] = "none"
  /\ client' = "live"
  /\ UNCHANGED <<obj, handle, freeFlag, active, owner, mutex, pc, op, arg, saved, left, history>>

Begin(t) ==
  \/ BeginCreate(t) \/ BeginUse(t) \/ BeginFreeStream(t) \/ BeginFreeStreams(t)

Step(t) ==
  \/ PicCreate(t) \/ PicCreateFails(t) \/ MapPut(t)
  \/ PicCall(t)
  \/ CallOnce(t) \/ CalledAlready(t) \/ PicFreed(t) \/ MapRemove(t)
  \/ Lock(t) \/ CountStreams(t) \/ TearCopy(t) \/ NextStream(t) \/ Unlock(t)
  \/ FreeClient(t)

Next ==
  \/ \E t \in Threads : Begin(t) \/ Step(t)
  \/ \E s \in Streams : Destruct(s)
  \/ CreateProducer

Spec == Init /\ [][Next]_vars

\* Threads that are inside a call keep running; the application owes nothing.
Fairness == \A t \in Threads : WF_vars(Step(t))

FairSpec == Spec /\ Fairness

------------------------------------------------------------------------------
(* Properties *)

LiveStreams == {s \in Streams : \E h \in Handles : owner[h] = s}

Quiescent == \A t \in Threads : pc[t] = "idle"

\* Whenever call_once is about to run freeKinesisVideoStream, the handle it
\* passes is that of a PIC stream which is still live and belongs to this
\* very object: no stream is freed twice and none frees another's
\* (KinesisVideoStream::free, the destructor, and handle values that PIC reuses).
FreesOwnStream ==
  \A t \in Threads :
    pc[t] = "once" /\ freeFlag[arg[t]] = "unset" =>
      /\ handle[arg[t]] \in Handles
      /\ owner[handle[arg[t]]] = arg[t]

\* The invariant behind it, which holds however calls overlap.  A live PIC
\* stream belongs to exactly one object, the one that stores its handle and
\* has not entered call_once yet.
OwnerInv ==
  \A s \in Streams, h \in Handles :
    owner[h] = s <=> handle[s] = h /\ freeFlag[s] = "unset"

\* An object has no handle before PIC gave it one, and keeps it until freed.
ObjectInv ==
  \A s \in Streams :
    /\ obj[s] = "none" => handle[s] = Invalid /\ freeFlag[s] = "unset"
    /\ obj[s] = "held" /\ freeFlag[s] # "done" => handle[s] \in Handles

\* A thread creates an object nobody else has, and frees one that was returned.
ThreadInv ==
  /\ \A t \in Threads :
       /\ pc[t] \in {"picCreate", "mapPut"} =>
            /\ arg[t] \in Streams /\ obj[arg[t]] = "creating"
            /\ freeFlag[arg[t]] = "unset"
       /\ pc[t] = "picCreate" => handle[arg[t]] = Invalid
       /\ pc[t] = "mapPut" => handle[arg[t]] \in Handles
       /\ pc[t] \in {"once", "freeing"} => arg[t] \in Streams /\ obj[arg[t]] = "held"
       /\ pc[t] = "freeing" => freeFlag[arg[t]] = "running"
  /\ \A t, u \in Threads :
       t # u /\ arg[t] = arg[u] =>
         /\ ~(pc[t] \in {"picCreate", "mapPut"} /\ pc[u] \in {"picCreate", "mapPut"})
         /\ ~(pc[t] = "freeing" /\ pc[u] = "freeing")

\* The map refers only to streams that createStream returned.
ActiveInv ==
  \A h \in Handles : active[h] # NoStream => obj[active[h]] = "held"

HandleInv == OwnerInv /\ ObjectInv /\ ThreadInv /\ ActiveInv

\* A frame, a codec change, a stop or a reset reaches the PIC stream of the
\* object it was called on, never another object's, as long as nobody frees
\* that object while the call is in flight; without a handle PIC refuses it.
CallsReachOwnStream ==
  \A t \in Threads :
    pc[t] = "picCall" /\ saved[t] # Invalid /\ freeFlag[arg[t]] = "unset" =>
      owner[saved[t]] = arg[t]

\* The producer's map has every live stream that createStream returned, at its
\* own handle, while any calls run; and between calls it has no other entry.
\* The one stream it can miss is one that PIC created at a handle value which
\* a freeStream of the stream before it, or a second freeStream of that one,
\* was still going to remove.
TrackedWhileLive ==
  /\ \A s \in Streams \ early :
       obj[s] = "held" /\ freeFlag[s] = "unset" =>
         handle[s] \in Handles /\ active[handle[s]] = s
  /\ Quiescent =>
       \A h \in Entries :
         LET s == active[h]
         IN  obj[s] = "held" /\ freeFlag[s] = "unset" /\ handle[s] = h

\* freeStreams dereferences the null stream that getAt returns for an index
\* beyond the map only if a freeStream of the application removed an entry
\* after the count: other freeStreams, creates and its own frees never do it.
NoNullDeref == (\E t \in Threads : pc[t] = "nullDeref") => taken

\* A freeStreams (or destructor) that got free_client_mutex_ finishes, or dies
\* of the null stream or of the torn copy: neither a call_once that another
\* thread runs, which it waits for inside the lock, nor the loop keeps it.
FreeStreamsReturns ==
  \A t \in Threads :
    pc[t] = "copy" ~> pc[t] \in {"idle", "nullDeref", "tornCopy"}

\* What the producer promises: see StreamRegistry.
Registry == INSTANCE StreamRegistry
  WITH live <- LiveStreams,
       stray <- early \cap LiveStreams,
       freeing <- \E t \in Threads : pc[t] \in Freeing

\* Every step of the producer is a step of the registry or leaves it alone.
RegistrySpec == Registry!Spec

------------------------------------------------------------------------------
(* What the comments of the code say and some executions contradict. *)

\* "Frees the resources.  Consecutive calls will fail" (KinesisVideoStream.h):
\* once free() has released the PIC stream, what the object passes to PIC is
\* the invalid handle, which PIC refuses.
FreedStreamsRefuse ==
  \A t \in Threads :
    pc[t] = "picCall" /\ freeFlag[arg[t]] = "done" => saved[t] = Invalid

\* "Used in a lock for freeing streams" (KinesisVideoProducer.h): freeStreams
\* always gets the streams it counted.
LockProtectsStreams == \A t \in Threads : pc[t] # "nullDeref"

\* "Thread safe implementation of std::map" (ThreadSafeMap.h): no copy of the
\* map is made while an entry is put or removed.
MapIsThreadSafe == \A t \in Threads : pc[t] # "tornCopy"

\* "Free the streams" (the destructor of KinesisVideoProducer): no PIC stream
\* outlives the client.
NoneOutlivesClient == client = "freed" => LiveStreams = {}
==============================================================================
