------------------------ MODULE ProducerStreamsProofs ------------------------
(***************************************************************************)
(* Proofs about ProducerStreams, for any number of threads, streams and    *)
(* handles and whatever calls the application makes at the same time.      *)
(***************************************************************************)
EXTENDS ProducerStreams, FiniteSetTheorems, TLAPS

USE StreamsAssumption, HandlesAssumption

\* The stream freeStreams picks is one of the map, or null.
LEMMA FirstType ==
  ASSUME TypeOK, NEW s \in First
  PROVE  /\ s \in Streams \cup {NoStream}
         /\ s # NoStream => \E h \in Handles : active[h] = s
BY DEF TypeOK, First, Entries

\* The map is finite: its number of entries is a natural number, and zero
\* exactly when it is empty.
LEMMA EntriesCount ==
  /\ IsFiniteSet(Entries)
  /\ Cardinality(Entries) \in Nat
  /\ Cardinality(Entries) = 0 <=> Entries = {}
<1>1. Entries \in SUBSET Handles
  BY DEF Entries
<1>2. IsFiniteSet(Entries)
  BY <1>1, FS_Subset
<1>3. QED
  BY <1>2, FS_CardinalityType, FS_EmptySet

\* Taking one of the entries away leaves one less.
LEMMA EntryRemoved ==
  ASSUME NEW h \in Entries
  PROVE  Cardinality(Entries \ {h}) = Cardinality(Entries) - 1
BY EntriesCount, FS_RemoveElement

\* What starting a call changes.
LEMMA StartType ==
  ASSUME TypeOK, NEW t \in Threads, NEW o \in Ops, NEW l \in Labels,
         NEW s \in Streams \cup {NoStream}, NEW h \in Handles \cup {Invalid},
         Start(t, o, l, s, h)
  PROVE  /\ pc' \in [Threads -> Labels] /\ op' \in [Threads -> Ops \cup {"none"}]
         /\ arg' \in [Threads -> Streams \cup {NoStream}]
         /\ saved' \in [Threads -> Handles \cup {Invalid}]
         /\ left' \in [Threads -> Nat]
BY DEF TypeOK, Start

\* What moving on inside a call changes.
LEMMA GotoType ==
  ASSUME TypeOK, NEW t \in Threads, NEW l \in Labels, Goto(t, l)
  PROVE  /\ pc' \in [Threads -> Labels] /\ op' \in [Threads -> Ops \cup {"none"}]
         /\ arg' \in [Threads -> Streams \cup {NoStream}]
         /\ saved' \in [Threads -> Handles \cup {Invalid}]
         /\ left' \in [Threads -> Nat]
BY DEF TypeOK, Goto

\* What returning from a call changes.
LEMMA ReturnType ==
  ASSUME TypeOK, NEW t \in Threads, Return(t)
  PROVE  /\ pc' \in [Threads -> Labels] /\ op' \in [Threads -> Ops \cup {"none"}]
         /\ arg' \in [Threads -> Streams \cup {NoStream}]
         /\ saved' \in [Threads -> Handles \cup {Invalid}]
         /\ left' \in [Threads -> Nat]
BY DEF TypeOK, Return, Labels

\* Every variable of the producer keeps its type, in every interleaving.
THEOREM TypeCorrect == Spec => []TypeOK
<1>1. Init => TypeOK
  <2> SUFFICES ASSUME Init PROVE TypeOK
    OBVIOUS
  <2>1. early \in SUBSET (Streams \cup {NoStream}) /\ taken \in BOOLEAN
    BY DEF Init
  <2>2. pc \in [Threads -> Labels]
    BY DEF Init, Labels
  <2>3. QED
    BY <2>1, <2>2 DEF Init, TypeOK
<1>2. TypeOK /\ [Next]_vars => TypeOK'
  <2> SUFFICES ASSUME TypeOK, [Next]_vars
               PROVE  TypeOK'
    OBVIOUS
  <2>1. ASSUME NEW t \in Threads, BeginCreate(t) PROVE TypeOK'
    BY <2>1, StartType DEF BeginCreate, TypeOK, Ops, OnProducer, Labels, Freeing, history
  <2>2. ASSUME NEW t \in Threads, PicCreate(t) PROVE TypeOK'
    <3>1. PICK h \in Handles :
            /\ owner' = [owner EXCEPT ![h] = arg[t]]
            /\ handle' = [handle EXCEPT ![arg[t]] = h]
            /\ early' \in {early, early \cup {arg[t]}}
      BY <2>2 DEF PicCreate
    <3>2. arg[t] \in Streams \cup {NoStream}
      BY DEF TypeOK
    <3>3. /\ owner' \in [Handles -> Streams \cup {NoStream}]
          /\ handle' \in [Streams -> Handles \cup {Invalid}]
          /\ early' \in SUBSET (Streams \cup {NoStream})
      BY <3>1, <3>2 DEF TypeOK
    <3>4. Goto(t, "mapPut") /\ UNCHANGED <<obj, freeFlag, active, client, mutex, taken>>
      BY <2>2 DEF PicCreate
    <3>5. QED
      BY <3>3, <3>4, GotoType DEF TypeOK, Labels
  <2>3. ASSUME NEW t \in Threads, PicCreateFails(t) PROVE TypeOK'
    BY <2>3, ReturnType DEF PicCreateFails, TypeOK, history
  <2>4. ASSUME NEW t \in Threads, MapPut(t) PROVE TypeOK'
    BY <2>4, ReturnType DEF MapPut, TypeOK, history
  <2>5. ASSUME NEW t \in Threads, BeginUse(t) PROVE TypeOK'
    BY <2>5, StartType DEF BeginUse, TypeOK, Ops, OnProducer, Labels, Freeing, history
  <2>6. ASSUME NEW t \in Threads, PicCall(t) PROVE TypeOK'
    BY <2>6, ReturnType DEF PicCall, TypeOK, history
  <2>7. ASSUME NEW t \in Threads, BeginFreeStream(t) PROVE TypeOK'
    BY <2>7, StartType DEF BeginFreeStream, TypeOK, Ops, OnProducer, Labels, Freeing, history
  <2>8. ASSUME NEW t \in Threads, CallOnce(t) PROVE TypeOK'
    BY <2>8, GotoType DEF CallOnce, TypeOK, Labels, Freeing, history
  <2>9. ASSUME NEW t \in Threads, CalledAlready(t) PROVE TypeOK'
    BY <2>9, GotoType DEF CalledAlready, TypeOK, Labels, Freeing, history
  <2>10. ASSUME NEW t \in Threads, PicFreed(t) PROVE TypeOK'
    BY <2>10, GotoType DEF PicFreed, TypeOK, Labels, Freeing, history
  <2>11. ASSUME NEW t \in Threads, MapRemove(t) PROVE TypeOK'
    BY <2>11, ReturnType DEF MapRemove, Take, EndIteration, TypeOK, Labels, Freeing, history
  <2>12. ASSUME NEW t \in Threads, BeginFreeStreams(t) PROVE TypeOK'
    BY <2>12, StartType DEF BeginFreeStreams, TypeOK, Ops, OnProducer, Labels, Freeing, history
  <2>13. ASSUME NEW t \in Threads, Lock(t) PROVE TypeOK'
    BY <2>13, GotoType DEF Lock, TypeOK, Labels, Freeing, history
  <2>14. ASSUME NEW t \in Threads, CountStreams(t) PROVE TypeOK'
    BY <2>14, EntriesCount DEF CountStreams, TypeOK, Labels, Freeing, history
  <2>15. ASSUME NEW t \in Threads, TearCopy(t) PROVE TypeOK'
    BY <2>15, GotoType DEF TearCopy, TypeOK, Labels, Freeing, history
  <2>16. ASSUME NEW t \in Threads, NextStream(t) PROVE TypeOK'
    BY <2>16, FirstType DEF NextStream, TypeOK, Labels, Freeing, history
  <2>17. ASSUME NEW t \in Threads, Unlock(t) PROVE TypeOK'
    BY <2>17, ReturnType, GotoType DEF Unlock, TypeOK, Labels, Freeing, history
  <2>18. ASSUME NEW t \in Threads, FreeClient(t) PROVE TypeOK'
    BY <2>18, ReturnType DEF FreeClient, TypeOK, history
  <2>19. ASSUME NEW s \in Streams, Destruct(s) PROVE TypeOK'
    BY <2>19 DEF Destruct, TypeOK, history
  <2>20. CASE CreateProducer
    BY <2>20 DEF CreateProducer, TypeOK, history
  <2>21. CASE UNCHANGED vars
    BY <2>21 DEF vars, TypeOK, history
  <2>22. QED
    BY <2>1, <2>2, <2>3, <2>4, <2>5, <2>6, <2>7, <2>8, <2>9, <2>10, <2>11,
       <2>12, <2>13, <2>14, <2>15, <2>16, <2>17, <2>18, <2>19, <2>20, <2>21
    DEF Next, Begin, Step
<1>3. QED
  BY <1>1, <1>2, PTL DEF Spec

------------------------------------------------------------------------------
\* HandleInv is inductive: one step of the proof per action.
LEMMA HandleInvStep ==
  ASSUME TypeOK, HandleInv, [Next]_vars
  PROVE  HandleInv'
<1> USE DEF HandleInv, OwnerInv, ObjectInv, ThreadInv, ActiveInv, TypeOK
<1>1. ASSUME NEW t \in Threads, BeginCreate(t) PROVE HandleInv'
  BY <1>1 DEF BeginCreate, Start, MayStart, history
<1>2. ASSUME NEW t \in Threads, PicCreate(t) PROVE HandleInv'
  BY <1>2 DEF PicCreate, Goto, history
<1>3. ASSUME NEW t \in Threads, PicCreateFails(t) PROVE HandleInv'
  BY <1>3 DEF PicCreateFails, Return, history
<1>4. ASSUME NEW t \in Threads, MapPut(t) PROVE HandleInv'
  BY <1>4 DEF MapPut, Return, history
<1>5. ASSUME NEW t \in Threads, BeginUse(t) PROVE HandleInv'
  BY <1>5 DEF BeginUse, Start, MayStart, history
<1>6. ASSUME NEW t \in Threads, PicCall(t) PROVE HandleInv'
  BY <1>6 DEF PicCall, Return, history
<1>7. ASSUME NEW t \in Threads, BeginFreeStream(t) PROVE HandleInv'
  BY <1>7 DEF BeginFreeStream, Start, MayStart, history
<1>8. ASSUME NEW t \in Threads, CallOnce(t) PROVE HandleInv'
  BY <1>8 DEF CallOnce, Goto, history
<1>9. ASSUME NEW t \in Threads, CalledAlready(t) PROVE HandleInv'
  BY <1>9 DEF CalledAlready, Goto, history
<1>10. ASSUME NEW t \in Threads, PicFreed(t) PROVE HandleInv'
  BY <1>10 DEF PicFreed, Goto, history
<1>11. ASSUME NEW t \in Threads, MapRemove(t) PROVE HandleInv'
  BY <1>11 DEF MapRemove, Take, EndIteration, Return, history
<1>12. ASSUME NEW t \in Threads, BeginFreeStreams(t) PROVE HandleInv'
  BY <1>12 DEF BeginFreeStreams, Start, MayStart, history
<1>13. ASSUME NEW t \in Threads, Lock(t) PROVE HandleInv'
  BY <1>13 DEF Lock, Goto, history
<1>14. ASSUME NEW t \in Threads, CountStreams(t) PROVE HandleInv'
  BY <1>14 DEF CountStreams, history
<1>15. ASSUME NEW t \in Threads, TearCopy(t) PROVE HandleInv'
  BY <1>15 DEF TearCopy, Goto, history
<1>16. ASSUME NEW t \in Threads, NextStream(t) PROVE HandleInv'
  BY <1>16, FirstType DEF NextStream, history
<1>17. ASSUME NEW t \in Threads, Unlock(t) PROVE HandleInv'
  BY <1>17 DEF Unlock, Goto, Return, history
<1>18. ASSUME NEW t \in Threads, FreeClient(t) PROVE HandleInv'
  BY <1>18 DEF FreeClient, Return, history
<1>19. ASSUME NEW s \in Streams, Destruct(s) PROVE HandleInv'
  BY <1>19 DEF Destruct, history
<1>20. CASE CreateProducer
  BY <1>20 DEF CreateProducer, history
<1>21. CASE UNCHANGED vars
  BY <1>21 DEF vars, history
<1>22. QED
  BY <1>1, <1>2, <1>3, <1>4, <1>5, <1>6, <1>7, <1>8, <1>9, <1>10, <1>11,
     <1>12, <1>13, <1>14, <1>15, <1>16, <1>17, <1>18, <1>19, <1>20, <1>21
  DEF Next, Begin, Step

\* Each live PIC stream belongs to one stream object, which still stores its
\* handle and has not freed it, however the calls of the application overlap
\* and however PIC reuses handle values.
THEOREM HandlesOwned == Spec => []HandleInv
<1>1. Init => HandleInv
  BY DEF Init, HandleInv, OwnerInv, ObjectInv, ThreadInv, ActiveInv
<1>2. TypeOK /\ HandleInv /\ [Next]_vars => HandleInv'
  BY HandleInvStep
<1>3. QED
  BY <1>1, <1>2, TypeCorrect, PTL DEF Spec

\* Whatever threads call at the same time, freeKinesisVideoStream is given the
\* handle of a live PIC stream that belongs to the object being freed.
THEOREM NoDoubleFree == Spec => []FreesOwnStream
<1>1. TypeOK /\ HandleInv => FreesOwnStream
  BY DEF TypeOK, HandleInv, OwnerInv, ObjectInv, ThreadInv, FreesOwnStream
<1>2. QED
  BY <1>1, TypeCorrect, HandlesOwned, PTL

------------------------------------------------------------------------------
(***************************************************************************)
(* The calls in flight, the map and the count of freeStreams, whatever     *)
(* calls overlap: how far each call has come and what it holds, by which   *)
(* entries the map may differ from the live streams meanwhile, and how the *)
(* iterations left relate to the entries.                                  *)
(***************************************************************************)

FreeAll == {"freeStreams", "destroy"}

\* t holds free_client_mutex_.
Holds(t) ==
  \/ pc[t] \in {"copy", "loop", "nullDeref"}
  \/ op[t] \in FreeAll /\ pc[t] \in Freeing

\* Where each call can be and what it holds; the destructor runs alone.
CallInv ==
  /\ \A t, u \in Threads :
       t # u /\ op[t] = "destroy" => op[u] \notin OnProducer
  /\ \A t \in Threads :
       /\ pc[t] = "idle" <=> op[t] = "none"
       /\ pc[t] = "idle" => arg[t] = NoStream
       /\ pc[t] \in {"picCreate", "mapPut"} => op[t] = "create"
       /\ pc[t] = "picCall" => op[t] = "use"
       /\ pc[t] \in Freeing => op[t] \in FreeAll \cup {"freeStream"}
       /\ pc[t] \in {"lock", "copy", "loop", "nullDeref", "tornCopy"} => op[t] \in FreeAll
       /\ pc[t] = "freeClient" => op[t] = "destroy"
       /\ op[t] \in OnProducer => client = "live"
       /\ Holds(t) => mutex = {t}

\* A stream that is half created or half freed is in the hands of a thread,
\* and one in use keeps the handle the call has read until it is freed.
ProgressInv ==
  /\ \A s \in Streams :
       /\ obj[s] = "creating" =>
            \E t \in Threads : pc[t] \in {"picCreate", "mapPut"} /\ arg[t] = s
       /\ obj[s] = "none" => s \notin early
       /\ freeFlag[s] = "done" => obj[s] = "held" /\ handle[s] = Invalid
       /\ freeFlag[s] # "unset" => obj[s] = "held"
  /\ \A t \in Threads :
       /\ pc[t] = "picCreate" => arg[t] \notin early
       /\ pc[t] = "picCall" =>
            /\ arg[t] \in Streams /\ obj[arg[t]] = "held"
            /\ freeFlag[arg[t]] = "unset" => saved[t] = handle[arg[t]]
       /\ pc[t] = "mapRemove" =>
            arg[t] \in Streams /\ obj[arg[t]] = "held" /\ freeFlag[arg[t]] = "done"
       /\ pc[t] = "once" /\ freeFlag[arg[t]] = "unset" => saved[t] = handle[arg[t]]

\* While a stream is being freed, the thread that does it has its handle.
FreerInv ==
  \A s \in Streams : freeFlag[s] = "running" =>
    \E t \in Threads : pc[t] = "freeing" /\ arg[t] = s /\ saved[t] = handle[s]

\* Nobody inside freeStream has the handle of a live stream but for freeing
\* that stream, unless the stream came early.
AimInv ==
  \A s \in Streams \ early, t \in Threads :
    freeFlag[s] = "unset" /\ handle[s] \in Handles /\ pc[t] \in Freeing
      /\ saved[t] = handle[s] => arg[t] = s

\* A live stream that did not come early is in the map from its put on, and
\* before it nothing is in its place.
PresentInv ==
  \A s \in Streams \ early :
    /\ obj[s] = "held" /\ freeFlag[s] = "unset" => active[handle[s]] = s
    /\ obj[s] = "creating" /\ handle[s] \in Handles => active[handle[s]] = NoStream

\* An entry is that of a live stream at its handle, or one that a thread
\* inside freeStream is about to remove.
EntryInv ==
  \A h \in Handles : active[h] # NoStream =>
    \/ handle[active[h]] = h /\ freeFlag[active[h]] = "unset"
    \/ \E t \in Threads :
         pc[t] \in {"freeing", "mapRemove"} /\ arg[t] = active[h] /\ saved[t] = h

\* Until an application's freeStream removes an entry, freeStreams has at
\* most as many iterations left as the map has entries.
CountInv ==
  \A t \in Threads :
    /\ pc[t] = "nullDeref" => taken
    /\ pc[t] = "loop" => taken \/ left[t] <= Cardinality(Entries)
    /\ op[t] \in FreeAll /\ pc[t] \in Freeing =>
         taken \/ left[t] + 1 <= Cardinality(Entries)

\* The destructor runs alone, so it counts exactly and empties the map.
CloseInv ==
  \A t \in Threads : op[t] = "destroy" =>
    /\ pc[t] = "loop" => left[t] = Cardinality(Entries)
    /\ pc[t] \in Freeing => saved[t] \in Entries /\ left[t] + 1 = Cardinality(Entries)
    /\ pc[t] = "freeClient" => Entries = {}

MapInv == FreerInv /\ AimInv /\ PresentInv /\ EntryInv

\* The inductive invariant.
RegistryInv == HandleInv /\ CallInv /\ ProgressInv /\ MapInv /\ CountInv /\ CloseInv

\* CallInv is inductive: calls go through their steps in order, and the
\* destructor starts only when no call on the producer is in progress.
LEMMA CallInvStep ==
  ASSUME TypeOK, CallInv, [Next]_vars
  PROVE  CallInv'
<1> USE DEF CallInv, TypeOK, Holds, Freeing, FreeAll, OnProducer
<1>1. ASSUME NEW t \in Threads, BeginCreate(t) PROVE CallInv'
  BY <1>1 DEF BeginCreate, Start, MayStart, history
<1>2. ASSUME NEW t \in Threads, PicCreate(t) PROVE CallInv'
  BY <1>2 DEF PicCreate, Goto, history
<1>3. ASSUME NEW t \in Threads, PicCreateFails(t) PROVE CallInv'
  BY <1>3 DEF PicCreateFails, Return, history
<1>4. ASSUME NEW t \in Threads, MapPut(t) PROVE CallInv'
  BY <1>4 DEF MapPut, Return, history
<1>5. ASSUME NEW t \in Threads, BeginUse(t) PROVE CallInv'
  BY <1>5 DEF BeginUse, Start, MayStart, history
<1>6. ASSUME NEW t \in Threads, PicCall(t) PROVE CallInv'
  BY <1>6 DEF PicCall, Return, history
<1>7. ASSUME NEW t \in Threads, BeginFreeStream(t) PROVE CallInv'
  BY <1>7 DEF BeginFreeStream, Start, MayStart, history
<1>8. ASSUME NEW t \in Threads, CallOnce(t) PROVE CallInv'
  BY <1>8 DEF CallOnce, Goto, history
<1>9. ASSUME NEW t \in Threads, CalledAlready(t) PROVE CallInv'
  BY <1>9 DEF CalledAlready, Goto, history
<1>10. ASSUME NEW t \in Threads, PicFreed(t) PROVE CallInv'
  BY <1>10 DEF PicFreed, Goto, history
<1>11. ASSUME NEW t \in Threads, MapRemove(t) PROVE CallInv'
  BY <1>11 DEF MapRemove, Take, EndIteration, Return, history
<1>12. ASSUME NEW t \in Threads, BeginFreeStreams(t) PROVE CallInv'
  BY <1>12 DEF BeginFreeStreams, Start, MayStart, history
<1>13. ASSUME NEW t \in Threads, Lock(t) PROVE CallInv'
  BY <1>13 DEF Lock, Goto, history
<1>14. ASSUME NEW t \in Threads, CountStreams(t) PROVE CallInv'
  BY <1>14 DEF CountStreams, history
<1>15. ASSUME NEW t \in Threads, TearCopy(t) PROVE CallInv'
  BY <1>15 DEF TearCopy, Goto, history
<1>16. ASSUME NEW t \in Threads, NextStream(t) PROVE CallInv'
  BY <1>16, FirstType DEF NextStream, history
<1>17. ASSUME NEW t \in Threads, Unlock(t) PROVE CallInv'
  BY <1>17 DEF Unlock, Goto, Return, history
<1>18. ASSUME NEW t \in Threads, FreeClient(t) PROVE CallInv'
  BY <1>18 DEF FreeClient, Return, history
<1>19. ASSUME NEW s \in Streams, Destruct(s) PROVE CallInv'
  BY <1>19 DEF Destruct, history
<1>20. CASE CreateProducer
  BY <1>20 DEF CreateProducer, history
<1>21. CASE UNCHANGED vars
  BY <1>21 DEF vars, history
<1>22. QED
  BY <1>1, <1>2, <1>3, <1>4, <1>5, <1>6, <1>7, <1>8, <1>9, <1>10, <1>11,
     <1>12, <1>13, <1>14, <1>15, <1>16, <1>17, <1>18, <1>19, <1>20, <1>21
  DEF Next, Begin, Step


\* ProgressInv is inductive: only the thread that works on a stream finishes it.
LEMMA ProgressInvStep ==
  ASSUME TypeOK, HandleInv, CallInv, ProgressInv, [Next]_vars
  PROVE  ProgressInv'
<1> USE DEF ProgressInv, HandleInv, OwnerInv, ObjectInv, ThreadInv, TypeOK, Freeing
<1>1. ASSUME NEW t \in Threads, BeginCreate(t) PROVE ProgressInv'
  BY <1>1 DEF BeginCreate, Start, MayStart, CallInv, history
<1>2. ASSUME NEW t \in Threads, PicCreate(t) PROVE ProgressInv'
  BY <1>2 DEF PicCreate, Goto, history
<1>3. ASSUME NEW t \in Threads, PicCreateFails(t) PROVE ProgressInv'
  BY <1>3 DEF PicCreateFails, Return, history
<1>4. ASSUME NEW t \in Threads, MapPut(t) PROVE ProgressInv'
  BY <1>4 DEF MapPut, Return, history
<1>5. ASSUME NEW t \in Threads, BeginUse(t) PROVE ProgressInv'
  BY <1>5 DEF BeginUse, Start, MayStart, history
<1>6. ASSUME NEW t \in Threads, PicCall(t) PROVE ProgressInv'
  BY <1>6 DEF PicCall, Return, history
<1>7. ASSUME NEW t \in Threads, BeginFreeStream(t) PROVE ProgressInv'
  BY <1>7 DEF BeginFreeStream, Start, MayStart, history
<1>8. ASSUME NEW t \in Threads, CallOnce(t) PROVE ProgressInv'
  BY <1>8 DEF CallOnce, Goto, history
<1>9. ASSUME NEW t \in Threads, CalledAlready(t) PROVE ProgressInv'
  BY <1>9 DEF CalledAlready, Goto, history
<1>10. ASSUME NEW t \in Threads, PicFreed(t) PROVE ProgressInv'
  BY <1>10 DEF PicFreed, Goto, history
<1>11. ASSUME NEW t \in Threads, MapRemove(t) PROVE ProgressInv'
  <2>1. /\ pc[t] = "mapRemove" /\ pc' = [pc EXCEPT ![t] = pc'[t]] /\ pc'[t] \in {"idle", "loop"}
        /\ arg' = [arg EXCEPT ![t] = NoStream] /\ saved' = [saved EXCEPT ![t] = Invalid]
        /\ UNCHANGED <<obj, handle, freeFlag, early>>
    BY <1>11 DEF MapRemove, Take, EndIteration, Return
  <2>2. QED
    BY <2>1
<1>12. ASSUME NEW t \in Threads, BeginFreeStreams(t) PROVE ProgressInv'
  BY <1>12 DEF BeginFreeStreams, Start, MayStart, history
<1>13. ASSUME NEW t \in Threads, Lock(t) PROVE ProgressInv'
  BY <1>13 DEF Lock, Goto, history
<1>14. ASSUME NEW t \in Threads, CountStreams(t) PROVE ProgressInv'
  BY <1>14 DEF CountStreams, history
<1>15. ASSUME NEW t \in Threads, TearCopy(t) PROVE ProgressInv'
  BY <1>15 DEF TearCopy, Goto, history
<1>16. ASSUME NEW t \in Threads, NextStream(t) PROVE ProgressInv'
  BY <1>16, FirstType DEF NextStream, history
<1>17. ASSUME NEW t \in Threads, Unlock(t) PROVE ProgressInv'
  BY <1>17 DEF Unlock, Goto, Return, history
<1>18. ASSUME NEW t \in Threads, FreeClient(t) PROVE ProgressInv'
  BY <1>18 DEF FreeClient, Return, history
<1>19. ASSUME NEW s \in Streams, Destruct(s) PROVE ProgressInv'
  BY <1>19 DEF Destruct, history
<1>20. CASE CreateProducer
  BY <1>20 DEF CreateProducer, history
<1>21. CASE UNCHANGED vars
  BY <1>21 DEF vars, history
<1>22. QED
  BY <1>1, <1>2, <1>3, <1>4, <1>5, <1>6, <1>7, <1>8, <1>9, <1>10, <1>11,
     <1>12, <1>13, <1>14, <1>15, <1>16, <1>17, <1>18, <1>19, <1>20, <1>21
  DEF Next, Begin, Step


\* What an iteration of freeStreams begins with.
LEMMA NextStreamChanges ==
  ASSUME NEW t \in Threads, NextStream(t)
  PROVE  \E s \in First :
           /\ pc[t] = "loop" /\ left[t] > 0
           /\ left' = [left EXCEPT ![t] = left[t] - 1]
           /\ arg' = [arg EXCEPT ![t] = s]
           /\ saved' = [saved EXCEPT ![t] = IF s = NoStream THEN Invalid ELSE handle[s]]
           /\ pc' = [pc EXCEPT ![t] = IF s = NoStream THEN "nullDeref" ELSE "once"]
BY DEF NextStream

\* A stream that is not free to be removed shares its handle with no other
\* live stream: a second holder of the value is being freed.
LEMMA HandleShared ==
  ASSUME TypeOK, HandleInv, ProgressInv, MapInv,
         NEW s \in Streams \ early, freeFlag[s] = "unset", handle[s] \in Handles,
         NEW x \in Streams, handle[x] = handle[s]
  PROVE  x = s
<1>1. CASE freeFlag[x] = "unset"
  BY <1>1 DEF HandleInv, OwnerInv
<1>2. CASE freeFlag[x] = "running"
  BY <1>2 DEF MapInv, FreerInv, AimInv, Freeing
<1>3. CASE freeFlag[x] = "done"
  BY <1>3 DEF ProgressInv
<1>4. QED
  BY <1>1, <1>2, <1>3 DEF TypeOK

\* MapInv is inductive.
LEMMA MapInvStep ==
  ASSUME TypeOK, HandleInv, CallInv, ProgressInv, MapInv, [Next]_vars
  PROVE  MapInv'
<1> USE DEF MapInv, FreerInv, AimInv, PresentInv, EntryInv, ProgressInv,
            HandleInv, OwnerInv, ObjectInv, ThreadInv, ActiveInv, TypeOK, Freeing
<1>1. ASSUME NEW t \in Threads, BeginCreate(t) PROVE MapInv'
  BY <1>1 DEF BeginCreate, Start, MayStart, history
<1>2. ASSUME NEW t \in Threads, PicCreate(t) PROVE MapInv'
  BY <1>2 DEF PicCreate, Goto, history
<1>3. ASSUME NEW t \in Threads, PicCreateFails(t) PROVE MapInv'
  BY <1>3 DEF PicCreateFails, Return, history
<1>4. ASSUME NEW t \in Threads, MapPut(t) PROVE MapInv'
  BY <1>4 DEF MapPut, Return, history
<1>5. ASSUME NEW t \in Threads, BeginUse(t) PROVE MapInv'
  BY <1>5 DEF BeginUse, Start, MayStart, history
<1>6. ASSUME NEW t \in Threads, PicCall(t) PROVE MapInv'
  BY <1>6 DEF PicCall, Return, history
<1>7. ASSUME NEW t \in Threads, BeginFreeStream(t) PROVE MapInv'
  BY <1>7, HandleShared DEF BeginFreeStream, Start, MayStart, history
<1>8. ASSUME NEW t \in Threads, CallOnce(t) PROVE MapInv'
  BY <1>8 DEF CallOnce, Goto, history
<1>9. ASSUME NEW t \in Threads, CalledAlready(t) PROVE MapInv'
  BY <1>9 DEF CalledAlready, Goto, history
<1>10. ASSUME NEW t \in Threads, PicFreed(t) PROVE MapInv'
  BY <1>10 DEF PicFreed, Goto, history
<1>11. ASSUME NEW t \in Threads, MapRemove(t) PROVE MapInv'
  <2>1. /\ pc[t] = "mapRemove" /\ arg[t] \in Streams /\ freeFlag[arg[t]] = "done"
        /\ active' = [h \in Handles |-> IF h = saved[t] THEN NoStream ELSE active[h]]
        /\ UNCHANGED <<obj, handle, freeFlag, owner, early>>
    BY <1>11 DEF MapRemove, Take
  <2>2. /\ pc'[t] \in {"idle", "loop"}
        /\ \A u \in Threads \ {t} : pc'[u] = pc[u] /\ arg'[u] = arg[u] /\ saved'[u] = saved[u]
    BY <1>11 DEF MapRemove, EndIteration, Return
  <2>3. FreerInv' /\ AimInv'
    <3>1. ASSUME NEW x \in Streams, freeFlag'[x] = "running"
          PROVE  \E u \in Threads : pc'[u] = "freeing" /\ arg'[u] = x /\ saved'[u] = handle'[x]
      <4>1. PICK u \in Threads : pc[u] = "freeing" /\ arg[u] = x /\ saved[u] = handle[x]
        BY <2>1, <3>1
      <4>2. u # t
        BY <2>1, <4>1
      <4>3. QED
        BY <2>1, <2>2, <4>1, <4>2
    <3>2. \A u \in Threads : pc'[u] \in Freeing =>
            pc[u] \in Freeing /\ arg'[u] = arg[u] /\ saved'[u] = saved[u]
      BY <2>2
    <3>3. QED
      BY <2>1, <3>1, <3>2
  <2>4. PresentInv'
    <3>1. ASSUME NEW x \in Streams \ early, obj[x] = "held", freeFlag[x] = "unset"
          PROVE  handle[x] \in Handles /\ handle[x] # saved[t]
      BY <2>1, <3>1
    <3>2. QED
      BY <2>1, <3>1
  <2>5. EntryInv'
    BY <2>1, <2>2
  <2>6. QED
    BY <2>3, <2>4, <2>5
<1>12. ASSUME NEW t \in Threads, BeginFreeStreams(t) PROVE MapInv'
  BY <1>12 DEF BeginFreeStreams, Start, MayStart, history
<1>13. ASSUME NEW t \in Threads, Lock(t) PROVE MapInv'
  BY <1>13 DEF Lock, Goto, history
<1>14. ASSUME NEW t \in Threads, CountStreams(t) PROVE MapInv'
  BY <1>14 DEF CountStreams, history
<1>15. ASSUME NEW t \in Threads, TearCopy(t) PROVE MapInv'
  BY <1>15 DEF TearCopy, Goto, history
<1>16. ASSUME NEW t \in Threads, NextStream(t) PROVE MapInv'
  BY <1>16, HandleShared, FirstType DEF NextStream, history
<1>17. ASSUME NEW t \in Threads, Unlock(t) PROVE MapInv'
  BY <1>17 DEF Unlock, Goto, Return, history
<1>18. ASSUME NEW t \in Threads, FreeClient(t) PROVE MapInv'
  BY <1>18 DEF FreeClient, Return, history
<1>19. ASSUME NEW s \in Streams, Destruct(s) PROVE MapInv'
  BY <1>19 DEF Destruct, history
<1>20. CASE CreateProducer
  BY <1>20 DEF CreateProducer, history
<1>21. CASE UNCHANGED vars
  BY <1>21 DEF vars, history
<1>22. QED
  BY <1>1, <1>2, <1>3, <1>4, <1>5, <1>6, <1>7, <1>8, <1>9, <1>10, <1>11,
     <1>12, <1>13, <1>14, <1>15, <1>16, <1>17, <1>18, <1>19, <1>20, <1>21
  DEF Next, Begin, Step


\* Removing one key of the map takes at most one entry away.
LEMMA RemovedOne ==
  ASSUME NEW h
  PROVE  /\ Cardinality(Entries \ {h}) \in Nat
         /\ Cardinality(Entries \ {h}) + 1 >= Cardinality(Entries)
         /\ Cardinality(Entries \ {h}) <= Cardinality(Entries)
         /\ h \in Entries => Cardinality(Entries \ {h}) + 1 = Cardinality(Entries)
<1>1. CASE h \in Entries
  BY <1>1, EntriesCount, EntryRemoved, FS_RemoveElement, FS_CardinalityType, FS_Subset
<1>2. CASE h \notin Entries
  <2>1. Cardinality(Entries \ {h}) = Cardinality(Entries)
    <3>1. Entries \ {h} = Entries
      BY <1>2
    <3>2. QED
      BY <3>1
  <2>2. QED
    BY <1>2, <2>1, EntriesCount, SMT
<1>3. QED
  BY <1>1, <1>2

\* What a removal does to the map and to the other threads.
LEMMA MapRemoveChanges ==
  ASSUME TypeOK, NEW t \in Threads, MapRemove(t)
  PROVE  /\ pc[t] = "mapRemove"
         /\ Entries' = Entries \ {saved[t]}
         /\ op[t] = "freeStream" => pc'[t] = "idle" /\ op'[t] = "none"
         /\ op[t] # "freeStream" => pc'[t] = "loop" /\ op'[t] = op[t] /\ left'[t] = left[t]
         /\ taken' = (taken \/ (op[t] = "freeStream" /\ saved[t] \in Entries))
         /\ \A u \in Threads \ {t} : /\ pc'[u] = pc[u] /\ op'[u] = op[u]
                                     /\ saved'[u] = saved[u] /\ left'[u] = left[u]
BY DEF MapRemove, Take, EndIteration, Return, Entries, TypeOK

\* CountInv is inductive: an iteration of the thread that holds
\* free_client_mutex_ takes away at most one entry, a put takes none, and
\* removals by others are what taken records.
LEMMA CountInvStep ==
  ASSUME TypeOK, CallInv, CountInv, [Next]_vars
  PROVE  CountInv'
<1> USE DEF CountInv, CallInv, TypeOK, Holds, Freeing, FreeAll
<1>0. active' = active => Entries' = Entries
  BY DEF Entries
<1>1. ASSUME NEW t \in Threads, BeginCreate(t) PROVE CountInv'
  BY <1>1, <1>0 DEF BeginCreate, Start, MayStart, history
<1>2. ASSUME NEW t \in Threads, PicCreate(t) PROVE CountInv'
  BY <1>2, <1>0 DEF PicCreate, Goto, history
<1>3. ASSUME NEW t \in Threads, PicCreateFails(t) PROVE CountInv'
  BY <1>3, <1>0 DEF PicCreateFails, Return, history
<1>4. ASSUME NEW t \in Threads, MapPut(t) PROVE CountInv'
  <2>1. Entries \subseteq Entries'
    BY <1>4 DEF MapPut, Entries
  <2>2. Cardinality(Entries') \in Nat /\ IsFiniteSet(Entries')
    <3>1. Entries' \in SUBSET Handles
      BY DEF Entries
    <3>2. QED
      BY <3>1, FS_Subset, FS_CardinalityType
  <2>3. Cardinality(Entries) <= Cardinality(Entries')
    BY <2>1, <2>2, FS_Subset
  <2>4. \A n \in Nat : n <= Cardinality(Entries) => n <= Cardinality(Entries')
    BY <2>2, <2>3, EntriesCount
  <2>5. /\ pc'[t] = "idle" /\ taken' = taken
        /\ \A u \in Threads \ {t} : pc'[u] = pc[u] /\ op'[u] = op[u] /\ left'[u] = left[u]
    BY <1>4 DEF MapPut, Return, history
  <2>6. \A u \in Threads : left[u] \in Nat /\ left[u] + 1 \in Nat
    OBVIOUS
  <2>7. QED
    BY <2>4, <2>5, <2>6
<1>5. ASSUME NEW t \in Threads, BeginUse(t) PROVE CountInv'
  BY <1>5, <1>0 DEF BeginUse, Start, MayStart, history
<1>6. ASSUME NEW t \in Threads, PicCall(t) PROVE CountInv'
  BY <1>6, <1>0 DEF PicCall, Return, history
<1>7. ASSUME NEW t \in Threads, BeginFreeStream(t) PROVE CountInv'
  BY <1>7, <1>0 DEF BeginFreeStream, Start, MayStart, history
<1>8. ASSUME NEW t \in Threads, CallOnce(t) PROVE CountInv'
  BY <1>8, <1>0 DEF CallOnce, Goto, history
<1>9. ASSUME NEW t \in Threads, CalledAlready(t) PROVE CountInv'
  BY <1>9, <1>0 DEF CalledAlready, Goto, history
<1>10. ASSUME NEW t \in Threads, PicFreed(t) PROVE CountInv'
  BY <1>10, <1>0 DEF PicFreed, Goto, history
<1>11. ASSUME NEW t \in Threads, MapRemove(t) PROVE CountInv'
  <2>1. /\ pc[t] = "mapRemove"
        /\ Entries' = Entries \ {saved[t]}
        /\ op[t] = "freeStream" => pc'[t] = "idle" /\ op'[t] = "none"
        /\ op[t] # "freeStream" => pc'[t] = "loop" /\ op'[t] = op[t] /\ left'[t] = left[t]
        /\ taken' = (taken \/ (op[t] = "freeStream" /\ saved[t] \in Entries))
        /\ \A u \in Threads \ {t} : /\ pc'[u] = pc[u] /\ op'[u] = op[u]
                                     /\ saved'[u] = saved[u] /\ left'[u] = left[u]
    BY <1>11, MapRemoveChanges
  <2>2. CASE taken'
    BY <2>2
  <2>3. CASE ~ taken' /\ op[t] = "freeStream"
    <3>1. saved[t] \notin Entries /\ taken' = taken
      BY <2>1, <2>3
    <3>2. Entries' = Entries
      BY <2>1, <3>1
    <3>3. QED
      BY <2>1, <2>3, <3>1, <3>2
  <2>4. CASE ~ taken' /\ op[t] # "freeStream"
    <3>1. ~ taken /\ op[t] \in FreeAll /\ left[t] + 1 <= Cardinality(Entries)
      BY <2>1, <2>4
    <3>2. /\ Cardinality(Entries') \in Nat
          /\ Cardinality(Entries') + 1 >= Cardinality(Entries)
      BY <2>1, RemovedOne
    <3>3. left'[t] <= Cardinality(Entries')
      BY <2>1, <2>4, <3>1, <3>2, EntriesCount
    <3>4. \A u \in Threads \ {t} : ~ Holds(u)
      BY <2>1, <3>1
    <3>5. QED
      BY <2>1, <2>4, <3>3, <3>4
  <2>5. QED
    BY <2>2, <2>3, <2>4
<1>12. ASSUME NEW t \in Threads, BeginFreeStreams(t) PROVE CountInv'
  BY <1>12, <1>0 DEF BeginFreeStreams, Start, MayStart, history
<1>13. ASSUME NEW t \in Threads, Lock(t) PROVE CountInv'
  BY <1>13, <1>0 DEF Lock, Goto, history
<1>14. ASSUME NEW t \in Threads, CountStreams(t) PROVE CountInv'
  <2>1. /\ pc'[t] = "loop" /\ op' = op /\ left'[t] = Cardinality(Entries')
        /\ \A u \in Threads \ {t} : pc'[u] = pc[u]
    BY <1>14, <1>0 DEF CountStreams
  <2>2. \A u \in Threads \ {t} : ~ Holds(u)
    BY <1>14 DEF CountStreams
  <2>3. Cardinality(Entries') \in Nat
    BY <1>14, <1>0, EntriesCount DEF CountStreams
  <2>4. QED
    BY <2>1, <2>2, <2>3
<1>15. ASSUME NEW t \in Threads, TearCopy(t) PROVE CountInv'
  BY <1>15, <1>0 DEF TearCopy, Goto, history
<1>16. ASSUME NEW t \in Threads, NextStream(t) PROVE CountInv'
  <2>1. PICK s \in First :
          /\ pc[t] = "loop" /\ left[t] > 0
          /\ left' = [left EXCEPT ![t] = left[t] - 1]
          /\ arg' = [arg EXCEPT ![t] = s]
          /\ saved' = [saved EXCEPT ![t] = IF s = NoStream THEN Invalid ELSE handle[s]]
          /\ pc' = [pc EXCEPT ![t] = IF s = NoStream THEN "nullDeref" ELSE "once"]
    BY <1>16, NextStreamChanges
  <2>2. Entries' = Entries /\ op' = op /\ taken' = taken
    BY <1>16, <1>0 DEF NextStream, history
  <2>3. \A u \in Threads \ {t} : ~ Holds(u) /\ pc'[u] = pc[u] /\ left'[u] = left[u]
    BY <2>1
  <2>4. CASE taken
    BY <2>2, <2>4
  <2>5. CASE ~ taken
    <3>1. left[t] <= Cardinality(Entries) /\ left'[t] + 1 <= Cardinality(Entries)
      BY <2>1, <2>5, EntriesCount
    <3>2. Entries # {}
      BY <2>1, <3>1, EntriesCount
    <3>3. s # NoStream
      BY <3>2 DEF First, Entries
    <3>4. pc'[t] = "once"
      BY <2>1, <3>3
    <3>5. QED
      BY <2>2, <2>3, <3>1, <3>4
  <2>6. QED
    BY <2>4, <2>5
<1>17. ASSUME NEW t \in Threads, Unlock(t) PROVE CountInv'
  BY <1>17, <1>0 DEF Unlock, Goto, Return, history
<1>18. ASSUME NEW t \in Threads, FreeClient(t) PROVE CountInv'
  BY <1>18, <1>0 DEF FreeClient, Return, history
<1>19. ASSUME NEW s \in Streams, Destruct(s) PROVE CountInv'
  BY <1>19, <1>0 DEF Destruct, history
<1>20. CASE CreateProducer
  BY <1>20, <1>0 DEF CreateProducer, history
<1>21. CASE UNCHANGED vars
  BY <1>21, <1>0 DEF vars, history
<1>22. QED
  BY <1>1, <1>2, <1>3, <1>4, <1>5, <1>6, <1>7, <1>8, <1>9, <1>10, <1>11,
     <1>12, <1>13, <1>14, <1>15, <1>16, <1>17, <1>18, <1>19, <1>20, <1>21
  DEF Next, Begin, Step


\* CloseInv is inductive: beside the destructor only uses run, which leave
\* the map alone, and each of its iterations removes the entry it got.
LEMMA CloseInvStep ==
  ASSUME TypeOK, HandleInv, CallInv, ProgressInv, MapInv, CloseInv, [Next]_vars
  PROVE  CloseInv'
<1> USE DEF CloseInv, CallInv, TypeOK, Freeing, OnProducer
<1>0. active' = active => Entries' = Entries
  BY DEF Entries
<1>1. ASSUME NEW t \in Threads, BeginCreate(t) PROVE CloseInv'
  BY <1>1, <1>0 DEF BeginCreate, Start, MayStart, history
<1>2. ASSUME NEW t \in Threads, PicCreate(t) PROVE CloseInv'
  BY <1>2, <1>0 DEF PicCreate, Goto, history
<1>3. ASSUME NEW t \in Threads, PicCreateFails(t) PROVE CloseInv'
  BY <1>3, <1>0 DEF PicCreateFails, Return, history
<1>4. ASSUME NEW t \in Threads, MapPut(t) PROVE CloseInv'
  <2>1. \A u \in Threads : op'[u] # "destroy"
    BY <1>4 DEF MapPut, Return
  <2>2. QED
    BY <2>1
<1>5. ASSUME NEW t \in Threads, BeginUse(t) PROVE CloseInv'
  BY <1>5, <1>0 DEF BeginUse, Start, MayStart, history
<1>6. ASSUME NEW t \in Threads, PicCall(t) PROVE CloseInv'
  BY <1>6, <1>0 DEF PicCall, Return, history
<1>7. ASSUME NEW t \in Threads, BeginFreeStream(t) PROVE CloseInv'
  BY <1>7, <1>0 DEF BeginFreeStream, Start, MayStart, history
<1>8. ASSUME NEW t \in Threads, CallOnce(t) PROVE CloseInv'
  BY <1>8, <1>0 DEF CallOnce, Goto, history
<1>9. ASSUME NEW t \in Threads, CalledAlready(t) PROVE CloseInv'
  BY <1>9, <1>0 DEF CalledAlready, Goto, history
<1>10. ASSUME NEW t \in Threads, PicFreed(t) PROVE CloseInv'
  BY <1>10, <1>0 DEF PicFreed, Goto, history
<1>11. ASSUME NEW t \in Threads, MapRemove(t) PROVE CloseInv'
  <2>1. /\ pc[t] = "mapRemove"
        /\ Entries' = Entries \ {saved[t]}
        /\ op[t] = "freeStream" => pc'[t] = "idle" /\ op'[t] = "none"
        /\ op[t] # "freeStream" => pc'[t] = "loop" /\ op'[t] = op[t] /\ left'[t] = left[t]
        /\ \A u \in Threads \ {t} : op'[u] = op[u]
    BY <1>11, MapRemoveChanges
  <2>2. \A u \in Threads \ {t} : op'[u] # "destroy"
    BY <2>1 DEF FreeAll
  <2>3. CASE op[t] = "destroy"
    <3>1. saved[t] \in Entries /\ left[t] + 1 = Cardinality(Entries)
      BY <2>1, <2>3
    <3>2. Cardinality(Entries') + 1 = Cardinality(Entries) /\ Cardinality(Entries') \in Nat
      BY <2>1, <3>1, RemovedOne
    <3>3. left'[t] = Cardinality(Entries')
      BY <2>1, <2>3, <3>1, <3>2
    <3>4. QED
      BY <2>1, <2>2, <2>3, <3>3
  <2>4. CASE op[t] # "destroy"
    BY <2>1, <2>2, <2>4
  <2>5. QED
    BY <2>3, <2>4
<1>12. ASSUME NEW t \in Threads, BeginFreeStreams(t) PROVE CloseInv'
  BY <1>12, <1>0 DEF BeginFreeStreams, Start, MayStart, history
<1>13. ASSUME NEW t \in Threads, Lock(t) PROVE CloseInv'
  BY <1>13, <1>0 DEF Lock, Goto, history
<1>14. ASSUME NEW t \in Threads, CountStreams(t) PROVE CloseInv'
  BY <1>14, <1>0 DEF CountStreams, history
<1>15. ASSUME NEW t \in Threads, TearCopy(t) PROVE CloseInv'
  BY <1>15, <1>0 DEF TearCopy, Goto, history
<1>16. ASSUME NEW t \in Threads, NextStream(t) PROVE CloseInv'
  <2>1. PICK s \in First :
          /\ pc[t] = "loop" /\ left[t] > 0
          /\ left' = [left EXCEPT ![t] = left[t] - 1]
          /\ arg' = [arg EXCEPT ![t] = s]
          /\ saved' = [saved EXCEPT ![t] = IF s = NoStream THEN Invalid ELSE handle[s]]
          /\ pc' = [pc EXCEPT ![t] = IF s = NoStream THEN "nullDeref" ELSE "once"]
    BY <1>16, NextStreamChanges
  <2>2. Entries' = Entries /\ op' = op
    BY <1>16, <1>0 DEF NextStream
  <2>3. \A u \in Threads \ {t} : op'[u] # "destroy"
    BY <2>1, <2>2 DEF FreeAll
  <2>4. CASE op[t] = "destroy"
    <3>1. left[t] = Cardinality(Entries) /\ Entries # {}
      BY <2>1, <2>4, EntriesCount
    <3>2. PICK h \in Entries : s = active[h]
      BY <3>1 DEF First
    <3>3. s \in Streams /\ s # NoStream
      BY <3>2 DEF Entries
    <3>4. \A u \in Threads : pc[u] \notin Freeing
      BY <2>1, <2>4 DEF FreeAll
    <3>5. handle[s] = h
      BY <3>2, <3>4 DEF Entries, MapInv, EntryInv
    <3>6. pc'[t] = "once" /\ saved'[t] \in Entries' /\ left'[t] + 1 = Cardinality(Entries')
      BY <2>1, <2>2, <3>1, <3>2, <3>3, <3>5
    <3>7. QED
      BY <2>3, <3>6
  <2>5. CASE op[t] # "destroy"
    BY <2>2, <2>3, <2>5
  <2>6. QED
    BY <2>4, <2>5
<1>17. ASSUME NEW t \in Threads, Unlock(t) PROVE CloseInv'
  <2>1. Entries' = Entries /\ (left[t] = Cardinality(Entries) => Entries = {})
    BY <1>17, <1>0, EntriesCount DEF Unlock
  <2>2. QED
    BY <1>17, <2>1 DEF Unlock, Goto, Return
<1>18. ASSUME NEW t \in Threads, FreeClient(t) PROVE CloseInv'
  BY <1>18, <1>0 DEF FreeClient, Return, history
<1>19. ASSUME NEW s \in Streams, Destruct(s) PROVE CloseInv'
  BY <1>19, <1>0 DEF Destruct, history
<1>20. CASE CreateProducer
  BY <1>20, <1>0 DEF CreateProducer, history
<1>21. CASE UNCHANGED vars
  BY <1>21, <1>0 DEF vars, history
<1>22. QED
  BY <1>1, <1>2, <1>3, <1>4, <1>5, <1>6, <1>7, <1>8, <1>9, <1>10, <1>11,
     <1>12, <1>13, <1>14, <1>15, <1>16, <1>17, <1>18, <1>19, <1>20, <1>21
  DEF Next, Begin, Step


\* The invariant holds in every execution, however the calls overlap.
THEOREM RegistryInvariant == Spec => []RegistryInv
<1>1. Init => RegistryInv
  BY DEF Init, RegistryInv, HandleInv, OwnerInv, ObjectInv, ThreadInv, ActiveInv, CallInv,
         ProgressInv, MapInv, FreerInv, AimInv, PresentInv, EntryInv, CountInv, CloseInv,
         Holds, Freeing, FreeAll, OnProducer
<1>2. TypeOK /\ RegistryInv /\ [Next]_vars => RegistryInv'
  BY HandleInvStep, CallInvStep, ProgressInvStep, MapInvStep, CountInvStep, CloseInvStep
  DEF RegistryInv
<1>3. QED
  BY <1>1, <1>2, TypeCorrect, PTL DEF Spec

\* A frame, a stop or a reset in flight goes to the PIC stream of its own
\* object, unless that object is freed meanwhile, whatever else is in flight.
THEOREM UseOwnStream == Spec => []CallsReachOwnStream
<1>1. TypeOK /\ RegistryInv => CallsReachOwnStream
  BY DEF TypeOK, RegistryInv, HandleInv, OwnerInv, ProgressInv, CallsReachOwnStream
<1>2. QED
  BY <1>1, TypeCorrect, RegistryInvariant, PTL

\* The map of the producer has every live stream that did not come early, at
\* its handle, whatever calls overlap and whatever handle values PIC reuses,
\* and between calls it has no other entry.
THEOREM MapExact == Spec => []TrackedWhileLive
<1>1. TypeOK /\ RegistryInv => TrackedWhileLive
  BY DEF TypeOK, RegistryInv, HandleInv, ObjectInv, ActiveInv, MapInv, PresentInv, EntryInv,
         TrackedWhileLive, Quiescent, Freeing, Entries
<1>2. QED
  BY <1>1, TypeCorrect, RegistryInvariant, PTL

\* freeStreams asks the map for more streams than it has only when a
\* freeStream of the application removed one behind its back.
THEOREM FreeStreamsFindsEntries == Spec => []NoNullDeref
<1>1. RegistryInv => NoNullDeref
  BY DEF RegistryInv, CountInv, NoNullDeref
<1>2. QED
  BY <1>1, RegistryInvariant, PTL

------------------------------------------------------------------------------
(* The producer implements StreamRegistry. *)

Stray == early \cap LiveStreams
InFree == \E t \in Threads : pc[t] \in Freeing

\* The client is freed when only strays live: any other live stream is held,
\* for nobody creates or frees one then, and so still in the map, which the
\* destructor has emptied.
LEMMA StraysLiveAtFreeClient ==
  ASSUME TypeOK, RegistryInv, NEW t \in Threads, pc[t] = "freeClient"
  PROVE  LiveStreams \subseteq Stray /\ ~ InFree /\ client = "live"
<1> USE DEF RegistryInv
<1>1. Entries = {} /\ op[t] = "destroy" /\ client = "live"
  BY DEF CallInv, CloseInv, OnProducer
<1>2. \A u \in Threads : pc[u] \notin Freeing \cup {"picCreate", "mapPut"}
  <2>1. \A u \in Threads \ {t} : op[u] \notin OnProducer
    BY <1>1 DEF CallInv
  <2>2. QED
    BY <2>1 DEF CallInv, FreeAll, OnProducer, Freeing
<1>3. ASSUME NEW s \in Streams, NEW h \in Handles, owner[h] = s
      PROVE  s \in early
  <2>1. handle[s] = h /\ freeFlag[s] = "unset"
    BY <1>3 DEF HandleInv, OwnerInv
  <2>2. obj[s] = "held"
    BY <1>2, <2>1 DEF TypeOK, ProgressInv, HandleInv, ObjectInv
  <2>3. active[h] # s
    BY <1>1 DEF Entries
  <2>4. QED
    BY <2>1, <2>2, <2>3 DEF MapInv, PresentInv
<1>4. QED
  BY <1>1, <1>2, <1>3 DEF LiveStreams, Stray, InFree

\* A step that moves t within freeStream, or outside it, leaves the rest of
\* what the registry sees alone.
LEMMA SameFreeing ==
  ASSUME TypeOK, NEW t \in Threads,
         pc'[t] \in Freeing <=> pc[t] \in Freeing,
         \A u \in Threads \ {t} : pc'[u] = pc[u]
  PROVE  InFree' = InFree
BY DEF InFree

LEMMA SameStreams ==
  ASSUME UNCHANGED <<owner, early>>
  PROVE  UNCHANGED <<LiveStreams, Stray>>
BY DEF LiveStreams, Stray

\* PIC creates a stream: the registry's Create, of a stray when it came early.
LEMMA PicCreateIsCreate ==
  ASSUME TypeOK, RegistryInv, NEW t \in Threads, PicCreate(t)
  PROVE  arg[t] \in Streams /\ Registry!Create(arg[t])
<1>1. PICK h \in Handles :
        /\ owner[h] = NoStream
        /\ owner' = [owner EXCEPT ![h] = arg[t]]
        /\ early' = IF \E u \in Threads : pc[u] \in Freeing /\ saved[u] = h
                    THEN early \cup {arg[t]} ELSE early
  BY DEF PicCreate
<1>2. pc[t] = "picCreate" /\ arg[t] \in Streams /\ handle[arg[t]] = Invalid
  BY DEF PicCreate, RegistryInv, HandleInv, ThreadInv
<1>3. arg[t] \notin LiveStreams /\ arg[t] \notin early
  BY <1>2 DEF RegistryInv, HandleInv, OwnerInv, ProgressInv, LiveStreams
<1>4. LiveStreams' = LiveStreams \cup {arg[t]}
  BY <1>1, <1>2 DEF LiveStreams, TypeOK
<1>5. Stray' = Stray \/ (InFree /\ Stray' = Stray \cup {arg[t]})
  BY <1>1, <1>3, <1>4 DEF Stray, InFree
<1>6. client = "live" /\ client' = client
  BY <1>2 DEF PicCreate, RegistryInv, CallInv, OnProducer
<1>7. InFree' = InFree
  BY <1>2, SameFreeing DEF PicCreate, Goto, TypeOK, Freeing
<1>8. QED
  BY <1>2, <1>3, <1>4, <1>5, <1>6, <1>7 DEF Registry!Create, Stray, InFree

\* call_once frees the PIC stream: the registry's Free.
LEMMA CallOnceIsFree ==
  ASSUME TypeOK, RegistryInv, NEW t \in Threads, CallOnce(t)
  PROVE  arg[t] \in Streams /\ Registry!Free(arg[t])
<1> DEFINE s == arg[t]  h == handle[s]
<1>1. /\ pc[t] = "once" /\ freeFlag[s] = "unset" /\ client' = client /\ early' = early
      /\ owner' = [g \in Handles |-> IF g = h THEN NoStream ELSE owner[g]]
  BY DEF CallOnce, history
<1>2. s \in Streams /\ h \in Handles /\ owner[h] = s
  BY <1>1 DEF RegistryInv, HandleInv, OwnerInv, ObjectInv, ThreadInv
<1>3. \A g \in Handles : owner[g] = s => g = h
  BY <1>2 DEF RegistryInv, HandleInv, OwnerInv
<1>4. s \in LiveStreams /\ LiveStreams' = LiveStreams \ {s}
  BY <1>1, <1>2, <1>3 DEF LiveStreams
<1>5. Stray' = Stray \ {s}
  BY <1>1, <1>4 DEF Stray
<1>6. client = "live"
  BY <1>1 DEF RegistryInv, CallInv, Freeing, FreeAll, OnProducer
<1>7. InFree /\ InFree' = InFree
  <2>1. InFree
    BY <1>1 DEF InFree, Freeing
  <2>2. InFree' = InFree
    BY <1>1, SameFreeing DEF CallOnce, Goto, TypeOK, Freeing
  <2>3. QED
    BY <2>1, <2>2
<1>8. QED
  BY <1>1, <1>2, <1>4, <1>5, <1>6, <1>7 DEF Registry!Free, Stray, InFree

\* The last reference of a stream goes away: the registry's Free of a stray,
\* or nothing when freeStream has freed it.
LEMMA DestructIsFree ==
  ASSUME TypeOK, RegistryInv, NEW s \in Streams, Destruct(s)
  PROVE  \/ Registry!Free(s)
         \/ UNCHANGED <<LiveStreams, Stray, InFree, client>>
<1>1. /\ obj[s] = "held" /\ \A h \in Handles : active[h] # s
      /\ owner' = [h \in Handles |-> IF h = handle[s] /\ freeFlag[s] = "unset"
                                     THEN NoStream ELSE owner[h]]
      /\ early' = early \ {s} /\ UNCHANGED <<pc, client>>
  BY DEF Destruct
<1>2. InFree' = InFree
  BY <1>1 DEF InFree
<1>3. CASE freeFlag[s] = "unset"
  <2>1. handle[s] \in Handles /\ owner[handle[s]] = s
    BY <1>1, <1>3 DEF RegistryInv, HandleInv, OwnerInv, ObjectInv
  <2>2. s \in early
    BY <1>1, <1>3, <2>1 DEF RegistryInv, MapInv, PresentInv
  <2>3. \A g \in Handles : owner[g] = s => g = handle[s]
    BY DEF RegistryInv, HandleInv, OwnerInv
  <2>4. s \in LiveStreams /\ LiveStreams' = LiveStreams \ {s}
    BY <1>1, <1>3, <2>1, <2>3 DEF LiveStreams
  <2>5. s \in Stray /\ Stray' = Stray \ {s}
    BY <1>1, <2>2, <2>4 DEF Stray
  <2>6. QED
    BY <1>1, <1>2, <2>4, <2>5 DEF Registry!Free, Stray, InFree
<1>4. CASE freeFlag[s] # "unset"
  <2>1. owner' = owner
    BY <1>1, <1>4 DEF TypeOK
  <2>2. s \notin LiveStreams /\ LiveStreams' = LiveStreams
    BY <1>4, <2>1 DEF RegistryInv, HandleInv, OwnerInv, LiveStreams
  <2>3. Stray' = Stray
    BY <1>1, <2>2 DEF Stray
  <2>4. QED
    BY <1>1, <1>2, <2>2, <2>3
<1>5. QED
  BY <1>3, <1>4

\* A thread enters freeStream, or leaves it.
LEMMA EntersOrLeaves ==
  ASSUME TypeOK, RegistryInv, NEW t \in Threads,
         BeginFreeStream(t) \/ NextStream(t) \/ MapRemove(t)
  PROVE  \/ Registry!BeginFree \/ Registry!EndFree
         \/ UNCHANGED <<LiveStreams, Stray, InFree, client>>
<1>1. UNCHANGED <<owner, early, client>>
  BY DEF BeginFreeStream, NextStream, MapRemove, Take, history
<1>2. LiveStreams' = LiveStreams /\ Stray' = Stray
  BY <1>1, SameStreams
<1>3. client = "live"
  <2>1. BeginFreeStream(t) => client = "live"
    BY DEF BeginFreeStream
  <2>2. NextStream(t) \/ MapRemove(t) => op[t] \in OnProducer
    BY DEF NextStream, MapRemove, RegistryInv, CallInv, FreeAll, OnProducer, Freeing
  <2>3. QED
    BY <2>1, <2>2 DEF RegistryInv, CallInv
<1>4. InFree \in BOOLEAN /\ InFree' \in BOOLEAN
  BY DEF InFree
<1>5. QED
  BY <1>1, <1>2, <1>3, <1>4 DEF Registry!BeginFree, Registry!EndFree, Stray, InFree

\* The other steps of a thread that the registry does not see.
LEMMA UnseenStep ==
  ASSUME TypeOK, NEW t \in Threads,
         \/ BeginCreate(t) \/ BeginUse(t) \/ BeginFreeStreams(t)
         \/ PicCreateFails(t) \/ MapPut(t) \/ PicCall(t)
         \/ CalledAlready(t) \/ PicFreed(t)
         \/ Lock(t) \/ CountStreams(t) \/ TearCopy(t) \/ Unlock(t)
  PROVE  UNCHANGED <<LiveStreams, Stray, InFree, client>>
<1>1. UNCHANGED <<owner, early, client>>
  BY DEF BeginCreate, BeginUse, BeginFreeStreams, PicCreateFails, MapPut, PicCall, CalledAlready,
         PicFreed, Lock, CountStreams, TearCopy, Unlock, history
<1>2. LiveStreams' = LiveStreams /\ Stray' = Stray
  BY <1>1, SameStreams
<1>3. /\ pc'[t] \in Freeing <=> pc[t] \in Freeing
      /\ \A u \in Threads \ {t} : pc'[u] = pc[u]
  <2>1. CASE BeginCreate(t) \/ BeginUse(t) \/ BeginFreeStreams(t)
    BY <2>1 DEF BeginCreate, BeginUse, BeginFreeStreams, Start, MayStart, Freeing, TypeOK
  <2>2. CASE PicCreateFails(t) \/ MapPut(t) \/ PicCall(t)
    BY <2>2 DEF PicCreateFails, MapPut, PicCall, Return, Freeing, TypeOK
  <2>3. CASE CalledAlready(t) \/ PicFreed(t) \/ Lock(t) \/ TearCopy(t)
    BY <2>3 DEF CalledAlready, PicFreed, Lock, TearCopy, Goto, Freeing, TypeOK
  <2>4. CASE CountStreams(t) \/ Unlock(t)
    BY <2>4 DEF CountStreams, Unlock, Goto, Return, Freeing, TypeOK
  <2>5. QED
    BY <2>1, <2>2, <2>3, <2>4
<1>4. InFree' = InFree
  BY <1>3, SameFreeing
<1>5. QED
  BY <1>1, <1>2, <1>4

\* Every step of the producer is a step of the registry, or the registry does
\* not see it.
LEMMA RegistryStep ==
  ASSUME TypeOK, RegistryInv, [Next]_vars
  PROVE  [Registry!Next]_<<LiveStreams, Stray, InFree, client>>
<1>1. ASSUME NEW t \in Threads, FreeClient(t)
      PROVE  Registry!Close
  <2>1. LiveStreams \subseteq Stray /\ ~ InFree /\ client = "live"
    BY <1>1, StraysLiveAtFreeClient DEF FreeClient
  <2>2. LiveStreams' = LiveStreams /\ Stray' = Stray
    BY <1>1, SameStreams DEF FreeClient, history
  <2>3. pc[t] = "freeClient" /\ pc' = [pc EXCEPT ![t] = "idle"] /\ client' = "freed"
    BY <1>1 DEF FreeClient, Return
  <2>4. InFree' = InFree
    BY <2>3, SameFreeing DEF Freeing, TypeOK
  <2>5. QED
    BY <2>1, <2>2, <2>3, <2>4 DEF Registry!Close, Stray, InFree
<1>2. ASSUME CreateProducer
      PROVE  Registry!Open
  <2>1. LiveStreams = {}
    BY <1>2 DEF CreateProducer, LiveStreams, RegistryInv, HandleInv, OwnerInv, ObjectInv
  <2>2. LiveStreams' = LiveStreams /\ Stray' = Stray /\ InFree' = InFree
    BY <1>2, SameStreams DEF CreateProducer, InFree, history
  <2>3. QED
    BY <1>2, <2>1, <2>2 DEF CreateProducer, Registry!Open, Stray, InFree
<1>3. CASE UNCHANGED vars
  BY <1>3, SameStreams DEF vars, InFree, history
<1>4. QED
  BY <1>1, <1>2, <1>3, PicCreateIsCreate, CallOnceIsFree, DestructIsFree, EntersOrLeaves,
     UnseenStep
  DEF Next, Begin, Step, Registry!Next

\* A stream comes to life only by a create call while the client lives, ends
\* exactly once, and outlives the client only if it was created while another
\* one was being freed: the producer implements StreamRegistry, however the
\* calls of the application overlap.
THEOREM ImplementsRegistry == Spec => RegistrySpec
<1>1. Init => Registry!Init
  BY DEF Init, LiveStreams, Registry!Init, Freeing
<1>2. TypeOK /\ RegistryInv /\ [Next]_vars
        => [Registry!Next]_<<LiveStreams, early \cap LiveStreams,
                             \E t \in Threads : pc[t] \in Freeing, client>>
  BY RegistryStep DEF Stray, InFree
<1>3. QED
  BY <1>1, <1>2, TypeCorrect, RegistryInvariant, PTL DEF Spec, RegistrySpec, Registry!Spec
==============================================================================
