---------------------- MODULE CallbackProvidersProofs ----------------------
(***************************************************************************)
(* What holds of the callback providers for any number of client threads,  *)
(* any events the client raises and any length of its life: callbacks find *)
(* what they point to, offered callbacks run, and nothing is left over.    *)
(***************************************************************************)
EXTENDS CallbackProviders, TLAPS

USE DEF NoCall

(* An application that is about to hand over its providers.                *)
LEMMA InitType == Init => TypeOK
<1> SUFFICES ASSUME Init PROVE TypeOK
  OBVIOUS
<1>1. call \in [Threads -> CallType]
  BY DEF Init, CallType
<1>2. raises \in 0..MaxRaises
  BY MaxRaisesAssumption DEF Init
<1>3. overrides \subseteq Raised
  BY DEF Init
<1>4. /\ offered \subseteq ClientEvents \cup StreamEvents \cup {OverFlowGetter}
      /\ kind \in {"default", "custom"}
  BY DEF Init
<1>5. alive \subseteq Objects
  BY DEF Init, Objects
<1> QED
  BY <1>1, <1>2, <1>3, <1>4, <1>5 DEF Init, TypeOK

(* The tables name events.                                                 *)
LEMMA TablesAreEvents ==
  ASSUME TypeOK
  PROVE  ChainTable \subseteq Events /\ BaseTable \subseteq Events
<1>1. ChainTable \subseteq Events
  BY DEF ChainTable, StreamTable, ProducerTable, AuthTable, Events, AuthEvents
<1>2. BaseTable \subseteq Events
  BY RaisedAssumption DEF TypeOK, BaseTable
<1> QED
  BY <1>1, <1>2

(* A step keeps the types.                                                 *)
LEMMA TypeStep ==
  ASSUME TypeOK, [Next]_vars
  PROVE  TypeOK'
<1> USE DEF TypeOK
<1>1. CASE ConstructProvider
  BY <1>1 DEF ConstructProvider, Objects, Tables
<1>2. CASE AddAuth \/ AddStream \/ AddProducer \/ SetPlatform \/ AddRetry
  BY <1>2 DEF AddAuth, AddStream, AddProducer, SetPlatform, AddRetry, AddTable,
              Tables
<1>3. CASE CreateProducer
  BY <1>3, TablesAreEvents DEF CreateProducer, Objects
<1>4. CASE ClientOpens \/ ClientFails \/ ClientFreed \/ DeleteProducer
  BY <1>4 DEF ClientOpens, ClientFails, ClientFreed, DeleteProducer
<1>5. CASE DestroyProvider
  BY <1>5 DEF DestroyProvider
<1>6. ASSUME NEW t \in Threads, Raise(t) PROVE TypeOK'
  <2>1. PICK e \in table \cap Raised :
          call' = [call EXCEPT ![t] = [at |-> "handler", event |-> e,
                                       data |-> CustomData(e), ran |-> FALSE]]
    BY <1>6 DEF Raise
  <2>2. [at |-> "handler", event |-> e, data |-> CustomData(e), ran |-> FALSE]
          \in CallType
    BY <2>1 DEF CallType, CustomData, Objects
  <2>3. call' \in [Threads -> CallType]
    BY <2>1, <2>2
  <2>4. raises' \in 0..MaxRaises
    BY <1>6, MaxRaisesAssumption DEF Raise
  <2> QED
    BY <1>6, <2>3, <2>4 DEF Raise
<1>7. ASSUME NEW t \in Threads, Callback(t) PROVE TypeOK'
  <2>1. call' \in [Threads -> CallType]
    <3>1. CASE Handle(t)
      <4>1. call[t] \in CallType
        OBVIOUS
      <4>2. /\ [call[t] EXCEPT !.at = "return"] \in CallType
            /\ [call[t] EXCEPT !.at = "application",
                               !.data = AppProvider(call[t].event)] \in CallType
        BY <4>1 DEF CallType, AppProvider, Objects
      <4> QED
        BY <3>1, <4>2 DEF Handle
    <3>2. CASE Answer(t) \/ AppReturns(t)
      BY <3>2 DEF Answer, AppReturns, CallType
    <3>3. CASE Returns(t)
      BY <3>3 DEF Returns, CallType
    <3> QED
      BY <1>7, <3>1, <3>2, <3>3 DEF Callback
  <2> QED
    BY <1>7, <2>1 DEF Callback, Handle, Answer, AppReturns, Returns
<1>8. CASE UNCHANGED vars
  BY <1>8 DEF vars
<1> QED
  BY <1>1, <1>2, <1>3, <1>4, <1>5, <1>6, <1>7, <1>8
     DEF Next, Application, Terminated

(* The variables keep their types.                                         *)
THEOREM TypeCorrect == Spec => []TypeOK
  BY InitType, TypeStep, PTL DEF Spec

----------------------------------------------------------------------------
(* What the application hands over, and what a client is created with.     *)
Handed == IF kind = "default"
            THEN {"credentials", "clientProvider", "streamProvider"}
            ELSE {"provider"}

Built ==
  /\ Handed \cup {"provider"} \subseteq alive
  /\ chain = IF kind = "default" THEN "live" ELSE "none"

Calling == client \in {"opening", "open", "closing"}

(* Who lives when: the provider is built before the client is made, and    *)
(* goes after the client is gone.                                          *)
LifeInv ==
  /\ pc = "providers" => client = "none" /\ chain = "none" /\ Handed \subseteq alive
  /\ pc \in Tables \cup {"create"} =>
       client = "none" /\ Built /\ kind = "default"
  /\ pc = "opening" => client = "opening" /\ Built
  /\ pc = "running" => client = "open" /\ Built
  /\ pc = "closing" => client = "closing" /\ Built
  /\ pc = "destroy" => client \in {"none", "freed"}
  /\ pc \in {"done", "failed"} =>
       client \in {"none", "freed"} /\ alive = {} /\ chain # "live"

(* A thread is in a callback only while there is a client, and follows the *)
(* pointer of a provider that was built for it.                            *)
CallInv ==
  \A t \in Threads : call[t] # NoCall =>
    /\ Calling
    /\ \/ call[t].data = CustomData(call[t].event)
       \/ kind = "default" /\ call[t].data = AppProvider(call[t].event)

(* Each step of the application moves who lives along with pc.             *)
LEMMA LifeStep ==
  ASSUME TypeOK, LifeInv, [Next]_vars
  PROVE  LifeInv'
<1> USE DEF TypeOK, LifeInv, Built, Handed, Tables
<1>1. CASE ConstructProvider
  BY <1>1 DEF ConstructProvider
<1>2. CASE AddAuth \/ AddStream \/ AddProducer \/ SetPlatform \/ AddRetry
  BY <1>2 DEF AddAuth, AddStream, AddProducer, SetPlatform, AddRetry, AddTable
<1>3. CASE CreateProducer
  BY <1>3 DEF CreateProducer
<1>4. CASE ClientOpens \/ ClientFails \/ ClientFreed \/ DeleteProducer
  BY <1>4 DEF ClientOpens, ClientFails, ClientFreed, DeleteProducer
<1>5. CASE DestroyProvider
  BY <1>5 DEF DestroyProvider
<1>6. ASSUME NEW t \in Threads, Raise(t) \/ Callback(t) PROVE LifeInv'
  BY <1>6 DEF Raise, Callback, Handle, Answer, AppReturns, Returns
<1>7. CASE UNCHANGED vars
  BY <1>7 DEF vars
<1> QED
  BY <1>1, <1>2, <1>3, <1>4, <1>5, <1>6, <1>7 DEF Next, Application, Terminated

(* Only Raise begins a callback, and a client ends only when it is quiet.  *)
LEMMA CallStep ==
  ASSUME TypeOK, LifeInv, CallInv, [Next]_vars
  PROVE  CallInv'
<1> USE DEF CallInv, Calling, CustomData
<1>1. CASE ConstructProvider
  BY <1>1 DEF ConstructProvider
<1>2. CASE AddAuth \/ AddStream \/ AddProducer \/ SetPlatform \/ AddRetry
  BY <1>2 DEF AddAuth, AddStream, AddProducer, SetPlatform, AddRetry, AddTable
<1>3. CASE CreateProducer
  BY <1>3 DEF CreateProducer
<1>4. CASE ClientOpens \/ DeleteProducer
  BY <1>4 DEF ClientOpens, DeleteProducer, LifeInv
<1>5. CASE ClientFails \/ ClientFreed
  BY <1>5 DEF ClientFails, ClientFreed, Quiet
<1>6. CASE DestroyProvider
  BY <1>6 DEF DestroyProvider
<1>7. ASSUME NEW t \in Threads, Raise(t) PROVE CallInv'
  <2>1. PICK e \in table \cap Raised :
          call' = [call EXCEPT ![t] = [at |-> "handler", event |-> e,
                                       data |-> CustomData(e), ran |-> FALSE]]
    BY <1>7 DEF Raise
  <2>2. UNCHANGED <<kind, client>> /\ Calling
    BY <1>7 DEF Raise
  <2>3. call \in [Threads -> CallType]
    BY DEF TypeOK
  <2>4. call'[t].data = CustomData(call'[t].event)
    BY <2>1, <2>3
  <2>5. \A u \in Threads \ {t} : call'[u] = call[u]
    BY <2>1, <2>3
  <2> QED
    BY <2>2, <2>4, <2>5
<1>8. ASSUME NEW t \in Threads, Callback(t) PROVE CallInv'
  <2>1. UNCHANGED <<kind, client>>
    BY <1>8 DEF Callback, Handle, Answer, AppReturns, Returns
  <2>2. call[t] # NoCall
    BY <1>8 DEF Callback, Handle, Answer, AppReturns, Returns
  <2>3. CASE Handle(t)
    BY <2>1, <2>2, <2>3 DEF Handle, TypeOK, CallType
  <2>4. CASE Answer(t) \/ AppReturns(t)
    <3>1. /\ call'[t].data = call[t].data
          /\ call'[t].event = call[t].event
      BY <2>4 DEF Answer, AppReturns, TypeOK, CallType
    <3>2. \A u \in Threads \ {t} : call'[u] = call[u]
      BY <2>4 DEF Answer, AppReturns, TypeOK
    <3> QED
      BY <2>1, <2>2, <3>1, <3>2
  <2>5. CASE Returns(t)
    BY <2>1, <2>5 DEF Returns, TypeOK
  <2> QED
    BY <1>8, <2>3, <2>4, <2>5 DEF Callback
<1>9. CASE UNCHANGED vars
  BY <1>9 DEF vars
<1> QED
  BY <1>1, <1>2, <1>3, <1>4, <1>5, <1>6, <1>7, <1>8, <1>9
     DEF Next, Application, Terminated

(* At first there is neither a client nor a callback.                      *)
LEMMA InitInv == Init => LifeInv /\ CallInv
  BY DEF Init, LifeInv, CallInv, Handed, Tables

(* The inductive invariant: who lives when, and what callbacks hold.       *)
THEOREM ProvidersSound == Spec => [](LifeInv /\ CallInv)
  BY InitInv, LifeStep, CallStep, TypeCorrect, PTL DEF Spec

(* Whatever a running callback reaches exists.                             *)
THEOREM PointersLive == Spec => []CallbacksReachLiveObjects
<1>1. TypeOK /\ LifeInv /\ CallInv => CallbacksReachLiveObjects
  <2> SUFFICES ASSUME TypeOK, LifeInv, CallInv,
                      NEW t \in Threads, call[t] # NoCall
               PROVE  /\ {call[t].data, CustomData(call[t].event)} \subseteq alive
                      /\ kind = "default" => chain = "live"
    BY DEF CallbacksReachLiveObjects
  <2>1. Built
    BY DEF TypeOK, LifeInv, CallInv, Calling, Tables
  <2>2. CustomData(call[t].event) \in alive
    BY <2>1 DEF Built, Handed, CustomData
  <2>3. kind = "default" => AppProvider(call[t].event) \in alive
    BY <2>1 DEF Built, Handed, AppProvider
  <2> QED
    BY <2>1, <2>2, <2>3 DEF CallInv, Built
<1> QED
  BY <1>1, TypeCorrect, ProvidersSound, PTL

(* However the producer ends, what was handed over is gone and no callback *)
(* is running.                                                             *)
THEOREM NothingLeft == Spec => []NothingLeftBehind
<1>1. LifeInv /\ CallInv => NothingLeftBehind
  BY DEF LifeInv, CallInv, Calling, NothingLeftBehind, Quiet
<1> QED
  BY <1>1, ProvidersSound, PTL
============================================================================
