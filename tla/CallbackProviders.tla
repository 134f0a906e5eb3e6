------------------------- MODULE CallbackProviders -------------------------
(***************************************************************************)
(* From the moment an application hands its providers to                   *)
(* KinesisVideoProducer::create until the producer is gone: how            *)
(* DefaultCallbackProvider chains its callback tables to the C client, how *)
(* CallbackProvider::getCallbacks builds the table of an application's own *)
(* provider, and how the threads of the client find their way through the  *)
(* static handlers to the functions the application offers.  Every object  *)
(* reached by a raw pointer is a member of "alive" while it exists, so a   *)
(* callback that outlives what it points to is visible.                    *)
(*                                                                         *)
(* External (modelled from its use in src/): the C client and its chain.   *)
(* The client calls back on its own threads from the time it is being      *)
(* created; creating it fails, and freeing it returns, only once no        *)
(* callback is running.                                                    *)
(***************************************************************************)
EXTENDS Integers, FiniteSets

CONSTANTS Threads,    \* threads of the C client that call back
          Raised,     \* the events the client raises, members of Events
          MaxRaises   \* bound: callbacks over the life of the client

(* What the client reports, by the provider that answers: the client level *)
(* callbacks, the stream level ones that report pressure and loss, the     *)
(* stream level ones that report the state of an upload, those of the      *)
(* credentials, and the two shutdown notices.                              *)
ClientEvents == {"clientReady", "storageOverflowPressure"}
PressureEvents == {"streamUnderflowReport", "streamLatencyPressure",
    "droppedFrameReport", "droppedFragmentReport", "streamConnectionStale",
    "bufferDurationOverflowPressure"}
UploadEvents == {"streamErrorReport", "streamReady", "streamClosed",
    "streamDataAvailable", "fragmentAckReceived"}
AuthEvents == {"getSecurityToken", "getDeviceCertificate",
    "getDeviceFingerprint", "getStreamingToken", "deviceCertToToken"}
ShutdownEvents == {"streamShutdown", "clientShutdown"}
StreamEvents == PressureEvents \cup UploadEvents
Events == ClientEvents \cup StreamEvents \cup AuthEvents \cup ShutdownEvents

(* StreamCallbackProvider has a second getter for the overflow of the      *)
(* buffer, the one KvsSinkStreamCallbackProvider overrides.                *)
OverFlowGetter == "bufferDurationOverFlow"

ASSUME RaisedAssumption == Raised \subseteq Events
ASSUME MaxRaisesAssumption == MaxRaises \in Nat

VARIABLES
  kind,       \* "default": a DefaultCallbackProvider over the application's
              \* providers; "custom": the application's own CallbackProvider
  overrides,  \* the getters the application's CallbackProvider overrides
  offered,    \* the getters its client and stream providers override
  pc,         \* where the application's thread is
  alive,      \* the objects that exist
  chain,      \* client_callbacks_: "none", "live" or "freed"
  chained,    \* the tables added to the chain
  table,      \* the events the client has a function for
  client,     \* the C client: "none", "opening", "open", "closing", "freed"
  call,       \* what each thread of the client is in
  raises      \* callbacks so far

vars == <<kind, overrides, offered, pc, alive, chain, chained, table, client,
          call, raises>>

Objects == {"credentials", "clientProvider", "streamProvider", "provider",
            "producer"}
Tables == {"auth", "stream", "producer", "platform", "retry"}
NoCall == [at |-> "idle", event |-> "none", data |-> "none", ran |-> FALSE]

(* The application's providers that answer an event, and the object whose  *)
(* pointer the client was given for it.                                    *)
AppProvider(e) == IF e \in ClientEvents THEN "clientProvider"
                                        ELSE "streamProvider"
CustomData(e) == IF kind = "default" /\ e \in AuthEvents THEN "credentials"
                                                         ELSE "provider"

Init ==
  /\ kind \in {"default", "custom"}
  /\ overrides \in SUBSET Raised
  /\ offered \in SUBSET
       (((ClientEvents \cup StreamEvents) \cap Raised) \cup {OverFlowGetter})
  /\ kind = "custom" => offered = {}
  /\ pc = "providers"
  /\ alive = IF kind = "default"
               THEN {"credentials", "clientProvider", "streamProvider"}
               ELSE {"provider"}
  /\ chain = "none" /\ chained = {} /\ table = {} /\ client = "none"
  /\ call = [t \in Threads |-> NoCall]
  /\ raises = 0

----------------------------------------------------------------------------
(* Construction of the DefaultCallbackProvider.  Its tables name its own   *)
(* static handlers: the getters are called in the constructor, so those of *)
(* a class derived from it are not.                                        *)
StreamTable == StreamEvents
ProducerTable == ClientEvents
AuthTable == {"getSecurityToken", "getStreamingToken"}

ChainTable ==
  (IF "stream" \in chained THEN StreamTable ELSE {})
    \cup (IF "producer" \in chained THEN ProducerTable ELSE {})
    \cup (IF "auth" \in chained THEN AuthTable ELSE {})

(* The table of an application's own provider: whatever getter it          *)
(* overrides, except the two CallbackProvider::getCallbacks leaves out.    *)
BaseTable == overrides \ ShutdownEvents

(* The three tables are filled and the chain is created, or the            *)
(* constructor throws and the members built so far are destroyed.          *)
ConstructProvider ==
  /\ pc = "providers" /\ kind = "default"
  /\ \/ /\ chain' = "live"
        /\ alive' = alive \cup {"provider"}
        /\ pc' = "auth"
     \/ /\ alive' = {}
        /\ pc' = "failed"
        /\ UNCHANGED chain
  /\ UNCHANGED <<kind, overrides, offered, chained, table, client, call,
                 raises>>

(* CredentialProvider::getCallbacks adds the table of the credentials, the *)
(* constructor the other ones; no status is looked at.                     *)
AddTable(at, name, next) ==
  /\ pc = at
  /\ chained' = chained \cup {name}
  /\ pc' = next
  /\ UNCHANGED <<kind, overrides, offered, alive, chain, table, client, call,
                 raises>>

AddAuth == AddTable("auth", "auth", "stream")
AddStream == AddTable("stream", "stream", "producer")
AddProducer == AddTable("producer", "producer", "platform")
SetPlatform == AddTable("platform", "platform", "retry")
AddRetry == AddTable("retry", "retry", "create")

----------------------------------------------------------------------------
(* create and createSync: the empty producer first, then the callbacks,    *)
(* copied by value, then the client.                                       *)
CreateProducer ==
  /\ \/ pc = "create" /\ kind = "default"
     \/ pc = "providers" /\ kind = "custom"
  /\ alive' = alive \cup {"producer"}
  /\ table' = IF kind = "default" THEN ChainTable ELSE BaseTable
  /\ client' = "opening"
  /\ pc' = "opening"
  /\ UNCHANGED <<kind, overrides, offered, chain, chained, call, raises>>

Quiet == \A t \in Threads : call[t] = NoCall

(* The handle and the provider become the producer's.                      *)
ClientOpens ==
  /\ pc = "opening"
  /\ client' = "open"
  /\ pc' = "running"
  /\ UNCHANGED <<kind, overrides, offered, alive, chain, chained, table, call,
                 raises>>

(* Deviation: the producer owned the provider before the call.             *)
ClientFailsReleased ==
  /\ pc = "opening" /\ Quiet
  /\ client' = "none"
  /\ alive' = alive \ {"producer"}
  /\ pc' = "failed"
  /\ UNCHANGED <<kind, overrides, offered, chain, chained, table, call,
                 raises>>

(* The exception destroys the producer, which has no client and no stream  *)
(* to free, and then the provider, still a parameter of create.            *)
ClientFails ==
  /\ pc = "opening" /\ Quiet
  /\ client' = "none"
  /\ alive' = alive \ {"producer"}
  /\ pc' = "destroy"
  /\ UNCHANGED <<kind, overrides, offered, chain, chained, table, call,
                 raises>>

(* Deviation: the members go before the client is freed.                   *)
DeleteMembersFirst ==
  /\ pc = "running"
  /\ client' = "closing"
  /\ alive' = {}
  /\ pc' = "closing"
  /\ UNCHANGED <<kind, overrides, offered, chain, chained, table, call,
                 raises>>

(* ~KinesisVideoProducer: the streams (ProducerStreams), shutdown, which   *)
(* CallbackProvider leaves empty, and the client.                          *)
DeleteProducer ==
  /\ pc = "running"
  /\ client' = "closing"
  /\ pc' = "closing"
  /\ UNCHANGED <<kind, overrides, offered, alive, chain, chained, table, call,
                 raises>>

ClientFreed ==
  /\ pc = "closing" /\ Quiet
  /\ client' = "freed"
  /\ pc' = "destroy"
  /\ UNCHANGED <<kind, overrides, offered, alive, chain, chained, table, call,
                 raises>>

(* The members of the producer, its callback_provider_ among them: the     *)
(* destructor of the provider frees the chain, its members follow.         *)
DestroyProvider ==
  /\ pc = "destroy"
  /\ chain' = IF chain = "live" THEN "freed" ELSE chain
  /\ alive' = {}
  /\ pc' = IF client = "freed" THEN "done" ELSE "failed"
  /\ UNCHANGED <<kind, overrides, offered, chained, table, client, call,
                 raises>>

----------------------------------------------------------------------------
(* A thread of the client reports an event it has a function for.          *)
Raise(t) == \E e \in table \cap Raised :
  /\ client \in {"opening", "open", "closing"}
  /\ call[t] = NoCall /\ raises < MaxRaises
  /\ raises' = raises + 1
  /\ call' = [call EXCEPT ![t] =
       [at |-> "handler", event |-> e, data |-> CustomData(e), ran |-> FALSE]]
  /\ UNCHANGED <<kind, overrides, offered, pc, alive, chain, chained, table,
                 client>>

(* What a getter of the application's provider returns.                    *)
HasCallback(e) == e \in offered

(* Deviation: a handler that knows no missing function never comes back.   *)
HandleOffered(t) ==
  /\ call[t].at = "handler" /\ kind = "default"
  /\ call[t].event \in offered
  /\ call' = [call EXCEPT ![t].at = "application",
                         ![t].data = AppProvider(call[t].event)]
  /\ UNCHANGED <<kind, overrides, offered, pc, alive, chain, chained, table,
                 client, raises>>

(* The static handler asks the application's provider for its function and *)
(* calls it with that provider's custom data; it is done when there is     *)
(* none.                                                                   *)
Handle(t) ==
  /\ call[t].at = "handler" /\ kind = "default"
  /\ call[t].event \notin AuthEvents
  /\ LET c == call[t] IN
       call' = [call EXCEPT ![t] =
         IF HasCallback(c.event)
           THEN [c EXCEPT !.at = "application", !.data = AppProvider(c.event)]
           ELSE [c EXCEPT !.at = "return"]]
  /\ UNCHANGED <<kind, overrides, offered, pc, alive, chain, chained, table,
                 client, raises>>

(* A function of the credentials, or of the application's own provider, is *)
(* in the table itself.                                                    *)
Answer(t) ==
  /\ call[t].at = "handler"
  /\ kind = "custom" \/ call[t].event \in AuthEvents
  /\ call' = [call EXCEPT ![t].at = "return", ![t].ran = TRUE]
  /\ UNCHANGED <<kind, overrides, offered, pc, alive, chain, chained, table,
                 client, raises>>

AppReturns(t) ==
  /\ call[t].at = "application"
  /\ call' = [call EXCEPT ![t].at = "return", ![t].ran = TRUE]
  /\ UNCHANGED <<kind, overrides, offered, pc, alive, chain, chained, table,
                 client, raises>>

Returns(t) ==
  /\ call[t].at = "return"
  /\ call' = [call EXCEPT ![t] = NoCall]
  /\ UNCHANGED <<kind, overrides, offered, pc, alive, chain, chained, table,
                 client, raises>>

----------------------------------------------------------------------------
Application ==
  \/ ConstructProvider \/ AddAuth \/ AddStream \/ AddProducer \/ SetPlatform
  \/ AddRetry \/ CreateProducer \/ ClientOpens \/ ClientFails
  \/ ClientFreed \/ DestroyProvider

Callback(t) == Handle(t) \/ Answer(t) \/ AppReturns(t) \/ Returns(t)

Terminated == pc \in {"done", "failed"} /\ UNCHANGED vars

Next ==
  \/ Application \/ DeleteProducer
  \/ \E t \in Threads : Raise(t) \/ Callback(t)
  \/ Terminated

(* The application's thread goes on; it need not ever delete the producer. *)
(* A callback that has begun goes on, the application's functions return.  *)
Fairness == WF_vars(Application) /\ \A t \in Threads : WF_vars(Callback(t))

Spec == Init /\ [][Next]_vars /\ Fairness

----------------------------------------------------------------------------
CallType ==
  [at : {"idle", "handler", "application", "return"},
   event : Raised \cup {"none"}, data : Objects \cup {"none"}, ran : BOOLEAN]

(* Types.                                                                  *)
TypeOK ==
  /\ kind \in {"default", "custom"}
  /\ overrides \subseteq Raised
  /\ offered \subseteq ClientEvents \cup StreamEvents \cup {OverFlowGetter}
  /\ pc \in {"providers", "create", "opening", "running", "closing",
             "destroy", "done", "failed"} \cup Tables
  /\ alive \subseteq Objects
  /\ chain \in {"none", "live", "freed"}
  /\ chained \subseteq Tables
  /\ table \subseteq Events
  /\ client \in {"none", "opening", "open", "closing", "freed"}
  /\ call \in [Threads -> CallType]
  /\ raises \in 0..MaxRaises

(* Whatever a running callback reaches still exists: the object behind its *)
(* raw pointer, the provider it was dispatched by, and the chain that      *)
(* dispatched it -- while the client is created (the provider is still a   *)
(* parameter of create), open, and being freed under the callback's feet.  *)
CallbacksReachLiveObjects ==
  \A t \in Threads : call[t] # NoCall =>
    /\ {call[t].data, CustomData(call[t].event)} \subseteq alive
    /\ kind = "default" => chain = "live"

(* However creation ends, and when the producer is deleted, nothing of     *)
(* what the application handed over is left and the chain is not leaked.   *)
NothingLeftBehind ==
  pc \in {"done", "failed"} =>
    /\ alive = {} /\ chain # "live" /\ Quiet
    /\ client \in {"none", "freed"}

(* Deleting the producer ends: the client waits for its callbacks, and     *)
(* each of them comes back.                                                *)
DeleteEnds == pc = "closing" ~> pc = "done"

----------------------------------------------------------------------------
(* What a comment of the code says and some executions contradict.         *)

(* The event an override of a getter is meant to report.                   *)
Reported(getter) ==
  IF getter = OverFlowGetter THEN "bufferDurationOverflowPressure" ELSE getter

(* "Default implementations that return nullptr, which will therefore use  *)
(* the defaults" (StreamCallbackProvider): only what the application does  *)
(* not override is left to the defaults.  Whatever callback it does offer  *)
(* has been run when the client has reported its event.                    *)
OfferedCallbacksRun ==
  kind = "default" =>
    \A t \in Threads, g \in offered :
      call[t].at = "return" /\ call[t].event = Reported(g) => call[t].ran
============================================================================
