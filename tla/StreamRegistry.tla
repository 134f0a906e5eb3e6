---------------------------- MODULE StreamRegistry ----------------------------
(***************************************************************************)
(* What KinesisVideoProducer does about streams, without handles, maps,    *)
(* once flags, locks or threads: a stream comes to life by a create call   *)
(* while the client lives, ends exactly once, and none outlives the client *)
(* except a stray, a stream created while another one was being freed.     *)
(***************************************************************************)
CONSTANT Streams

VARIABLES live,    \* the streams that exist in PIC
          stray,   \* those of them that the producer may have lost
          freeing, \* some call is freeing a stream
          client   \* "live" or "freed"

Init == live = {} /\ stray = {} /\ freeing = FALSE /\ client = "live"

Create(s) ==
  /\ client = "live" /\ s \notin live
  /\ live' = live \cup {s}
  /\ stray' = stray \/ (freeing /\ stray' = stray \cup {s})
  /\ UNCHANGED <<freeing, client>>

\* By a call while the client lives, or, of a stray, when the application
\* drops it.
Free(s) ==
  /\ s \in live
  /\ (client = "live" /\ freeing) \/ s \in stray
  /\ live' = live \ {s}
  /\ stray' = stray \ {s}
  /\ UNCHANGED <<freeing, client>>

BeginFree ==
  /\ client = "live" /\ ~ freeing
  /\ freeing' = TRUE
  /\ UNCHANGED <<live, stray, client>>

EndFree ==
  /\ freeing
  /\ freeing' = FALSE
  /\ UNCHANGED <<live, stray, client>>

\* The destructor of the producer.
Close ==
  /\ client = "live" /\ ~ freeing /\ live \subseteq stray
  /\ client' = "freed"
  /\ UNCHANGED <<live, stray, freeing>>

\* The application makes another producer once all streams are gone.
Open ==
  /\ client = "freed" /\ live = {}
  /\ client' = "live"
  /\ UNCHANGED <<live, stray, freeing>>

Next ==
  \/ BeginFree \/ EndFree \/ Close \/ Open
  \/ \E s \in Streams : Create(s) \/ Free(s)

Spec == Init /\ [][Next]_<<live, stray, freeing, client>>
==============================================================================
