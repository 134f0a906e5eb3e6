-------------------------- MODULE MCKvsSinkSample --------------------------
(* Instances of KvsSinkSample for TLC.                                     *)
EXTENDS KvsSinkSample
============================================================================
