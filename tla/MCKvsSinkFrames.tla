--------------------------- MODULE MCKvsSinkFrames ---------------------------
(* Instances of KvsSinkFrames for TLC.                                       *)
EXTENDS KvsSinkFrames
==============================================================================
