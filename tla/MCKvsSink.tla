------------------------------ MODULE MCKvsSink ------------------------------
(* Instances of KvsSink for TLC.                                             *)
EXTENDS KvsSink
==============================================================================
