--------------------------- MODULE MCKvsSinkTracks ---------------------------
(* Instances of KvsSinkTracks for TLC.  Pads and blocks are interchangeable. *)
EXTENDS KvsSinkTracks, TLC

Symm == Permutations(Pads) \cup Permutations(Blocks)
==============================================================================
