--------------------------- MODULE MCProducerStreams ---------------------------
(* ProducerStreams under any calls that the application makes at the same time; *)
(* threads, streams and handle values are interchangeable.                     *)
EXTENDS ProducerStreams, TLC

Symmetric ==
  Permutations(Threads) \cup Permutations(Streams) \cup Permutations(Handles)
==============================================================================
