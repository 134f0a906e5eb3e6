------------------------ MODULE MCIntermittentSample ------------------------
(* Instances of IntermittentSample for TLC.                                  *)
EXTENDS IntermittentSample
=============================================================================
