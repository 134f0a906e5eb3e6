---------------------------- MODULE MCFileUpload ----------------------------
(* Instances of FileUpload for TLC.                                          *)
EXTENDS FileUpload

S(pts, key, drop) == [pts |-> pts, key |-> key, drop |-> drop]

\* Two files: one whose second fragment has two frames, one with a droppable frame.
TwoFiles == << <<S(0, TRUE, FALSE), S(3, TRUE, FALSE), S(6, FALSE, FALSE)>>,
               <<S(0, TRUE, FALSE), S(3, FALSE, TRUE)>> >>
Live == <<S(5, TRUE, FALSE), S(8, FALSE, FALSE)>>

\* The theorems about FileUpload speak of files like these.
ASSUME InputsWellFormed == WellFormed /\ ClosedFragments
=============================================================================
