---------------------------- MODULE MCDisplayAcks ----------------------------
(* Two runs of two frames.  The first recorded payload ends on a grid line,
   the picture before one; the recorded numbers are those of a fresh run.   *)
EXTENDS DisplayAcks

MCRecords == <<[sequence |-> 1, dest |-> 0, len |-> 16], [sequence |-> 2, dest |-> 32, len |-> 17]>>

ASSUME MCInstance == NumbersSuffice /\ RecordsApart

=============================================================================
