--------------------------- MODULE MCSyncPipeline ---------------------------
(* Four frames at an interval of two ticks, on a clock long enough for a send
   of more than eight intervals, and qualities far enough apart for a fall of
   15 not to reach the lower end at once.                                   *)
EXTENDS SyncPipeline

(* No number of frames, none at all, and fewer than are captured.           *)
AnyLimit == {Unlimited, 0, 2}

=============================================================================
