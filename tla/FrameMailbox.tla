----------------------------- MODULE FrameMailbox -----------------------------
(***************************************************************************)
(* What the asynchronous pipeline promises: a mailbox for one frame.       *)
(* Frames are numbered as the capture delivers them.  A frame may be left  *)
(* out, but what comes out came in, later than all that came out before.   *)
(***************************************************************************)
EXTENDS Naturals

VARIABLES
    newest,     \* number of the last frame captured
    pending,    \* number of the frame in the mailbox, 0 if it is empty
    taken       \* number of the last frame taken out

vars == <<newest, pending, taken>>

Init == newest = 0 /\ pending = 0 /\ taken = 0

Capture ==
    /\ newest' = newest + 1
    /\ UNCHANGED <<pending, taken>>

(* Only the newest frame is put in, and only once. *)
Put ==
    /\ pending = 0 /\ taken < newest
    /\ pending' = newest
    /\ UNCHANGED <<newest, taken>>

Take ==
    /\ pending # 0
    /\ taken' = pending
    /\ pending' = 0
    /\ UNCHANGED newest

Next == Capture \/ Put \/ Take

Spec == Init /\ [][Next]_vars

===============================================================================
