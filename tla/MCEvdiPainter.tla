---------------------------- MODULE MCEvdiPainter ----------------------------
(* A framebuffer of three by two pixels and a smaller one of another format,
   whose pages evdi maps itself; one cursor of two by two and one of four by
   two.  Each workload lets the actors of one question act.                 *)
EXTENDS EvdiPainter

CONSTANTS big, small, arrow, wide, file1, file2

MCKind   == (big :> "native") @@ (small :> "amdgpu") @@ (arrow :> "native")
            @@ (wide :> "native")
MCSize   == (big :> [w |-> 3, h |-> 2]) @@ (small :> [w |-> 2, h |-> 1])
            @@ (arrow :> [w |-> 2, h |-> 2])
            @@ (wide :> [w |-> 4, h |-> 2])
MCFormat == (big :> "XRGB") @@ (small :> "XBGR")

Whole == {<<>>}
Parts == {<<Rect(0, 0, 1, 1), Rect(1, 0, 2, 1), Rect(2, 1, 3, 2)>>}

Idle == [commits |-> 0, cursors |-> 0, switches |-> 0, connects |-> 1, leaves |-> 0,
         enables |-> 0, events |-> FALSE, reads |-> 1, buffers |-> 0, messages |-> 0,
         faults |-> FALSE, files |-> {file1}, fbs |-> {big}, pictures |-> {arrow}, clips |-> Whole,
         modes |-> {FALSE}, limits |-> {2}]
Again == [Idle EXCEPT !.connects = 2, !.leaves = 1]

MCWorkloads ==
    {[Again EXCEPT !.commits = 2],                                      \* reconnecting
     [Again EXCEPT !.commits = 1, !.files = {file1, file2}],            \* two clients
     [Idle EXCEPT !.commits = 2, !.clips = Parts, !.limits = {1, 2}],   \* damage
     [Idle EXCEPT !.commits = 2, !.fbs = {big, small}, !.reads = 0],    \* resolutions
     [Idle EXCEPT !.commits = 1, !.cursors = 2, !.reads = 0,
                  !.pictures = {arrow, wide}],                    \* painted cursor
     [Idle EXCEPT !.cursors = 2, !.enables = 1, !.leaves = 1,
                  !.pictures = {arrow, None}],                          \* cursor pictures
     [Idle EXCEPT !.commits = 1, !.cursors = 2, !.events = TRUE],       \* cursor moves
     [Idle EXCEPT !.commits = 2, !.switches = 1],                       \* consoles
     [Idle EXCEPT !.commits = 2, !.fbs = {big, None}],                  \* power
     [Idle EXCEPT !.commits = 1, !.buffers = 1, !.modes = {TRUE}, !.faults = TRUE,
                  !.fbs = {small}],                                     \* failures
     [Idle EXCEPT !.commits = 1, !.buffers = 2, !.leaves = 1, !.reads = 0], \* buffers
     [Again EXCEPT !.messages = 2]}                                     \* DDC/CI

MCPositions == {<<-1, 0>>, <<1, 1>>}
==============================================================================
