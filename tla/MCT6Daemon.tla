------------------------------ MODULE MCT6Daemon ------------------------------
(* Two displays and three cards; the high mark of the queue is one frame.   *)
EXTENDS T6Daemon

Rest == [forks |-> 1, exits |-> 0, errors |-> 0, interrupts |-> 0, plugs |-> 0, modes |-> 0,
         faults |-> FALSE, rotate |-> FALSE, plugged |-> {0}]

MCWorkloads ==
    {[Rest EXCEPT !.modes = 3],                                                 \* modes
     [Rest EXCEPT !.modes = 2, !.errors = 1, !.exits = 1],                      \* errors
     [Rest EXCEPT !.modes = 2, !.interrupts = 1],                               \* select
     [Rest EXCEPT !.modes = 1, !.plugs = 1, !.plugged = {0, 1}],                \* detach
     [Rest EXCEPT !.modes = 2, !.faults = TRUE, !.rotate = TRUE],               \* failures
     [Rest EXCEPT !.modes = 1, !.forks = 2, !.plugs = 1]}                       \* again

HotplugWorkloads == {[Rest EXCEPT !.plugs = 2]}
==============================================================================
