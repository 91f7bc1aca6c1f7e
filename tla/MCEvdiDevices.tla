---------------------------- MODULE MCEvdiDevices ----------------------------
(* A table of two devices; each scenario lets two processes do one thing.   *)
EXTENDS EvdiDevices

CONSTANTS usb1, usb2, p, q, h1, h2, h3

Rest == [adds |-> 0, removes |-> 0, opens |-> 0, numbers |-> 0, closes |-> 0, connects |-> 0,
         unplugs |-> 0, servers |-> 0, counts |-> {1}, usbs |-> {}, faults |-> FALSE]

MCScenarios ==
    {[Rest EXCEPT !.adds = 3, !.removes = 1, !.counts = {0, 1, 2}],            \* the count
     [Rest EXCEPT !.adds = 3, !.unplugs = 2, !.usbs = {usb1, usb2}],           \* parents
     [Rest EXCEPT !.adds = 2, !.removes = 1, !.unplugs = 1, !.usbs = {usb1},
                  !.faults = TRUE],                                            \* failures
     [Rest EXCEPT !.opens = 3, !.closes = 2, !.removes = 1],                   \* handles
     [Rest EXCEPT !.opens = 2, !.connects = 2, !.closes = 1, !.unplugs = 1,
                  !.usbs = {usb1}],                                            \* for a parent
     [Rest EXCEPT !.opens = 2, !.numbers = 1, !.closes = 1, !.faults = TRUE],  \* by number
     [Rest EXCEPT !.opens = 2, !.removes = 1, !.closes = 1, !.servers = 2, !.faults = TRUE]}   \* a master
==============================================================================
