---------------------------- MODULE MCType7Sender ----------------------------
(* Instances of the frame sender with the addresses and sizes of the 58 MB
   device; the screen is a row of three cells.                             *)
EXTENDS Type7Sender, FiniteSets

MCLayout == two_port_1080p_secondary(58, 1048576)

MCSlotBases == [i \in 0..2 |-> <<38798336, 43341504, 47884672>>[i + 1]]

MCCmdRing == <<52428800, 59768832>>       \* the default 0x03200000 .. 0x03900000
MCShortRing == <<52428800, 55574528>>     \* 3 MB, so that a lap is a few packets

Paired == [transport |-> "jpeg-type7", unsafe_generated_type7 |-> TRUE,
           type7_setup_mode |-> "paired-type4-type7", type7_setup_only |-> FALSE,
           legacy_ring |-> FALSE, drop_late_frames |-> TRUE,
           type7_refresh_frames |-> 0, type7_max_tile |-> 4]

(* The command lines: paired setups, setups only, setups with a refresh on the
   legacy ring, plain JPEG and raw NV12.                                   *)
MCOptions ==
    {Paired,
     [Paired EXCEPT !.type7_setup_only = TRUE],
     [Paired EXCEPT !.type7_setup_mode = "synthetic-type4", !.legacy_ring = TRUE,
                    !.type7_refresh_frames = 3, !.type7_max_tile = 3],
     [Paired EXCEPT !.transport = "jpeg"],
     [Paired EXCEPT !.transport = "nv12"]}

Interval(a, b) == {c \in Cells : a <= c /\ c <= b}
Hull(S) == {c \in Cells : \E a, b \in S : a <= c /\ c <= b}

MCFrames == {Interval(a, b) : a, b \in Cells}
MCTile(S) == Hull(S)
MCFullish(S) == S = Cells
MCFallsBack(o, S) == Cardinality(S) >= o.type7_max_tile
MCFullLens == [t \in Transports |->
                  CASE t = "jpeg"       -> {600000, 1500000, 2500000}
                    [] t = "jpeg-type7" -> {900000}
                    [] t = "nv12"       -> {3110400}      \* 1920 * 1080 * 3 / 2
                    [] t = "rgb24"      -> {6220800}]     \* 1920 * 1080 * 3

(* The instance is one of those the theorems are about.                    *)
ASSUME MCInstance == Type7Options /\ RingsApart /\ PacketsFit

=============================================================================
