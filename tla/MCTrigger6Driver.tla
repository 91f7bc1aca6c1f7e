-------------------------- MODULE MCTrigger6Driver --------------------------
(* Four modes of a display: two of the same resolution, listed twice by the
   device, one listed once, and one it does not list.                       *)
EXTENDS Trigger6Driver

CONSTANTS wide, wide_reduced, small, unlisted

MCResolution == [m \in {wide, wide_reduced, small, unlisted} |->
                    CASE m \in {wide, wide_reduced} -> <<1920, 1080, 60>>
                      [] m = small                  -> <<1280, 720, 60>>
                      [] m = unlisted               -> <<1600, 900, 60>>]

MCTable == <<<<0, 0, 0>>, <<1920, 1080, 60>>, <<1280, 720, 60>>, <<1920, 1080, 60>>>>

=============================================================================
