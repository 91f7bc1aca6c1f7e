---------------------------- MODULE DirtyUpdates ----------------------------
(***************************************************************************)
(* Where the change of a frame comes from: the capture framework reports   *)
(* rectangles whose corners need not lie on pixels, t6_vd_get_dirty_summary *)
(* (macos_virtual_display.m) makes one box of whole pixels of them, and    *)
(* send_frame turns that into a tile.  The module closes the specification *)
(* of the pictures: a frame is an update of the capture framework.         *)
(*                                                                         *)
(* A rectangle is half open and in parts of a pixel.  The list of up to 32 *)
(* rectangles and the area, which only the profile uses, are left out.     *)
(***************************************************************************)
EXTENDS Mode6Packets, FiniteSetsExt

CONSTANTS
    Parts,          \* of a pixel
    Updates         \* what the framework may report: sets of rectangles

ASSUME UpdatesAssumption ==
    /\ Parts \in Nat \ {0}
    /\ \A u \in Updates : u \subseteq [x1 : Int, y1 : Int, x2 : Int, y2 : Int]

VARIABLE update     \* that of the last frame

-----------------------------------------------------------------------------
(* CGRectIntersection with the surface, and CGRectIsEmpty of the result.    *)
OnSurface(r) == [x1 |-> Greatest(r.x1, 0), y1 |-> Greatest(r.y1, 0),
                 x2 |-> Least(r.x2, Width * Parts), y2 |-> Least(r.y2, Height * Parts)]
Visible(u) == {r \in {OnSurface(q) : q \in u} : r.x1 < r.x2 /\ r.y1 < r.y2}

Floor(v) == v \div Parts
Ceil(v)  == (v + Parts - 1) \div Parts

(* The box from a to b, on both axes.                                       *)
Around(x, y, max_x, max_y) == [x |-> x, y |-> y, w |-> max_x - x, h |-> max_y - y]

(* A mutant: the far corner is that of one rectangle, not of all.           *)
FarCornerOfOne(u) ==
    IF Visible(u) = {} THEN None
    ELSE Around(Floor(Min({r.x1 : r \in Visible(u)})), Floor(Min({r.y1 : r \in Visible(u)})),
                Ceil(Min({r.x2 : r \in Visible(u)})), Ceil(Min({r.y2 : r \in Visible(u)})))

t6_vd_get_dirty_summary(u) ==
    IF Visible(u) = {} THEN None
    ELSE Around(Floor(Min({r.x1 : r \in Visible(u)})), Floor(Min({r.y1 : r \in Visible(u)})),
                Ceil(Max({r.x2 : r \in Visible(u)})), Ceil(Max({r.y2 : r \in Visible(u)})))

-----------------------------------------------------------------------------
UpdateInit == PictureInit /\ update = {}

(* The block t6_vd_start hands to the framework: the summary of the update
   goes with the frame to the callback, and from there to send_frame.  Nothing
   looks at the update of a frame that is sent raw or refused.              *)
JpegFrame(u) == update' = u /\ SendJpeg(t6_vd_get_dirty_summary(u))
RawFrame     == SendRaw /\ UNCHANGED update
RefusedFrame == Refuse /\ UNCHANGED update

UpdateNext == (\E u \in Updates : JpegFrame(u)) \/ RawFrame \/ RefusedFrame

UpdateSpec == UpdateInit /\ [][UpdateNext]_<<pictureVars, update>>

-----------------------------------------------------------------------------
(* A rectangle touches a pixel.                                             *)
Touches(r, px, py) == /\ r.x1 < (px + 1) * Parts /\ px * Parts < r.x2
                      /\ r.y1 < (py + 1) * Parts /\ py * Parts < r.y2

(* Every pixel a reported rectangle touches, be it with a fraction, reaches the
   display: if the frame is sent as a tile the pixel is in it, and the tile
   lands where the setup has put the picture.                               *)
UpdateLandsOnThePicture ==
    /\ TileLandsOnThePicture
    /\ tile # None =>
         \A r \in update, px \in 0 .. Width - 1, py \in 0 .. Height - 1 :
            r.x1 < r.x2 /\ r.y1 < r.y2 /\ Touches(r, px, py)
                => In(tile, output_x(px, py), output_y(px, py))

=============================================================================
