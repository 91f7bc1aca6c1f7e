--------------------------- MODULE Type7Geometry ---------------------------
(***************************************************************************)
(* From a change of the captured frame to the tile that is sent for it:    *)
(* the bounding box of the change, joined with the previous one, rotated   *)
(* into the output, widened to the grid of the device, cropped out of the  *)
(* captured frame, and given addresses in the planes of a framebuffer.     *)
(* Type7Sender takes from here that a tile covers the cells it has to.     *)
(***************************************************************************)
EXTENDS Integers

CONSTANTS
    Width, Height,      \* the captured frame, in pixels
    Grain,              \* the grid of a tile (32)
    Block,              \* the grid of a plane (16)
    HeaderGap,          \* the bytes before the first plane of a slot (0x30)
    Dirty               \* the changes a frame may report, not yet clamped

Box == [x : Nat, y : Nat, w : Nat, h : Nat]

ASSUME GeometryAssumption ==
    /\ Width \in Nat \ {0} /\ Height \in Nat \ {0}
    /\ Grain \in Nat \ {0} /\ Block \in Nat \ {0} /\ Block % 2 = 0 /\ HeaderGap \in Nat
    /\ Dirty \subseteq Box

Rotations == {"0", "90", "180", "270"}
Modes     == {"local", "horizontal", "vertical", "auto"}
None      == [x |-> 0, y |-> 0, w |-> 0, h |-> 0]     \* no box at all

VARIABLES
    rotation, mode,             \* --rotate, --type7-rect-mode
    dirty,                      \* what the last frame reported
    previous,                   \* last_type7_dirty_bbox before that frame
    last_type7_dirty_bbox,
    tile                        \* the tile sent for it, or None

vars == <<rotation, mode, dirty, previous, last_type7_dirty_bbox, tile>>

-----------------------------------------------------------------------------
Least(a, b)    == IF a <= b THEN a ELSE b
Greatest(a, b) == IF a <= b THEN b ELSE a
SubSat(a, b)   == IF b <= a THEN a - b ELSE 0          \* saturating_sub
align_usize(value, alignment) ==
    ((value + alignment - 1) \div alignment) * alignment

In(b, px, py) == /\ b.x <= px /\ px < b.x + b.w
                 /\ b.y <= py /\ py < b.y + b.h

-----------------------------------------------------------------------------
(* The change, cut off at the edges of the frame.                           *)
clamped_dirty_bbox(d) ==
    LET x     == Least(d.x, Width)
        y     == Least(d.y, Height)
        max_x == Least(d.x + d.w, Width)
        max_y == Least(d.y + d.h, Height)
    IN  IF d.w = 0 \/ d.h = 0 \/ max_x <= x \/ max_y <= y
        THEN None
        ELSE [x |-> x, y |-> y, w |-> max_x - x, h |-> max_y - y]

(* A mutant: the previous box is left out.                                  *)
UnionOfOne(a, b) == a

union_bbox(a, b) ==
    LET min_x == Least(Least(a.x, b.x), Width)
        min_y == Least(Least(a.y, b.y), Height)
        max_x == Least(Greatest(a.x + a.w, b.x + b.w), Width)
        max_y == Least(Greatest(a.y + a.h, b.y + b.h), Height)
    IN  [x |-> min_x, y |-> min_y,
         w |-> SubSat(max_x, min_x), h |-> SubSat(max_y, min_y)]

-----------------------------------------------------------------------------
(* The rotation, in both directions.                                        *)
OutWidth  == IF rotation \in {"90", "270"} THEN Height ELSE Width
OutHeight == IF rotation \in {"90", "270"} THEN Width ELSE Height

output_x(sx, sy) == CASE rotation = "0"   -> sx
                      [] rotation = "90"  -> Height - 1 - sy
                      [] rotation = "180" -> Width - 1 - sx
                      [] rotation = "270" -> sy
output_y(sx, sy) == CASE rotation = "0"   -> sy
                      [] rotation = "90"  -> sx
                      [] rotation = "180" -> Height - 1 - sy
                      [] rotation = "270" -> Width - 1 - sx

source_x(ox, oy) == CASE rotation = "0"   -> ox
                      [] rotation = "90"  -> oy
                      [] rotation = "180" -> Width - 1 - ox
                      [] rotation = "270" -> Width - 1 - oy
source_y(ox, oy) == CASE rotation = "0"   -> oy
                      [] rotation = "90"  -> Height - 1 - ox
                      [] rotation = "180" -> Height - 1 - oy
                      [] rotation = "270" -> ox

(* The box around the images of the four corners.                           *)
LeastOf(a, b, c, d)    == Least(Least(a, b), Least(c, d))
GreatestOf(a, b, c, d) == Greatest(Greatest(a, b), Greatest(c, d))

rotate_bbox(b) ==
    LET x2 == SubSat(b.x + b.w, 1)
        y2 == SubSat(b.y + b.h, 1)
        min_x == LeastOf(output_x(b.x, b.y), output_x(x2, b.y),
                         output_x(b.x, y2), output_x(x2, y2))
        max_x == GreatestOf(output_x(b.x, b.y), output_x(x2, b.y),
                            output_x(b.x, y2), output_x(x2, y2))
        min_y == LeastOf(output_y(b.x, b.y), output_y(x2, b.y),
                         output_y(b.x, y2), output_y(x2, y2))
        max_y == GreatestOf(output_y(b.x, b.y), output_y(x2, b.y),
                            output_y(b.x, y2), output_y(x2, y2))
    IN  [x |-> min_x, y |-> min_y,
         w |-> max_x - min_x + 1, h |-> max_y - min_y + 1]

-----------------------------------------------------------------------------
(* One axis of align_type7_rect_32: from the grid line before the one below
   the change to the one past the end, at least one grain wide, inside the
   canvas.                                                                  *)
Left(p) == (SubSat(p, 1) \div Grain) * Grain

Right(p, n, size) == Least(align_usize(p + n + Grain - 1, Grain), size)

Start(p, n, size) ==
    LET l == Left(p)
        r == Right(p, n, size)
    IN  IF r - l < Grain /\ r = size THEN SubSat(l, Grain - (r - l)) ELSE l
End(p, n, size) ==
    LET l == Left(p)
        r == Right(p, n, size)
    IN  IF r - l < Grain /\ r # size THEN Least(l + Grain, size) ELSE r

align_type7_rect_32(b) ==
    IF \/ b.w = 0 \/ b.h = 0
       \/ Right(b.x, b.w, OutWidth) <= Left(b.x)
       \/ Right(b.y, b.h, OutHeight) <= Left(b.y)
    THEN None
    ELSE LET left == Start(b.x, b.w, OutWidth)
             top  == Start(b.y, b.h, OutHeight)
         IN  [x |-> left, y |-> top,
              w |-> End(b.x, b.w, OutWidth) - left,
              h |-> End(b.y, b.h, OutHeight) - top]

type7_update_rect(b) ==
    LET local      == align_type7_rect_32(b)
        horizontal == [x |-> 0, y |-> local.y, w |-> OutWidth, h |-> local.h]
        vertical   == [x |-> local.x, y |-> 0, w |-> local.w, h |-> OutHeight]
        Area(r)    == r.w * r.h
        smallest   == IF Area(local) <= Area(horizontal) /\ Area(local) <= Area(vertical)
                      THEN local
                      ELSE IF Area(horizontal) <= Area(vertical) THEN horizontal
                      ELSE vertical
        selected   == CASE mode = "local"      -> local
                        [] mode = "horizontal" -> horizontal
                        [] mode = "vertical"   -> vertical
                        [] mode = "auto"       -> smallest
    IN  IF local = None \/ selected.w = 0 \/ selected.h = 0 THEN None ELSE selected

-----------------------------------------------------------------------------
(* The pixel of the captured frame that crop_rotated_bgra_bbox copies to
   column i, row j of the tile.                                             *)
CropX(i, j) == CASE rotation = "0"   -> tile.x + i
                 [] rotation = "90"  -> tile.y + j
                 [] rotation = "180" -> Width - 1 - (tile.x + i)
                 [] rotation = "270" -> Width - 1 - (tile.y + j)

CropY(i, j) == CASE rotation = "0"   -> tile.y + j
                 [] rotation = "90"  -> Height - 1 - (tile.x + i)
                 [] rotation = "180" -> Height - 1 - (tile.y + j)
                 [] rotation = "270" -> tile.x + i

(* The planes of a slot at address 0, and the tile's places in them.        *)
Pitch == align_usize(OutWidth, Block)
base0 == HeaderGap

(* A mutant: the first plane is given the rows of the picture only.         *)
BaseUnpadded == base0 + OutWidth * OutHeight

base1 == base0 + ((OutWidth + Block - 1) \div Block)
                   * ((OutHeight + Block - 1) \div Block) * (Block * Block)

plane0 == base0 + Pitch * tile.y + tile.x
plane1 == base1 + (tile.y \div 2) * Pitch + (tile.x \div 2) * 2

-----------------------------------------------------------------------------
Init ==
    /\ rotation \in Rotations /\ mode \in Modes
    /\ dirty = None /\ previous = None /\ last_type7_dirty_bbox = None
    /\ tile = None

(* send_jpeg_type7_frame up to the crop: a frame with a change.             *)
SendTile(d) ==
    LET current == clamped_dirty_bbox(d)
        box     == IF last_type7_dirty_bbox = None THEN current
                   ELSE union_bbox(current, last_type7_dirty_bbox)
    IN  /\ current # None
        /\ dirty' = d
        /\ previous' = last_type7_dirty_bbox
        /\ last_type7_dirty_bbox' = current
        /\ tile' = type7_update_rect(rotate_bbox(box))
        /\ UNCHANGED <<rotation, mode>>

(* Every path that sends the whole picture forgets the previous change.     *)
SendFull(d) ==
    /\ dirty' = d
    /\ previous' = None /\ last_type7_dirty_bbox' = None
    /\ tile' = None
    /\ UNCHANGED <<rotation, mode>>

Next == \E d \in Dirty : SendTile(d) \/ SendFull(d)

Spec == Init /\ [][Next]_vars

-----------------------------------------------------------------------------
(* Every output pixel that shows a pixel changed by this frame or by the one
   before is inside the tile, whatever the rotation and the mode: a change
   between two grid lines, at an edge or in a corner is never cut off.      *)
TileCoversChange ==
    tile # None =>
        \A ox \in 0 .. OutWidth - 1, oy \in 0 .. OutHeight - 1 :
            LET sx == source_x(ox, oy)
                sy == source_y(ox, oy)
            IN  In(dirty, sx, sy) \/ In(previous, sx, sy) => In(tile, ox, oy)

(* A change always gets a tile: the path that gives up without sending
   anything is never taken.                                                 *)
ChangeHasTile == last_type7_dirty_bbox # None => tile # None

(* The crop copies, for every pixel of the tile, the pixel of the captured
   frame that the rotation puts there; in particular it never reads outside
   the frame, although the reads are unchecked.                             *)
CropReadsTheTile ==
    \A i \in 0 .. tile.w - 1, j \in 0 .. tile.h - 1 :
        /\ CropX(i, j) \in 0 .. Width - 1
        /\ CropY(i, j) \in 0 .. Height - 1
        /\ output_x(CropX(i, j), CropY(i, j)) = tile.x + i
        /\ output_y(CropX(i, j), CropY(i, j)) = tile.y + j

(* The tile's rows stay inside the first plane, and its chroma rows inside
   the half-size second one.                                                *)
TileFitsPlanes ==
    tile # None =>
        /\ plane0 + Pitch * (tile.h - 1) + tile.w <= base1
        /\ plane1 + Pitch * ((tile.h + 1) \div 2 - 1) + tile.w
              <= base1 + (base1 - base0) \div 2

=============================================================================
