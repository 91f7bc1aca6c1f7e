------------------------------ MODULE EvdiRects ------------------------------
(***************************************************************************)
(* The damage arithmetic of the evdi kernel module: how the painter keeps  *)
(* at most MAX_DIRTS dirty rectangles (evdi_painter.c), how a rectangle is *)
(* cut to a framebuffer (evdi_fb.c), and the rectangle of a cursor         *)
(* (evdi_modeset.c).  A rectangle is half open: x1 and y1 in, x2 and y2    *)
(* out.  Recursion is by recursive functions.                              *)
(***************************************************************************)
EXTENDS Integers, Sequences

CONSTANT MAX_DIRTS

ASSUME DirtsAssumption == MAX_DIRTS \in Nat \ {0}

Rect(x1, y1, x2, y2) == [x1 |-> x1, y1 |-> y1, x2 |-> x2, y2 |-> y2]
Rects == [x1 : Int, y1 : Int, x2 : Int, y2 : Int]
Pixels(r) == (r.x1 .. r.x2 - 1) \X (r.y1 .. r.y2 - 1)

Lesser(a, b)  == IF a <= b THEN a ELSE b
Greater(a, b) == IF a <= b THEN b ELSE a

expand_rect(a, b) == Rect(Lesser(a.x1, b.x1), Lesser(a.y1, b.y1),
                          Greater(a.x2, b.x2), Greater(a.y2, b.y2))

rect_area(r) == (r.x2 - r.x1) * (r.y2 - r.y1)

(* Where the merging is: the rectangles, and the pair of them it looks at.   *)
MergeStates == Seq(Rects) \X (Nat \ {0}) \X (Nat \ {0})

(* A mutant: the last rectangle is not moved into the place of the merged
   one, so that shortening the list drops it.                               *)
MergeForgetsLast(s) ==
    LET r == s[1]  a == s[2]  b == s[3]  both == expand_rect(r[a], r[b])
    IN  IF b > Len(r) THEN <<r, a + 1, a + 2>>
        ELSE IF rect_area(both) <= rect_area(r[a]) + rect_area(r[b])
        THEN <<SubSeq([r EXCEPT ![a] = both], 1, Len(r) - 1), a, a + 1>>
        ELSE <<r, a, b + 1>>

(* Two rectangles become their bounding rectangle when that has no more
   pixels; the last of the list takes the place of the second, and the pass
   over the first begins again.                                             *)
MergeStep(s) ==
    LET r == s[1]  a == s[2]  b == s[3]  both == expand_rect(r[a], r[b])
    IN  IF b > Len(r) THEN <<r, a + 1, a + 2>>
        ELSE IF rect_area(both) <= rect_area(r[a]) + rect_area(r[b])
        THEN <<SubSeq([r EXCEPT ![b] = r[Len(r)], ![a] = both], 1, Len(r) - 1), a, a + 1>>
        ELSE <<r, a, b + 1>>

MergePass[s \in MergeStates] ==
    IF s[2] >= Len(s[1]) THEN s[1] ELSE MergePass[MergeStep(s)]

merge_dirty_rects(rects) == MergePass[<<rects, 1, 2>>]

(* The bounding rectangle of all.                                           *)
collapse_dirty_rects(rects) ==
    LET upTo[n \in 1 .. Len(rects)] == IF n = 1 THEN rects[1]
                                                ELSE expand_rect(upTo[n - 1], rects[n])
    IN  <<upTo[Len(rects)]>>

(* Room is made only when the array is full: by merging, then by collapsing. *)
AddDirt(rects, rect) ==
    LET merged == IF Len(rects) = MAX_DIRTS THEN merge_dirty_rects(rects) ELSE rects
        room   == IF Len(merged) = MAX_DIRTS THEN collapse_dirty_rects(merged) ELSE merged
    IN  Append(room, rect)

(* What a grab with room for limit rectangles is given.                     *)
GrabDirts(rects, limit) ==
    LET merged == merge_dirty_rects(rects)
    IN  IF Len(merged) > limit THEN collapse_dirty_rects(merged) ELSE merged

(* Swapped corners are put right, then each corner is cut to the size.      *)
evdi_framebuffer_sanitize_rect(size, r) ==
    Rect(Lesser(Lesser(r.x1, r.x2), size.w),  Lesser(Lesser(r.y1, r.y2), size.h),
         Lesser(Greater(r.x1, r.x2), size.w), Lesser(Greater(r.y1, r.y2), size.h))

(* The fields of a drm_clip_rect are 16 bits wide and unsigned: the far
   corner of a cursor left of the screen wraps to a large number.           *)
U16(n) == n % 65536

evdi_cursor_atomic_get_rect(x, y, size) ==
    Rect(Greater(x, 0), Greater(y, 0), U16(x + size.w), U16(y + size.h))

(* copy_primary_pixels refuses a rectangle that is beyond the buffer of the
   client: it may be from before a change of resolution.                    *)
RectsFit(rects, size) ==
    \A i \in 1 .. Len(rects) : rects[i].x2 <= size.w /\ rects[i].y2 <= size.h

FullRect(size) == Rect(0, 0, size.w, size.h)
==============================================================================
