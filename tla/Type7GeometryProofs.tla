------------------------ MODULE Type7GeometryProofs ------------------------
(***************************************************************************)
(* A tile covers the change it is sent for, its crop reads the right       *)
(* pixels, the samples of the tile fall on those of the picture, and every *)
(* picture, raw or handed to the encoder, shows each pixel in its place:   *)
(* for every size of frame, grid, rotation, mode, transport and update.    *)
(***************************************************************************)
EXTENDS DirtyUpdates, WellFoundedInduction, TLAPS

LEMMA Product ==
    ASSUME NEW a \in Nat, NEW b \in Nat \ {0}
    PROVE  /\ a \div b \in Nat
           /\ (a \div b) * b \in Nat
           /\ (a \div b) * b <= a /\ a < (a \div b) * b + b
  OBVIOUS

(* Rounding up to a grid line.                                              *)
LEMMA Aligned ==
    ASSUME NEW v \in Nat, NEW g \in Nat \ {0}
    PROVE  align_usize(v, g) \in Nat /\ v <= align_usize(v, g)
  <1>1. v + g - 1 \in Nat  OBVIOUS
  <1>2. /\ ((v + g - 1) \div g) * g \in Nat
        /\ v + g - 1 < ((v + g - 1) \div g) * g + g
    BY <1>1, Product
  <1> DEFINE r == ((v + g - 1) \div g) * g
  <1>3. align_usize(v, g) = r  BY DEF align_usize
  <1> HIDE DEF r
  <1> QED BY <1>2, <1>3, SMT DEF r

(* A nonempty box inside a frame of the given size.                         *)
Inside(b, width, height) ==
    /\ b \in Box /\ b.w > 0 /\ b.h > 0
    /\ b.x + b.w <= width /\ b.y + b.h <= height

LEMMA Clamped ==
    ASSUME NEW d \in Box
    PROVE  LET c == clamped_dirty_bbox(d) IN
           /\ c = None \/ Inside(c, Width, Height)
           /\ \A sx \in 0 .. Width - 1, sy \in 0 .. Height - 1 :
                 In(d, sx, sy) => c # None /\ In(c, sx, sy)
  BY GeometryAssumption DEF clamped_dirty_bbox, None, Inside, In, Box, Least

LEMMA United ==
    ASSUME NEW a, NEW b, Inside(a, Width, Height), Inside(b, Width, Height)
    PROVE  LET u == union_bbox(a, b) IN
           /\ Inside(u, Width, Height)
           /\ \A px, py \in Nat : In(a, px, py) \/ In(b, px, py) => In(u, px, py)
  BY GeometryAssumption
     DEF union_bbox, Inside, In, Box, Least, Greatest, SubSat

LEMMA Edges ==
    ASSUME NEW p \in Nat, NEW n \in Nat, NEW size \in Nat, p + n <= size
    PROVE  /\ Left(p) \in Nat /\ Left(p) <= p
           /\ Right(p, n, size) \in Nat /\ p + n <= Right(p, n, size)
           /\ Right(p, n, size) <= size
  <1>1. Grain \in Nat \ {0}  BY GeometryAssumption
  <1>2. Left(p) \in Nat /\ Left(p) <= p
    <2>1. SubSat(p, 1) \in Nat /\ SubSat(p, 1) <= p  BY DEF SubSat
    <2>2. /\ (SubSat(p, 1) \div Grain) * Grain \in Nat
          /\ (SubSat(p, 1) \div Grain) * Grain <= SubSat(p, 1)
      BY <1>1, <2>1, Product
    <2> DEFINE l == (SubSat(p, 1) \div Grain) * Grain
    <2>3. Left(p) = l  BY DEF Left
    <2> HIDE DEF l
    <2> QED BY <2>1, <2>2, <2>3, SMT DEF l
  <1>3. Right(p, n, size) \in Nat /\ p + n <= Right(p, n, size)
        /\ Right(p, n, size) <= size
    <2>1. p + n + Grain - 1 \in Nat  BY <1>1
    <2>2. align_usize(p + n + Grain - 1, Grain) \in Nat
          /\ p + n + Grain - 1 <= align_usize(p + n + Grain - 1, Grain)
      BY <1>1, <2>1, Aligned
    <2> QED BY <1>1, <2>2, SMT DEF Right, Least
  <1> QED BY <1>2, <1>3

(* The grid lines around a change on one axis.                              *)
LEMMA Axis ==
    ASSUME NEW p \in Nat, NEW n \in Nat \ {0}, NEW size \in Nat, p + n <= size
    PROVE  /\ Left(p) < Right(p, n, size)
           /\ Start(p, n, size) \in Nat /\ End(p, n, size) \in Nat
           /\ Start(p, n, size) <= p
           /\ p + n <= End(p, n, size) /\ End(p, n, size) <= size
  <1>1. Grain \in Nat \ {0}  BY GeometryAssumption
  <1>2. /\ Left(p) \in Nat /\ Left(p) <= p
        /\ Right(p, n, size) \in Nat /\ p + n <= Right(p, n, size)
        /\ Right(p, n, size) <= size
    BY Edges
  <1> QED BY <1>1, <1>2, SMT DEF Start, End, SubSat, Least

(* What the rotations are, one by one.                                      *)
LEMMA Turns ==
    ASSUME rotation \in Rotations
    PROVE  \/ /\ rotation = "0" /\ OutWidth = Width /\ OutHeight = Height
              /\ \A u, v \in Int : /\ output_x(u, v) = u /\ output_y(u, v) = v
                                   /\ source_x(u, v) = u /\ source_y(u, v) = v
           \/ /\ rotation = "90" /\ OutWidth = Height /\ OutHeight = Width
              /\ \A u, v \in Int :
                    /\ output_x(u, v) = Height - 1 - v /\ output_y(u, v) = u
                    /\ source_x(u, v) = v /\ source_y(u, v) = Height - 1 - u
           \/ /\ rotation = "180" /\ OutWidth = Width /\ OutHeight = Height
              /\ \A u, v \in Int :
                    /\ output_x(u, v) = Width - 1 - u /\ output_y(u, v) = Height - 1 - v
                    /\ source_x(u, v) = Width - 1 - u /\ source_y(u, v) = Height - 1 - v
           \/ /\ rotation = "270" /\ OutWidth = Height /\ OutHeight = Width
              /\ \A u, v \in Int :
                    /\ output_x(u, v) = v /\ output_y(u, v) = Width - 1 - u
                    /\ source_x(u, v) = Width - 1 - v /\ source_y(u, v) = u
  <1>1. CASE rotation = "0"
    BY <1>1 DEF OutWidth, OutHeight, output_x, output_y, source_x, source_y
  <1>2. CASE rotation = "90"
    BY <1>2 DEF OutWidth, OutHeight, output_x, output_y, source_x, source_y
  <1>3. CASE rotation = "180"
    BY <1>3 DEF OutWidth, OutHeight, output_x, output_y, source_x, source_y
  <1>4. CASE rotation = "270"
    BY <1>4 DEF OutWidth, OutHeight, output_x, output_y, source_x, source_y
  <1> QED BY <1>1, <1>2, <1>3, <1>4 DEF Rotations

(* Rotating a box keeps it inside, and rotates the pixels in it.            *)
LEMMA Rotated ==
    ASSUME rotation \in Rotations, NEW b, Inside(b, Width, Height)
    PROVE  LET r == rotate_bbox(b) IN
           /\ Inside(r, OutWidth, OutHeight)
           /\ \A ox \in 0 .. OutWidth - 1, oy \in 0 .. OutHeight - 1 :
                 In(b, source_x(ox, oy), source_y(ox, oy)) => In(r, ox, oy)
  <1> DEFINE x  == b.x
             y  == b.y
             w  == b.w
             h  == b.h
             x2 == SubSat(x + w, 1)
             y2 == SubSat(y + h, 1)
             r  == rotate_bbox(b)
             min_x == LeastOf(output_x(x, y), output_x(x2, y),
                              output_x(x, y2), output_x(x2, y2))
             max_x == GreatestOf(output_x(x, y), output_x(x2, y),
                                 output_x(x, y2), output_x(x2, y2))
             min_y == LeastOf(output_y(x, y), output_y(x2, y),
                              output_y(x, y2), output_y(x2, y2))
             max_y == GreatestOf(output_y(x, y), output_y(x2, y),
                                 output_y(x, y2), output_y(x2, y2))
  <1>1. /\ Width \in Int /\ Height \in Int
        /\ x \in Int /\ y \in Int /\ w \in Int /\ h \in Int
        /\ 0 <= x /\ 0 <= y /\ 0 < w /\ 0 < h /\ x + w <= Width /\ y + h <= Height
    BY GeometryAssumption DEF Inside, Box
  <1>2. \A px, py : In(b, px, py) => x <= px /\ px < x + w /\ y <= py /\ py < y + h
    BY DEF In
  <1>3. r = [x |-> min_x, y |-> min_y,
             w |-> max_x - min_x + 1, h |-> max_y - min_y + 1]
    BY Zenon DEF rotate_bbox
  <1> HIDE DEF x, y, w, h, r
  <1>4. x2 = x + w - 1 /\ y2 = y + h - 1 /\ x2 \in Int /\ y2 \in Int
    BY <1>1 DEF SubSat
  <1> HIDE DEF x2, y2
  <1>5. /\ Inside(r, OutWidth, OutHeight)
        /\ \A ox \in 0 .. OutWidth - 1, oy \in 0 .. OutHeight - 1 :
              In(b, source_x(ox, oy), source_y(ox, oy)) => In(r, ox, oy)
    <2>1. CASE rotation = "0"
      <3>1. /\ OutWidth = Width /\ OutHeight = Height
            /\ \A u, v \in Int : /\ output_x(u, v) = u
                                 /\ output_y(u, v) = v
                                 /\ source_x(u, v) = u
                                 /\ source_y(u, v) = v
        BY <2>1, Turns, SMT
      <3>2. /\ output_x(x, y) = x /\ output_x(x2, y) = x2
            /\ output_x(x, y2) = x /\ output_x(x2, y2) = x2
            /\ output_y(x, y) = y /\ output_y(x2, y) = y
            /\ output_y(x, y2) = y2 /\ output_y(x2, y2) = y2
        BY <1>1, <1>4, <3>1, Zenon
      <3>3. min_x = x /\ max_x = x2 /\ min_y = y /\ max_y = y2
        BY <1>1, <1>4, <3>2, SMT DEF LeastOf, GreatestOf, Least, Greatest
      <3> HIDE DEF min_x, max_x, min_y, max_y
      <3>4. Inside(r, OutWidth, OutHeight)
        BY <1>1, <1>3, <1>4, <3>1, <3>3, SMT DEF Inside, Box
      <3>5. ASSUME NEW ox \in 0 .. OutWidth - 1, NEW oy \in 0 .. OutHeight - 1,
                   In(b, source_x(ox, oy), source_y(ox, oy))
            PROVE  In(r, ox, oy)
        <4>1. source_x(ox, oy) = ox /\ source_y(ox, oy) = oy
          BY <1>1, <3>1, SMT
        <4>2. /\ x <= ox /\ ox < x + w
              /\ y <= oy /\ oy < y + h
          BY <1>2, <3>5, <4>1, Zenon
        <4> QED BY <1>1, <1>3, <1>4, <3>1, <3>3, <4>2, SMT DEF In
      <3> QED BY <3>4, <3>5
    <2>2. CASE rotation = "90"
      <3>1. /\ OutWidth = Height /\ OutHeight = Width
            /\ \A u, v \in Int : /\ output_x(u, v) = Height - 1 - v
                                 /\ output_y(u, v) = u
                                 /\ source_x(u, v) = v
                                 /\ source_y(u, v) = Height - 1 - u
        BY <2>2, Turns, SMT
      <3>2. /\ output_x(x, y) = Height - 1 - y /\ output_x(x2, y) = Height - 1 - y
            /\ output_x(x, y2) = Height - 1 - y2 /\ output_x(x2, y2) = Height - 1 - y2
            /\ output_y(x, y) = x /\ output_y(x2, y) = x2
            /\ output_y(x, y2) = x /\ output_y(x2, y2) = x2
        BY <1>1, <1>4, <3>1, Zenon
      <3>3. min_x = Height - y - h /\ max_x = Height - 1 - y /\ min_y = x /\ max_y = x2
        BY <1>1, <1>4, <3>2, SMT DEF LeastOf, GreatestOf, Least, Greatest
      <3> HIDE DEF min_x, max_x, min_y, max_y
      <3>4. Inside(r, OutWidth, OutHeight)
        BY <1>1, <1>3, <1>4, <3>1, <3>3, SMT DEF Inside, Box
      <3>5. ASSUME NEW ox \in 0 .. OutWidth - 1, NEW oy \in 0 .. OutHeight - 1,
                   In(b, source_x(ox, oy), source_y(ox, oy))
            PROVE  In(r, ox, oy)
        <4>1. source_x(ox, oy) = oy /\ source_y(ox, oy) = Height - 1 - ox
          BY <1>1, <3>1, SMT
        <4>2. /\ x <= oy /\ oy < x + w
              /\ y <= Height - 1 - ox /\ Height - 1 - ox < y + h
          BY <1>2, <3>5, <4>1, Zenon
        <4> QED BY <1>1, <1>3, <1>4, <3>1, <3>3, <4>2, SMT DEF In
      <3> QED BY <3>4, <3>5
    <2>3. CASE rotation = "180"
      <3>1. /\ OutWidth = Width /\ OutHeight = Height
            /\ \A u, v \in Int : /\ output_x(u, v) = Width - 1 - u
                                 /\ output_y(u, v) = Height - 1 - v
                                 /\ source_x(u, v) = Width - 1 - u
                                 /\ source_y(u, v) = Height - 1 - v
        BY <2>3, Turns, SMT
      <3>2. /\ output_x(x, y) = Width - 1 - x /\ output_x(x2, y) = Width - 1 - x2
            /\ output_x(x, y2) = Width - 1 - x /\ output_x(x2, y2) = Width - 1 - x2
            /\ output_y(x, y) = Height - 1 - y /\ output_y(x2, y) = Height - 1 - y
            /\ output_y(x, y2) = Height - 1 - y2 /\ output_y(x2, y2) = Height - 1 - y2
        BY <1>1, <1>4, <3>1, Zenon
      <3>3. min_x = Width - x - w /\ max_x = Width - 1 - x /\ min_y = Height - y - h /\ max_y = Height - 1 - y
        BY <1>1, <1>4, <3>2, SMT DEF LeastOf, GreatestOf, Least, Greatest
      <3> HIDE DEF min_x, max_x, min_y, max_y
      <3>4. Inside(r, OutWidth, OutHeight)
        BY <1>1, <1>3, <1>4, <3>1, <3>3, SMT DEF Inside, Box
      <3>5. ASSUME NEW ox \in 0 .. OutWidth - 1, NEW oy \in 0 .. OutHeight - 1,
                   In(b, source_x(ox, oy), source_y(ox, oy))
            PROVE  In(r, ox, oy)
        <4>1. source_x(ox, oy) = Width - 1 - ox /\ source_y(ox, oy) = Height - 1 - oy
          BY <1>1, <3>1, SMT
        <4>2. /\ x <= Width - 1 - ox /\ Width - 1 - ox < x + w
              /\ y <= Height - 1 - oy /\ Height - 1 - oy < y + h
          BY <1>2, <3>5, <4>1, Zenon
        <4> QED BY <1>1, <1>3, <1>4, <3>1, <3>3, <4>2, SMT DEF In
      <3> QED BY <3>4, <3>5
    <2>4. CASE rotation = "270"
      <3>1. /\ OutWidth = Height /\ OutHeight = Width
            /\ \A u, v \in Int : /\ output_x(u, v) = v
                                 /\ output_y(u, v) = Width - 1 - u
                                 /\ source_x(u, v) = Width - 1 - v
                                 /\ source_y(u, v) = u
        BY <2>4, Turns, SMT
      <3>2. /\ output_x(x, y) = y /\ output_x(x2, y) = y
            /\ output_x(x, y2) = y2 /\ output_x(x2, y2) = y2
            /\ output_y(x, y) = Width - 1 - x /\ output_y(x2, y) = Width - 1 - x2
            /\ output_y(x, y2) = Width - 1 - x /\ output_y(x2, y2) = Width - 1 - x2
        BY <1>1, <1>4, <3>1, Zenon
      <3>3. min_x = y /\ max_x = y2 /\ min_y = Width - x - w /\ max_y = Width - 1 - x
        BY <1>1, <1>4, <3>2, SMT DEF LeastOf, GreatestOf, Least, Greatest
      <3> HIDE DEF min_x, max_x, min_y, max_y
      <3>4. Inside(r, OutWidth, OutHeight)
        BY <1>1, <1>3, <1>4, <3>1, <3>3, SMT DEF Inside, Box
      <3>5. ASSUME NEW ox \in 0 .. OutWidth - 1, NEW oy \in 0 .. OutHeight - 1,
                   In(b, source_x(ox, oy), source_y(ox, oy))
            PROVE  In(r, ox, oy)
        <4>1. source_x(ox, oy) = Width - 1 - oy /\ source_y(ox, oy) = ox
          BY <1>1, <3>1, SMT
        <4>2. /\ x <= Width - 1 - oy /\ Width - 1 - oy < x + w
              /\ y <= ox /\ ox < y + h
          BY <1>2, <3>5, <4>1, Zenon
        <4> QED BY <1>1, <1>3, <1>4, <3>1, <3>3, <4>2, SMT DEF In
      <3> QED BY <3>4, <3>5
    <2> QED BY <2>1, <2>2, <2>3, <2>4 DEF Rotations
  <1> QED BY <1>5, Zenon DEF r

(* Widening a box to the grid keeps it inside and loses nothing of it.      *)
LEMMA Widened ==
    ASSUME NEW b, Inside(b, OutWidth, OutHeight), OutWidth \in Nat, OutHeight \in Nat,
           mode \in Modes
    PROVE  LET t == type7_update_rect(b) IN
           /\ Inside(t, OutWidth, OutHeight)
           /\ \A px, py \in Nat : In(b, px, py) /\ px < OutWidth /\ py < OutHeight
                                  => In(t, px, py)
  <1> DEFINE l == align_type7_rect_32(b)
             t == type7_update_rect(b)
  <1>1. /\ b \in Box /\ b.x \in Nat /\ b.y \in Nat
        /\ b.w \in Nat \ {0} /\ b.h \in Nat \ {0}
        /\ b.x + b.w <= OutWidth /\ b.y + b.h <= OutHeight
    BY DEF Inside, Box
  <1>2. /\ Left(b.x) < Right(b.x, b.w, OutWidth)
        /\ Start(b.x, b.w, OutWidth) \in Nat /\ End(b.x, b.w, OutWidth) \in Nat
        /\ Start(b.x, b.w, OutWidth) <= b.x
        /\ b.x + b.w <= End(b.x, b.w, OutWidth) /\ End(b.x, b.w, OutWidth) <= OutWidth
    BY <1>1, Axis
  <1>3. /\ Left(b.y) < Right(b.y, b.h, OutHeight)
        /\ Start(b.y, b.h, OutHeight) \in Nat /\ End(b.y, b.h, OutHeight) \in Nat
        /\ Start(b.y, b.h, OutHeight) <= b.y
        /\ b.y + b.h <= End(b.y, b.h, OutHeight) /\ End(b.y, b.h, OutHeight) <= OutHeight
    BY <1>1, Axis
  <1>4. Left(b.x) \in Int /\ Right(b.x, b.w, OutWidth) \in Int
        /\ Left(b.y) \in Int /\ Right(b.y, b.h, OutHeight) \in Int
    <2>1. b.w \in Nat /\ b.h \in Nat  BY <1>1
    <2>2. Left(b.x) \in Nat /\ Right(b.x, b.w, OutWidth) \in Nat  BY <1>1, <2>1, Edges
    <2>3. Left(b.y) \in Nat /\ Right(b.y, b.h, OutHeight) \in Nat  BY <1>1, <2>1, Edges
    <2> QED BY <2>2, <2>3
  <1>5. l = [x |-> Start(b.x, b.w, OutWidth), y |-> Start(b.y, b.h, OutHeight),
             w |-> End(b.x, b.w, OutWidth) - Start(b.x, b.w, OutWidth),
             h |-> End(b.y, b.h, OutHeight) - Start(b.y, b.h, OutHeight)]
    BY <1>1, <1>2, <1>3, <1>4, SMT DEF align_type7_rect_32
  <1>6. /\ l \in Box /\ l.x <= b.x /\ b.x + b.w <= l.x + l.w
        /\ l.y <= b.y /\ b.y + b.h <= l.y + l.h
        /\ l.x + l.w <= OutWidth /\ l.y + l.h <= OutHeight /\ l.w > 0 /\ l.h > 0
    BY <1>1, <1>2, <1>3, <1>5, SMT DEF Box
  <1> HIDE DEF l
  <1>7. l # None  BY <1>6, SMT DEF None, Box
  <1> DEFINE horizontal == [x |-> 0, y |-> l.y, w |-> OutWidth, h |-> l.h]
             vertical   == [x |-> l.x, y |-> 0, w |-> l.w, h |-> OutHeight]
  <1>8. t \in {l, horizontal, vertical}
    <2>1. \A q \in {l, horizontal, vertical} : q.w # 0 /\ q.h # 0
      BY <1>1, <1>6, SMT DEF Box
    <2> QED BY <1>7, <2>1, Zenon DEF type7_update_rect, Modes, l
  <1> HIDE DEF t
  <1>9. /\ Inside(t, OutWidth, OutHeight)
        /\ \A px, py \in Nat : In(b, px, py) /\ px < OutWidth /\ py < OutHeight
                                => In(t, px, py)
    BY <1>1, <1>6, <1>8, SMT DEF Inside, In, Box
  <1> QED BY <1>9, Zenon DEF t

-----------------------------------------------------------------------------
(* The inductive invariant: a box that is kept lies in the captured frame, a
   tile lies in the output and covers the change it was cut for.            *)
GeometryInv ==
    /\ rotation \in Rotations /\ mode \in Modes
    /\ dirty \in Box
    /\ previous = None \/ Inside(previous, Width, Height)
    /\ last_type7_dirty_bbox = None \/ Inside(last_type7_dirty_bbox, Width, Height)
    /\ tile = None \/ Inside(tile, OutWidth, OutHeight)
    /\ ChangeHasTile
    /\ TileCoversChange

(* Both sides of the output are those of the frame.                         *)
LEMMA Sides ==
    ASSUME rotation \in Rotations
    PROVE  /\ OutWidth \in Nat /\ OutHeight \in Nat
           /\ \A ox \in 0 .. OutWidth - 1, oy \in 0 .. OutHeight - 1 :
                 /\ source_x(ox, oy) \in 0 .. Width - 1
                 /\ source_y(ox, oy) \in 0 .. Height - 1
  <1>1. Width \in Nat /\ Height \in Nat  BY GeometryAssumption
  <1>2. OutWidth \in Nat /\ OutHeight \in Nat  BY <1>1 DEF OutWidth, OutHeight
  <1>3. ASSUME NEW ox \in 0 .. OutWidth - 1, NEW oy \in 0 .. OutHeight - 1
        PROVE  /\ source_x(ox, oy) \in 0 .. Width - 1
               /\ source_y(ox, oy) \in 0 .. Height - 1
    <2>1. ox \in Int /\ oy \in Int  BY <1>2
    <2> QED BY <1>1, <2>1, Turns, SMT
  <1> QED BY <1>2, <1>3

LEMMA InitGeometry == Init => GeometryInv
  BY DEF Init, GeometryInv, None, Box, ChangeHasTile, TileCoversChange

(* One frame: the tile is inside the output, and covers both changes.       *)
LEMMA TileOfChange ==
    ASSUME GeometryInv, NEW d \in Box, NEW c, c = clamped_dirty_bbox(d), c # None,
           NEW t,
           t = type7_update_rect(rotate_bbox(IF last_type7_dirty_bbox = None THEN c
                                             ELSE union_bbox(c, last_type7_dirty_bbox)))
    PROVE  /\ Inside(c, Width, Height)
           /\ Inside(t, OutWidth, OutHeight) /\ t # None
           /\ \A ox \in 0 .. OutWidth - 1, oy \in 0 .. OutHeight - 1 :
                 \/ In(d, source_x(ox, oy), source_y(ox, oy))
                 \/ In(last_type7_dirty_bbox, source_x(ox, oy), source_y(ox, oy))
                 => In(t, ox, oy)
  <1> DEFINE box == IF last_type7_dirty_bbox = None THEN c
                    ELSE union_bbox(c, last_type7_dirty_bbox)
  <1>1. /\ Inside(c, Width, Height)
        /\ \A sx \in 0 .. Width - 1, sy \in 0 .. Height - 1 :
              In(d, sx, sy) => In(c, sx, sy)
    BY Clamped, Zenon
  <1>2. /\ Inside(box, Width, Height)
        /\ \A px, py \in Nat :
              In(c, px, py) \/ In(last_type7_dirty_bbox, px, py) => In(box, px, py)
    <2>1. CASE last_type7_dirty_bbox = None
      <3>1. \A px, py \in Nat : ~ In(last_type7_dirty_bbox, px, py)
        BY <2>1, SMT DEF None, In
      <3> QED BY <1>1, <2>1, <3>1, Zenon
    <2>2. CASE last_type7_dirty_bbox # None
      <3>1. Inside(last_type7_dirty_bbox, Width, Height)
        BY <2>2 DEF GeometryInv
      <3> QED BY <1>1, <2>2, <3>1, United, Zenon
    <2> QED BY <2>1, <2>2
  <1> HIDE DEF box
  <1> DEFINE r == rotate_bbox(box)
  <1>3. rotation \in Rotations /\ mode \in Modes  BY DEF GeometryInv
  <1>4. /\ Inside(r, OutWidth, OutHeight)
        /\ \A ox \in 0 .. OutWidth - 1, oy \in 0 .. OutHeight - 1 :
              In(box, source_x(ox, oy), source_y(ox, oy)) => In(r, ox, oy)
    BY <1>2, <1>3, Rotated, Zenon
  <1> HIDE DEF r
  <1>5. OutWidth \in Nat /\ OutHeight \in Nat  BY <1>3, Sides
  <1>6. /\ Inside(type7_update_rect(r), OutWidth, OutHeight)
        /\ \A px, py \in Nat : In(r, px, py) /\ px < OutWidth /\ py < OutHeight
                                => In(type7_update_rect(r), px, py)
    BY <1>3, <1>4, <1>5, Widened, Zenon
  <1>7. t = type7_update_rect(r)  BY DEF box, r
  <1>8. t # None  BY <1>6, <1>7, SMT DEF Inside, None, Box
  <1>9. ASSUME NEW ox \in 0 .. OutWidth - 1, NEW oy \in 0 .. OutHeight - 1,
               \/ In(d, source_x(ox, oy), source_y(ox, oy))
               \/ In(last_type7_dirty_bbox, source_x(ox, oy), source_y(ox, oy))
        PROVE  In(t, ox, oy)
    <2>1. /\ source_x(ox, oy) \in 0 .. Width - 1
          /\ source_y(ox, oy) \in 0 .. Height - 1
      BY <1>3, Sides
    <2>2. /\ source_x(ox, oy) \in Nat /\ source_y(ox, oy) \in Nat
          /\ ox \in Nat /\ oy \in Nat /\ ox < OutWidth /\ oy < OutHeight
      BY <1>5, <2>1, GeometryAssumption
    <2>3. In(r, ox, oy)  BY <1>1, <1>2, <1>4, <1>9, <2>1, <2>2, Zenon
    <2> QED BY <1>6, <1>7, <2>2, <2>3, Zenon
  <1> QED BY <1>1, <1>6, <1>7, <1>8, <1>9

LEMMA TileKeeps ==
    ASSUME GeometryInv, NEW d \in Box, SendTile(d)
    PROVE  GeometryInv'
  <1> DEFINE c == clamped_dirty_bbox(d)
  <1>1. /\ c # None /\ dirty' = d /\ previous' = last_type7_dirty_bbox
        /\ last_type7_dirty_bbox' = c /\ rotation' = rotation /\ mode' = mode
        /\ tile' = type7_update_rect(rotate_bbox(
                      IF last_type7_dirty_bbox = None THEN c
                      ELSE union_bbox(c, last_type7_dirty_bbox)))
    BY Zenon DEF SendTile
  <1> HIDE DEF c
  <1>2. /\ Inside(c, Width, Height)
        /\ Inside(tile', OutWidth, OutHeight) /\ tile' # None
        /\ \A ox \in 0 .. OutWidth - 1, oy \in 0 .. OutHeight - 1 :
              \/ In(d, source_x(ox, oy), source_y(ox, oy))
              \/ In(last_type7_dirty_bbox, source_x(ox, oy), source_y(ox, oy))
              => In(tile', ox, oy)
    BY <1>1, TileOfChange, Zenon DEF c
  <1>3. /\ OutWidth' = OutWidth /\ OutHeight' = OutHeight
        /\ \A ox, oy : /\ source_x(ox, oy)' = source_x(ox, oy)
                       /\ source_y(ox, oy)' = source_y(ox, oy)
    BY <1>1, Zenon DEF OutWidth, OutHeight, source_x, source_y
  <1>4. TileCoversChange'
    BY <1>1, <1>2, <1>3, Zenon DEF TileCoversChange
  <1>5. ChangeHasTile'  BY <1>2, Zenon DEF ChangeHasTile
  <1> QED BY <1>1, <1>2, <1>3, <1>4, <1>5, Zenon DEF GeometryInv

LEMMA FullKeeps ==
    ASSUME GeometryInv, NEW d \in Box, SendFull(d)
    PROVE  GeometryInv'
  BY Zenon DEF SendFull, GeometryInv, ChangeHasTile, TileCoversChange

LEMMA StutterKeeps ==
    ASSUME GeometryInv, UNCHANGED vars
    PROVE  GeometryInv'
  BY Zenon DEF vars, GeometryInv, ChangeHasTile, TileCoversChange, OutWidth, OutHeight,
               source_x, source_y

LEMMA NextGeometry == GeometryInv /\ [Next]_vars => GeometryInv'
  <1>1. Dirty \subseteq Box  BY GeometryAssumption
  <1> QED BY <1>1, TileKeeps, FullKeeps, StutterKeeps DEF Next

LEMMA AlwaysGeometry == Spec => []GeometryInv
  BY InitGeometry, NextGeometry, PTL DEF Spec

(* Every output pixel that shows a pixel changed by the frame or by the one
   before is inside the tile type7_update_rect gives, for every size of the
   frame, every grid, rotation and mode.                                    *)
THEOREM TilesCoverChanges == Spec => []TileCoversChange
  <1>1. GeometryInv => TileCoversChange  BY DEF GeometryInv
  <1> QED BY <1>1, AlwaysGeometry, PTL

(* The early return of send_jpeg_type7_frame that sends nothing, because no
   tile was found for a change, is never taken.                             *)
THEOREM ChangesHaveTiles == Spec => []ChangeHasTile
  <1>1. GeometryInv => ChangeHasTile  BY DEF GeometryInv
  <1> QED BY <1>1, AlwaysGeometry, PTL

(* The crop.                                                                *)
LEMMA CropIsRight == GeometryInv => CropReadsTheTile
  <1> SUFFICES ASSUME GeometryInv,
                      NEW i \in 0 .. tile.w - 1, NEW j \in 0 .. tile.h - 1
               PROVE  /\ CropX(i, j) \in 0 .. Width - 1
                      /\ CropY(i, j) \in 0 .. Height - 1
                      /\ output_x(CropX(i, j), CropY(i, j)) = tile.x + i
                      /\ output_y(CropX(i, j), CropY(i, j)) = tile.y + j
    BY Zenon DEF CropReadsTheTile
  <1>1. /\ rotation \in Rotations /\ Width \in Nat /\ Height \in Nat
        /\ tile = None \/ Inside(tile, OutWidth, OutHeight)
    BY GeometryAssumption DEF GeometryInv
  <1> DEFINE ox == tile.x + i
             oy == tile.y + j
  <1>2. /\ ox \in Int /\ oy \in Int
        /\ 0 <= ox /\ ox < OutWidth /\ 0 <= oy /\ oy < OutHeight
    <2>1. tile # None
      BY SMT DEF None
    <2> QED BY <1>1, <2>1, Sides, SMT DEF Inside, Box
  <1>3. CropX(i, j) = source_x(ox, oy) /\ CropY(i, j) = source_y(ox, oy)
    BY Zenon DEF CropX, CropY, source_x, source_y
  <1> HIDE DEF ox, oy
  <1>4. /\ source_x(ox, oy) \in 0 .. Width - 1
        /\ source_y(ox, oy) \in 0 .. Height - 1
        /\ output_x(source_x(ox, oy), source_y(ox, oy)) = ox
        /\ output_y(source_x(ox, oy), source_y(ox, oy)) = oy
    BY <1>1, <1>2, Turns, SMT
  <1> QED BY <1>3, <1>4, Zenon DEF ox, oy

(* crop_rotated_bgra_bbox reads, without a check of its own, exactly the
   pixels that the rotation shows in the tile, all of them in the frame.    *)
THEOREM CropsReadTiles == Spec => []CropReadsTheTile
  BY CropIsRight, AlwaysGeometry, PTL

-----------------------------------------------------------------------------
(* Arithmetic with products.                                                *)

LEMMA Grows ==
    ASSUME NEW a \in Nat, NEW b \in Nat, NEW c \in Nat, a <= b
    PROVE  /\ a * c \in Nat /\ b * c \in Nat /\ c * a = a * c /\ a * c <= b * c
  OBVIOUS

LEMMA Cancels ==
    ASSUME NEW a \in Int, NEW b \in Int, NEW c \in Nat \ {0}, a * c < b * c
    PROVE  a < b
  <1>1. CASE a >= b
    <2>1. PICK n \in Nat : a = b + n
      BY <1>1
    <2>2. a * c = b * c + n * c /\ n * c \in Nat /\ b * c \in Int
      BY <2>1
    <2> QED BY <2>2
  <1> QED BY <1>1

LEMMA Evens ==
    ASSUME NEW a \in Int, NEW g \in Nat, g % 2 = 0
    PROVE  a * g \in Int /\ (a * g) % 2 = 0
  <1>1. PICK k \in Int : g = 2 * k
    OBVIOUS
  <1> DEFINE q == a * k
  <1>2. q \in Int /\ a * g = 2 * q
    BY <1>1
  <1> HIDE DEF q
  <1> QED BY <1>2

(* Rounding up to an even grid, and the rows of a plane.                    *)
LEMMA AlignedEven ==
    ASSUME NEW v \in Nat
    PROVE  /\ align_usize(v, Block) \in Nat /\ v <= align_usize(v, Block)
           /\ align_usize(v, Block) % 2 = 0 /\ align_usize(v, Block) < v + Block
           /\ align_usize(v, Block) = ((v + Block - 1) \div Block) * Block
           /\ (v + Block - 1) \div Block \in Nat
  <1> DEFINE q == (v + Block - 1) \div Block
             r == q * Block
  <1>0. Block \in Nat \ {0} /\ Block % 2 = 0
    BY GeometryAssumption
  <1>1. v + Block - 1 \in Nat
    BY <1>0
  <1>2. q \in Nat /\ r \in Nat /\ r <= v + Block - 1
    BY <1>0, <1>1, Product
  <1>3. align_usize(v, Block) = r
    BY DEF align_usize
  <1>4. align_usize(v, Block) \in Nat /\ v <= align_usize(v, Block)
    BY <1>0, Aligned
  <1>5. r % 2 = 0
    BY <1>0, <1>2, Evens
  <1> HIDE DEF q, r
  <1>6. r < v + Block
    BY <1>0, <1>2
  <1> QED BY <1>2, <1>3, <1>4, <1>5, <1>6 DEF q, r

(* A tile inside the output stays inside the planes.                        *)
LEMMA PlanesHold ==
    ASSUME rotation \in Rotations, tile = None \/ Inside(tile, OutWidth, OutHeight)
    PROVE  TileFitsPlanes
  <1> SUFFICES ASSUME tile # None PROVE TileFitsPlanes
    BY DEF TileFitsPlanes
  <1> DEFINE x == tile.x
             y == tile.y
             w == tile.w
             h == tile.h
             P == Pitch
             n == (OutHeight + Block - 1) \div Block
             k == (OutWidth + Block - 1) \div Block
             H == align_usize(OutHeight, Block)
  <1>1. /\ OutWidth \in Nat /\ OutHeight \in Nat /\ Block \in Nat /\ HeaderGap \in Nat
        /\ x \in Nat /\ y \in Nat /\ w \in Nat \ {0} /\ h \in Nat \ {0}
        /\ x + w <= OutWidth /\ y + h <= OutHeight
    BY Sides, GeometryAssumption DEF Inside, Box
  <1>2. P \in Nat /\ OutWidth <= P /\ P = k * Block /\ k \in Nat
    BY <1>1, AlignedEven DEF Pitch
  <1>3. H \in Nat /\ OutHeight <= H /\ H % 2 = 0 /\ H = n * Block /\ n \in Nat
    BY <1>1, AlignedEven
  <1>4. base1 = HeaderGap + k * n * (Block * Block)
    BY DEF base1, base0
  <1> HIDE DEF k, n, H, P
  <1>5. k * n * (Block * Block) = P * H
    <2>1. k * n * (Block * Block) = (k * Block) * (n * Block)
      BY <1>1, <1>2, <1>3
    <2> QED BY <1>2, <1>3, <2>1
  <1>6. base1 = HeaderGap + P * H /\ P * H \in Nat
    BY <1>2, <1>3, <1>4, <1>5
  <1> HIDE DEF x, y, w, h
  <1>7. P * y + P * (h - 1) + P <= P * H
    <2>1. y + h <= H /\ y + h \in Nat
      BY <1>1, <1>3
    <2>2. (y + h) * P <= H * P
      BY <1>2, <1>3, <2>1, Grows
    <2>3. (y + h) * P = P * y + P * (h - 1) + P /\ H * P = P * H
      BY <1>1, <1>2, <1>3
    <2> QED BY <2>2, <2>3
  <1>8. plane0 + P * (h - 1) + w <= base1
    <2>1. plane0 = HeaderGap + P * y + x
      BY DEF plane0, base0, P, x, y
    <2>2. P * y \in Int /\ P * (h - 1) \in Int
      BY <1>1, <1>2
    <2> QED BY <1>1, <1>2, <1>6, <1>7, <2>1, <2>2
  <1> DEFINE a == y \div 2
             b == (h + 1) \div 2
             c == H \div 2
             e == (x \div 2) * 2
  <1>9. /\ a \in Nat /\ b \in Nat \ {0} /\ c \in Nat /\ a + b <= c /\ H = 2 * c
        /\ e \in Nat /\ e <= x
    BY <1>1, <1>3
  <1>10. plane1 = base1 + a * P + e
    BY DEF plane1, P, x, y
  <1> HIDE DEF a, b, c, e
  <1>11. (P * H) \div 2 = c * P
    <2> DEFINE q == c * P
    <2>1. q \in Nat /\ P * H = 2 * q
      BY <1>2, <1>9
    <2> HIDE DEF q
    <2> QED BY <2>1 DEF q
  <1>12. a * P + P * (b - 1) + P <= c * P
    <2>1. (a + b) * P <= c * P
      BY <1>2, <1>9, Grows
    <2>2. (a + b) * P = a * P + P * (b - 1) + P
      BY <1>2, <1>9
    <2> QED BY <2>1, <2>2
  <1>13. plane1 + P * (b - 1) + w <= base1 + (base1 - HeaderGap) \div 2
    <2>1. base1 - HeaderGap = P * H /\ base1 \in Int
      BY <1>1, <1>6
    <2>2. a * P \in Int /\ P * (b - 1) \in Int /\ c * P \in Int
      BY <1>2, <1>9
    <2> QED BY <1>1, <1>2, <1>9, <1>10, <1>11, <1>12, <2>1, <2>2
  <1> QED BY <1>8, <1>13 DEF TileFitsPlanes, P, h, w, b, base0

-----------------------------------------------------------------------------
(* A tile starts on an even row and column if the sides and the grid are even. *)
EvenGrid == Width % 2 = 0 /\ Height % 2 = 0 /\ Grain % 2 = 0

LEMMA StartIsEven ==
    ASSUME NEW p \in Nat, NEW n \in Nat \ {0}, NEW size \in Nat, p + n <= size,
           size % 2 = 0, Grain % 2 = 0
    PROVE  Start(p, n, size) % 2 = 0
  <1>1. Grain \in Nat \ {0}
    BY GeometryAssumption
  <1>2. Left(p) % 2 = 0
    <2>1. SubSat(p, 1) \in Nat
      BY DEF SubSat
    <2>2. SubSat(p, 1) \div Grain \in Nat
      BY <1>1, <2>1, Product
    <2> QED BY <1>1, <2>2, Evens DEF Left
  <1>3. Left(p) \in Nat /\ Right(p, n, size) \in Nat
    BY Edges
  <1> DEFINE l == Left(p)
             r == Right(p, n, size)
  <1>4. Start(p, n, size) = IF r - l < Grain /\ r = size THEN SubSat(l, Grain - (r - l)) ELSE l
    BY DEF Start
  <1> HIDE DEF l, r
  <1>5. l \in Nat /\ r \in Nat /\ l % 2 = 0
    BY <1>2, <1>3 DEF l, r
  <1>6. CASE r - l < Grain /\ r = size
    <2>1. Start(p, n, size) = IF Grain - (r - l) <= l THEN l - (Grain - (r - l)) ELSE 0
      BY <1>4, <1>6 DEF SubSat
    <2>2. l - (Grain - (r - l)) = size - Grain
      BY <1>1, <1>5, <1>6
    <2>3. (size - Grain) % 2 = 0
      BY <1>1
    <2> QED BY <2>1, <2>2, <2>3
  <1>7. CASE ~(r - l < Grain /\ r = size)
    BY <1>4, <1>5, <1>7
  <1> QED BY <1>6, <1>7

LEMMA TileIsEven ==
    ASSUME NEW b, Inside(b, OutWidth, OutHeight), OutWidth \in Nat, OutHeight \in Nat,
           mode \in Modes, EvenGrid
    PROVE  type7_update_rect(b).x % 2 = 0 /\ type7_update_rect(b).y % 2 = 0
  <1> DEFINE l == align_type7_rect_32(b)
             t == type7_update_rect(b)
             horizontal == [x |-> 0, y |-> l.y, w |-> OutWidth, h |-> l.h]
             vertical   == [x |-> l.x, y |-> 0, w |-> l.w, h |-> OutHeight]
  <1>1. /\ b.x \in Nat /\ b.y \in Nat /\ b.w \in Nat \ {0} /\ b.h \in Nat \ {0}
        /\ b.x + b.w <= OutWidth /\ b.y + b.h <= OutHeight
    BY DEF Inside, Box
  <1>2. OutWidth % 2 = 0 /\ OutHeight % 2 = 0 /\ Grain % 2 = 0
    BY DEF EvenGrid, OutWidth, OutHeight
  <1>3. Start(b.x, b.w, OutWidth) % 2 = 0 /\ Start(b.y, b.h, OutHeight) % 2 = 0
    BY <1>1, <1>2, StartIsEven
  <1>4. l = None \/ (l.x = Start(b.x, b.w, OutWidth) /\ l.y = Start(b.y, b.h, OutHeight))
    BY DEF align_type7_rect_32
  <1>5. l.x % 2 = 0 /\ l.y % 2 = 0
    BY <1>3, <1>4 DEF None
  <1> HIDE DEF l
  <1>6. t \in {None, l, horizontal, vertical}
    BY Zenon DEF type7_update_rect, Modes, l
  <1> HIDE DEF t
  <1>7. t.x % 2 = 0 /\ t.y % 2 = 0
    BY <1>5, <1>6 DEF None
  <1> QED BY <1>7 DEF t

-----------------------------------------------------------------------------
(* The words of the headers hold the sides they are given.                  *)
SidesFit == Width + Block <= Half /\ Height + Block <= Half

LEMMA Words ==
    ASSUME NEW a \in Nat, NEW b \in Nat, a < Half
    PROVE  (b * Half + a) % Half = a /\ (b * Half + a) \div Half = b
  BY DEF Half

(* A tile that starts at an even place lands where the setup has the picture. *)
Lands(s, t, x, y) ==
    /\ t.video_type = 7 /\ s.video_type = 4
    /\ t.image_format = s.image_format
    /\ \A i \in 0 .. t.width_field - 1, j \in 0 .. t.height_field - 1 :
          /\ x + i < OutWidth /\ y + j < OutHeight
          /\ LumaAt(t, t.canvas_width, i, j) = LumaAt(s, s.width_field, x + i, y + j)
          /\ ChromaAt(t, t.canvas_width, i, j) = ChromaAt(s, s.width_field, x + i, y + j)

LEMMA PartLands ==
    ASSUME NEW x \in Nat, NEW y \in Nat, NEW w \in Nat, NEW h \in Nat,
           OutWidth \in Nat, OutHeight \in Nat,
           x + w <= OutWidth, y + h <= OutHeight, x % 2 = 0, y % 2 = 0,
           OutWidth + Block <= Half, NEW p0, NEW p1,
           p0 = base0 + canvas_width * y + x,
           p1 = base1 + (y \div 2) * canvas_width + (x \div 2) * 2,
           base0 \in Int, base1 \in Int
    PROVE  Lands(parse_video_header(SetupPacket(0, 1)),
                 parse_video_header(Type7JpegTileHeader(0, 2, w, h, canvas_width, canvas_height,
                                                        p0, p1, 0)), x, y)
  <1> DEFINE C == canvas_width
             sw == SetupPacket(0, 1)
             tw == Type7JpegTileHeader(0, 2, w, h, C, canvas_height, p0, p1, 0)
             s == parse_video_header(sw)
             t == parse_video_header(tw)
  <1>1. C \in Nat /\ C < Half /\ canvas_height = C /\ w < Half /\ Block \in Nat
    <2>1. C \in Nat /\ C < OutWidth + Block /\ OutWidth <= C
      BY AlignedEven DEF canvas_width
    <2>2. canvas_height = C /\ Block \in Nat /\ Half \in Nat
      BY GeometryAssumption DEF canvas_width, canvas_height, Half
    <2> HIDE DEF C
    <2> QED BY <2>1, <2>2
  <1>2. /\ sw = <<4, 0, 1, 6, canvas_height * Half + C, base0, base1, 0, VIDEO_COLOR_JPEG, 0, 0, 0>>
        /\ tw = <<7, 0, 2, 6, h * Half + w, canvas_height * Half + C, p0, p1, 0, VIDEO_COLOR_JPEG, 0, 0>>
    BY DEF SetupPacket, Type4Mode6SetupHeader, Type7JpegTileHeader
  <1> HIDE DEF sw, tw, C
  <1>3. /\ sw[1] = 4 /\ sw[5] = canvas_height * Half + C /\ sw[6] = base0 /\ sw[7] = base1
        /\ sw[9] = VIDEO_COLOR_JPEG
        /\ tw[1] = 7 /\ tw[5] = h * Half + w /\ tw[6] = canvas_height * Half + C
        /\ tw[7] = p0 /\ tw[8] = p1 /\ tw[10] = VIDEO_COLOR_JPEG
    BY <1>2
  <1>4. /\ s.video_type = 4 /\ s.image_format = VIDEO_COLOR_JPEG
        /\ s.start_addr = base0 /\ s.end_addr = base1
        /\ s.width_field = (canvas_height * Half + C) % Half
    BY <1>3 DEF parse_video_header
  <1>5. /\ t.video_type = 7 /\ t.image_format = VIDEO_COLOR_JPEG
        /\ t.start_addr = p0 /\ t.end_addr = p1
        /\ t.width_field = (h * Half + w) % Half /\ t.height_field = (h * Half + w) \div Half
        /\ t.canvas_width = (canvas_height * Half + C) % Half
    BY <1>3 DEF parse_video_header
  <1>6. s.width_field = C /\ t.canvas_width = C /\ t.width_field = w /\ t.height_field = h
    <2>1. (canvas_height * Half + C) % Half = C
      BY <1>1, Words
    <2>2. (h * Half + w) % Half = w /\ (h * Half + w) \div Half = h
      BY <1>1, Words
    <2> QED BY <1>4, <1>5, <2>1, <2>2
  <1> HIDE DEF s, t
  <1>7. ASSUME NEW i \in 0 .. w - 1, NEW j \in 0 .. h - 1
        PROVE  /\ x + i < OutWidth /\ y + j < OutHeight
               /\ p0 + j * C + i = base0 + (y + j) * C + (x + i)
               /\ p1 + (j \div 2) * C + (i \div 2) * 2
                     = base1 + ((y + j) \div 2) * C + ((x + i) \div 2) * 2
    <2>1. i \in Nat /\ j \in Nat /\ x + i < OutWidth /\ y + j < OutHeight
      OBVIOUS
    <2>2. (y + j) * C = C * y + j * C /\ C * y \in Int /\ j * C \in Int
      BY <1>1, <2>1
    <2>3. p0 + j * C + i = base0 + (y + j) * C + (x + i)
      <3>1. p0 = base0 + C * y + x
        BY DEF C
      <3> DEFINE u == C * y
                 v == j * C
      <3>2. u \in Int /\ v \in Int /\ p0 = base0 + u + x /\ (y + j) * C = u + v
        BY <2>2, <3>1
      <3> HIDE DEF u, v
      <3>3. p0 + v + i = base0 + (u + v) + (x + i)
        BY <2>1, <3>2
      <3> QED BY <3>2, <3>3 DEF v
    <2> DEFINE a == y \div 2
               b == j \div 2
    <2>4. (y + j) \div 2 = a + b /\ (x + i) \div 2 = x \div 2 + i \div 2 /\ a \in Nat /\ b \in Nat
      BY <2>1
    <2> HIDE DEF a, b
    <2>5. (a + b) * C = a * C + b * C /\ a * C \in Int /\ b * C \in Int
      BY <1>1, <2>4
    <2>6. p1 = base1 + a * C + (x \div 2) * 2
      BY DEF a, C
    <2>7. x \div 2 \in Int /\ i \div 2 \in Int
      BY <2>1
    <2>8. p1 + b * C + (i \div 2) * 2 = base1 + (a + b) * C + (x \div 2 + i \div 2) * 2
      BY <2>5, <2>6, <2>7
    <2> QED BY <2>1, <2>3, <2>4, <2>8 DEF b
  <1>8. Lands(s, t, x, y)
    <2>1. ASSUME NEW i \in 0 .. t.width_field - 1, NEW j \in 0 .. t.height_field - 1
          PROVE  /\ x + i < OutWidth /\ y + j < OutHeight
                 /\ LumaAt(t, t.canvas_width, i, j) = LumaAt(s, s.width_field, x + i, y + j)
                 /\ ChromaAt(t, t.canvas_width, i, j) = ChromaAt(s, s.width_field, x + i, y + j)
      <3>1. i \in 0 .. w - 1 /\ j \in 0 .. h - 1
        BY <1>6
      <3>2. /\ LumaAt(t, t.canvas_width, i, j) = p0 + j * C + i
            /\ LumaAt(s, s.width_field, x + i, y + j) = base0 + (y + j) * C + (x + i)
            /\ ChromaAt(t, t.canvas_width, i, j) = p1 + (j \div 2) * C + (i \div 2) * 2
            /\ ChromaAt(s, s.width_field, x + i, y + j)
                  = base1 + ((y + j) \div 2) * C + ((x + i) \div 2) * 2
        BY <1>4, <1>5, <1>6, Zenon DEF LumaAt, ChromaAt
      <3> QED BY <1>7, <3>1, <3>2, Zenon
    <2> QED BY <1>4, <1>5, <2>1, Zenon DEF Lands
  <1> QED BY <1>8 DEF s, t, sw, tw, C

LEMMA PictureHolds ==
    ASSUME SidesFit, rotation \in Rotations, tile = None \/ Inside(tile, OutWidth, OutHeight),
           EvenGrid => tile.x % 2 = 0 /\ tile.y % 2 = 0
    PROVE  TileLandsOnThePicture
  <1>1. TileFitsPlanes
    BY PlanesHold
  <1>2. ASSUME EvenGrid
        PROVE  /\ tile # None => Lands(parse_video_header(SetupPacket(0, 1)),
                                       parse_video_header(TilePacket(0, 2)), tile.x, tile.y)
               /\ tile = None => Lands(parse_video_header(SetupPacket(0, 1)),
                                       parse_video_header(CornerPacket(0, 2)), 0, 0)
    <2>1. /\ OutWidth \in Nat /\ OutHeight \in Nat /\ Block \in Nat /\ OutWidth + Block <= Half
      BY Sides, GeometryAssumption DEF SidesFit, OutWidth, OutHeight
    <2>2. base0 \in Int /\ base1 \in Int
      <3> DEFINE k == (OutWidth + Block - 1) \div Block
                 n == (OutHeight + Block - 1) \div Block
      <3>1. k \in Nat /\ n \in Nat
        BY <2>1, AlignedEven
      <3> HIDE DEF k, n
      <3>2. k * n * (Block * Block) \in Int /\ HeaderGap \in Int
        BY <2>1, <3>1, GeometryAssumption
      <3> QED BY <3>2 DEF base0, base1, k, n
    <2>3. ASSUME tile # None
          PROVE  Lands(parse_video_header(SetupPacket(0, 1)), parse_video_header(TilePacket(0, 2)), tile.x, tile.y)
      <3>1. /\ tile.x \in Nat /\ tile.y \in Nat /\ tile.w \in Nat /\ tile.h \in Nat
            /\ tile.x + tile.w <= OutWidth /\ tile.y + tile.h <= OutHeight
        BY <2>3 DEF Inside, Box
      <3>2. /\ plane0 = base0 + canvas_width * tile.y + tile.x
            /\ plane1 = base1 + (tile.y \div 2) * canvas_width + (tile.x \div 2) * 2
        BY DEF plane0, plane1, Pitch, canvas_width
      <3> QED BY <1>2, <2>1, <2>2, <3>1, <3>2, PartLands DEF TilePacket
    <2>4. Lands(parse_video_header(SetupPacket(0, 1)), parse_video_header(CornerPacket(0, 2)), 0, 0)
      <3>1. /\ Least(OutWidth, Corner) \in Nat /\ Least(OutHeight, Corner) \in Nat
            /\ 0 + Least(OutWidth, Corner) <= OutWidth /\ 0 + Least(OutHeight, Corner) <= OutHeight
        BY <2>1, CornerAssumption DEF Least
      <3>2. /\ base0 = base0 + canvas_width * 0 + 0
            /\ base1 = base1 + (0 \div 2) * canvas_width + (0 \div 2) * 2
        <4>1. canvas_width \in Nat
          BY <2>1, AlignedEven DEF canvas_width
        <4> QED BY <2>2, <4>1
      <3>3. 0 \in Nat /\ 0 % 2 = 0
        OBVIOUS
      <3> QED BY <2>1, <2>2, <3>1, <3>2, <3>3, PartLands DEF CornerPacket
    <2> QED BY <2>3, <2>4
  <1> QED BY <1>1, <1>2, Zenon DEF TileLandsOnThePicture, Lands, EvenGrid

-----------------------------------------------------------------------------
(* The summary of an update is a box around every pixel the update touches. *)

LEMMA LeastNat ==
    ASSUME NEW T \in SUBSET Nat, T # {}
    PROVE  \E n \in T : \A m \in T : n <= m
  <1> DEFINE R == {ss \in Nat \X Nat : ss[1] < ss[2]}
  <1>0. OpToRel(<, Nat) = R
    BY DEF OpToRel
  <1>1. IsWellFoundedOn(R, Nat)
    BY <1>0, NatLessThanWellFounded
  <1>2. PICK n \in T : \A m \in T : ~(<<m, n>> \in R)
    BY <1>1, WFMin
  <1>3. ASSUME NEW m \in T PROVE n <= m
    <2>1. ~(<<m, n>> \in R) /\ m \in Nat /\ n \in Nat
      BY <1>2
    <2>2. <<m, n>> \in Nat \X Nat /\ <<m, n>>[1] = m /\ <<m, n>>[2] = n
      BY <2>1
    <2>3. ~(<<m, n>>[1] < <<m, n>>[2])
      BY <2>1, <2>2, Zenon
    <2>4. ~(m < n)
      BY <2>2, <2>3, Zenon
    <2> QED BY <2>1, <2>4
  <1> QED BY <1>3

LEMMA Extremes ==
    ASSUME NEW N \in Nat, NEW S \in SUBSET (0 .. N), S # {}
    PROVE  /\ Min(S) \in S /\ \A v \in S : Min(S) <= v
           /\ Max(S) \in S /\ \A v \in S : v <= Max(S)
  <1>1. S \in SUBSET Nat
    OBVIOUS
  <1>2. \E n \in S : \A m \in S : n <= m
    BY <1>1, LeastNat
  <1>3. Min(S) \in S /\ \A v \in S : Min(S) <= v
    BY <1>2, Zenon DEF Min
  <1> DEFINE T == {N - v : v \in S}
  <1>4. T \in SUBSET Nat /\ T # {}
    <2>1. \A v \in S : N - v \in Nat
      OBVIOUS
    <2> QED BY <2>1
  <1>5. PICK n \in T : \A m \in T : n <= m
    BY <1>4, LeastNat
  <1>6. PICK x \in S : n = N - x
    BY <1>5
  <1>7. \A y \in S : x >= y
    <2> SUFFICES ASSUME NEW y \in S PROVE x >= y
      OBVIOUS
    <2>1. N - x <= N - y
      BY <1>5, <1>6
    <2> QED BY <1>1, <2>1
  <1>8. Max(S) \in S /\ \A y \in S : Max(S) >= y
    BY <1>6, <1>7, Zenon DEF Max
  <1>9. \A v \in S : v <= Max(S)
    BY <1>1, <1>8
  <1> QED BY <1>3, <1>8, <1>9

(* One axis, from parts of pixels to whole ones.                            *)
LEMMA Whole ==
    ASSUME NEW a \in Nat, NEW b \in Nat, a < b
    PROVE  /\ Floor(a) \in Nat /\ Ceil(b) \in Nat /\ Floor(a) < Ceil(b)
           /\ \A p \in Nat : a < (p + 1) * Parts => Floor(a) <= p
           /\ \A p \in Nat : p * Parts < b => p < Ceil(b)
  <1>0. Parts \in Nat \ {0} /\ b + Parts - 1 \in Nat
    BY UpdatesAssumption
  <1> DEFINE f == Floor(a)
             c == Ceil(b)
  <1>1. f \in Nat /\ f * Parts \in Nat /\ f * Parts <= a
    BY <1>0, Product DEF Floor
  <1>2. c \in Nat /\ c * Parts \in Nat /\ b + Parts - 1 < c * Parts + Parts
    BY <1>0, Product DEF Ceil
  <1> HIDE DEF f, c
  <1>3. b <= c * Parts
    <2> DEFINE q == c * Parts
    <2>1. q \in Nat /\ b + Parts - 1 < q + Parts
      BY <1>2
    <2> HIDE DEF q
    <2>2. b <= q
      BY <1>0, <2>1
    <2> QED BY <2>2 DEF q
  <1>4. f < c
    <2>1. f * Parts < c * Parts
      BY <1>1, <1>2, <1>3
    <2> QED BY <1>0, <1>1, <1>2, <2>1, Cancels
  <1>5. ASSUME NEW p \in Nat, a < (p + 1) * Parts PROVE f <= p
    <2>1. f * Parts < (p + 1) * Parts /\ p + 1 \in Int /\ f \in Int
      BY <1>0, <1>1, <1>5
    <2>2. f < p + 1
      BY <1>0, <2>1, Cancels
    <2> QED BY <1>1, <2>2
  <1>6. ASSUME NEW p \in Nat, p * Parts < b PROVE p < c
    <2>1. p * Parts < c * Parts /\ p \in Int /\ c \in Int
      BY <1>0, <1>2, <1>3, <1>6
    <2> QED BY <1>0, <2>1, Cancels
  <1> QED BY <1>1, <1>2, <1>4, <1>5, <1>6 DEF f, c

(* One axis of a set of rectangles: where they begin and where they end.    *)
LEMMA AxisOfAll ==
    ASSUME NEW N \in Nat, NEW A \in SUBSET (0 .. N), NEW B \in SUBSET (0 .. N),
           \E u \in A, v \in B : u < v
    PROVE  LET lo == Floor(Min(A))
               hi == Ceil(Max(B))
           IN  /\ lo \in Nat /\ hi \in Nat /\ lo < hi
               /\ \A u \in A, v \in B, p \in Nat :
                     u < (p + 1) * Parts /\ p * Parts < v => lo <= p /\ p < hi
  <1> DEFINE a == Min(A)
             b == Max(B)
  <1>1. a \in A /\ (\A u \in A : a <= u) /\ b \in B /\ \A v \in B : v <= b
    BY Extremes
  <1> HIDE DEF a, b
  <1>0. \A v \in 0 .. N : v \in Nat
    OBVIOUS
  <1>2. a \in Nat /\ b \in Nat
    BY <1>0, <1>1
  <1>3. \A u \in A, v \in B : a <= u /\ v <= b /\ u \in Nat /\ v \in Nat
    BY <1>0, <1>1
  <1>4. a < b
    BY <1>2, <1>3
  <1>5. /\ Floor(a) \in Nat /\ Ceil(b) \in Nat /\ Floor(a) < Ceil(b)
        /\ \A p \in Nat : a < (p + 1) * Parts => Floor(a) <= p
        /\ \A p \in Nat : p * Parts < b => p < Ceil(b)
    BY <1>2, <1>4, Whole
  <1>6. ASSUME NEW u \in A, NEW v \in B, NEW p \in Nat, u < (p + 1) * Parts, p * Parts < v
        PROVE  Floor(a) <= p /\ p < Ceil(b)
    <2>1. (p + 1) * Parts \in Nat /\ p * Parts \in Nat
      BY UpdatesAssumption
    <2>2. a < (p + 1) * Parts /\ p * Parts < b
      BY <1>2, <1>3, <1>6, <2>1
    <2> QED BY <1>5, <2>2
  <1> QED BY <1>5, <1>6 DEF a, b

Areas == [x1 : Int, y1 : Int, x2 : Int, y2 : Int]

(* What is left of a rectangle on one axis still touches the pixel.         *)
LEMMA Cut ==
    ASSUME NEW lo \in Int, NEW hi \in Int, NEW n \in Nat, NEW p \in 0 .. n - 1,
           lo < (p + 1) * Parts, p * Parts < hi, lo < hi
    PROVE  /\ Greatest(lo, 0) < Least(hi, n * Parts)
           /\ Greatest(lo, 0) < (p + 1) * Parts /\ p * Parts < Least(hi, n * Parts)
  <1>0. Parts \in Nat \ {0}
    BY UpdatesAssumption
  <1>1. p \in Nat /\ p + 1 <= n
    OBVIOUS
  <1>2. p * Parts \in Nat /\ (p + 1) * Parts = p * Parts + Parts
    BY <1>0, <1>1
  <1>3. (p + 1) * Parts <= n * Parts /\ n * Parts \in Nat
    BY <1>0, <1>1, Grows
  <1> DEFINE q == p * Parts
             m == n * Parts
  <1>4. /\ q \in Nat /\ m \in Nat /\ q + Parts <= m /\ lo < q + Parts /\ q < hi
        /\ (p + 1) * Parts = q + Parts
    BY <1>2, <1>3
  <1> HIDE DEF q, m
  <1>5. Greatest(lo, 0) < Least(hi, m) /\ Greatest(lo, 0) < q + Parts /\ q < Least(hi, m)
    BY <1>0, <1>4 DEF Greatest, Least
  <1> QED BY <1>4, <1>5 DEF q, m

LEMMA SummaryCovers ==
    ASSUME NEW u \in SUBSET Areas
    PROVE  /\ t6_vd_get_dirty_summary(u) \in Box
           /\ \A r \in u, px \in 0 .. Width - 1, py \in 0 .. Height - 1 :
                 r.x1 < r.x2 /\ r.y1 < r.y2 /\ Touches(r, px, py)
                     => In(t6_vd_get_dirty_summary(u), px, py)
  <1> DEFINE V == Visible(u)
             W == Width * Parts
             H == Height * Parts
             d == t6_vd_get_dirty_summary(u)
  <1>0. /\ Parts \in Nat \ {0} /\ Width \in Nat \ {0} /\ Height \in Nat \ {0}
        /\ W \in Nat /\ H \in Nat
    BY UpdatesAssumption, GeometryAssumption
  <1> HIDE DEF W, H
  <1>1. \A q \in V : /\ q.x1 \in 0 .. W /\ q.x2 \in 0 .. W /\ q.x1 < q.x2
                     /\ q.y1 \in 0 .. H /\ q.y2 \in 0 .. H /\ q.y1 < q.y2
    <2> SUFFICES ASSUME NEW q \in V
                 PROVE  /\ q.x1 \in 0 .. W /\ q.x2 \in 0 .. W /\ q.x1 < q.x2
                        /\ q.y1 \in 0 .. H /\ q.y2 \in 0 .. H /\ q.y1 < q.y2
      OBVIOUS
    <2>1. PICK r \in u : q = OnSurface(r) /\ q.x1 < q.x2 /\ q.y1 < q.y2
      BY DEF Visible
    <2>2. /\ q.x1 = Greatest(r.x1, 0) /\ q.x2 = Least(r.x2, W)
          /\ q.y1 = Greatest(r.y1, 0) /\ q.y2 = Least(r.y2, H)
      BY <2>1 DEF OnSurface, W, H
    <2>3. r.x1 \in Int /\ r.x2 \in Int /\ r.y1 \in Int /\ r.y2 \in Int
      BY DEF Areas
    <2> QED BY <1>0, <2>1, <2>2, <2>3 DEF Greatest, Least
  <1> DEFINE X1 == {q.x1 : q \in V}
             X2 == {q.x2 : q \in V}
             Y1 == {q.y1 : q \in V}
             Y2 == {q.y2 : q \in V}
  <1>2. CASE V = {}
    <2>1. d = None
      BY <1>2 DEF t6_vd_get_dirty_summary
    <2>2. d \in Box
      BY <2>1 DEF None, Box
    <2>3. ASSUME NEW r \in u, NEW px \in 0 .. Width - 1, NEW py \in 0 .. Height - 1,
                 r.x1 < r.x2, r.y1 < r.y2, Touches(r, px, py)
          PROVE  FALSE
      <3>1. r.x1 \in Int /\ r.x2 \in Int /\ r.y1 \in Int /\ r.y2 \in Int
        BY DEF Areas
      <3>2. OnSurface(r).x1 < OnSurface(r).x2 /\ OnSurface(r).y1 < OnSurface(r).y2
        BY <1>0, <2>3, <3>1, Cut DEF Touches, OnSurface
      <3>3. OnSurface(r) \in V
        BY <3>2 DEF Visible
      <3> QED BY <1>2, <3>3
    <2> QED BY <2>2, <2>3
  <1>3. CASE V # {}
    <2> DEFINE x == Floor(Min(X1))
               y == Floor(Min(Y1))
               x2 == Ceil(Max(X2))
               y2 == Ceil(Max(Y2))
    <2>1. d = [x |-> x, y |-> y, w |-> x2 - x, h |-> y2 - y]
      BY <1>3 DEF t6_vd_get_dirty_summary, Around
    <2>2. /\ X1 \in SUBSET (0 .. W) /\ X2 \in SUBSET (0 .. W) /\ \E a \in X1, b \in X2 : a < b
          /\ Y1 \in SUBSET (0 .. H) /\ Y2 \in SUBSET (0 .. H) /\ \E a \in Y1, b \in Y2 : a < b
      BY <1>1, <1>3
    <2>3. /\ x \in Nat /\ x2 \in Nat /\ x < x2
          /\ \A a \in X1, b \in X2, p \in Nat :
                a < (p + 1) * Parts /\ p * Parts < b => x <= p /\ p < x2
      BY <1>0, <2>2, AxisOfAll
    <2>4. /\ y \in Nat /\ y2 \in Nat /\ y < y2
          /\ \A a \in Y1, b \in Y2, p \in Nat :
                a < (p + 1) * Parts /\ p * Parts < b => y <= p /\ p < y2
      BY <1>0, <2>2, AxisOfAll
    <2> HIDE DEF x, y, x2, y2, d
    <2>5. d \in Box /\ d.x = x /\ d.y = y /\ d.x + d.w = x2 /\ d.y + d.h = y2
      BY <2>1, <2>3, <2>4 DEF Box
    <2>6. ASSUME NEW r \in u, NEW px \in 0 .. Width - 1, NEW py \in 0 .. Height - 1,
                 r.x1 < r.x2, r.y1 < r.y2, Touches(r, px, py)
          PROVE  In(d, px, py)
      <3> DEFINE q == OnSurface(r)
      <3>1. r.x1 \in Int /\ r.x2 \in Int /\ r.y1 \in Int /\ r.y2 \in Int
        BY DEF Areas
      <3>2. /\ q.x1 < q.x2 /\ q.x1 < (px + 1) * Parts /\ px * Parts < q.x2
            /\ q.y1 < q.y2 /\ q.y1 < (py + 1) * Parts /\ py * Parts < q.y2
        BY <1>0, <2>6, <3>1, Cut DEF Touches, OnSurface
      <3>3. q \in V
        BY <3>2 DEF Visible
      <3> HIDE DEF q
      <3>4. q.x1 \in X1 /\ q.x2 \in X2 /\ q.y1 \in Y1 /\ q.y2 \in Y2 /\ px \in Nat /\ py \in Nat
        BY <1>0, <3>3
      <3>5. x <= px /\ px < x2 /\ y <= py /\ py < y2
        BY <2>3, <2>4, <3>2, <3>4
      <3> QED BY <2>5, <3>5 DEF In
    <2> QED BY <2>5, <2>6 DEF d
  <1> QED BY <1>2, <1>3

-----------------------------------------------------------------------------
(* The place of a pixel in the output, and back.                            *)
LEMMA TurnsBack ==
    ASSUME rotation \in Rotations, NEW px \in 0 .. Width - 1, NEW py \in 0 .. Height - 1
    PROVE  LET ox == output_x(px, py)
               oy == output_y(px, py)
           IN  /\ ox \in 0 .. OutWidth - 1 /\ oy \in 0 .. OutHeight - 1
               /\ source_x(ox, oy) = px /\ source_y(ox, oy) = py
  <1>0. Width \in Nat /\ Height \in Nat /\ px \in Int /\ py \in Int
    BY GeometryAssumption
  <1>1. CASE rotation = "0"
    BY <1>0, <1>1 DEF OutWidth, OutHeight, output_x, output_y, source_x, source_y
  <1>2. CASE rotation = "90"
    BY <1>0, <1>2 DEF OutWidth, OutHeight, output_x, output_y, source_x, source_y
  <1>3. CASE rotation = "180"
    BY <1>0, <1>3 DEF OutWidth, OutHeight, output_x, output_y, source_x, source_y
  <1>4. CASE rotation = "270"
    BY <1>0, <1>4 DEF OutWidth, OutHeight, output_x, output_y, source_x, source_y
  <1> QED BY <1>1, <1>2, <1>3, <1>4 DEF Rotations

(* The inductive invariant of the frames: that of the geometry, an even tile
   on an even grid, and a tile that was cut for the last update.            *)
UpdateInv ==
    /\ GeometryInv
    /\ EvenGrid => tile.x % 2 = 0 /\ tile.y % 2 = 0
    /\ tile # None => update \in Updates /\ dirty = t6_vd_get_dirty_summary(update)

LEMMA InitUpdate == UpdateInit => UpdateInv
  <1> SUFFICES ASSUME UpdateInit PROVE UpdateInv
    OBVIOUS
  <1>1. Init /\ tile = None
    BY DEF UpdateInit, PictureInit, Init
  <1>2. None.x % 2 = 0 /\ None.y % 2 = 0
    BY DEF None
  <1> QED BY <1>1, <1>2, InitGeometry DEF UpdateInv

LEMMA NextUpdate == UpdateInv /\ [UpdateNext]_<<pictureVars, update>> => UpdateInv'
  <1> SUFFICES ASSUME UpdateInv, [UpdateNext]_<<pictureVars, update>> PROVE UpdateInv'
    OBVIOUS
  <1>1. ASSUME UNCHANGED <<vars, update>> PROVE UpdateInv'
    <2>1. GeometryInv'
      BY <1>1, StutterKeeps DEF UpdateInv
    <2>2. tile' = tile /\ dirty' = dirty /\ update' = update
      BY <1>1 DEF vars
    <2> QED BY <2>1, <2>2 DEF UpdateInv
  <1>2. ASSUME NEW u \in Updates, JpegFrame(u) PROVE UpdateInv'
    <2> DEFINE d == t6_vd_get_dirty_summary(u)
    <2>1. update' = u /\ (SendTile(d) \/ SendFull(d))
      BY <1>2 DEF JpegFrame, SendJpeg
    <2>2. d \in Box
      BY UpdatesAssumption, SummaryCovers DEF Areas
    <2> HIDE DEF d
    <2>3. CASE SendFull(d)
      <3>1. GeometryInv' /\ tile' = None
        BY <2>2, <2>3, FullKeeps DEF UpdateInv, SendFull
      <3>2. None.x % 2 = 0 /\ None.y % 2 = 0
        BY DEF None
      <3> QED BY <3>1, <3>2 DEF UpdateInv
    <2>4. CASE SendTile(d)
      <3>1. GeometryInv' /\ dirty' = d
        BY <2>2, <2>4, TileKeeps DEF UpdateInv, SendTile
      <3>2. ASSUME EvenGrid PROVE tile'.x % 2 = 0 /\ tile'.y % 2 = 0
        <4> DEFINE c == clamped_dirty_bbox(d)
                   box == IF last_type7_dirty_bbox = None THEN c
                          ELSE union_bbox(c, last_type7_dirty_bbox)
        <4>1. c # None /\ tile' = type7_update_rect(rotate_bbox(box))
          BY <2>4 DEF SendTile
        <4>2. /\ rotation \in Rotations /\ mode \in Modes
              /\ last_type7_dirty_bbox = None \/ Inside(last_type7_dirty_bbox, Width, Height)
          BY DEF UpdateInv, GeometryInv
        <4>3. Inside(c, Width, Height)
          BY <2>2, <4>1, Clamped, Zenon
        <4> HIDE DEF c
        <4>4. Inside(box, Width, Height)
          <5>1. last_type7_dirty_bbox # None => Inside(union_bbox(c, last_type7_dirty_bbox), Width, Height)
            BY <4>2, <4>3, United, Zenon
          <5> QED BY <4>3, <5>1
        <4> HIDE DEF box
        <4>5. Inside(rotate_bbox(box), OutWidth, OutHeight)
          BY <4>2, <4>4, Rotated, Zenon
        <4>6. OutWidth \in Nat /\ OutHeight \in Nat
          BY <4>2, Sides
        <4> QED BY <3>2, <4>1, <4>2, <4>5, <4>6, TileIsEven
      <3> QED BY <2>1, <3>1, <3>2 DEF UpdateInv, d
    <2> QED BY <2>1, <2>3, <2>4
  <1>3. UNCHANGED <<pictureVars, update>> => UNCHANGED <<vars, update>>
    BY DEF pictureVars
  <1>4. RawFrame \/ RefusedFrame => UNCHANGED <<vars, update>>
    BY DEF RawFrame, RefusedFrame, SendRaw, Refuse
  <1> QED BY <1>1, <1>2, <1>3, <1>4 DEF UpdateNext

LEMMA AlwaysUpdate == UpdateSpec => []UpdateInv
  BY InitUpdate, NextUpdate, PTL DEF UpdateSpec

(* The frames of the updates are those of the geometry: what is proved of one
   tile holds of every tile an update is sent as.                           *)
THEOREM FramesCoverChanges == UpdateSpec => [](TileCoversChange /\ ChangeHasTile /\ CropReadsTheTile)
  <1>1. UpdateInv => TileCoversChange /\ ChangeHasTile /\ CropReadsTheTile
    BY CropIsRight DEF UpdateInv, GeometryInv
  <1> QED BY <1>1, AlwaysUpdate, PTL

(* UpdateLandsOnThePicture: for every size of frame whose sides fit the header
   words, every grid, rotation, mode and update, a pixel that the capture
   framework reports with a fraction of it is in the tile that is sent, and the
   samples of the tile fall on those of the picture the setup has placed.   *)
THEOREM UpdatesLand == SidesFit => (UpdateSpec => []UpdateLandsOnThePicture)
  <1> SUFFICES ASSUME SidesFit PROVE UpdateSpec => []UpdateLandsOnThePicture
    OBVIOUS
  <1>1. UpdateInv => UpdateLandsOnThePicture
    <2> SUFFICES ASSUME UpdateInv PROVE UpdateLandsOnThePicture
      OBVIOUS
    <2>0. /\ rotation \in Rotations
          /\ tile = None \/ Inside(tile, OutWidth, OutHeight)
          /\ EvenGrid => tile.x % 2 = 0 /\ tile.y % 2 = 0
          /\ TileCoversChange
      BY DEF UpdateInv, GeometryInv
    <2>1. TileLandsOnThePicture
      BY <2>0, PictureHolds
    <2>2. ASSUME tile # None, NEW r \in update, NEW px \in 0 .. Width - 1, NEW py \in 0 .. Height - 1,
                 r.x1 < r.x2, r.y1 < r.y2, Touches(r, px, py)
          PROVE  In(tile, output_x(px, py), output_y(px, py))
      <3>1. update \in SUBSET Areas /\ dirty = t6_vd_get_dirty_summary(update)
        BY <2>2, UpdatesAssumption DEF UpdateInv, Areas
      <3>2. In(dirty, px, py)
        BY <2>2, <3>1, SummaryCovers
      <3> DEFINE ox == output_x(px, py)
                 oy == output_y(px, py)
      <3>3. /\ ox \in 0 .. OutWidth - 1 /\ oy \in 0 .. OutHeight - 1
            /\ source_x(ox, oy) = px /\ source_y(ox, oy) = py
        BY <2>0, TurnsBack
      <3> HIDE DEF ox, oy
      <3>4. In(tile, ox, oy)
        BY <2>0, <2>2, <3>2, <3>3, Zenon DEF TileCoversChange
      <3> QED BY <3>4 DEF ox, oy
    <2> QED BY <2>1, <2>2, Zenon DEF UpdateLandsOnThePicture
  <1> QED BY <1>1, AlwaysUpdate, PTL

-----------------------------------------------------------------------------
(* Places in rows: a * n + b with b < n.                                    *)
LEMMA Place ==
    ASSUME NEW a \in Nat, NEW b \in Nat, NEW m \in Nat, NEW n \in Nat, a < m, b < n
    PROVE  a * n \in Nat /\ m * n \in Nat /\ a * n + b < m * n
  <1>1. a + 1 <= m /\ a + 1 \in Nat
    OBVIOUS
  <1>2. (a + 1) * n \in Nat /\ m * n \in Nat /\ (a + 1) * n <= m * n
    BY <1>1, Grows
  <1>3. (a + 1) * n = a * n + n /\ a * n \in Nat
    OBVIOUS
  <1> QED BY <1>2, <1>3

LEMMA SamePlace ==
    ASSUME NEW a \in Nat, NEW b \in Nat, NEW c \in Nat, NEW d \in Nat, NEW n \in Nat,
           b < n, d < n, a * n + b = c * n + d
    PROVE  a = c /\ b = d
  <1>0. a * n \in Nat /\ c * n \in Nat
    OBVIOUS
  <1>1. CASE a < c
    <2>1. a * n + b < c * n
      BY <1>1, Place
    <2> QED BY <1>0, <2>1
  <1>2. CASE c < a
    <2>1. c * n + d < a * n
      BY <1>2, Place
    <2> QED BY <1>0, <2>1
  <1>3. CASE a = c
    BY <1>0, <1>3
  <1> QED BY <1>1, <1>2, <1>3

LEMMA Quotient ==
    ASSUME NEW a \in Nat, NEW b \in Nat, NEW n \in Nat, b < n
    PROVE  (a * n + b) \div n = a /\ (a * n + b) % n = b
  <1> DEFINE v == a * n + b
             q == v \div n
             r == v % n
  <1>1. v \in Nat /\ n \in Nat \ {0}
    OBVIOUS
  <1> HIDE DEF v
  <1>2. q \in Nat /\ r \in Nat /\ r < n /\ v = q * n + r
    BY <1>1
  <1> HIDE DEF q, r
  <1>3. a = q /\ b = r
    BY <1>2, SamePlace DEF v
  <1> QED BY <1>3 DEF q, r, v

-----------------------------------------------------------------------------
(* What a buffer holds at a place that a loop has stored to, if whatever is
   stored there is the same.                                                *)
Holds(stores, i, v) == /\ \E s \in stores : s[1] = i
                       /\ \A s \in stores : s[1] = i => s[2] = v

LEMMA StoredAt ==
    ASSUME NEW size \in Nat, NEW other, NEW stores, NEW i \in Nat, i < size, NEW v,
           Holds(stores, i, v)
    PROVE  i \in DOMAIN Stored(size, other, stores) /\ Stored(size, other, stores)[i] = v
  <1>1. i \in 0 .. size - 1
    OBVIOUS
  <1> DEFINE c == CHOOSE s \in stores : s[1] = i
  <1>2. c \in stores /\ c[1] = i
    BY Zenon DEF Holds
  <1>3. c[2] = v
    BY <1>2, Zenon DEF Holds
  <1> HIDE DEF c
  <1>4. Stored(size, other, stores)[i] = c[2]
    BY <1>1 DEF Stored, c, Holds
  <1> QED BY <1>1, <1>3, <1>4 DEF Stored

-----------------------------------------------------------------------------
(* The sides of the output, and the pitches.                                *)
LEMMA OutputPlace ==
    ASSUME rotation \in Rotations, NEW ox \in Columns, NEW oy \in Rows
    PROVE  LET sx == source_x(ox, oy)
               sy == source_y(ox, oy)
           IN  /\ sx \in 0 .. Width - 1 /\ sy \in 0 .. Height - 1
               /\ output_x(sx, sy) = ox /\ output_y(sx, sy) = oy
  <1>0. Width \in Nat /\ Height \in Nat
    BY GeometryAssumption
  <1>1. CASE rotation = "0"
    BY <1>0, <1>1 DEF Columns, Rows, OutWidth, OutHeight, output_x, output_y, source_x, source_y
  <1>2. CASE rotation = "90"
    BY <1>0, <1>2 DEF Columns, Rows, OutWidth, OutHeight, output_x, output_y, source_x, source_y
  <1>3. CASE rotation = "180"
    BY <1>0, <1>3 DEF Columns, Rows, OutWidth, OutHeight, output_x, output_y, source_x, source_y
  <1>4. CASE rotation = "270"
    BY <1>0, <1>4 DEF Columns, Rows, OutWidth, OutHeight, output_x, output_y, source_x, source_y
  <1> QED BY <1>1, <1>2, <1>3, <1>4 DEF Rotations

LEMMA Pitches ==
    ASSUME rotation \in Rotations
    PROVE  /\ OutWidth \in Nat /\ OutHeight \in Nat /\ y_pitch \in Nat /\ OutWidth <= y_pitch
           /\ yv12_uv_pitch \in Nat /\ OutWidth \div 2 <= yv12_uv_pitch
           /\ OutWidth * OutHeight = Width * Height
           /\ y_size = OutHeight * y_pitch /\ y_size \in Nat
           /\ \A ox \in Columns, oy \in Rows : /\ ox \in Nat /\ oy \in Nat
                                               /\ ox < OutWidth /\ oy < OutHeight
  <1>0. Width \in Nat /\ Height \in Nat
    BY GeometryAssumption
  <1>1. OutWidth \in Nat /\ OutHeight \in Nat /\ OutWidth * OutHeight = Width * Height
    BY <1>0 DEF OutWidth, OutHeight
  <1>2. y_pitch \in Nat /\ OutWidth <= y_pitch
    BY <1>1, AlignedEven DEF y_pitch
  <1>3. OutWidth \div 2 \in Nat
    BY <1>1
  <1>4. yv12_uv_pitch \in Nat /\ OutWidth \div 2 <= yv12_uv_pitch
    BY <1>3, AlignedEven DEF yv12_uv_pitch
  <1>5. y_size = OutHeight * y_pitch /\ y_size \in Nat
    BY <1>1, <1>2 DEF y_size
  <1> QED BY <1>1, <1>2, <1>4, <1>5 DEF Columns, Rows

(* The block of four pixels an output pixel shares its chroma with.         *)
Four(x, y) == {Source(x + dx, y + dy) : dx, dy \in {0, 1}}

BlockOf(ox, oy) ==
    LET bx == ox - (ox % 2)
        by == oy - (oy % 2)
    IN  {p \in (0 .. Width - 1) \X (0 .. Height - 1) :
            /\ output_x(p[1], p[2]) \in {bx, bx + 1}
            /\ output_y(p[1], p[2]) \in {by, by + 1}}

LEMMA Blocks ==
    ASSUME rotation \in Rotations, EvenSides, NEW ox \in Columns, NEW oy \in Rows
    PROVE  LET bx == ox - (ox % 2)
               by == oy - (oy % 2)
           IN  /\ bx \in EvenColumns /\ by \in EvenRows /\ bx + 1 \in Columns /\ by + 1 \in Rows
               /\ bx = (ox \div 2) * 2 /\ bx \div 2 = ox \div 2 /\ by \div 2 = oy \div 2
               /\ by = (oy \div 2) * 2
               /\ Four(bx, by) = BlockOf(ox, oy)
  <1> DEFINE bx == ox - (ox % 2)
             by == oy - (oy % 2)
             S == {Source(bx + dx, by + dy) : dx, dy \in {0, 1}}
             T == {p \in (0 .. Width - 1) \X (0 .. Height - 1) :
                      /\ output_x(p[1], p[2]) \in {bx, bx + 1}
                      /\ output_y(p[1], p[2]) \in {by, by + 1}}
  <1>0. OutWidth \in Nat /\ OutHeight \in Nat /\ ox \in Nat /\ oy \in Nat /\ ox < OutWidth /\ oy < OutHeight
    BY Pitches
  <1>1. /\ bx \in EvenColumns /\ by \in EvenRows /\ bx + 1 \in Columns /\ by + 1 \in Rows
        /\ bx = (ox \div 2) * 2 /\ bx \div 2 = ox \div 2 /\ by \div 2 = oy \div 2
        /\ by = (oy \div 2) * 2
    BY <1>0 DEF EvenSides, EvenColumns, EvenRows, Columns, Rows
  <1>2. bx \in Columns /\ by \in Rows /\ bx \in Nat /\ by \in Nat
    BY <1>1, Pitches DEF EvenColumns, EvenRows
  <1> HIDE DEF bx, by, S, T
  <1>3. ASSUME NEW p \in S PROVE p \in T
    <2>1. PICK dx \in {0, 1}, dy \in {0, 1} : p = Source(bx + dx, by + dy)
      BY <1>3 DEF S
    <2>2. bx + dx \in Columns /\ by + dy \in Rows /\ bx + dx \in {bx, bx + 1} /\ by + dy \in {by, by + 1}
      BY <1>1, <1>2
    <2> DEFINE x == bx + dx
               y == by + dy
    <2> HIDE DEF x, y
    <2>3. x \in Columns /\ y \in Rows /\ x \in {bx, bx + 1} /\ y \in {by, by + 1}
      BY <2>2 DEF x, y
    <2>4. /\ source_x(x, y) \in 0 .. Width - 1 /\ source_y(x, y) \in 0 .. Height - 1
          /\ output_x(source_x(x, y), source_y(x, y)) = x /\ output_y(source_x(x, y), source_y(x, y)) = y
      BY <2>3, OutputPlace
    <2>5. p = <<source_x(x, y), source_y(x, y)>> /\ p[1] = source_x(x, y) /\ p[2] = source_y(x, y)
      BY <2>1 DEF Source, x, y
    <2>6. p \in (0 .. Width - 1) \X (0 .. Height - 1)
      BY <2>4, <2>5
    <2>7. output_x(p[1], p[2]) = x /\ output_y(p[1], p[2]) = y
      <3> DEFINE u == p[1]
                 v == p[2]
      <3>1. u = source_x(x, y) /\ v = source_y(x, y)
        BY <2>5
      <3> HIDE DEF u, v
      <3>2. output_x(u, v) = x /\ output_y(u, v) = y
        BY <2>4, <3>1, Zenon
      <3> QED BY <3>2 DEF u, v
    <2> QED BY <2>3, <2>6, <2>7 DEF T
  <1>4. ASSUME NEW p \in T PROVE p \in S
    <2> DEFINE a == output_x(p[1], p[2])
               b == output_y(p[1], p[2])
    <2>1. p[1] \in 0 .. Width - 1 /\ p[2] \in 0 .. Height - 1 /\ p = <<p[1], p[2]>>
      BY DEF T
    <2>2. a \in {bx, bx + 1} /\ b \in {by, by + 1}
      BY <1>4 DEF T
    <2>3. source_x(a, b) = p[1] /\ source_y(a, b) = p[2]
      BY <2>1, TurnsBack
    <2> HIDE DEF a, b
    <2>4. Source(a, b) = p
      BY <2>1, <2>3 DEF Source
    <2>5. \E dx \in {0, 1}, dy \in {0, 1} : a = bx + dx /\ b = by + dy
      BY <1>2, <2>2
    <2> QED BY <2>4, <2>5 DEF S
  <1>5. S = T
    BY <1>3, <1>4
  <1>6. Four(bx, by) = S /\ BlockOf(ox, oy) = T
    <2>1. Four(bx, by) = S
      BY DEF Four, S
    <2>2. BlockOf(ox, oy) = T
      BY Zenon DEF BlockOf, T, bx, by
    <2> QED BY <2>1, <2>2
  <1> QED BY <1>1, <1>5, <1>6 DEF bx, by

-----------------------------------------------------------------------------
(* The planes.                                                              *)
LEMMA LumaHolds ==
    ASSUME rotation \in Rotations, NEW ox \in Columns, NEW oy \in Rows
    PROVE  LET i == oy * y_pitch + ox
           IN  /\ i \in Nat /\ i < y_size /\ \E s \in LumaStores : s[1] = i
               /\ \A s \in LumaStores : /\ s[1] \in Nat /\ s[1] < y_size
                                        /\ s[1] = i => s[2] = OfPixel("Y", ox, oy)
  <1>0. /\ OutWidth \in Nat /\ OutHeight \in Nat /\ y_pitch \in Nat /\ OutWidth <= y_pitch
        /\ y_size = OutHeight * y_pitch
        /\ \A x \in Columns, y \in Rows : x \in Nat /\ y \in Nat /\ x < y_pitch /\ y < OutHeight
    <2>1. OutWidth \in Nat /\ y_pitch \in Nat /\ OutWidth <= y_pitch
      BY Pitches
    <2> QED BY <2>1, Pitches
  <1>1. \A x \in Columns, y \in Rows : y * y_pitch + x \in Nat /\ y * y_pitch + x < y_size
    BY <1>0, Place
  <1>2. \E s \in LumaStores : s[1] = oy * y_pitch + ox
    <2>1. <<oy * y_pitch + ox, OfPixel("Y", ox, oy)>> \in LumaStores
      BY SMT DEF LumaStores
    <2>2. <<oy * y_pitch + ox, OfPixel("Y", ox, oy)>>[1] = oy * y_pitch + ox
      OBVIOUS
    <2> QED BY <2>1, <2>2, Zenon
  <1>3. ASSUME NEW s \in LumaStores
        PROVE  /\ s[1] \in Nat /\ s[1] < y_size
               /\ s[1] = oy * y_pitch + ox => s[2] = OfPixel("Y", ox, oy)
    <2>1. PICK x \in Columns, y \in Rows : s = <<y * y_pitch + x, OfPixel("Y", x, y)>>
      BY DEF LumaStores
    <2>2. s[1] = y * y_pitch + x /\ s[2] = OfPixel("Y", x, y)
      BY <2>1
    <2>3. y * y_pitch + x = oy * y_pitch + ox => y = oy /\ x = ox
      BY <1>0, SamePlace
    <2> QED BY <1>1, <2>2, <2>3
  <1> QED BY <1>1, <1>2, <1>3

(* An even column or row is twice its half.                                 *)
LEMMA Halves ==
    ASSUME rotation \in Rotations, EvenSides
    PROVE  /\ \A x \in EvenColumns : /\ x \in Nat /\ x + 1 < OutWidth /\ x = (x \div 2) * 2
                                     /\ x \div 2 \in Nat /\ x \div 2 < OutWidth \div 2
                                     /\ x \in Columns
           /\ \A y \in EvenRows : /\ y \in Nat /\ y = (y \div 2) * 2
                                  /\ y \div 2 \in Nat /\ y \div 2 < OutHeight \div 2
                                  /\ y \in Rows
           /\ OutHeight = (OutHeight \div 2) * 2 /\ OutHeight \div 2 \in Nat /\ OutWidth \div 2 \in Nat
  <1>0. OutWidth \in Nat /\ OutHeight \in Nat
    BY Pitches
  <1>1. \A x \in EvenColumns : x \in Columns /\ x \in Nat /\ x < OutWidth /\ x % 2 = 0
    BY <1>0 DEF EvenColumns, Columns
  <1>2. \A y \in EvenRows : y \in Rows /\ y \in Nat /\ y < OutHeight /\ y % 2 = 0
    BY <1>0 DEF EvenRows, Rows
  <1> QED BY <1>0, <1>1, <1>2 DEF EvenSides

LEMMA Nv12Holds ==
    ASSUME rotation \in Rotations, EvenSides, NEW ox \in Columns, NEW oy \in Rows
    PROVE  LET bx == ox - (ox % 2)
               by == oy - (oy % 2)
               at == y_size + (oy \div 2) * y_pitch + (ox \div 2) * 2
               D  == bgra_to_nv12
           IN  /\ oy * y_pitch + ox \in DOMAIN D /\ at \in DOMAIN D /\ at + 1 \in DOMAIN D
               /\ D[oy * y_pitch + ox] = OfPixel("Y", ox, oy)
               /\ D[at] = OfBlock("U", bx, by) /\ D[at + 1] = OfBlock("V", bx, by)
  <1> DEFINE bx == ox - (ox % 2)
             by == oy - (oy % 2)
             P  == y_pitch
             n  == OutHeight \div 2
             at == y_size + (oy \div 2) * P + (ox \div 2) * 2
             C  == UNION {LET k == y_size + (y \div 2) * P + x
                          IN  {<<k, OfBlock("U", x, y)>>, <<k + 1, OfBlock("V", x, y)>>} :
                          x \in EvenColumns, y \in EvenRows}
             size == y_size + (P * OutHeight) \div 2
             all == LumaStores \cup C
  <1>1. bgra_to_nv12 = Stored(size, Zero, all)
    BY DEF bgra_to_nv12
  <1>2. /\ OutWidth \in Nat /\ P \in Nat /\ OutWidth <= P /\ y_size \in Nat /\ OutHeight \in Nat
        /\ ox \in Nat /\ oy \in Nat /\ ox < OutWidth /\ oy < OutHeight
    BY Pitches
  <1>3. /\ bx \in EvenColumns /\ by \in EvenRows /\ bx = (ox \div 2) * 2 /\ by = (oy \div 2) * 2
        /\ by \div 2 = oy \div 2
    BY Blocks
  <1>4. /\ \A x \in EvenColumns : x \in Nat /\ x + 1 < P /\ x = (x \div 2) * 2
        /\ \A y \in EvenRows : y \div 2 \in Nat /\ y \div 2 < n /\ y = (y \div 2) * 2
        /\ n \in Nat /\ OutHeight = n * 2
    <2>1. /\ \A x \in EvenColumns : x \in Nat /\ x + 1 < OutWidth /\ x = (x \div 2) * 2
          /\ \A y \in EvenRows : y \div 2 \in Nat /\ y \div 2 < n /\ y = (y \div 2) * 2
          /\ n \in Nat /\ OutHeight = n * 2
      BY Halves
    <2> HIDE DEF P, n
    <2> QED BY <1>2, <2>1
  <1>5. size = y_size + n * P /\ n * P \in Nat /\ size \in Nat
    <2> HIDE DEF P, n
    <2> DEFINE q == n * P
    <2>1. q \in Nat /\ P * OutHeight = q * 2
      BY <1>2, <1>4
    <2> HIDE DEF q
    <2>2. (P * OutHeight) \div 2 = q
      BY <2>1
    <2> QED BY <1>2, <2>1, <2>2 DEF q
  <1>6. /\ \A s \in C : \E x \in EvenColumns, y \in EvenRows :
              \/ s[1] = y_size + (y \div 2) * P + x /\ s[2] = OfBlock("U", x, y)
              \/ s[1] = y_size + (y \div 2) * P + x + 1 /\ s[2] = OfBlock("V", x, y)
        /\ \A x \in EvenColumns, y \in EvenRows :
              /\ <<y_size + (y \div 2) * P + x, OfBlock("U", x, y)>> \in C
              /\ <<y_size + (y \div 2) * P + x + 1, OfBlock("V", x, y)>> \in C
    <2> DEFINE k(x, y) == y_size + (y \div 2) * P + x
               u(x, y) == <<k(x, y), OfBlock("U", x, y)>>
               v(x, y) == <<k(x, y) + 1, OfBlock("V", x, y)>>
    <2>1. C = UNION {{u(x, y), v(x, y)} : x \in EvenColumns, y \in EvenRows}
      OBVIOUS
    <2>2. \A x, y : /\ u(x, y)[1] = k(x, y) /\ u(x, y)[2] = OfBlock("U", x, y)
                   /\ v(x, y)[1] = k(x, y) + 1 /\ v(x, y)[2] = OfBlock("V", x, y)
      OBVIOUS
    <2> HIDE DEF C, u, v
    <2>3. \A s \in C : \E x \in EvenColumns, y \in EvenRows : s = u(x, y) \/ s = v(x, y)
      BY <2>1
    <2>4. ASSUME NEW x \in EvenColumns, NEW y \in EvenRows PROVE u(x, y) \in C /\ v(x, y) \in C
      <3> DEFINE Z == {{u(a, b), v(a, b)} : a \in EvenColumns, b \in EvenRows}
      <3>1. {u(x, y), v(x, y)} \in Z
        OBVIOUS
      <3> HIDE DEF Z
      <3>2. \A e \in {u(x, y), v(x, y)} : e \in UNION Z
        BY <3>1, Zenon
      <3> QED BY <2>1, <3>2 DEF Z
    <2> HIDE DEF k
    <2>5. \A s \in C : \E x \in EvenColumns, y \in EvenRows :
             \/ s[1] = k(x, y) /\ s[2] = OfBlock("U", x, y)
             \/ s[1] = k(x, y) + 1 /\ s[2] = OfBlock("V", x, y)
      BY <2>2, <2>3
    <2> QED BY <2>4, <2>5 DEF k, u, v
  <1> HIDE DEF C, size, bx, by, P, n
  <1> DEFINE h == oy \div 2
  <1>7. /\ at = y_size + h * P + bx /\ h \in Nat /\ h < n /\ bx \in Nat /\ bx + 1 < P
        /\ h * P \in Nat /\ h * P + bx + 1 < n * P
    <2>1. at = y_size + h * P + bx /\ h \in Nat /\ h < n /\ bx \in Nat /\ bx + 1 < P
      BY <1>3, <1>4
    <2> HIDE DEF h, at
    <2>2. bx + 1 \in Nat
      BY <2>1
    <2>3. h * P + (bx + 1) < n * P /\ h * P \in Nat
      BY <1>2, <1>4, <2>1, <2>2, Place
    <2> QED BY <2>1, <2>3
  <1>8. at \in Nat /\ y_size <= at /\ at + 1 < size
    <2> HIDE DEF at, h
    <2> QED BY <1>2, <1>5, <1>7
  <1>9. \A s \in LumaStores : s[1] \in Nat /\ s[1] < y_size
    BY LumaHolds
  <1>10. ASSUME NEW s \in C
         PROVE  /\ s[1] \in Nat /\ y_size <= s[1]
                /\ s[1] = at => s[2] = OfBlock("U", bx, by)
                /\ s[1] = at + 1 => s[2] = OfBlock("V", bx, by)
    <2>1. PICK x \in EvenColumns, y \in EvenRows :
             \/ s[1] = y_size + (y \div 2) * P + x /\ s[2] = OfBlock("U", x, y)
             \/ s[1] = y_size + (y \div 2) * P + x + 1 /\ s[2] = OfBlock("V", x, y)
      BY <1>6
    <2> DEFINE g == y \div 2
    <2>2. /\ g \in Nat /\ x \in Nat /\ x + 1 \in Nat /\ x < P /\ x + 1 < P /\ g * P \in Nat /\ h * P \in Nat
          /\ bx \in Nat /\ bx + 1 \in Nat /\ bx < P /\ bx + 1 < P
      <3>1. g \in Nat /\ x \in Nat /\ x + 1 < P
        BY <1>4
      <3> HIDE DEF g, h
      <3> QED BY <1>2, <1>7, <3>1
    <2>3. g = h => y = by
      BY <1>3, <1>4
    <2>4. x % 2 = 0 /\ bx % 2 = 0
      <3>1. x = (x \div 2) * 2 /\ bx = (ox \div 2) * 2 /\ x \div 2 \in Int /\ ox \div 2 \in Int
        BY <1>2, <1>3, <1>4
      <3> QED BY <3>1
    <2> HIDE DEF g, h, at
    <2>5. CASE s[1] = y_size + g * P + x /\ s[2] = OfBlock("U", x, y)
      <3>1. s[1] = at => g * P + x = h * P + bx
        BY <1>2, <1>7, <2>2, <2>5
      <3>2. s[1] = at => g = h /\ x = bx
        BY <1>2, <1>7, <2>2, <3>1, SamePlace
      <3>3. s[1] = at + 1 => g * P + x = h * P + (bx + 1)
        BY <1>2, <1>7, <2>2, <2>5
      <3>4. s[1] = at + 1 => x = bx + 1
        BY <1>2, <1>7, <2>2, <3>3, SamePlace
      <3>5. x # bx + 1
        BY <2>2, <2>4
      <3>6. s[1] \in Nat /\ y_size <= s[1]
        BY <1>2, <2>2, <2>5
      <3> QED BY <2>3, <2>5, <3>2, <3>4, <3>5, <3>6
    <2>6. CASE s[1] = y_size + g * P + x + 1 /\ s[2] = OfBlock("V", x, y)
      <3>1. s[1] = at + 1 => g * P + (x + 1) = h * P + (bx + 1)
        BY <1>2, <1>7, <2>2, <2>6
      <3>2. s[1] = at + 1 => g = h /\ x + 1 = bx + 1
        BY <1>2, <1>7, <2>2, <3>1, SamePlace
      <3>3. s[1] = at => g * P + (x + 1) = h * P + bx
        BY <1>2, <1>7, <2>2, <2>6
      <3>4. s[1] = at => x + 1 = bx
        BY <1>2, <1>7, <2>2, <3>3, SamePlace
      <3>5. x + 1 # bx /\ (x + 1 = bx + 1 => x = bx)
        BY <2>2, <2>4
      <3>6. s[1] \in Nat /\ y_size <= s[1]
        BY <1>2, <2>2, <2>6
      <3> QED BY <2>3, <2>6, <3>2, <3>4, <3>5, <3>6
    <2> QED BY <2>1, <2>5, <2>6 DEF g
  <1>11. /\ oy * P + ox \in Nat /\ oy * P + ox < y_size
         /\ \E s \in LumaStores : s[1] = oy * P + ox
         /\ \A s \in LumaStores : s[1] = oy * P + ox => s[2] = OfPixel("Y", ox, oy)
    BY LumaHolds DEF P
  <1>12. (\E s \in C : s[1] = at) /\ (\E s \in C : s[1] = at + 1)
    <2>1. /\ <<y_size + h * P + bx, OfBlock("U", bx, by)>> \in C
          /\ <<y_size + h * P + bx + 1, OfBlock("V", bx, by)>> \in C
      BY <1>3, <1>6
    <2>2. /\ <<at, OfBlock("U", bx, by)>> \in C /\ <<at + 1, OfBlock("V", bx, by)>> \in C
      BY <1>7, <2>1
    <2> HIDE DEF at
    <2> QED BY <2>2
  <1> DEFINE i == oy * P + ox
  <1> HIDE DEF at, i
  <1>13. i \in DOMAIN Stored(size, Zero, all) /\ Stored(size, Zero, all)[i] = OfPixel("Y", ox, oy)
    <2>1. i \in Nat /\ i < y_size /\ y_size <= size
      BY <1>2, <1>5, <1>11 DEF i
    <2>2. i < size /\ \A s \in C : s[1] # i
      BY <1>2, <1>5, <1>10, <2>1
    <2>3. Holds(all, i, OfPixel("Y", ox, oy))
      BY <1>11, <2>2 DEF i, Holds
    <2> HIDE DEF all
    <2> QED BY <1>5, <2>1, <2>2, <2>3, StoredAt
  <1>14. at \in DOMAIN Stored(size, Zero, all) /\ Stored(size, Zero, all)[at] = OfBlock("U", bx, by)
    <2>1. at \in Nat /\ at < size /\ \A s \in LumaStores : s[1] # at
      BY <1>2, <1>5, <1>8, <1>9
    <2>2. Holds(all, at, OfBlock("U", bx, by))
      BY <1>10, <1>12, <2>1 DEF Holds
    <2> HIDE DEF all
    <2> QED BY <1>5, <2>1, <2>2, StoredAt
  <1>15. at + 1 \in DOMAIN Stored(size, Zero, all) /\ Stored(size, Zero, all)[at + 1] = OfBlock("V", bx, by)
    <2>1. at + 1 \in Nat /\ at + 1 < size /\ \A s \in LumaStores : s[1] # at + 1
      BY <1>2, <1>5, <1>8, <1>9
    <2>2. Holds(all, at + 1, OfBlock("V", bx, by))
      BY <1>10, <1>12, <2>1 DEF Holds
    <2> HIDE DEF all
    <2> QED BY <1>5, <2>1, <2>2, StoredAt
  <1> HIDE DEF all
  <1> QED BY <1>1, <1>13, <1>14, <1>15 DEF bx, by, P, at, i

LEMMA Yv12Holds ==
    ASSUME rotation \in Rotations, EvenSides, NEW ox \in Columns, NEW oy \in Rows
    PROVE  LET bx == ox - (ox % 2)
               by == oy - (oy % 2)
               at == (oy \div 2) * yv12_uv_pitch + ox \div 2
               uv == yv12_uv_pitch * (OutHeight \div 2)
               D  == bgra_to_yv12
           IN  /\ oy * y_pitch + ox \in DOMAIN D
               /\ y_size + at \in DOMAIN D /\ y_size + uv + at \in DOMAIN D
               /\ D[oy * y_pitch + ox] = OfPixel("Y", ox, oy)
               /\ D[y_size + at] = OfBlock("U", bx, by)
               /\ D[y_size + uv + at] = OfBlock("V", bx, by)
  <1> DEFINE bx == ox - (ox % 2)
             by == oy - (oy % 2)
             P  == y_pitch
             Q  == yv12_uv_pitch
             n  == OutHeight \div 2
             uv_size == (Q * OutHeight) \div 2
             C  == UNION {LET k == (y \div 2) * Q + x \div 2
                          IN  {<<y_size + k, OfBlock("U", x, y)>>,
                               <<y_size + uv_size + k, OfBlock("V", x, y)>>} :
                          x \in EvenColumns, y \in EvenRows}
             size == y_size + uv_size * 2
             all == LumaStores \cup C
             h == oy \div 2
             e == ox \div 2
             at == h * Q + e
  <1>1. bgra_to_yv12 = Stored(size, Zero, all)
    BY DEF bgra_to_yv12
  <1>2. /\ OutWidth \in Nat /\ P \in Nat /\ y_size \in Nat /\ OutHeight \in Nat
        /\ Q \in Nat /\ OutWidth \div 2 <= Q
        /\ ox \in Nat /\ oy \in Nat /\ ox < OutWidth /\ oy < OutHeight
    BY Pitches
  <1>3. /\ bx \in EvenColumns /\ by \in EvenRows /\ bx \div 2 = e /\ by \div 2 = h
        /\ bx = e * 2 /\ by = h * 2
    BY Blocks
  <1>4. /\ \A x \in EvenColumns : x \div 2 \in Nat /\ x \div 2 < Q /\ x = (x \div 2) * 2
        /\ \A y \in EvenRows : y \div 2 \in Nat /\ y \div 2 < n /\ y = (y \div 2) * 2
        /\ n \in Nat /\ OutHeight = n * 2
    <2>1. /\ \A x \in EvenColumns : x \div 2 \in Nat /\ x \div 2 < OutWidth \div 2 /\ x = (x \div 2) * 2
          /\ \A y \in EvenRows : y \div 2 \in Nat /\ y \div 2 < n /\ y = (y \div 2) * 2
          /\ n \in Nat /\ OutHeight = n * 2 /\ OutWidth \div 2 \in Nat
      BY Halves
    <2> HIDE DEF Q, n
    <2> QED BY <1>2, <2>1
  <1>5. uv_size = n * Q /\ n * Q \in Nat /\ Q * n = n * Q
    <2> HIDE DEF Q, n
    <2> DEFINE q == n * Q
    <2>1. q \in Nat /\ Q * OutHeight = q * 2 /\ Q * n = q
      BY <1>2, <1>4
    <2> HIDE DEF q
    <2>2. (Q * OutHeight) \div 2 = q
      BY <2>1
    <2> QED BY <2>1, <2>2 DEF q
  <1>6. /\ \A s \in C : \E x \in EvenColumns, y \in EvenRows :
              \/ s[1] = y_size + ((y \div 2) * Q + x \div 2) /\ s[2] = OfBlock("U", x, y)
              \/ s[1] = y_size + uv_size + ((y \div 2) * Q + x \div 2) /\ s[2] = OfBlock("V", x, y)
        /\ \A x \in EvenColumns, y \in EvenRows :
              /\ <<y_size + ((y \div 2) * Q + x \div 2), OfBlock("U", x, y)>> \in C
              /\ <<y_size + uv_size + ((y \div 2) * Q + x \div 2), OfBlock("V", x, y)>> \in C
    <2> DEFINE k(x, y) == (y \div 2) * Q + x \div 2
               u(x, y) == <<y_size + k(x, y), OfBlock("U", x, y)>>
               v(x, y) == <<y_size + uv_size + k(x, y), OfBlock("V", x, y)>>
    <2>1. C = UNION {{u(x, y), v(x, y)} : x \in EvenColumns, y \in EvenRows}
      OBVIOUS
    <2> HIDE DEF uv_size
    <2>2. \A x, y : /\ u(x, y)[1] = y_size + k(x, y) /\ u(x, y)[2] = OfBlock("U", x, y)
                   /\ v(x, y)[1] = y_size + uv_size + k(x, y) /\ v(x, y)[2] = OfBlock("V", x, y)
      OBVIOUS
    <2> HIDE DEF C, u, v
    <2>3. \A s \in C : \E x \in EvenColumns, y \in EvenRows : s = u(x, y) \/ s = v(x, y)
      BY <2>1
    <2>4. ASSUME NEW x \in EvenColumns, NEW y \in EvenRows PROVE u(x, y) \in C /\ v(x, y) \in C
      <3> DEFINE Z == {{u(a, b), v(a, b)} : a \in EvenColumns, b \in EvenRows}
      <3>1. {u(x, y), v(x, y)} \in Z
        OBVIOUS
      <3> HIDE DEF Z
      <3>2. \A z \in {u(x, y), v(x, y)} : z \in UNION Z
        BY <3>1, Zenon
      <3> QED BY <2>1, <3>2 DEF Z
    <2> HIDE DEF k
    <2>5. \A s \in C : \E x \in EvenColumns, y \in EvenRows :
             \/ s[1] = y_size + k(x, y) /\ s[2] = OfBlock("U", x, y)
             \/ s[1] = y_size + uv_size + k(x, y) /\ s[2] = OfBlock("V", x, y)
      BY <2>2, <2>3
    <2> QED BY <2>4, <2>5 DEF k, u, v
  <1> HIDE DEF C, uv_size, bx, by, P, Q, n
  <1>7. /\ h \in Nat /\ h < n /\ e \in Nat /\ e < Q
    BY <1>3, <1>4
  <1> HIDE DEF h, e
  <1>8. at \in Nat /\ h * Q \in Nat /\ at < uv_size
    BY <1>2, <1>4, <1>5, <1>7, Place
  <1>9. size \in Nat /\ y_size <= size /\ y_size + at < size /\ y_size + uv_size + at < size
    <2> HIDE DEF at
    <2>1. uv_size \in Nat
      BY <1>5
    <2> QED BY <1>2, <1>8, <2>1
  <1>10. \A s \in LumaStores : s[1] \in Nat /\ s[1] < y_size
    BY LumaHolds
  <1>11. ASSUME NEW s \in C
         PROVE  /\ s[1] \in Nat /\ y_size <= s[1]
                /\ s[1] = y_size + at => s[2] = OfBlock("U", bx, by)
                /\ s[1] = y_size + uv_size + at => s[2] = OfBlock("V", bx, by)
    <2>1. PICK x \in EvenColumns, y \in EvenRows :
             \/ s[1] = y_size + ((y \div 2) * Q + x \div 2) /\ s[2] = OfBlock("U", x, y)
             \/ s[1] = y_size + uv_size + ((y \div 2) * Q + x \div 2) /\ s[2] = OfBlock("V", x, y)
      BY <1>6
    <2> DEFINE g == y \div 2
               f == x \div 2
               k == g * Q + f
    <2>2. /\ g \in Nat /\ g < n /\ f \in Nat /\ f < Q /\ x = f * 2 /\ y = g * 2
      BY <1>4
    <2>3. \/ s[1] = y_size + k /\ s[2] = OfBlock("U", x, y)
          \/ s[1] = y_size + uv_size + k /\ s[2] = OfBlock("V", x, y)
      BY <2>1
    <2> HIDE DEF g, f
    <2>4. g * Q \in Nat /\ k \in Nat /\ k < uv_size
      BY <1>2, <1>4, <1>5, <2>2, Place
    <2>5. k = at => g = h /\ f = e
      BY <1>2, <1>7, <2>2, SamePlace
    <2>6. k = at => x = bx /\ y = by
      BY <1>3, <2>2, <2>5
    <2>7. uv_size \in Nat
      BY <1>5
    <2> HIDE DEF k, at
    <2>8. s[1] = y_size + at => k = at /\ s[1] = y_size + k
      BY <1>2, <1>8, <2>3, <2>4, <2>7
    <2>9. s[1] = y_size + uv_size + at => k = at /\ s[1] = y_size + uv_size + k
      BY <1>2, <1>8, <2>3, <2>4, <2>7
    <2>10. s[1] = y_size + at => s[1] # y_size + uv_size + k
      BY <1>2, <1>8, <2>4, <2>7
    <2>11. s[1] = y_size + uv_size + at => s[1] # y_size + k
      BY <1>2, <1>8, <2>4, <2>7
    <2>12. s[1] \in Nat /\ y_size <= s[1]
      BY <1>2, <2>3, <2>4, <2>7
    <2> QED BY <2>3, <2>6, <2>8, <2>9, <2>10, <2>11, <2>12
  <1>12. (\E s \in C : s[1] = y_size + at) /\ (\E s \in C : s[1] = y_size + uv_size + at)
    <2>1. /\ <<y_size + at, OfBlock("U", bx, by)>> \in C
          /\ <<y_size + uv_size + at, OfBlock("V", bx, by)>> \in C
      BY <1>3, <1>6
    <2> HIDE DEF at
    <2> QED BY <2>1
  <1>13. /\ oy * P + ox \in Nat /\ oy * P + ox < y_size
         /\ \E s \in LumaStores : s[1] = oy * P + ox
         /\ \A s \in LumaStores : s[1] = oy * P + ox => s[2] = OfPixel("Y", ox, oy)
    BY LumaHolds DEF P
  <1> DEFINE i == oy * P + ox
             au == y_size + at
             av == y_size + uv_size + at
  <1>14. au \in Nat /\ av \in Nat /\ au < size /\ av < size /\ y_size <= au /\ y_size <= av
    <2> HIDE DEF at
    <2>1. uv_size \in Nat
      BY <1>5
    <2> QED BY <1>2, <1>8, <1>9, <2>1
  <1> HIDE DEF size, au, av, i
  <1>15. i \in DOMAIN Stored(size, Zero, all) /\ Stored(size, Zero, all)[i] = OfPixel("Y", ox, oy)
    <2>1. i \in Nat /\ i < y_size
      BY <1>13 DEF i
    <2>2. i < size /\ \A s \in C : s[1] # i
      BY <1>2, <1>9, <1>11, <2>1
    <2>3. Holds(all, i, OfPixel("Y", ox, oy))
      BY <1>13, <2>2 DEF i, Holds
    <2> HIDE DEF all
    <2> QED BY <1>9, <2>1, <2>2, <2>3, StoredAt
  <1>16. au \in DOMAIN Stored(size, Zero, all) /\ Stored(size, Zero, all)[au] = OfBlock("U", bx, by)
    <2>1. \A s \in LumaStores : s[1] # au
      BY <1>2, <1>10, <1>14
    <2>2. Holds(all, au, OfBlock("U", bx, by))
      BY <1>11, <1>12, <2>1 DEF Holds, au
    <2> HIDE DEF all
    <2> QED BY <1>9, <1>14, <2>2, StoredAt
  <1>17. av \in DOMAIN Stored(size, Zero, all) /\ Stored(size, Zero, all)[av] = OfBlock("V", bx, by)
    <2>1. \A s \in LumaStores : s[1] # av
      BY <1>2, <1>10, <1>14
    <2>2. Holds(all, av, OfBlock("V", bx, by))
      BY <1>11, <1>12, <2>1 DEF Holds, av
    <2> HIDE DEF all
    <2> QED BY <1>9, <1>14, <2>2, StoredAt
  <1> HIDE DEF all
  <1>18. uv_size = Q * n
    BY <1>5
  <1> HIDE DEF at
  <1> QED BY <1>1, <1>15, <1>16, <1>17, <1>18 DEF bx, by, P, Q, n, at, h, e, i, au, av

LEMMA CapturedHolds ==
    ASSUME rotation = "0", EvenSides, NEW ox \in Columns, NEW oy \in Rows
    PROVE  LET bx == ox - (ox % 2)
               by == oy - (oy % 2)
               at == y_size + (oy \div 2) * y_pitch + (ox \div 2) * 2
               D  == copy_captured_nv12
           IN  /\ oy * y_pitch + ox \in DOMAIN D /\ at \in DOMAIN D /\ at + 1 \in DOMAIN D
               /\ D[oy * y_pitch + ox] = OfPixel("Y", ox, oy)
               /\ D[at] = OfBlock("U", bx, by) /\ D[at + 1] = OfBlock("V", bx, by)
  <1> DEFINE bx == ox - (ox % 2)
             by == oy - (oy % 2)
             P  == y_pitch
             n  == Height \div 2
             h  == oy \div 2
             at == y_size + h * P + (ox \div 2) * 2
             Captured(c, x, y) == Byte(c, {<<x + dx, 2 * y + dy>> : dx, dy \in {0, 1}})
             Sample(x, y) == IF x % 2 = 0 THEN Captured("U", x, y) ELSE Captured("V", x - 1, y)
             luma == {<<y * P + x, Byte("Y", {<<x, y>>})>> : x \in 0 .. Width - 1, y \in 0 .. Height - 1}
             C == {<<y_size + y * P + x, Sample(x, y)>> :
                      x \in 0 .. Width - 1, y \in 0 .. (Height \div 2) - 1}
             size == y_size + (P * Height) \div 2
             all == luma \cup C
  <1>1. copy_captured_nv12 = Stored(size, Zero, all)
    BY DEF copy_captured_nv12
  <1>2. /\ OutWidth = Width /\ OutHeight = Height /\ rotation \in Rotations
        /\ Columns = 0 .. Width - 1 /\ Rows = 0 .. Height - 1
        /\ \A x, y : Source(x, y) = <<x, y>>
    BY DEF OutWidth, OutHeight, Rotations, Columns, Rows, Source, source_x, source_y
  <1>3. /\ Width \in Nat /\ P \in Nat /\ Width <= P /\ y_size \in Nat /\ Height \in Nat
        /\ ox \in Nat /\ oy \in Nat /\ ox < Width /\ oy < Height /\ y_size = Height * P
    BY <1>2, Pitches
  <1>4. /\ bx = (ox \div 2) * 2 /\ by = h * 2 /\ bx \in Nat /\ bx + 1 < Width
    <2>1. bx \in EvenColumns /\ bx = (ox \div 2) * 2 /\ by = h * 2
      BY <1>2, Blocks
    <2> HIDE DEF bx
    <2>2. bx \in Nat /\ bx + 1 < OutWidth
      BY <1>2, <2>1, Halves
    <2> QED BY <1>2, <2>1, <2>2
  <1>5. n \in Nat /\ Height = n * 2 /\ h \in Nat /\ h < n
    BY <1>2, <1>3 DEF EvenSides
  <1>6. luma = LumaStores
    <2>1. \A x, y : Byte("Y", {<<x, y>>}) = OfPixel("Y", x, y)
      BY <1>2 DEF OfPixel
    <2> DEFINE F(x, y) == <<y * P + x, Byte("Y", {<<x, y>>})>>
               G(x, y) == <<y * P + x, OfPixel("Y", x, y)>>
    <2>2. \A x, y : F(x, y) = G(x, y)
      BY <2>1
    <2>3. /\ luma = {F(x, y) : x \in 0 .. Width - 1, y \in 0 .. Height - 1}
          /\ LumaStores = {G(x, y) : x \in 0 .. Width - 1, y \in 0 .. Height - 1}
      BY <1>2 DEF LumaStores
    <2> HIDE DEF luma, F, G
    <2>4. {F(x, y) : x \in 0 .. Width - 1, y \in 0 .. Height - 1}
             = {G(x, y) : x \in 0 .. Width - 1, y \in 0 .. Height - 1}
      BY <2>2
    <2> QED BY <2>3, <2>4
  <1>7. Captured("U", bx, h) = OfBlock("U", bx, by) /\ Captured("V", bx, h) = OfBlock("V", bx, by)
    <2>1. 2 * h = by
      BY <1>4, <1>5
    <2> HIDE DEF bx, by, h
    <2>2. {<<bx + dx, 2 * h + dy>> : dx, dy \in {0, 1}} = {Source(bx + dx, by + dy) : dx, dy \in {0, 1}}
      BY <1>2, <2>1
    <2> QED BY <2>2 DEF OfBlock
  <1>8. size = y_size + n * P /\ n * P \in Nat /\ size \in Nat
    <2> HIDE DEF P, n
    <2> DEFINE q == n * P
    <2>1. q \in Nat /\ P * Height = q * 2
      BY <1>3, <1>5
    <2> HIDE DEF q
    <2>2. (P * Height) \div 2 = q
      BY <2>1
    <2> QED BY <1>3, <2>1, <2>2 DEF q
  <1> HIDE DEF P, luma
  <1>9. /\ \A s \in C : \E x \in 0 .. Width - 1, y \in 0 .. n - 1 :
              s[1] = y_size + y * P + x /\ s[2] = Sample(x, y)
        /\ \A x \in 0 .. Width - 1, y \in 0 .. n - 1 :
              <<y_size + y * P + x, Sample(x, y)>> \in C
    <2> HIDE DEF n, Sample
    <2>1. \A x, y : /\ <<y_size + y * P + x, Sample(x, y)>>[1] = y_size + y * P + x
                    /\ <<y_size + y * P + x, Sample(x, y)>>[2] = Sample(x, y)
      OBVIOUS
    <2>2. \A s \in C : \E x \in 0 .. Width - 1, y \in 0 .. n - 1 :
             s = <<y_size + y * P + x, Sample(x, y)>>
      BY DEF n
    <2>3. \A x \in 0 .. Width - 1, y \in 0 .. n - 1 : <<y_size + y * P + x, Sample(x, y)>> \in C
      BY SMT DEF n
    <2> HIDE DEF C
    <2> QED BY <2>1, <2>2, <2>3
  <1>10. Sample(bx, h) = OfBlock("U", bx, by) /\ Sample(bx + 1, h) = OfBlock("V", bx, by)
    <2> HIDE DEF bx, by, h, Captured
    <2>1. bx \in Nat /\ bx % 2 = 0
      <3>1. bx = (ox \div 2) * 2 /\ ox \div 2 \in Int
        BY <1>3, <1>4
      <3> QED BY <1>4, <3>1
    <2>2. (bx + 1) % 2 # 0 /\ bx + 1 - 1 = bx
      BY <2>1
    <2> QED BY <1>7, <2>1, <2>2
  <1> HIDE DEF C, size, bx, by, n, Sample
  <1>11. /\ at = y_size + h * P + bx /\ bx + 1 \in Nat /\ bx < P /\ bx + 1 < P
         /\ h * P \in Nat /\ h * P + bx < n * P /\ h * P + (bx + 1) < n * P
    <2>1. at = y_size + h * P + bx
      BY <1>4
    <2> HIDE DEF h, at
    <2>2. bx + 1 \in Nat /\ bx + 1 < P /\ bx < P
      BY <1>3, <1>4
    <2>3. h * P + (bx + 1) < n * P /\ h * P \in Nat /\ h * P + bx < n * P
      BY <1>3, <1>4, <1>5, <2>2, Place
    <2> QED BY <2>1, <2>2, <2>3
  <1> HIDE DEF h
  <1>12. at \in Nat /\ y_size <= at /\ at + 1 < size
    <2> HIDE DEF at
    <2> QED BY <1>3, <1>4, <1>5, <1>8, <1>11
  <1>13. ASSUME NEW s \in C
         PROVE  /\ s[1] \in Nat /\ y_size <= s[1]
                /\ s[1] = at => s[2] = OfBlock("U", bx, by)
                /\ s[1] = at + 1 => s[2] = OfBlock("V", bx, by)
    <2>1. PICK x \in 0 .. Width - 1, y \in 0 .. n - 1 : s[1] = y_size + y * P + x /\ s[2] = Sample(x, y)
      BY <1>9
    <2>2. x \in Nat /\ y \in Nat /\ x < P /\ y * P \in Nat
      BY <1>3, <1>5
    <2> HIDE DEF at
    <2>3. s[1] = at => y * P + x = h * P + bx
      BY <1>3, <1>4, <1>11, <2>1, <2>2
    <2>4. s[1] = at => y = h /\ x = bx
      BY <1>3, <1>4, <1>5, <1>11, <2>2, <2>3, SamePlace
    <2>5. s[1] = at + 1 => y * P + x = h * P + (bx + 1)
      <3> DEFINE u == y * P
                 v == h * P
      <3>1. u \in Nat /\ v \in Nat /\ s[1] = y_size + u + x /\ at = y_size + v + bx
        BY <1>11, <2>1, <2>2
      <3> HIDE DEF u, v
      <3>2. s[1] = at + 1 => u + x = v + (bx + 1)
        BY <1>3, <1>4, <2>2, <3>1
      <3> QED BY <3>2 DEF u, v
    <2>6. s[1] = at + 1 => y = h /\ x = bx + 1
      BY <1>3, <1>4, <1>5, <1>11, <2>2, <2>5, SamePlace
    <2>7. s[1] \in Nat /\ y_size <= s[1]
      BY <1>3, <2>1, <2>2
    <2> QED BY <1>10, <2>1, <2>4, <2>6, <2>7
  <1>14. /\ oy * P + ox \in Nat /\ oy * P + ox < y_size
         /\ \E s \in luma : s[1] = oy * P + ox
         /\ \A s \in luma : s[1] \in Nat /\ s[1] < y_size
         /\ \A s \in luma : s[1] = oy * P + ox => s[2] = OfPixel("Y", ox, oy)
    BY <1>2, <1>6, LumaHolds DEF P
  <1>15. (\E s \in C : s[1] = at) /\ (\E s \in C : s[1] = at + 1)
    <2>1. bx \in 0 .. Width - 1 /\ bx + 1 \in 0 .. Width - 1 /\ h \in 0 .. n - 1
      BY <1>3, <1>4, <1>5
    <2>2. /\ <<y_size + h * P + bx, Sample(bx, h)>> \in C
          /\ <<y_size + h * P + (bx + 1), Sample(bx + 1, h)>> \in C
      BY <1>9, <2>1
    <2>3. y_size + h * P + (bx + 1) = at + 1
      BY <1>3, <1>4, <1>11
    <2>4. <<at, Sample(bx, h)>> \in C /\ <<at + 1, Sample(bx + 1, h)>> \in C
      BY <1>11, <2>2, <2>3
    <2> HIDE DEF at
    <2> QED BY <2>4
  <1> DEFINE i == oy * P + ox
             j == at + 1
  <1>16. j \in Nat /\ j < size /\ y_size <= j /\ at < size
    <2> HIDE DEF at
    <2> QED BY <1>3, <1>8, <1>12
  <1>17. /\ \A s \in C : s[1] = j => s[2] = OfBlock("V", bx, by)
         /\ \E s \in C : s[1] = j
    BY <1>13, <1>15
  <1> HIDE DEF at, i, j
  <1>18. i \in DOMAIN Stored(size, Zero, all) /\ Stored(size, Zero, all)[i] = OfPixel("Y", ox, oy)
    <2>1. i \in Nat /\ i < y_size
      BY <1>14 DEF i
    <2>2. i < size /\ \A s \in C : s[1] # i
      BY <1>3, <1>8, <1>13, <2>1
    <2>3. Holds(all, i, OfPixel("Y", ox, oy))
      BY <1>14, <2>2 DEF i, Holds
    <2> HIDE DEF all
    <2> QED BY <1>8, <2>1, <2>2, <2>3, StoredAt
  <1>19. at \in DOMAIN Stored(size, Zero, all) /\ Stored(size, Zero, all)[at] = OfBlock("U", bx, by)
    <2>1. \A s \in luma : s[1] # at
      BY <1>3, <1>12, <1>14
    <2>2. Holds(all, at, OfBlock("U", bx, by))
      BY <1>13, <1>15, <2>1 DEF Holds
    <2> HIDE DEF all
    <2> QED BY <1>8, <1>12, <1>16, <2>2, StoredAt
  <1>20. j \in DOMAIN Stored(size, Zero, all) /\ Stored(size, Zero, all)[j] = OfBlock("V", bx, by)
    <2>1. \A s \in luma : s[1] # j
      BY <1>3, <1>14, <1>16
    <2>2. Holds(all, j, OfBlock("V", bx, by))
      BY <1>17, <2>1 DEF Holds
    <2> HIDE DEF all
    <2> QED BY <1>8, <1>16, <2>2, StoredAt
  <1> HIDE DEF all
  <1> QED BY <1>1, <1>18, <1>19, <1>20 DEF bx, by, P, at, h, i, j

(* Three bytes for each pixel, in a row.                                    *)
ThreeBytes(c1, c2, c3, x, y) == {<<(y * OutWidth + x) * 3, OfPixel(c1, x, y)>>,
                                 <<(y * OutWidth + x) * 3 + 1, OfPixel(c2, x, y)>>,
                                 <<(y * OutWidth + x) * 3 + 2, OfPixel(c3, x, y)>>}
AllThree(c1, c2, c3) == UNION {ThreeBytes(c1, c2, c3, x, y) : x \in Columns, y \in Rows}

LEMMA Triples ==
    ASSUME rotation \in Rotations, NEW ox \in Columns, NEW oy \in Rows,
           NEW c1, NEW c2, NEW c3, NEW other
    PROVE  LET k == (oy * OutWidth + ox) * 3
               D == Stored(OutWidth * OutHeight * 3, other, AllThree(c1, c2, c3))
           IN  /\ k \in DOMAIN D /\ k + 1 \in DOMAIN D /\ k + 2 \in DOMAIN D
               /\ D[k] = OfPixel(c1, ox, oy) /\ D[k + 1] = OfPixel(c2, ox, oy)
               /\ D[k + 2] = OfPixel(c3, ox, oy)
  <1> DEFINE T == AllThree(c1, c2, c3)
             Three(x, y) == ThreeBytes(c1, c2, c3, x, y)
  <1>a. /\ \A s \in T : \E x \in Columns, y \in Rows : s \in Three(x, y)
        /\ \A x \in Columns, y \in Rows : \A s \in Three(x, y) : s \in T
    <2> DEFINE U == {Three(x, y) : x \in Columns, y \in Rows}
    <2>1. T = UNION U
      BY DEF AllThree
    <2> HIDE DEF Three, T
    <2>2. /\ \A u \in U : \E x \in Columns, y \in Rows : u = Three(x, y)
          /\ \A x \in Columns, y \in Rows : Three(x, y) \in U
      BY SMT
    <2> HIDE DEF U
    <2>3. \A s : s \in T <=> \E u \in U : s \in u
      BY <2>1
    <2>4. ASSUME NEW s \in T PROVE \E x \in Columns, y \in Rows : s \in Three(x, y)
      <3>1. PICK u \in U : s \in u
        BY <2>3, <2>4
      <3> QED BY <2>2, <3>1
    <2>5. ASSUME NEW x \in Columns, NEW y \in Rows, NEW s \in Three(x, y) PROVE s \in T
      BY <2>2, <2>3
    <2> QED BY <2>4, <2>5
  <1> HIDE DEF T
  <1>b. \A s \in T : \E x \in Columns, y \in Rows :
              \/ s[1] = (y * OutWidth + x) * 3 /\ s[2] = OfPixel(c1, x, y)
              \/ s[1] = (y * OutWidth + x) * 3 + 1 /\ s[2] = OfPixel(c2, x, y)
              \/ s[1] = (y * OutWidth + x) * 3 + 2 /\ s[2] = OfPixel(c3, x, y)
    <2> SUFFICES ASSUME NEW s \in T
                 PROVE  \E x \in Columns, y \in Rows :
                          \/ s[1] = (y * OutWidth + x) * 3 /\ s[2] = OfPixel(c1, x, y)
                          \/ s[1] = (y * OutWidth + x) * 3 + 1 /\ s[2] = OfPixel(c2, x, y)
                          \/ s[1] = (y * OutWidth + x) * 3 + 2 /\ s[2] = OfPixel(c3, x, y)
      OBVIOUS
    <2>1. PICK x \in Columns, y \in Rows : s \in Three(x, y)
      BY <1>a DEF ThreeBytes
    <2> QED BY <2>1 DEF ThreeBytes
  <1>c. /\ <<(oy * OutWidth + ox) * 3, OfPixel(c1, ox, oy)>> \in T
        /\ <<(oy * OutWidth + ox) * 3 + 1, OfPixel(c2, ox, oy)>> \in T
        /\ <<(oy * OutWidth + ox) * 3 + 2, OfPixel(c3, ox, oy)>> \in T
    <2>1. /\ <<(oy * OutWidth + ox) * 3, OfPixel(c1, ox, oy)>> \in Three(ox, oy)
          /\ <<(oy * OutWidth + ox) * 3 + 1, OfPixel(c2, ox, oy)>> \in Three(ox, oy)
          /\ <<(oy * OutWidth + ox) * 3 + 2, OfPixel(c3, ox, oy)>> \in Three(ox, oy)
      BY DEF ThreeBytes
    <2> HIDE DEF Three
    <2> QED BY <1>a, <2>1
  <1> DEFINE At(x, y) == y * OutWidth + x
             k == At(ox, oy)
             size == OutWidth * OutHeight * 3
  <1>1. /\ OutWidth \in Nat /\ OutHeight \in Nat
        /\ \A x \in Columns, y \in Rows : x \in Nat /\ y \in Nat /\ x < OutWidth /\ y < OutHeight
    BY Pitches
  <1>2. \A x \in Columns, y \in Rows : At(x, y) \in Nat /\ At(x, y) < OutHeight * OutWidth
    BY <1>1, Place
  <1>3. ASSUME NEW x \in Columns, NEW y \in Rows, At(x, y) = k PROVE x = ox /\ y = oy
    <2>1. y * OutWidth + x = oy * OutWidth + ox
      BY <1>3
    <2>2. /\ x \in Nat /\ y \in Nat /\ x < OutWidth /\ ox \in Nat /\ oy \in Nat /\ ox < OutWidth
          /\ OutWidth \in Nat
      BY <1>1
    <2> QED BY <2>1, <2>2, SamePlace
  <1>4. size = (OutHeight * OutWidth) * 3 /\ OutHeight * OutWidth \in Nat
    BY <1>1
  <1>5. k \in Nat /\ k < OutHeight * OutWidth
    BY <1>2
  <1> DEFINE M == OutHeight * OutWidth
             k1 == k * 3 + 1
             k2 == k * 3 + 2
  <1>6. /\ size \in Nat /\ k * 3 \in Nat /\ k1 \in Nat /\ k2 \in Nat
        /\ k * 3 < size /\ k1 < size /\ k2 < size
    <2> HIDE DEF k, M, size
    <2>1. size = M * 3 /\ M \in Nat /\ k \in Nat /\ k < M
      BY <1>4, <1>5 DEF M
    <2> QED BY <2>1
  <1>7. ASSUME NEW s \in T
        PROVE  /\ s[1] = k * 3 => s[2] = OfPixel(c1, ox, oy)
               /\ s[1] = k1 => s[2] = OfPixel(c2, ox, oy)
               /\ s[1] = k2 => s[2] = OfPixel(c3, ox, oy)
    <2>1. PICK x \in Columns, y \in Rows :
             \/ s[1] = At(x, y) * 3 /\ s[2] = OfPixel(c1, x, y)
             \/ s[1] = At(x, y) * 3 + 1 /\ s[2] = OfPixel(c2, x, y)
             \/ s[1] = At(x, y) * 3 + 2 /\ s[2] = OfPixel(c3, x, y)
      BY <1>b
    <2> DEFINE l == At(x, y)
    <2>2. l \in Nat /\ k \in Nat /\ (l = k => x = ox /\ y = oy)
      BY <1>2, <1>3
    <2>3. \/ s[1] = l * 3 /\ s[2] = OfPixel(c1, x, y)
          \/ s[1] = l * 3 + 1 /\ s[2] = OfPixel(c2, x, y)
          \/ s[1] = l * 3 + 2 /\ s[2] = OfPixel(c3, x, y)
      BY <2>1
    <2> HIDE DEF l, k
    <2> QED BY <2>2, <2>3
  <1>8. /\ \E s \in T : s[1] = k * 3
        /\ \E s \in T : s[1] = k1
        /\ \E s \in T : s[1] = k2
    <2>1. <<k * 3, OfPixel(c1, ox, oy)>> \in T /\ <<k1, OfPixel(c2, ox, oy)>> \in T /\ <<k2, OfPixel(c3, ox, oy)>> \in T
      BY <1>c
    <2> HIDE DEF k, k1, k2
    <2> QED BY <2>1
  <1> DEFINE k0 == k * 3
  <1> HIDE DEF k0, k1, k2, size, T
  <1>9. /\ Holds(T, k0, OfPixel(c1, ox, oy)) /\ Holds(T, k1, OfPixel(c2, ox, oy)) /\ Holds(T, k2, OfPixel(c3, ox, oy))
    BY <1>7, <1>8 DEF Holds, k0
  <1>10. k0 \in Nat /\ k0 < size
    BY <1>6 DEF k0
  <1>11. k0 \in DOMAIN Stored(size, other, T) /\ Stored(size, other, T)[k0] = OfPixel(c1, ox, oy)
    BY <1>6, <1>9, <1>10, StoredAt
  <1>12. k1 \in DOMAIN Stored(size, other, T) /\ Stored(size, other, T)[k1] = OfPixel(c2, ox, oy)
    BY <1>6, <1>9, StoredAt
  <1>13. k2 \in DOMAIN Stored(size, other, T) /\ Stored(size, other, T)[k2] = OfPixel(c3, ox, oy)
    BY <1>6, <1>9, StoredAt
  <1> QED BY <1>11, <1>12, <1>13 DEF k0, k1, k2, size, T

(* The pixel the RGB loop reads is the one the rotation shows.              *)
LEMMA RgbReads ==
    ASSUME rotation \in Rotations, NEW ox \in Columns, NEW oy \in Rows
    PROVE  RgbSource(ox, oy) = Source(ox, oy)
  <1>0. Width \in Nat /\ Height \in Nat
    BY GeometryAssumption
  <1>1. CASE rotation = "180"
    <2> DEFINE S == (0 .. Width - 1) \X (0 .. Height - 1)
               q == <<Width - 1 - ox, Height - 1 - oy>>
    <2>1. ox \in 0 .. Width - 1 /\ oy \in 0 .. Height - 1
      BY <1>1 DEF Columns, Rows, OutWidth, OutHeight
    <2>2. q \in S /\ Width - 1 - q[1] = ox /\ Height - 1 - q[2] = oy
      BY <1>0, <2>1
    <2>3. \A p \in S : Width - 1 - p[1] = ox /\ Height - 1 - p[2] = oy => p = q
      BY <1>0, <2>1
    <2> HIDE DEF q, S
    <2>4. (CHOOSE p \in S : Width - 1 - p[1] = ox /\ Height - 1 - p[2] = oy) = q
      BY <2>2, <2>3
    <2>5. RgbSource(ox, oy) = q
      BY <1>1, <2>4 DEF RgbSource, S
    <2> QED BY <1>1, <2>5 DEF Source, source_x, source_y, q
  <1>2. CASE rotation # "180"
    BY <1>2 DEF RgbSource, Source, source_x, source_y, Rotations
  <1> QED BY <1>1, <1>2

LEMMA RgbHolds ==
    ASSUME rotation \in Rotations
    PROVE  copy_bgra_to_rgb_bytes = Stored(OutWidth * OutHeight * 3, Old, AllThree("R", "G", "B"))
  <1> DEFINE F(x, y) == {<<(y * OutWidth + x) * 3, Byte("R", {RgbSource(x, y)})>>,
                         <<(y * OutWidth + x) * 3 + 1, Byte("G", {RgbSource(x, y)})>>,
                         <<(y * OutWidth + x) * 3 + 2, Byte("B", {RgbSource(x, y)})>>}
             G(x, y) == ThreeBytes("R", "G", "B", x, y)
             S1 == {F(x, y) : x \in Columns, y \in Rows}
             S2 == {G(x, y) : x \in Columns, y \in Rows}
  <1>1. Width * Height * 3 = OutWidth * OutHeight * 3
    BY Pitches
  <1>2. copy_bgra_to_rgb_bytes = Stored(OutWidth * OutHeight * 3, Old, UNION S1)
    BY <1>1 DEF copy_bgra_to_rgb_bytes
  <1>3. \A x \in Columns, y \in Rows : F(x, y) = G(x, y)
    BY RgbReads DEF ThreeBytes, OfPixel
  <1>4. AllThree("R", "G", "B") = UNION S2
    BY DEF AllThree
  <1> HIDE DEF F, G
  <1>5. S1 = S2
    BY <1>3
  <1> HIDE DEF S1, S2
  <1> QED BY <1>2, <1>4, <1>5

LEMMA Yuv444Holds == bgra_to_yuv444 = Stored(OutWidth * OutHeight * 3, Zero, AllThree("Y", "U", "V"))
  BY DEF bgra_to_yuv444, AllThree, ThreeBytes

-----------------------------------------------------------------------------
(* What is shown of any picture, be it the one sent last or not.            *)
At(pic, address) == LET i == address - FlipHeader
                    IN  IF i \in DOMAIN pic.data THEN pic.data[i] ELSE Zero

Shown(pic, ox, oy) ==
    LET h   == pic.header
        y   == h.y_rgb_data + oy * h.y_rgb_pitch
        row == (oy \div 2) * h.uv_pitch
    IN  CASE transport = "nv12" ->
                 <<At(pic, y + ox), At(pic, h.u_uv_data + row + (ox \div 2) * 2),
                   At(pic, h.u_uv_data + row + (ox \div 2) * 2 + 1)>>
          [] transport = "yv12" ->
                 <<At(pic, y + ox), At(pic, h.u_uv_data + row + ox \div 2),
                   At(pic, h.v_data + row + ox \div 2)>>
          [] transport \in {"rgb24", "yuv444"} ->
                 <<At(pic, y + 3 * ox), At(pic, y + 3 * ox + 1), At(pic, y + 3 * ox + 2)>>

Expected(sx, sy) ==
    LET own   == {<<sx, sy>>}
        block == BlockOf(output_x(sx, sy), output_y(sx, sy))
    IN  CASE transport \in {"nv12", "yv12"} ->
                 <<Byte("Y", own), Byte("U", block), Byte("V", block)>>
          [] transport = "rgb24"  -> <<Byte("R", own), Byte("G", own), Byte("B", own)>>
          [] transport = "yuv444" -> <<Byte("Y", own), Byte("U", own), Byte("V", own)>>

Shows(pic) == \A sx \in 0 .. Width - 1, sy \in 0 .. Height - 1 :
                 Shown(pic, output_x(sx, sy), output_y(sx, sy)) = Expected(sx, sy)

LEMMA ReadAt ==
    ASSUME NEW pic, NEW i \in Nat, i \in DOMAIN pic.data, NEW a, a = FlipHeader + i
    PROVE  At(pic, a) = pic.data[i]
  <1>1. a - FlipHeader = i
    BY HeaderAssumption
  <1> QED BY <1>1 DEF At

LEMMA ShownNv12 ==
    ASSUME transport = "nv12", rotation \in Rotations, EvenSides, capture = "420" => rotation = "0",
           NEW pic, pic = [header |-> Header(transport), data |-> Converted],
           NEW ox \in Columns, NEW oy \in Rows
    PROVE  LET bx == ox - (ox % 2)
               by == oy - (oy % 2)
           IN  Shown(pic, ox, oy) = <<OfPixel("Y", ox, oy), OfBlock("U", bx, by), OfBlock("V", bx, by)>>
  <1> DEFINE bx == ox - (ox % 2)
             by == oy - (oy % 2)
             P  == y_pitch
             D  == pic.data
             i  == oy * P + ox
             at == y_size + (oy \div 2) * P + (ox \div 2) * 2
  <1>1. D = Converted /\ (Converted = copy_captured_nv12 \/ Converted = bgra_to_nv12)
    BY DEF Converted
  <1>2. /\ i \in DOMAIN D /\ at \in DOMAIN D /\ at + 1 \in DOMAIN D
        /\ D[i] = OfPixel("Y", ox, oy)
        /\ D[at] = OfBlock("U", bx, by) /\ D[at + 1] = OfBlock("V", bx, by)
    <2>1. CASE capture = "420"
      <3>1. D = copy_captured_nv12
        BY <1>1, <2>1 DEF Converted
      <3> HIDE DEF D
      <3> QED BY <2>1, <3>1, CapturedHolds
    <2>2. CASE capture # "420"
      <3>1. D = bgra_to_nv12
        BY <1>1, <2>2 DEF Converted
      <3> HIDE DEF D
      <3> QED BY <3>1, Nv12Holds
    <2> QED BY <2>1, <2>2
  <1>3. /\ OutHeight \in Nat /\ P \in Nat /\ ox \in Nat /\ oy \in Nat /\ y_size \in Nat
        /\ y_size = P * OutHeight
    BY Pitches DEF y_size
  <1>4. /\ pic.header.y_rgb_pitch = P /\ pic.header.uv_pitch = P
        /\ pic.header.y_rgb_data = FlipHeader /\ pic.header.u_uv_data = FlipHeader + y_size
    BY DEF Header, y_pitch, y_size
  <1> DEFINE h == oy \div 2
             e == (ox \div 2) * 2
  <1>5. h \in Nat /\ e \in Nat
    BY <1>3
  <1> HIDE DEF bx, by, D, h, e
  <1> DEFINE u == oy * P
             v == h * P
  <1>6. u \in Nat /\ v \in Nat /\ i = u + ox /\ at = y_size + v + e
    BY <1>3, <1>5 DEF h, e
  <1>7. Shown(pic, ox, oy) = <<At(pic, FlipHeader + u + ox), At(pic, FlipHeader + y_size + v + e),
                               At(pic, FlipHeader + y_size + v + e + 1)>>
    BY <1>4 DEF Shown, h, e
  <1> HIDE DEF u, v, i, at, P
  <1>8. i \in Nat /\ at \in Nat /\ at + 1 \in Nat
    BY <1>3, <1>5, <1>6
  <1>9. /\ FlipHeader + u + ox = FlipHeader + i /\ FlipHeader + y_size + v + e = FlipHeader + at
        /\ FlipHeader + y_size + v + e + 1 = FlipHeader + (at + 1)
    BY <1>3, <1>5, <1>6, HeaderAssumption
  <1>10. At(pic, FlipHeader + u + ox) = D[i]
    BY <1>2, <1>8, <1>9, ReadAt DEF D
  <1>11. At(pic, FlipHeader + y_size + v + e) = D[at]
    BY <1>2, <1>8, <1>9, ReadAt DEF D
  <1>12. At(pic, FlipHeader + y_size + v + e + 1) = D[at + 1]
    BY <1>2, <1>8, <1>9, ReadAt DEF D
  <1> QED BY <1>2, <1>7, <1>10, <1>11, <1>12 DEF bx, by

LEMMA ShownYv12 ==
    ASSUME transport = "yv12", rotation \in Rotations, EvenSides,
           NEW pic, pic = [header |-> Header(transport), data |-> Converted],
           NEW ox \in Columns, NEW oy \in Rows
    PROVE  LET bx == ox - (ox % 2)
               by == oy - (oy % 2)
           IN  Shown(pic, ox, oy) = <<OfPixel("Y", ox, oy), OfBlock("U", bx, by), OfBlock("V", bx, by)>>
  <1> DEFINE bx == ox - (ox % 2)
             by == oy - (oy % 2)
             P  == y_pitch
             Q  == yv12_uv_pitch
             D  == pic.data
             i  == oy * P + ox
             h  == oy \div 2
             e  == ox \div 2
             w  == Q * (OutHeight \div 2)
             au == y_size + (h * Q + e)
             av == y_size + w + (h * Q + e)
  <1>1. D = bgra_to_yv12
    BY DEF Converted
  <1>2. /\ i \in DOMAIN D /\ au \in DOMAIN D /\ av \in DOMAIN D
        /\ D[i] = OfPixel("Y", ox, oy) /\ D[au] = OfBlock("U", bx, by) /\ D[av] = OfBlock("V", bx, by)
    <2> HIDE DEF D
    <2> QED BY <1>1, Yv12Holds
  <1>3. /\ OutHeight \in Nat /\ P \in Nat /\ Q \in Nat /\ ox \in Nat /\ oy \in Nat /\ y_size \in Nat
        /\ y_size = P * OutHeight
    BY Pitches DEF y_size
  <1>4. /\ pic.header.y_rgb_pitch = P /\ pic.header.uv_pitch = Q
        /\ pic.header.y_rgb_data = FlipHeader /\ pic.header.u_uv_data = FlipHeader + y_size
        /\ pic.header.v_data = FlipHeader + y_size + w
    BY DEF Header, y_pitch, yv12_uv_pitch, y_size
  <1> DEFINE u == oy * P
             v == h * Q
  <1>5. h \in Nat /\ e \in Nat /\ u \in Nat /\ v \in Nat /\ w \in Nat
    <2>1. h \in Nat /\ e \in Nat /\ OutHeight \div 2 \in Nat
      BY <1>3
    <2> HIDE DEF h, e
    <2> QED BY <1>3, <2>1
  <1>6. Shown(pic, ox, oy) = <<At(pic, FlipHeader + u + ox), At(pic, FlipHeader + y_size + v + e),
                               At(pic, FlipHeader + y_size + w + v + e)>>
    BY <1>4 DEF Shown
  <1> HIDE DEF bx, by, D, h, e, w
  <1>7. i = u + ox /\ au = y_size + (v + e) /\ av = y_size + w + (v + e)
    OBVIOUS
  <1> HIDE DEF u, v, i, au, av, P, Q
  <1>8. i \in Nat /\ au \in Nat /\ av \in Nat
    BY <1>3, <1>5, <1>7
  <1>9. /\ FlipHeader + u + ox = FlipHeader + i /\ FlipHeader + y_size + v + e = FlipHeader + au
        /\ FlipHeader + y_size + w + v + e = FlipHeader + av
    BY <1>3, <1>5, <1>7, HeaderAssumption
  <1>10. At(pic, FlipHeader + u + ox) = D[i]
    BY <1>2, <1>8, <1>9, ReadAt DEF D
  <1>11. At(pic, FlipHeader + y_size + v + e) = D[au]
    BY <1>2, <1>8, <1>9, ReadAt DEF D
  <1>12. At(pic, FlipHeader + y_size + w + v + e) = D[av]
    BY <1>2, <1>8, <1>9, ReadAt DEF D
  <1> QED BY <1>2, <1>6, <1>10, <1>11, <1>12 DEF bx, by

LEMMA ShownPacked ==
    ASSUME transport \in {"rgb24", "yuv444"}, rotation \in Rotations,
           NEW pic, pic = [header |-> Header(transport), data |-> Converted],
           NEW ox \in Columns, NEW oy \in Rows, NEW c1, NEW c2, NEW c3,
           <<c1, c2, c3>> = IF transport = "rgb24" THEN <<"R", "G", "B">> ELSE <<"Y", "U", "V">>
    PROVE  Shown(pic, ox, oy) = <<OfPixel(c1, ox, oy), OfPixel(c2, ox, oy), OfPixel(c3, ox, oy)>>
  <1> DEFINE D == pic.data
             k == (oy * OutWidth + ox) * 3
             k1 == k + 1
             k2 == k + 2
             u == oy * (OutWidth * 3)
  <1>1. \E other : D = Stored(OutWidth * OutHeight * 3, other, AllThree(c1, c2, c3))
    <2>1. CASE transport = "rgb24"
      <3>1. D = copy_bgra_to_rgb_bytes /\ c1 = "R" /\ c2 = "G" /\ c3 = "B"
        BY <2>1 DEF Converted
      <3> HIDE DEF D
      <3> QED BY <3>1, RgbHolds
    <2>2. CASE transport = "yuv444"
      <3>1. D = bgra_to_yuv444 /\ c1 = "Y" /\ c2 = "U" /\ c3 = "V"
        BY <2>2 DEF Converted
      <3> HIDE DEF D
      <3> QED BY <3>1, Yuv444Holds
    <2> QED BY <2>1, <2>2
  <1>2. /\ k \in DOMAIN D /\ k1 \in DOMAIN D /\ k2 \in DOMAIN D
        /\ D[k] = OfPixel(c1, ox, oy) /\ D[k1] = OfPixel(c2, ox, oy) /\ D[k2] = OfPixel(c3, ox, oy)
    <2> HIDE DEF D
    <2>1. PICK other : D = Stored(OutWidth * OutHeight * 3, other, AllThree(c1, c2, c3))
      BY <1>1
    <2> QED BY <2>1, Triples
  <1>3. pic.header.y_rgb_pitch = OutWidth * 3 /\ pic.header.y_rgb_data = FlipHeader
    BY DEF Header
  <1>4. OutWidth \in Nat /\ ox \in Nat /\ oy \in Nat
    BY Pitches
  <1>5. Shown(pic, ox, oy) = <<At(pic, FlipHeader + u + 3 * ox), At(pic, FlipHeader + u + 3 * ox + 1),
                               At(pic, FlipHeader + u + 3 * ox + 2)>>
    BY <1>3 DEF Shown
  <1>6. u \in Nat /\ k = u + 3 * ox
    <2> DEFINE q == oy * OutWidth
    <2>1. u = q * 3 /\ q \in Nat
      BY <1>4
    <2>2. k = (q + ox) * 3
      OBVIOUS
    <2> HIDE DEF q, k, u
    <2> QED BY <1>4, <2>1, <2>2
  <1> HIDE DEF D, u, k
  <1>7. k \in Nat /\ k1 \in Nat /\ k2 \in Nat
    BY <1>4, <1>6
  <1>8. /\ FlipHeader + u + 3 * ox = FlipHeader + k /\ FlipHeader + u + 3 * ox + 1 = FlipHeader + k1
        /\ FlipHeader + u + 3 * ox + 2 = FlipHeader + k2
    BY <1>4, <1>6, HeaderAssumption
  <1> HIDE DEF k1, k2
  <1>9. At(pic, FlipHeader + u + 3 * ox) = D[k]
    BY <1>2, <1>7, <1>8, ReadAt DEF D
  <1>10. At(pic, FlipHeader + u + 3 * ox + 1) = D[k1]
    BY <1>2, <1>7, <1>8, ReadAt DEF D
  <1>11. At(pic, FlipHeader + u + 3 * ox + 2) = D[k2]
    BY <1>2, <1>7, <1>8, ReadAt DEF D
  <1> QED BY <1>2, <1>5, <1>9, <1>10, <1>11

(* Every raw picture shows its frame.                                       *)
LEMMA RawIsRight ==
    ASSUME transport \in Raw, rotation \in Rotations, Converts,
           NEW pic, pic = [header |-> Header(transport), data |-> Converted]
    PROVE  Shows(pic)
  <1> SUFFICES ASSUME NEW sx \in 0 .. Width - 1, NEW sy \in 0 .. Height - 1
               PROVE  Shown(pic, output_x(sx, sy), output_y(sx, sy)) = Expected(sx, sy)
    BY DEF Shows
  <1> DEFINE ox == output_x(sx, sy)
             oy == output_y(sx, sy)
             bx == ox - (ox % 2)
             by == oy - (oy % 2)
             own == {<<sx, sy>>}
             block == BlockOf(ox, oy)
  <1>1. /\ ox \in Columns /\ oy \in Rows /\ source_x(ox, oy) = sx /\ source_y(ox, oy) = sy
    BY TurnsBack DEF Columns, Rows
  <1> HIDE DEF ox, oy
  <1>2. Source(ox, oy) = <<sx, sy>>
    BY <1>1 DEF Source
  <1>3. \A c : OfPixel(c, ox, oy) = Byte(c, own)
    BY <1>2 DEF OfPixel
  <1>4. CASE transport \in {"nv12", "yv12"}
    <2>1. EvenSides /\ (capture = "420" => rotation = "0")
      BY <1>4 DEF Converts
    <2>2. Shown(pic, ox, oy) = <<OfPixel("Y", ox, oy), OfBlock("U", bx, by), OfBlock("V", bx, by)>>
      BY <1>1, <1>4, <2>1, ShownNv12, ShownYv12
    <2>3. \A c : OfBlock(c, bx, by) = Byte(c, block)
      <3>1. Four(bx, by) = block
        BY <1>1, <2>1, Blocks
      <3>2. \A c : OfBlock(c, bx, by) = Byte(c, Four(bx, by))
        <4> HIDE DEF bx, by
        <4> QED BY DEF OfBlock, Four
      <3> HIDE DEF bx, by, block
      <3> QED BY <3>1, <3>2
    <2>4. Expected(sx, sy) = <<Byte("Y", own), Byte("U", block), Byte("V", block)>>
      BY <1>4 DEF Expected, ox, oy
    <2> HIDE DEF bx, by, own, block
    <2> QED BY <1>3, <2>2, <2>3, <2>4 DEF ox, oy
  <1>5. CASE transport = "rgb24"
    <2>1. Shown(pic, ox, oy) = <<OfPixel("R", ox, oy), OfPixel("G", ox, oy), OfPixel("B", ox, oy)>>
      BY <1>1, <1>5, ShownPacked
    <2>2. Expected(sx, sy) = <<Byte("R", own), Byte("G", own), Byte("B", own)>>
      BY <1>5 DEF Expected
    <2> QED BY <1>3, <2>1, <2>2 DEF ox, oy
  <1>6. CASE transport = "yuv444"
    <2>1. Shown(pic, ox, oy) = <<OfPixel("Y", ox, oy), OfPixel("U", ox, oy), OfPixel("V", ox, oy)>>
      BY <1>1, <1>6, ShownPacked
    <2>2. Expected(sx, sy) = <<Byte("Y", own), Byte("U", own), Byte("V", own)>>
      BY <1>6 DEF Expected
    <2> QED BY <1>3, <2>1, <2>2 DEF ox, oy
  <1> QED BY <1>4, <1>5, <1>6 DEF Raw

LEMMA RawShows == RawShowsTheFrame <=> (sent = NoPicture \/ Shows(sent))
  BY Zenon DEF RawShowsTheFrame, Shows, Shown, Displayed, Read, At, Expected, BlockOf

(* Nothing that a picture is shown with changes after the start.            *)
LEMMA ShowsStill ==
    ASSUME rotation' = rotation, transport' = transport, NEW pic, sent' = pic,
           pic = NoPicture \/ Shows(pic)
    PROVE  RawShowsTheFrame'
  <1>1. \A a, b : output_x(a, b)' = output_x(a, b) /\ output_y(a, b)' = output_y(a, b)
    BY Zenon DEF output_x, output_y
  <1>2. \A a, b : BlockOf(a, b)' = BlockOf(a, b)
    <2> SUFFICES ASSUME NEW a, NEW b PROVE BlockOf(a, b)' = BlockOf(a, b)
      OBVIOUS
    <2> QED BY <1>1 DEF BlockOf
  <1>3. \A a, b : Expected(a, b)' = Expected(a, b)
    BY <1>1, <1>2, Zenon DEF Expected
  <1>4. \A a, b : Shown(sent, a, b)' = Shown(pic, a, b)
    <2>1. \A a : At(sent, a)' = At(pic, a)
      BY Zenon DEF At
    <2> SUFFICES ASSUME NEW a, NEW b PROVE Shown(sent, a, b)' = Shown(pic, a, b)
      OBVIOUS
    <2>2. sent'.header = pic.header
      OBVIOUS
    <2> QED BY <2>1, <2>2, Zenon DEF Shown
  <1>5. pic # NoPicture => Shows(sent)'
    BY <1>1, <1>3, <1>4, Zenon DEF Shows
  <1>6. NoPicture' = NoPicture
    BY DEF NoPicture
  <1>7. (RawShowsTheFrame <=> (sent = NoPicture \/ Shows(sent)))'
    BY RawShows, PTL
  <1> QED BY <1>5, <1>6, <1>7

-----------------------------------------------------------------------------
(* The picture the encoder is handed.                                       *)
LEMMA HandedPlaced ==
    ASSUME GeometryInv, NEW i \in 0 .. Handed.w - 1, NEW j \in 0 .. Handed.h - 1
    PROVE  LET p == HandedPixel(i, j)
           IN  /\ output_x(p[1], p[2]) = Handed.x + i
               /\ output_y(p[1], p[2]) = Handed.y + j
  <1>0. rotation \in Rotations
    BY DEF GeometryInv
  <1>1. CASE tile # None
    <2>1. Handed = tile /\ HandedPixel(i, j) = <<CropX(i, j), CropY(i, j)>>
      BY <1>1 DEF Handed, HandedPixel
    <2>2. output_x(CropX(i, j), CropY(i, j)) = tile.x + i /\ output_y(CropX(i, j), CropY(i, j)) = tile.y + j
      BY <2>1, CropIsRight, Zenon DEF CropReadsTheTile
    <2> DEFINE a == CropX(i, j)
               b == CropY(i, j)
    <2> HIDE DEF a, b
    <2>3. HandedPixel(i, j)[1] = a /\ HandedPixel(i, j)[2] = b
      BY <2>1 DEF a, b
    <2> QED BY <2>1, <2>2, <2>3, Zenon DEF a, b
  <1>2. CASE tile = None
    <2>1. /\ Handed.x = 0 /\ Handed.y = 0 /\ Handed.w = OutWidth /\ Handed.h = OutHeight
      BY <1>2 DEF Handed
    <2>2. i \in Columns /\ j \in Rows
      BY <2>1 DEF Columns, Rows
    <2>3. HandedPixel(i, j) = Source(i, j)
      BY <1>0, <1>2 DEF HandedPixel, Rotations, vImageRotate90, rotation_constant, Source, source_x, source_y
    <2>4. /\ output_x(source_x(i, j), source_y(i, j)) = i /\ output_y(source_x(i, j), source_y(i, j)) = j
      BY <1>0, <2>2, OutputPlace
    <2> DEFINE a == source_x(i, j)
               b == source_y(i, j)
    <2> HIDE DEF a, b
    <2>5. HandedPixel(i, j)[1] = a /\ HandedPixel(i, j)[2] = b
      BY <2>3 DEF a, b, Source
    <2>6. output_x(HandedPixel(i, j)[1], HandedPixel(i, j)[2]) = i
          /\ output_y(HandedPixel(i, j)[1], HandedPixel(i, j)[2]) = j
      BY <2>4, <2>5, Zenon DEF a, b
    <2>7. i = Handed.x + i /\ j = Handed.y + j
      BY <2>1, <2>2, <1>0, Pitches
    <2> QED BY <2>6, <2>7, Zenon
  <1> QED BY <1>1, <1>2

LEMMA EncoderIsRight == GeometryInv => EncoderSeesThePicture
  <1> SUFFICES ASSUME GeometryInv PROVE EncoderSeesThePicture
    OBVIOUS
  <1> DEFINE w == Handed.w
             h == Handed.h
             Placed(p, i, j) == /\ output_x(p[1], p[2]) = Handed.x + i
                                /\ output_y(p[1], p[2]) = Handed.y + j
  <1>1. w \in Nat /\ h \in Nat
    <2>1. CASE tile # None
      BY <2>1 DEF Handed, GeometryInv, Inside, Box
    <2>2. CASE tile = None
      BY <2>2, Pitches DEF Handed, GeometryInv
    <2> QED BY <2>1, <2>2
  <1>2. \A i \in 0 .. w - 1, j \in 0 .. h - 1 : Placed(HandedPixel(i, j), i, j)
    BY HandedPlaced
  <1> HIDE DEF w, h, Placed
  <1>3. ASSUME NEW i \in 0 .. w - 1, NEW j \in 0 .. h - 1
        PROVE  /\ T6Luma(w, h)[j * w + i][1] = "Y"
               /\ \A p \in T6Luma(w, h)[j * w + i][2] : Placed(p, i, j)
    <2> DEFINE k == j * w + i
    <2>1. k \in Nat /\ k < h * w /\ h * w = w * h /\ k % w = i /\ k \div w = j
      <3>1. i \in Nat /\ j \in Nat /\ i < w /\ j < h
        BY <1>1
      <3>2. k \in Nat /\ k < h * w
        BY <1>1, <3>1, Place
      <3>3. k % w = i /\ k \div w = j
        BY <1>1, <3>1, Quotient
      <3> QED BY <1>1, <3>2, <3>3
    <2> HIDE DEF k
    <2>2. k \in 0 .. w * h - 1
      BY <1>1, <2>1
    <2>3. T6Luma(w, h)[k] = Byte("Y", {HandedPixel(i, j)})
      BY <2>1, <2>2 DEF T6Luma
    <2>4. T6Luma(w, h)[k][1] = "Y" /\ T6Luma(w, h)[k][2] = {HandedPixel(i, j)}
      BY <2>3 DEF Byte
    <2> QED BY <1>2, <2>4 DEF k
  <1>4. ASSUME NEW i \in 0 .. w - 1, NEW j \in 0 .. h - 1, w % 2 = 0, h % 2 = 0, NEW c
        PROVE  LET u == T6Chroma(c, w, h)[(j \div 2) * (w \div 2) + i \div 2]
               IN  u[1] = c /\ \E p \in u[2] : Placed(p, i, j)
    <2> DEFINE m == w \div 2
               n == h \div 2
               a == i \div 2
               b == j \div 2
               k == b * m + a
    <2>1. m \in Nat /\ n \in Nat /\ a \in Nat /\ b \in Nat /\ a < m /\ b < n
      BY <1>1, <1>4
    <2>2. /\ \E dx \in {0, 1} : i = 2 * a + dx
          /\ \E dy \in {0, 1} : j = 2 * b + dy
      BY <1>1
    <2>3. PICK dx \in {0, 1}, dy \in {0, 1} : i = 2 * a + dx /\ j = 2 * b + dy
      BY <2>2
    <2> DEFINE S(x, y) == {HandedPixel(2 * x + ex, 2 * y + ey) : ex, ey \in {0, 1}}
    <2>4. T6Chroma(c, w, h) = [q \in 0 .. m * n - 1 |-> Byte(c, S(q % m, q \div m))]
      BY DEF T6Chroma
    <2> HIDE DEF m, n, a, b, S
    <2>5. k \in Nat /\ k < m * n /\ k % m = a /\ k \div m = b
      <3>1. k \in Nat /\ k < n * m
        BY <2>1, Place
      <3>2. k % m = a /\ k \div m = b
        BY <2>1, Quotient
      <3> QED BY <2>1, <3>1, <3>2
    <2> HIDE DEF k
    <2>6. m * n \in Nat
      BY <2>1
    <2>7. k \in 0 .. m * n - 1
      BY <2>5, <2>6
    <2>8. T6Chroma(c, w, h)[k] = Byte(c, S(a, b))
      BY <2>4, <2>5, <2>7
    <2>9. HandedPixel(i, j) \in S(a, b)
      <3>1. HandedPixel(2 * a + dx, 2 * b + dy) \in S(a, b)
        BY SMT DEF S
      <3> QED BY <2>3, <3>1
    <2>10. T6Chroma(c, w, h)[k][1] = c /\ T6Chroma(c, w, h)[k][2] = S(a, b)
      BY <2>8 DEF Byte
    <2>11. Placed(HandedPixel(i, j), i, j)
      BY <1>2
    <2>12. T6Chroma(c, w, h)[k][1] = c /\ \E p \in T6Chroma(c, w, h)[k][2] : Placed(p, i, j)
      BY <2>9, <2>10, <2>11, Zenon
    <2> QED BY <2>12 DEF k, a, b, m
  <1> DEFINE C == [c \in {"U", "V"} |-> T6Chroma(c, w, h)]
  <1>5. \A c \in {"U", "V"} : C[c] = T6Chroma(c, w, h)
    OBVIOUS
  <1> HIDE DEF C
  <1>6. ASSUME NEW i \in 0 .. w - 1, NEW j \in 0 .. h - 1, w % 2 = 0, h % 2 = 0, NEW c \in {"U", "V"}
        PROVE  LET u == C[c][(j \div 2) * (w \div 2) + i \div 2]
               IN  u[1] = c /\ \E p \in u[2] : Placed(p, i, j)
    <2>1. C[c] = T6Chroma(c, w, h)
      BY <1>5
    <2>2. LET u == T6Chroma(c, w, h)[(j \div 2) * (w \div 2) + i \div 2]
          IN  u[1] = c /\ \E p \in u[2] : Placed(p, i, j)
      BY <1>4, <1>6
    <2> QED BY <2>1, <2>2, Zenon
  <1>7. \A i \in 0 .. w - 1, j \in 0 .. h - 1 :
           /\ T6Luma(w, h)[j * w + i][1] = "Y"
           /\ \A p \in T6Luma(w, h)[j * w + i][2] : Placed(p, i, j)
           /\ w % 2 = 0 /\ h % 2 = 0 =>
                \A c \in {"U", "V"} :
                   LET u == C[c][(j \div 2) * (w \div 2) + i \div 2]
                   IN  u[1] = c /\ \E p \in u[2] : Placed(p, i, j)
    BY <1>3, <1>6, Zenon
  <1> QED BY <1>7, Zenon DEF EncoderSeesThePicture, Placed, w, h, C

(* The inductive invariant of the pictures: that of the updates, and a raw
   picture that shows the frame it was made of.                             *)
PictureInv == UpdateInv /\ RawShowsTheFrame

LEMMA InitPicture == UpdateInit => PictureInv
  BY InitUpdate, Zenon DEF UpdateInit, PictureInit, PictureInv, RawShowsTheFrame

LEMMA NextPicture == PictureInv /\ [UpdateNext]_<<pictureVars, update>> => PictureInv'
  <1> SUFFICES ASSUME PictureInv, [UpdateNext]_<<pictureVars, update>> PROVE PictureInv'
    OBVIOUS
  <1>1. UpdateInv'
    BY NextUpdate DEF PictureInv
  <1>2. sent = NoPicture \/ Shows(sent)
    BY RawShows DEF PictureInv
  <1>3. UpdateInv /\ rotation \in Rotations
    BY DEF PictureInv, UpdateInv, GeometryInv
  <1>4. rotation' = rotation /\ transport' = transport
    BY DEF UpdateNext, JpegFrame, RawFrame, RefusedFrame, SendRaw, SendJpeg, SendTile, SendFull, Refuse,
           pictureVars, vars
  <1>5. CASE sent' = sent
    <2>1. RawShowsTheFrame'
      BY <1>2, <1>4, <1>5, ShowsStill
    <2> QED BY <1>1, <2>1 DEF PictureInv
  <1>6. CASE RawFrame
    <2> DEFINE pic == [header |-> Header(transport), data |-> Converted]
    <2>1. transport \in Raw /\ Converts /\ sent' = pic
      BY <1>6 DEF RawFrame, SendRaw
    <2> HIDE DEF pic
    <2>2. Shows(pic)
      BY <1>3, <2>1, RawIsRight DEF pic
    <2>3. RawShowsTheFrame'
      BY <1>4, <2>1, <2>2, ShowsStill
    <2> QED BY <1>1, <2>3 DEF PictureInv
  <1>7. RawFrame \/ sent' = sent
    BY DEF UpdateNext, JpegFrame, RefusedFrame, SendJpeg, Refuse, pictureVars
  <1> QED BY <1>5, <1>6, <1>7

LEMMA AlwaysPicture == UpdateSpec => []PictureInv
  BY InitPicture, NextPicture, PTL DEF UpdateSpec

(* PicturesAreRight: for every size of frame, pitch, rotation, transport and
   capture format, each pixel of the captured frame is displayed in bytes of
   this frame where the rotation places it, and the encoder is handed, for a
   full picture and for a tile of it alike, the pixels that belong there.   *)
THEOREM PicturesAreTrue == UpdateSpec => []PicturesAreRight
  <1>1. PictureInv => PicturesAreRight
    BY EncoderIsRight DEF PictureInv, UpdateInv, PicturesAreRight
  <1> QED BY <1>1, AlwaysPicture, PTL

=============================================================================
