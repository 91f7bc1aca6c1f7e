-------------------------- MODULE EvdiPainterProofs --------------------------
(***************************************************************************)
(* What the evdi painter promises, for any framebuffers, cursors, files,   *)
(* clips, limits and workloads: that its lists and records keep their      *)
(* types, and, from that, that damage is not lost (DamageIsNotLost), that  *)
(* a waiting client is woken (WakeupIsNotLost), that the event of a flip   *)
(* is held or sent once (FlipIsHeldOnce), that the newest position of the  *)
(* cursor survives (LatestMoveIsKept), that buffers outlive their users    *)
(* (BuffersOutlive), and that a painted cursor leaves no trail             *)
(* (CursorsLeaveNoTrail).                                                  *)
(*                                                                         *)
(* The types come first, with the inductive invariant of each theorem.     *)
(* merge_dirty_rects runs until it finds no pair to merge, so what it      *)
(* returns is shown by induction over the number of rectangles, as a least *)
(* counterexample (LeastNat), from the recursion it is written with        *)
(* (TailRecursion).                                                        *)
(***************************************************************************)
EXTENDS EvdiPainter, FiniteSetTheorems, WellFoundedInduction, TLAPS

Maybe(S) == S \cup {None}
Points == Int \X Int
Events == [type : {"cursor_move"}, value : Points]
          \cup [type : {"cursor_set", "mode", "update_ready"}, value : Maybe(Objects)]
          \cup [type : {"dpms"}, value : {"on", "off"}] \cup [type : {"ddcci"}, value : Nat]
CursorStates == [enabled : BOOLEAN, object : Maybe(Objects), x : Int, y : Int]
Gems == [references : Int, pages : BOOLEAN, pages_pin_count : Int,
         vmapping : BOOLEAN, maps : Int, mmapped : Int, exported : Int]

CommitPlaces == {"idle", "plane", "scanout", "damage", "check", "full", "flush", "mode", "dpms",
                 "send", "vblank", "ready", "end", "picture", "enable", "events", "oldrect", "newrect",
                 "set", "move"}
ThenPlaces == {"idle", "scanout", "dpms", "vblank", "move", "flush"}
Commits == [pc : CommitPlaces, kind : {"frame", "cursor"}, fb : Maybe(Objects),
            old : Maybe(Objects), damage : Seq(Rects), mode : BOOLEAN, notifyMode : BOOLEAN,
            notifyDpms : BOOLEAN, event : Maybe(Nat), cursor : CursorStates, moved : BOOLEAN,
            send : Maybe(Events), then : ThenPlaces]
GrabPlaces == {"idle", "granted", "map", "copy", "paint", "end"}
Grabs == [pc : GrabPlaces, rects : Seq(Rects), fb : Maybe(Fbs), event : Maybe(Nat),
          size : Maybe([w : Nat, h : Nat])]
DdcPlaces == {"idle", "send", "wait"}
Ddcs == [pc : DdcPlaces, buffer : Maybe(Nat), done : BOOLEAN, asked : Nat, got : Maybe(Nat)]

PainterTypes ==
    /\ is_connected \in BOOLEAN /\ drm_filp \in Maybe(Files) /\ dirty_rects \in Seq(Rects)
    /\ scanout_fb \in Maybe(Fbs) /\ was_update_requested \in BOOLEAN
    /\ needs_full_modeset \in BOOLEAN /\ vblank \in Maybe(Nat)
EventTypes ==
    /\ pending_events \in Seq(Events) /\ send_events_work \in BOOLEAN
    /\ inbox \in [Files -> Seq(Events)] /\ \A f \in Files : Len(inbox[f]) <= EventSpace
CursorTypes == cursor \in CursorStates /\ cursor_events_enabled \in BOOLEAN
PlaneTypes ==
    /\ plane \in Maybe(Fbs) /\ cursorPlane \in Maybe(Objects)
    /\ handles \subseteq Objects \X (Files \cup {"compositor", "id"})
BufferTypes == fbrefs \in [Fbs -> Int] /\ gem \in [Objects -> Gems]
GhostTypes == flips \in Nat /\ answered \in Seq(Nat) /\ told \in Maybe(Points)

(* Where a commit is says what it is a commit of.                           *)
CommitTypes ==
    /\ commit \in Commits
    /\ commit.kind = "frame" => commit.fb \in Maybe(Fbs) /\ commit.old \in Maybe(Fbs)
    /\ \/ commit.pc \in {"plane", "scanout", "damage", "check", "full"}
       \/ commit.pc = "send" /\ commit.then = "scanout"
       => commit.kind = "frame"
    /\ commit.pc \in {"damage", "check", "full", "picture", "oldrect", "newrect"} => commit.fb # None
    /\ commit.pc \in {"picture", "enable"} => commit.kind = "cursor"
    /\ commit.pc = "send" => commit.send \in Events /\ commit.then # "idle"

(* A grab that has begun has a framebuffer.                                 *)
GrabHasFb == grab.pc \notin {"idle", "granted"} => grab.fb # None

TypeOK ==
    /\ PainterTypes /\ EventTypes /\ CursorTypes /\ PlaneTypes /\ GhostTypes
    /\ CommitTypes /\ grab \in Grabs /\ ddcci \in Ddcs /\ budget \in Budgets
    /\ GrabHasFb

(* A grab begins only when no request stands.                               *)
WakeInv ==
    /\ grab.pc # "idle" => ~was_update_requested
    /\ NoLostWakeup

(* An event is counted where it is held; it is with nobody outside the commit
   and the grab it belongs to.                                              *)
Holds(x, e) == IF x = e THEN 1 ELSE 0
FlipInv ==
    /\ Len(answered) = flips
    /\ {commit.event, vblank, grab.event} \subseteq Maybe(1 .. flips)
    /\ commit.pc \in {"idle", "ready", "end"} => commit.event = None
    /\ grab.pc \in {"idle", "granted"} => grab.event = None
    /\ \A e \in 1 .. flips :
          answered[e] + Holds(commit.event, e) + Holds(vblank, e) + Holds(grab.event, e) = 1

(* The last move is in the list, or there is none in the list and it is
   in the file, or there it was already read.                               *)
IsMove(e) == e.type = "cursor_move"
NoMove(list) == \A i \in 1 .. Len(list) : ~IsMove(list[i])
MovesEndAt(v, list) ==
    \E i \in 1 .. Len(list) : /\ IsMove(list[i]) /\ v = list[i].value
                              /\ \A j \in 1 .. Len(list) : IsMove(list[j]) => j <= i
Newest(v, position, box, list) ==
    \/ MovesEndAt(v, list)
    \/ NoMove(list) /\ MovesEndAt(v, box)
    \/ NoMove(list) /\ NoMove(box) /\ v = position
MoveInv ==
    told # None /\ drm_filp # None /\ ~oops =>
        Newest(told, seen, inbox[drm_filp], pending_events)

(* The framebuffer a commit replaces is held until it ends.                 *)
OldFb == IF commit.pc # "idle" /\ commit.kind = "frame" THEN commit.old ELSE None
FbHolders(f) ==
    (IF <<f, "id">> \in handles THEN 1 ELSE 0) + Holds(plane, f) + Holds(scanout_fb, f)
    + Holds(grab.fb, f) + Holds(OldFb, f)
(* The picture a commit of the cursor replaces is, too.                     *)
OldPicture == IF commit.pc # "idle" /\ commit.kind = "cursor" THEN commit.old ELSE None
Planes(o) == Holds(cursorPlane, o) + Holds(OldPicture, o)
SamePlanes == cursorPlane' = cursorPlane /\ OldPicture' = OldPicture
(* The files, the plane and the cursor that hold an object, and its framebuffer. *)
Openers(o) == {x \in Files \cup {"compositor"} : <<o, x>> \in handles}
Openings(o) == Cardinality(Openers(o)) + Planes(o) + Holds(cursor.object, o)
Live(refs, o) == IF o \in Fbs /\ refs[o] > 0 THEN 1 ELSE 0

(* What every operation of evdi_gem.c keeps of an object that is alive.     *)
Pins(o, b) == (IF Kind[o] = "imported" THEN 0 ELSE b.maps) + b.mmapped + b.exported
Sound(o, b) ==
    /\ b.mmapped >= 0 /\ b.exported >= 0
    /\ b.references > 0 =>
         /\ b.maps = (IF b.vmapping THEN 1 ELSE 0) /\ b.pages_pin_count >= Pins(o, b)
         /\ b.pages_pin_count > 0 => b.pages
(* An object with n holders, besides those who imported it.                 *)
Alive(o, b, n) == b \in Gems /\ Sound(o, b) /\ b.references >= n + b.exported

FbInv == \A f \in Fbs : fbrefs[f] = FbHolders(f)
GemInv == \A o \in Objects : Alive(o, gem[o], Openings(o) + Live(fbrefs, o))
UseInv ==
    /\ commit.pc # "idle" /\ commit.kind = "frame" => commit.fb = plane
    /\ commit.pc # "idle" /\ commit.kind = "cursor" => commit.fb = cursorPlane
    /\ grab.pc \in {"idle", "granted"} => grab.fb = None
BufInv ==
    /\ BufferTypes /\ FbInv /\ GemInv /\ UseInv
    /\ grab.pc \in {"copy", "paint"} => gem[grab.fb].vmapping
    /\ cursor.object # None => gem[cursor.object].vmapping

-----------------------------------------------------------------------------
(* Induction, by the least counterexample.                                  *)
LEMMA LeastNat ==
    ASSUME NEW T \in SUBSET Nat, T # {}
    PROVE  \E n \in T : \A m \in T : n <= m
  <1> DEFINE R == {ss \in Nat \X Nat : ss[1] < ss[2]}
  <1>0. OpToRel(<,Nat) = R
    BY DEF OpToRel
  <1>1. IsWellFoundedOn(R, Nat)
    BY <1>0, NatLessThanWellFounded
  <1>2. PICK n \in T : \A m \in T : ~ (<<m, n>> \in R)
    BY <1>1, WFMin
  <1>3. ASSUME NEW m \in T PROVE n <= m
    <2>1. ~(<<m,n>> \in R) /\ m \in Nat /\ n \in Nat
       BY <1>2
    <2>2. <<m,n>> \in Nat \X Nat /\ <<m,n>>[1] = m /\ <<m,n>>[2] = n
       BY <2>1
    <2>3. ~(m < n)
       <3>1. ~(<<m,n>>[1] < <<m,n>>[2])
         BY <2>1, <2>2, Zenon
       <3> QED BY <3>1, <2>2, Zenon
    <2> QED BY <2>3, <2>1
  <1> QED BY <1>3

(* A function that calls itself last exists, whether or not it ends.        *)
CallsItselfLast(f, D, E, step, out) ==
    f = [s \in D |-> IF s \in E THEN out[s] ELSE f[step[s]]]

LEMMA TailRecursion ==
    ASSUME NEW D, NEW E, NEW step \in [D -> D], NEW out
    PROVE  \E f : CallsItselfLast(f, D, E, step, out)
  <1> DEFINE Trace(s, n, g) ==
                /\ g[0] = s /\ g[n] \in E
                /\ \A i \in 0 .. n - 1 : g[i] \notin E /\ g[i + 1] = step[g[i]]
             Ends(s) == {t \in D : \E n \in Nat : \E g \in [0 .. n -> D] : Trace(s, n, g) /\ t = g[n]}
             f == [s \in D |-> out[CHOOSE t : t \in Ends(s)]]
  <1>1. ASSUME NEW s \in D, s \in E PROVE Ends(s) = {s}
    <2>1. ASSUME NEW n \in Nat, NEW g \in [0 .. n -> D], Trace(s, n, g) PROVE g[n] = s
      <3>1. n = 0
        <4>1. SUFFICES ASSUME n # 0 PROVE FALSE
          OBVIOUS
        <4>2. 0 \in 0 .. n - 1
          BY <4>1
        <4> QED BY <1>1, <2>1, <4>2
      <3> QED BY <2>1, <3>1
    <2>2. s \in Ends(s)
      <3> DEFINE g == [i \in 0 .. 0 |-> s]
      <3>1. g \in [0 .. 0 -> D] /\ g[0] = s
        OBVIOUS
      <3>2. Trace(s, 0, g)
        BY <1>1, <3>1
      <3> QED BY <3>1, <3>2
    <2> HIDE DEF Trace
    <2> QED BY <2>1, <2>2
  <1>2. ASSUME NEW s \in D, s \notin E PROVE Ends(s) = Ends(step[s])
    <2>1. ASSUME NEW n \in Nat, NEW g \in [0 .. n -> D], Trace(s, n, g)
          PROVE  g[n] \in Ends(step[s])
      <3>1. n # 0
        BY <1>2, <2>1
      <3> DEFINE m == n - 1
                 h == [i \in 0 .. m |-> g[i + 1]]
      <3>2. m \in Nat /\ n = m + 1 /\ (\A i \in 0 .. m : i + 1 \in 0 .. n /\ i \in 0 .. n - 1)
            /\ (\A i \in 0 .. m - 1 : i + 1 \in 0 .. n - 1 /\ i \in 0 .. m /\ i + 1 \in 0 .. m)
            /\ 0 \in 0 .. m /\ m \in 0 .. m
        BY <3>1
      <3> HIDE DEF m
      <3>3. h \in [0 .. m -> D] /\ h[0] = g[0 + 1] /\ h[m] = g[n]
        BY <3>2
      <3>4. Trace(step[s], m, h)
        BY <2>1, <3>2, <3>3
      <3> HIDE DEF h, Trace
      <3>5. g[n] \in D
        BY <3>2, <3>3
      <3> QED BY <3>2, <3>3, <3>4, <3>5
    <2>2. ASSUME NEW n \in Nat, NEW h \in [0 .. n -> D], Trace(step[s], n, h)
          PROVE  h[n] \in Ends(s)
      <3> DEFINE m == n + 1
                 g == [i \in 0 .. m |-> IF i = 0 THEN s ELSE h[i - 1]]
      <3>2. /\ m \in Nat /\ m # 0 /\ n = m - 1
            /\ \A i \in 0 .. m : i # 0 => i - 1 \in 0 .. n
            /\ \A i \in 0 .. m - 1 : /\ i \in 0 .. m /\ i + 1 \in 0 .. m /\ i + 1 # 0
                                     /\ (i + 1) - 1 = i
                                     /\ i # 0 => i - 1 \in 0 .. n - 1 /\ (i - 1) + 1 = i
            /\ 0 \in 0 .. m /\ m \in 0 .. m
        OBVIOUS
      <3> HIDE DEF m
      <3>3. g \in [0 .. m -> D] /\ g[0] = s /\ g[m] = h[n]
        BY <3>2
      <3>4. ASSUME NEW i \in 0 .. m - 1 PROVE g[i] \notin E /\ g[i + 1] = step[g[i]]
        <4>1. g[i + 1] = h[i]
          BY <3>2
        <4>2. CASE i = 0
          BY <1>2, <2>2, <3>3, <4>1, <4>2
        <4>3. CASE i # 0
          BY <2>2, <3>2, <4>1, <4>3
        <4> QED BY <4>2, <4>3
      <3>5. Trace(s, m, g)
        BY <2>2, <3>3, <3>4
      <3> HIDE DEF g, Trace
      <3>6. h[n] \in D
        BY <3>2, <3>3
      <3> QED BY <3>2, <3>3, <3>5, <3>6
    <2> HIDE DEF Trace
    <2>3. \A t \in Ends(s) : t \in Ends(step[s])
      <3>1. SUFFICES ASSUME NEW t \in Ends(s) PROVE t \in Ends(step[s])
        OBVIOUS
      <3>2. PICK n \in Nat : \E g \in [0 .. n -> D] : Trace(s, n, g) /\ t = g[n]
        BY <3>1
      <3>3. PICK g \in [0 .. n -> D] : Trace(s, n, g) /\ t = g[n]
        BY <3>2
      <3> HIDE DEF Ends
      <3> QED BY <2>1, <3>3
    <2>4. \A t \in Ends(step[s]) : t \in Ends(s)
      <3>1. SUFFICES ASSUME NEW t \in Ends(step[s]) PROVE t \in Ends(s)
        OBVIOUS
      <3>2. PICK n \in Nat : \E g \in [0 .. n -> D] : Trace(step[s], n, g) /\ t = g[n]
        BY <3>1
      <3>3. PICK g \in [0 .. n -> D] : Trace(step[s], n, g) /\ t = g[n]
        BY <3>2
      <3> HIDE DEF Ends
      <3> QED BY <2>2, <3>3
    <2> HIDE DEF Ends
    <2> QED BY <2>3, <2>4, Zenon
  <1> HIDE DEF Ends
  <1>3. ASSUME NEW s \in D PROVE f[s] = IF s \in E THEN out[s] ELSE f[step[s]]
    <2>1. CASE s \in E
      <3>1. (CHOOSE t : t \in {s}) = s
        BY Zenon
      <3> QED BY <1>1, <2>1, <3>1
    <2>2. CASE s \notin E
      BY <1>2, <2>2
    <2> QED BY <2>1, <2>2
  <1>4. f = [s \in D |-> IF s \in E THEN out[s] ELSE f[step[s]]]
    <2> HIDE DEF f
    <2>1. \A s \in D : f[s] = IF s \in E THEN out[s] ELSE f[step[s]]
      BY <1>3
    <2>2. f = [s \in D |-> f[s]]
      BY DEF f
    <2> QED BY <2>1, <2>2
  <1> HIDE DEF f
  <1>5. CallsItselfLast(f, D, E, step, out)
    BY <1>4 DEF CallsItselfLast
  <1> QED BY <1>5

-----------------------------------------------------------------------------
(* The rectangles.                                                          *)

(* Every pixel of the rectangles of old is in one of new.                   *)
Covers(new, old) ==
    \A i \in 1 .. Len(old) : \A p \in Pixels(old[i]) : \E j \in 1 .. Len(new) : p \in Pixels(new[j])

LEMMA PixelIn ==
    ASSUME NEW r \in Rects
    PROVE  \A p : p \in Pixels(r) <=> /\ p \in Points /\ r.x1 <= p[1] /\ p[1] < r.x2
                                      /\ r.y1 <= p[2] /\ p[2] < r.y2
  <1>1. r.x1 \in Int /\ r.y1 \in Int /\ r.x2 \in Int /\ r.y2 \in Int
    BY DEF Rects
  <1>2. \A p : p \in Pixels(r) <=> /\ p \in Points /\ p[1] \in r.x1 .. r.x2 - 1
                                    /\ p[2] \in r.y1 .. r.y2 - 1
    BY <1>1 DEF Pixels, Points
  <1>3. \A p \in Points : p[1] \in Int /\ p[2] \in Int
    BY DEF Points
  <1> QED BY <1>1, <1>2, <1>3

LEMMA ExpandRect ==
    ASSUME NEW a \in Rects, NEW b \in Rects
    PROVE  /\ expand_rect(a, b) \in Rects
           /\ Pixels(a) \subseteq Pixels(expand_rect(a, b))
           /\ Pixels(b) \subseteq Pixels(expand_rect(a, b))
  <1> DEFINE c == expand_rect(a, b)
  <1>0. /\ a.x1 \in Int /\ a.y1 \in Int /\ a.x2 \in Int /\ a.y2 \in Int
        /\ b.x1 \in Int /\ b.y1 \in Int /\ b.x2 \in Int /\ b.y2 \in Int
    BY DEF Rects
  <1>1. /\ c.x1 = Lesser(a.x1, b.x1) /\ c.y1 = Lesser(a.y1, b.y1)
        /\ c.x2 = Greater(a.x2, b.x2) /\ c.y2 = Greater(a.y2, b.y2) /\ c \in Rects
    BY <1>0 DEF expand_rect, Rect, Rects, Lesser, Greater
  <1> HIDE DEF c
  <1>2. /\ c.x1 <= a.x1 /\ c.x1 <= b.x1 /\ c.y1 <= a.y1 /\ c.y1 <= b.y1
        /\ c.x2 >= a.x2 /\ c.x2 >= b.x2 /\ c.y2 >= a.y2 /\ c.y2 >= b.y2
        /\ c.x1 \in Int /\ c.y1 \in Int /\ c.x2 \in Int /\ c.y2 \in Int
    BY <1>0, <1>1 DEF Lesser, Greater
  <1>3. \A p \in Points : p[1] \in Int /\ p[2] \in Int
    BY DEF Points
  <1>4. \A p \in Pixels(a) : p \in Pixels(c)
    BY <1>0, <1>1, <1>2, <1>3, PixelIn
  <1>5. \A p \in Pixels(b) : p \in Pixels(c)
    BY <1>0, <1>1, <1>2, <1>3, PixelIn
  <1> QED BY <1>1, <1>4, <1>5 DEF c

(* The three ways a step of the merging goes.                               *)
LEMMA MergeStepIs ==
    ASSUME NEW r \in Seq(Rects), NEW a \in Nat \ {0}, NEW b \in Nat \ {0}, a < Len(r)
    PROVE  \/ b > Len(r) /\ MergeStep(<<r, a, b>>) = <<r, a + 1, a + 2>>
           \/ b <= Len(r) /\ MergeStep(<<r, a, b>>) = <<r, a, b + 1>>
           \/ \E n \in Seq(Rects) : /\ b <= Len(r) /\ MergeStep(<<r, a, b>>) = <<n, a, a + 1>>
                                    /\ Len(n) = Len(r) - 1 /\ (b > a => Covers(n, r))
  <1> DEFINE both == expand_rect(r[a], r[b])
             moved == [r EXCEPT ![b] = r[Len(r)], ![a] = both]
             n == SubSeq(moved, 1, Len(r) - 1)
             s == <<r, a, b>>
  <1>0. s[1] = r /\ s[2] = a /\ s[3] = b
    OBVIOUS
  <1>1. MergeStep(s) = IF b > Len(r) THEN <<r, a + 1, a + 2>>
                       ELSE IF rect_area(both) <= rect_area(r[a]) + rect_area(r[b])
                       THEN <<n, a, a + 1>> ELSE <<r, a, b + 1>>
    BY <1>0, Zenon DEF MergeStep
  <1>2. CASE b > Len(r)
    BY <1>1, <1>2
  <1>3. CASE ~(b > Len(r))
    <2>0. Len(r) \in Nat /\ Len(r) > 0 /\ a \in 1 .. Len(r) /\ b \in 1 .. Len(r)
          /\ Len(r) \in 1 .. Len(r)
      BY <1>3
    <2>1. r[a] \in Rects /\ r[b] \in Rects /\ r[Len(r)] \in Rects
      BY <2>0
    <2>2. both \in Rects /\ Pixels(r[a]) \subseteq Pixels(both)
          /\ Pixels(r[b]) \subseteq Pixels(both)
      BY <2>1, ExpandRect
    <2> HIDE DEF both
    <2>3. moved \in Seq(Rects) /\ Len(moved) = Len(r)
          /\ \A i \in 1 .. Len(r) : moved[i] = IF i = a THEN both ELSE IF i = b THEN r[Len(r)] ELSE r[i]
      BY <2>0, <2>1, <2>2
    <2> HIDE DEF moved
    <2>4. n \in Seq(Rects) /\ Len(n) = Len(r) - 1 /\ \A i \in 1 .. Len(r) - 1 : n[i] = moved[i]
      BY <2>0, <2>3
    <2> HIDE DEF n
    <2>5. ASSUME b > a PROVE Covers(n, r)
      <3>1. SUFFICES ASSUME NEW i \in 1 .. Len(r), NEW p \in Pixels(r[i])
                     PROVE  \E j \in 1 .. Len(n) : p \in Pixels(n[j])
        BY DEF Covers
      <3>2. CASE i = a \/ i = b
        <4>1. a \in 1 .. Len(n) /\ n[a] = both /\ p \in Pixels(both)
          BY <2>0, <2>2, <2>3, <2>4, <2>5, <3>2
        <4> QED BY <4>1
      <3>3. CASE i # a /\ i # b /\ i # Len(r)
        <4>1. i \in 1 .. Len(n) /\ n[i] = r[i]
          BY <2>0, <2>3, <2>4, <3>3
        <4> QED BY <4>1
      <3>4. CASE i # a /\ i # b /\ i = Len(r)
        <4>1. b \in 1 .. Len(n) /\ n[b] = r[i]
          BY <2>0, <2>3, <2>4, <2>5, <3>4
        <4> QED BY <4>1
      <3> QED BY <3>2, <3>3, <3>4
    <2>6. \/ MergeStep(s) = <<r, a, b + 1>> \/ MergeStep(s) = <<n, a, a + 1>>
      BY <1>1, <1>3, Zenon
    <2>7. b <= Len(r)
      BY <2>0
    <2> HIDE DEF s
    <2> QED BY <2>4, <2>5, <2>6, <2>7, Zenon DEF s
  <1> QED BY <1>2, <1>3

LEMMA MergePassIs ==
    \A s \in MergeStates :
        MergePass[s] = IF s[2] >= Len(s[1]) THEN s[1] ELSE MergePass[MergeStep(s)]
  <1> DEFINE D == MergeStates
             E == {s \in D : s[2] >= Len(s[1])}
             step == [s \in D |-> IF s \in E THEN s ELSE MergeStep(s)]
             out == [s \in D |-> s[1]]
             Good(f) == f = [s \in D |-> IF s[2] >= Len(s[1]) THEN s[1] ELSE f[MergeStep(s)]]
  <1>1. ASSUME NEW s \in D, s \notin E PROVE MergeStep(s) \in D
    <2>1. PICK r \in Seq(Rects), a \in Nat \ {0}, b \in Nat \ {0} : s = <<r, a, b>>
      BY DEF MergeStates
    <2>2. Len(r) \in Nat /\ ~(a >= Len(r))
      BY <1>1, <2>1
    <2>3. a < Len(r) /\ a + 1 \in Nat \ {0} /\ a + 2 \in Nat \ {0} /\ b + 1 \in Nat \ {0}
      BY <2>2
    <2> QED BY <2>1, <2>3, MergeStepIs DEF MergeStates
  <1>2. step \in [D -> D]
    <2> HIDE DEF D, E
    <2> QED BY <1>1
  <1>3. \E f : CallsItselfLast(f, D, E, step, out)
    <2> HIDE DEF D, E, step, out
    <2> QED BY <1>2, TailRecursion
  <1>4. \E f : Good(f)
    <2>1. PICK f : f = [s \in D |-> IF s \in E THEN out[s] ELSE f[step[s]]]
      BY <1>3 DEF CallsItselfLast
    <2>2. ASSUME NEW s \in D
          PROVE  (IF s \in E THEN out[s] ELSE f[step[s]])
                  = (IF s[2] >= Len(s[1]) THEN s[1] ELSE f[MergeStep(s)])
      <3>1. CASE s[2] >= Len(s[1])
        <4>1. s \in E
          BY <3>1
        <4> HIDE DEF D, E
        <4> QED BY <3>1, <4>1
      <3>2. CASE ~(s[2] >= Len(s[1]))
        <4>1. s \notin E
          BY <3>2
        <4> HIDE DEF D, E
        <4> QED BY <3>2, <4>1
      <3> QED BY <3>1, <3>2
    <2>3. Good(f)
      <3> HIDE DEF D, E, step, out
      <3> QED BY <2>1, <2>2
    <2> QED BY <2>3
  <1>5. MergePass = CHOOSE f : Good(f)
    BY Zenon DEF MergePass
  <1>6. Good(MergePass)
    <2> HIDE DEF Good
    <2> QED BY <1>4, <1>5, Zenon
  <1> QED BY <1>6, Zenon

LEMMA CoversCovers ==
    ASSUME NEW x \in Seq(Rects), NEW y \in Seq(Rects), NEW z \in Seq(Rects),
           Covers(x, y), Covers(y, z)
    PROVE  Covers(x, z)
  BY DEF Covers

(* The merging ends, with rectangles that cover those it was given.         *)
LEMMA Merges ==
    \A s \in MergeStates : s[3] > s[2] => /\ MergePass[s] \in Seq(Rects)
                                          /\ Covers(MergePass[s], s[1])
  <1> DEFINE Good(r, a, b) == /\ MergePass[<<r, a, b>>] \in Seq(Rects)
                              /\ Covers(MergePass[<<r, a, b>>], r)
             P == Nat \ {0}
             Short(k) == \A r \in Seq(Rects) : \A a, b \in P : Len(r) = k /\ b > a => Good(r, a, b)
             Far(k, d) == \A r \in Seq(Rects) : \A a, b \in P :
                             Len(r) = k /\ a + d >= k /\ b > a => Good(r, a, b)
             Near(k, d, e) == \A r \in Seq(Rects) : \A a, b \in P :
                             Len(r) = k /\ a + d >= k /\ b > a /\ b + e > k => Good(r, a, b)
  <1>1. ASSUME NEW r \in Seq(Rects), NEW a \in P, NEW b \in P, b > a,
               a < Len(r) =>
                  \/ b > Len(r) /\ Good(r, a + 1, a + 2)
                  \/ b <= Len(r) /\ /\ Good(r, a, b + 1)
                                    /\ \A n \in Seq(Rects) : Len(n) = Len(r) - 1 => Good(n, a, a + 1)
        PROVE  Good(r, a, b)
    <2> DEFINE s == <<r, a, b>>
    <2>1. s \in MergeStates /\ s[1] = r /\ s[2] = a /\ s[3] = b
      BY DEF MergeStates
    <2>2. Covers(r, r)
      BY DEF Covers
    <2>3. MergePass[s] = IF a >= Len(r) THEN r ELSE MergePass[MergeStep(s)]
      BY <2>1, MergePassIs
    <2>4. CASE a >= Len(r)
      BY <2>2, <2>3, <2>4
    <2>5. CASE ~(a >= Len(r))
      <3>1. a < Len(r)
        BY <2>5
      <3>2. CASE MergeStep(s) = <<r, a + 1, a + 2>> /\ b > Len(r)
        <4>1. Good(r, a + 1, a + 2)
          BY <1>1, <3>1, <3>2
        <4> QED BY <2>3, <2>5, <3>2, <4>1
      <3>3. CASE MergeStep(s) = <<r, a, b + 1>> /\ b <= Len(r)
        <4>1. Good(r, a, b + 1)
          BY <1>1, <3>1, <3>3
        <4> QED BY <2>3, <2>5, <3>3, <4>1
      <3>4. ASSUME NEW n \in Seq(Rects), b <= Len(r), MergeStep(s) = <<n, a, a + 1>>,
                   Len(n) = Len(r) - 1, Covers(n, r)
            PROVE  Good(r, a, b)
        <4>1. Good(n, a, a + 1)
          BY <1>1, <3>1, <3>4
        <4>2. MergePass[s] = MergePass[<<n, a, a + 1>>]
          BY <2>3, <2>5, <3>4
        <4>3. Covers(MergePass[s], r)
          BY <3>4, <4>1, <4>2, CoversCovers
        <4> QED BY <4>1, <4>2, <4>3
      <3> QED BY <1>1, <3>1, <3>2, <3>3, <3>4, MergeStepIs
    <2> QED BY <2>4, <2>5
  <1> HIDE DEF Good
  <1>2. ASSUME NEW k \in Nat, \A j \in 0 .. k - 1 : Short(j) PROVE Short(k)
    <2>1. ASSUME NEW d \in Nat, \A c \in 0 .. d - 1 : Far(k, c) PROVE Far(k, d)
      <3>1. ASSUME NEW e \in Nat, \A c \in 0 .. e - 1 : Near(k, d, c) PROVE Near(k, d, e)
        <4>1. SUFFICES ASSUME NEW r \in Seq(Rects), NEW a \in P, NEW b \in P,
                              Len(r) = k, a + d >= k, b > a, b + e > k, a < k
                       PROVE  \/ b > k /\ Good(r, a + 1, a + 2)
                              \/ b <= k /\ /\ Good(r, a, b + 1)
                                           /\ \A n \in Seq(Rects) : Len(n) = k - 1 => Good(n, a, a + 1)
          BY <1>1
        <4>2. CASE b > k
          <5>1. d - 1 \in 0 .. d - 1 /\ (a + 1) + (d - 1) >= k /\ a + 2 > a + 1
                /\ a + 1 \in P /\ a + 2 \in P
            BY <4>1
          <5>2. Far(k, d - 1)
            BY <2>1, <5>1
          <5> QED BY <4>1, <4>2, <5>1, <5>2
        <4>3. CASE b <= k
          <5>1. e - 1 \in 0 .. e - 1 /\ (b + 1) + (e - 1) > k /\ b + 1 > a /\ b + 1 \in P
                /\ k - 1 \in 0 .. k - 1 /\ a + 1 \in P /\ a + 1 > a
            BY <4>1, <4>3
          <5>2. Near(k, d, e - 1) /\ Short(k - 1)
            BY <1>2, <3>1, <5>1
          <5> QED BY <4>1, <4>3, <5>1, <5>2
        <4> QED BY <4>1, <4>2, <4>3
      <3>2. \A e \in Nat : Near(k, d, e)
        <4> HIDE DEF Near
        <4> DEFINE T == {e \in Nat : ~Near(k, d, e)}
        <4>1. SUFFICES ASSUME T # {} PROVE FALSE
          OBVIOUS
        <4>2. PICK e \in T : \A m \in T : e <= m
          BY <4>1, LeastNat
        <4>3. \A c \in 0 .. e - 1 : Near(k, d, c)
          BY <4>2
        <4> QED BY <3>1, <4>2, <4>3
      <3>3. SUFFICES ASSUME NEW r \in Seq(Rects), NEW a \in P, NEW b \in P,
                            Len(r) = k, a + d >= k, b > a
                     PROVE  Good(r, a, b)
        OBVIOUS
      <3>4. Near(k, d, k) /\ b + k > k
        BY <3>2
      <3> QED BY <3>3, <3>4
    <2>2. \A d \in Nat : Far(k, d)
      <3> HIDE DEF Far
      <3> DEFINE T == {d \in Nat : ~Far(k, d)}
      <3>1. SUFFICES ASSUME T # {} PROVE FALSE
        OBVIOUS
      <3>2. PICK d \in T : \A m \in T : d <= m
        BY <3>1, LeastNat
      <3>3. \A c \in 0 .. d - 1 : Far(k, c)
        BY <3>2
      <3> QED BY <2>1, <3>2, <3>3
    <2>3. SUFFICES ASSUME NEW r \in Seq(Rects), NEW a \in P, NEW b \in P, Len(r) = k, b > a
                   PROVE  Good(r, a, b)
      OBVIOUS
    <2>4. Far(k, k) /\ a + k >= k
      BY <2>2
    <2> QED BY <2>3, <2>4
  <1>3. \A k \in Nat : Short(k)
    <2> HIDE DEF Short
    <2> DEFINE T == {k \in Nat : ~Short(k)}
    <2>1. SUFFICES ASSUME T # {} PROVE FALSE
      OBVIOUS
    <2>2. PICK k \in T : \A m \in T : k <= m
      BY <2>1, LeastNat
    <2>3. \A c \in 0 .. k - 1 : Short(c)
      BY <2>2
    <2> QED BY <1>2, <2>2, <2>3
  <1>4. ASSUME NEW r \in Seq(Rects), NEW a \in P, NEW b \in P, b > a PROVE Good(r, a, b)
    <2>1. Len(r) \in Nat /\ Short(Len(r))
      BY <1>3
    <2> QED BY <1>4, <2>1
  <1>5. SUFFICES ASSUME NEW s \in MergeStates, s[3] > s[2]
                 PROVE  MergePass[s] \in Seq(Rects) /\ Covers(MergePass[s], s[1])
    OBVIOUS
  <1>6. PICK r \in Seq(Rects), a \in P, b \in P : s = <<r, a, b>>
    BY DEF MergeStates
  <1>7. s[1] = r /\ s[2] = a /\ s[3] = b
    BY <1>6
  <1>8. Good(r, a, b)
    BY <1>4, <1>5, <1>7
  <1> QED BY <1>6, <1>7, <1>8 DEF Good

(* So does the collapse to one rectangle.                                   *)
LEMMA Collapses ==
    ASSUME NEW rects \in Seq(Rects), Len(rects) > 0
    PROVE  /\ collapse_dirty_rects(rects) \in Seq(Rects)
           /\ Covers(collapse_dirty_rects(rects), rects)
  <1> DEFINE Upto(f, n) == f = [k \in 1 .. n |-> IF k = 1 THEN rects[1]
                                                ELSE expand_rect(f[k - 1], rects[k])]
             Good(n) == \E f \in [1 .. n -> Rects] :
                            /\ Upto(f, n)
                            /\ \A i \in 1 .. n : Pixels(rects[i]) \subseteq Pixels(f[n])
  <1>1. ASSUME NEW n \in 1 .. Len(rects), n > 1 => Good(n - 1) PROVE Good(n)
    <2>0. /\ n \in Nat /\ n >= 1 /\ n \in 1 .. n /\ rects[n] \in Rects /\ rects[1] \in Rects
          /\ \A i \in 1 .. n : i \in 1 .. Len(rects)
      OBVIOUS
    <2>1. CASE n = 1
      <3> DEFINE f == [k \in 1 .. 1 |-> rects[1]]
      <3>1. f \in [1 .. 1 -> Rects] /\ f[1] = rects[1]
        BY <2>0
      <3>2. Upto(f, 1)
        BY <3>1
      <3>3. \A i \in 1 .. 1 : Pixels(rects[i]) \subseteq Pixels(f[1])
        BY <3>1
      <3> HIDE DEF f, Upto
      <3> QED BY <2>1, <3>1, <3>2, <3>3
    <2>2. CASE n > 1
      <3>1. PICK g \in [1 .. n - 1 -> Rects] :
               /\ Upto(g, n - 1)
               /\ \A i \in 1 .. n - 1 : Pixels(rects[i]) \subseteq Pixels(g[n - 1])
        BY <1>1, <2>2
      <3> DEFINE top == expand_rect(g[n - 1], rects[n])
                 f == [k \in 1 .. n |-> IF k = n THEN top ELSE g[k]]
      <3>2. /\ n - 1 \in 1 .. n - 1 /\ n - 1 # n /\ n # 1 /\ n - 1 \in 1 .. n
            /\ \A k \in 1 .. n : k # n => k \in 1 .. n - 1
            /\ \A k \in 1 .. n : k # 1 => k - 1 \in 1 .. n - 1 /\ k - 1 # n
        BY <2>0, <2>2
      <3>3. g[n - 1] \in Rects
        BY <3>2
      <3>4. top \in Rects /\ Pixels(g[n - 1]) \subseteq Pixels(top)
            /\ Pixels(rects[n]) \subseteq Pixels(top)
        BY <2>0, <3>3, ExpandRect
      <3>5. f \in [1 .. n -> Rects] /\ f[n] = top /\ \A k \in 1 .. n - 1 : f[k] = g[k]
        <4> HIDE DEF top
        <4> QED BY <2>0, <3>2, <3>4
      <3>6. ASSUME NEW k \in 1 .. n
            PROVE  f[k] = IF k = 1 THEN rects[1] ELSE expand_rect(f[k - 1], rects[k])
        <4>1. CASE k = n
          <5>1. f[k - 1] = g[n - 1]
            BY <3>2, <3>5, <4>1
          <5> HIDE DEF f
          <5> QED BY <3>2, <3>5, <4>1, <5>1
        <4>2. CASE k # n
          <5>1. k \in 1 .. n - 1 /\ f[k] = g[k]
            BY <3>2, <3>5, <4>2
          <5>2. g[k] = IF k = 1 THEN rects[1] ELSE expand_rect(g[k - 1], rects[k])
            BY <3>1, <5>1
          <5>3. k # 1 => f[k - 1] = g[k - 1]
            BY <3>2, <3>5
          <5> HIDE DEF f
          <5> QED BY <5>1, <5>2, <5>3
        <4> QED BY <4>1, <4>2
      <3> HIDE DEF f
      <3>7. Upto(f, n)
        <4>1. f = [k \in 1 .. n |-> f[k]]
          BY <3>5
        <4> QED BY <3>6, <4>1
      <3>8. \A i \in 1 .. n : Pixels(rects[i]) \subseteq Pixels(f[n])
        <4> HIDE DEF top
        <4> QED BY <3>1, <3>2, <3>4, <3>5
      <3> HIDE DEF Upto
      <3> QED BY <3>5, <3>7, <3>8
    <2> QED BY <2>0, <2>1, <2>2
  <1>2. \A n \in 1 .. Len(rects) : Good(n)
    <2> HIDE DEF Good
    <2> DEFINE T == {n \in 1 .. Len(rects) : ~Good(n)}
    <2>1. SUFFICES ASSUME T # {} PROVE FALSE
      OBVIOUS
    <2>2. T \in SUBSET Nat
      OBVIOUS
    <2>3. PICK n \in T : \A m \in T : n <= m
      BY <2>1, <2>2, LeastNat
    <2>4. n \in 1 .. Len(rects) /\ (n > 1 => Good(n - 1))
      BY <2>3
    <2> QED BY <1>1, <2>3, <2>4
  <1>3. Len(rects) \in 1 .. Len(rects)
    OBVIOUS
  <1>4. PICK f \in [1 .. Len(rects) -> Rects] :
           /\ Upto(f, Len(rects))
           /\ \A i \in 1 .. Len(rects) : Pixels(rects[i]) \subseteq Pixels(f[Len(rects)])
    BY <1>2, <1>3
  <1> DEFINE up == CHOOSE g : Upto(g, Len(rects))
  <1>5. collapse_dirty_rects(rects) = <<up[Len(rects)]>>
    BY Zenon DEF collapse_dirty_rects
  <1>6. Upto(up, Len(rects))
    <2> HIDE DEF Upto
    <2> QED BY <1>4, Zenon
  <1> HIDE DEF up
  <1>7. \A n \in 1 .. Len(rects) : up[n] = f[n]
    <2> DEFINE T == {n \in 1 .. Len(rects) : up[n] # f[n]}
    <2>1. SUFFICES ASSUME T # {} PROVE FALSE
      OBVIOUS
    <2>2. T \in SUBSET Nat
      OBVIOUS
    <2>3. PICK n \in T : \A m \in T : n <= m
      BY <2>1, <2>2, LeastNat
    <2>4. n \in 1 .. Len(rects) /\ up[n] # f[n]
          /\ (n # 1 => n - 1 \in 1 .. Len(rects) /\ up[n - 1] = f[n - 1])
      BY <2>3
    <2>5. /\ up[n] = IF n = 1 THEN rects[1] ELSE expand_rect(up[n - 1], rects[n])
          /\ f[n] = IF n = 1 THEN rects[1] ELSE expand_rect(f[n - 1], rects[n])
      BY <1>4, <1>6, <2>4
    <2> QED BY <2>4, <2>5
  <1> DEFINE v == up[Len(rects)]
  <1>8. v \in Rects /\ \A i \in 1 .. Len(rects) : Pixels(rects[i]) \subseteq Pixels(v)
    BY <1>3, <1>4, <1>7
  <1> HIDE DEF v
  <1>9. <<v>> \in Seq(Rects) /\ Len(<<v>>) = 1 /\ <<v>>[1] = v
    BY <1>8
  <1>10. Covers(<<v>>, rects)
    BY <1>8, <1>9 DEF Covers
  <1> QED BY <1>5, <1>9, <1>10 DEF v

LEMMA MergeCovers ==
    ASSUME NEW rects \in Seq(Rects)
    PROVE  merge_dirty_rects(rects) \in Seq(Rects) /\ Covers(merge_dirty_rects(rects), rects)
  <1> DEFINE s == <<rects, 1, 2>>
  <1>1. s \in MergeStates /\ s[1] = rects /\ s[2] = 1 /\ s[3] = 2
    BY DEF MergeStates
  <1> HIDE DEF s
  <1>2. MergePass[s] \in Seq(Rects) /\ Covers(MergePass[s], rects)
    BY <1>1, Merges
  <1> QED BY <1>2 DEF merge_dirty_rects, s

(* The list with one more rectangle, and what a grab is given, cover all.   *)
LEMMA AddCovers ==
    ASSUME NEW rects \in Seq(Rects), NEW r \in Rects
    PROVE  /\ AddDirt(rects, r) \in Seq(Rects) /\ Covers(AddDirt(rects, r), rects)
           /\ Covers(AddDirt(rects, r), <<r>>)
  <1> DEFINE merged == IF Len(rects) = MAX_DIRTS THEN merge_dirty_rects(rects) ELSE rects
             room   == IF Len(merged) = MAX_DIRTS THEN collapse_dirty_rects(merged) ELSE merged
             new    == Append(room, r)
  <1>1. merged \in Seq(Rects) /\ Covers(merged, rects)
    BY MergeCovers DEF Covers
  <1> HIDE DEF merged
  <1>2. room \in Seq(Rects) /\ Covers(room, merged)
    <2>1. CASE Len(merged) = MAX_DIRTS
      <3>1. Len(merged) > 0
        BY <2>1, DirtsAssumption
      <3> QED BY <1>1, <2>1, <3>1, Collapses
    <2>2. CASE Len(merged) # MAX_DIRTS
      BY <1>1, <2>2 DEF Covers
    <2> QED BY <2>1, <2>2
  <1> HIDE DEF room
  <1>3. Covers(room, rects)
    BY <1>1, <1>2, CoversCovers
  <1>4. /\ new \in Seq(Rects) /\ Len(new) = Len(room) + 1 /\ Len(room) \in Nat
        /\ new[Len(room) + 1] = r /\ \A i \in 1 .. Len(room) : new[i] = room[i]
    BY <1>2
  <1> HIDE DEF new
  <1>5. Covers(new, rects)
    <2>1. SUFFICES ASSUME NEW i \in 1 .. Len(rects), NEW p \in Pixels(rects[i])
                   PROVE  \E j \in 1 .. Len(new) : p \in Pixels(new[j])
      BY DEF Covers
    <2>2. PICK j \in 1 .. Len(room) : p \in Pixels(room[j])
      BY <1>3 DEF Covers
    <2>3. j \in 1 .. Len(new) /\ new[j] = room[j]
      BY <1>4
    <2> QED BY <2>2, <2>3
  <1>6. Covers(new, <<r>>)
    <2>1. SUFFICES ASSUME NEW i \in 1 .. Len(<<r>>), NEW p \in Pixels(<<r>>[i])
                   PROVE  \E j \in 1 .. Len(new) : p \in Pixels(new[j])
      BY DEF Covers
    <2>2. p \in Pixels(r) /\ Len(room) + 1 \in 1 .. Len(new)
      BY <1>4
    <2> QED BY <1>4, <2>2
  <1>7. AddDirt(rects, r) = new
    BY DEF AddDirt, new, room, merged
  <1> QED BY <1>4, <1>5, <1>6, <1>7

LEMMA GrabCovers ==
    ASSUME NEW rects \in Seq(Rects), NEW limit \in Nat
    PROVE  GrabDirts(rects, limit) \in Seq(Rects) /\ Covers(GrabDirts(rects, limit), rects)
  <1> DEFINE merged == merge_dirty_rects(rects)
  <1>1. merged \in Seq(Rects) /\ Covers(merged, rects)
    BY MergeCovers
  <1>2. GrabDirts(rects, limit) = IF Len(merged) > limit THEN collapse_dirty_rects(merged) ELSE merged
    BY DEF GrabDirts
  <1> HIDE DEF merged
  <1>3. CASE Len(merged) > limit
    <2>1. Len(merged) > 0
      BY <1>1, <1>3
    <2>2. collapse_dirty_rects(merged) \in Seq(Rects) /\ Covers(collapse_dirty_rects(merged), merged)
      BY <1>1, <2>1, Collapses
    <2>3. Covers(collapse_dirty_rects(merged), rects)
      BY <1>1, <2>2, CoversCovers
    <2> QED BY <1>2, <1>3, <2>2, <2>3
  <1>4. CASE ~(Len(merged) > limit)
    BY <1>1, <1>2, <1>4
  <1> QED BY <1>3, <1>4

(* What is cut off a rectangle is not on the framebuffer.                   *)
LEMMA Sanitized ==
    ASSUME NEW size \in [w : Nat, h : Nat], NEW r \in Rects
    PROVE  /\ evdi_framebuffer_sanitize_rect(size, r) \in Rects
           /\ Pixels(r) \cap Pixels(FullRect(size))
                 \subseteq Pixels(evdi_framebuffer_sanitize_rect(size, r))
  <1> DEFINE c == evdi_framebuffer_sanitize_rect(size, r)
             full == FullRect(size)
  <1>0. /\ r.x1 \in Int /\ r.y1 \in Int /\ r.x2 \in Int /\ r.y2 \in Int
        /\ size.w \in Nat /\ size.h \in Nat
    BY DEF Rects
  <1>1. /\ c.x1 = Lesser(Lesser(r.x1, r.x2), size.w) /\ c.y1 = Lesser(Lesser(r.y1, r.y2), size.h)
        /\ c.x2 = Lesser(Greater(r.x1, r.x2), size.w)
        /\ c.y2 = Lesser(Greater(r.y1, r.y2), size.h)
    BY DEF evdi_framebuffer_sanitize_rect, Rect
  <1>2. c \in Rects
    BY <1>0 DEF evdi_framebuffer_sanitize_rect, Rect, Rects, Lesser, Greater
  <1>3. full \in Rects /\ full.x1 = 0 /\ full.y1 = 0 /\ full.x2 = size.w /\ full.y2 = size.h
    BY <1>0 DEF FullRect, Rect, Rects
  <1> HIDE DEF c, full
  <1>4. \A p \in Points : p[1] \in Int /\ p[2] \in Int
    BY DEF Points
  <1>5. \A p \in Pixels(r) : p \in Pixels(full) => p \in Pixels(c)
    BY <1>0, <1>1, <1>2, <1>3, <1>4, PixelIn DEF Lesser, Greater
  <1> QED BY <1>2, <1>5 DEF c, full

-----------------------------------------------------------------------------
(* How the record of a commit changes.                                      *)
SameCommit ==
    /\ commit'.kind = commit.kind /\ commit'.fb = commit.fb /\ commit'.old = commit.old
    /\ commit'.cursor = commit.cursor /\ commit'.moved = commit.moved

LEMMA CommitGoes ==
    ASSUME commit \in Commits, NEW p \in CommitPlaces, Goto(p)
    PROVE  /\ commit' \in Commits /\ SameCommit /\ commit'.event = commit.event
           /\ commit'.pc = p /\ commit'.then = commit.then /\ commit'.send = commit.send
  BY DEF Commits, Goto, SameCommit

LEMMA CommitMaySend ==
    ASSUME commit \in Commits, NEW p \in ThenPlaces, NEW e \in Events, Sending(e, p)
    PROVE  /\ commit' \in Commits /\ SameCommit /\ commit'.event = commit.event
           /\ \/ MaySend /\ commit'.pc = "send" /\ commit'.then = p /\ commit'.send = e
              \/ ~MaySend /\ commit'.pc = p /\ commit'.then = commit.then
                 /\ commit'.send = commit.send
  <1>1. CASE MaySend
    BY <1>1 DEF Commits, Sending, SameCommit, Maybe, CommitPlaces
  <1>2. CASE ~MaySend
    BY <1>2 DEF Commits, Sending, SameCommit, ThenPlaces, CommitPlaces
  <1> QED BY <1>1, <1>2

LEMMA EventsAreEvents ==
    /\ \A v \in Points : Event("cursor_move", v) \in Events
    /\ \A v \in Maybe(Objects) : /\ Event("cursor_set", v) \in Events
                                 /\ Event("mode", v) \in Events
                                 /\ Event("update_ready", v) \in Events
    /\ Event("dpms", "on") \in Events /\ Event("dpms", "off") \in Events
    /\ \A n \in Nat : Event("ddcci", n) \in Events
  BY DEF Events, Event

(* The parts of the type that a step leaves alone.                          *)
LEMMA KeptTypes ==
    ASSUME TypeOK
    PROVE  /\ UNCHANGED painterVars => PainterTypes'
           /\ UNCHANGED <<pending_events, send_events_work, inbox>> => EventTypes'
           /\ UNCHANGED cursorVars => CursorTypes'
           /\ UNCHANGED planeVars => PlaneTypes'
           /\ UNCHANGED <<flips, answered, told>> => GhostTypes'
           /\ UNCHANGED commit => CommitTypes'
           /\ UNCHANGED grab => (grab \in Grabs)' /\ (GrabHasFb)'
           /\ UNCHANGED ddcci => (ddcci \in Ddcs)'
           /\ UNCHANGED budget => (budget \in Budgets)'
  BY DEF TypeOK, PainterTypes, EventTypes, CursorTypes, PlaneTypes, GhostTypes,
     CommitTypes, painterVars, cursorVars, planeVars, GrabHasFb

(* What a step spends.                                                      *)
LEMMA SpendTypes ==
    ASSUME budget \in Budgets,
           \/ Spend("commits") \/ Spend("cursors") \/ Spend("switches") \/ Spend("connects")
           \/ Spend("leaves") \/ Spend("enables") \/ Spend("reads") \/ Spend("buffers")
           \/ Spend("messages")
    PROVE  (budget \in Budgets)'
  <1>1. CASE Spend("commits")
    <2>1. /\ budget.commits \in Nat /\ budget.commits > 0
          /\ budget' = [budget EXCEPT !.commits = budget.commits - 1]
      BY <1>1 DEF Budgets, Spend
    <2>2. \E n \in Nat : budget' = [budget EXCEPT !.commits = n]
      BY <2>1
    <2> QED BY <2>2 DEF Budgets
  <1>2. CASE Spend("cursors")
    <2>1. /\ budget.cursors \in Nat /\ budget.cursors > 0
          /\ budget' = [budget EXCEPT !.cursors = budget.cursors - 1]
      BY <1>2 DEF Budgets, Spend
    <2>2. \E n \in Nat : budget' = [budget EXCEPT !.cursors = n]
      BY <2>1
    <2> QED BY <2>2 DEF Budgets
  <1>3. CASE Spend("switches")
    <2>1. /\ budget.switches \in Nat /\ budget.switches > 0
          /\ budget' = [budget EXCEPT !.switches = budget.switches - 1]
      BY <1>3 DEF Budgets, Spend
    <2>2. \E n \in Nat : budget' = [budget EXCEPT !.switches = n]
      BY <2>1
    <2> QED BY <2>2 DEF Budgets
  <1>4. CASE Spend("connects")
    <2>1. /\ budget.connects \in Nat /\ budget.connects > 0
          /\ budget' = [budget EXCEPT !.connects = budget.connects - 1]
      BY <1>4 DEF Budgets, Spend
    <2>2. \E n \in Nat : budget' = [budget EXCEPT !.connects = n]
      BY <2>1
    <2> QED BY <2>2 DEF Budgets
  <1>5. CASE Spend("leaves")
    <2>1. /\ budget.leaves \in Nat /\ budget.leaves > 0
          /\ budget' = [budget EXCEPT !.leaves = budget.leaves - 1]
      BY <1>5 DEF Budgets, Spend
    <2>2. \E n \in Nat : budget' = [budget EXCEPT !.leaves = n]
      BY <2>1
    <2> QED BY <2>2 DEF Budgets
  <1>6. CASE Spend("enables")
    <2>1. /\ budget.enables \in Nat /\ budget.enables > 0
          /\ budget' = [budget EXCEPT !.enables = budget.enables - 1]
      BY <1>6 DEF Budgets, Spend
    <2>2. \E n \in Nat : budget' = [budget EXCEPT !.enables = n]
      BY <2>1
    <2> QED BY <2>2 DEF Budgets
  <1>7. CASE Spend("reads")
    <2>1. /\ budget.reads \in Nat /\ budget.reads > 0
          /\ budget' = [budget EXCEPT !.reads = budget.reads - 1]
      BY <1>7 DEF Budgets, Spend
    <2>2. \E n \in Nat : budget' = [budget EXCEPT !.reads = n]
      BY <2>1
    <2> QED BY <2>2 DEF Budgets
  <1>8. CASE Spend("buffers")
    <2>1. /\ budget.buffers \in Nat /\ budget.buffers > 0
          /\ budget' = [budget EXCEPT !.buffers = budget.buffers - 1]
      BY <1>8 DEF Budgets, Spend
    <2>2. \E n \in Nat : budget' = [budget EXCEPT !.buffers = n]
      BY <2>1
    <2> QED BY <2>2 DEF Budgets
  <1>9. CASE Spend("messages")
    <2>1. /\ budget.messages \in Nat /\ budget.messages > 0
          /\ budget' = [budget EXCEPT !.messages = budget.messages - 1]
      BY <1>9 DEF Budgets, Spend
    <2>2. \E n \in Nat : budget' = [budget EXCEPT !.messages = n]
      BY <2>1
    <2> QED BY <2>2 DEF Budgets
  <1> QED BY <1>1, <1>2, <1>3, <1>4, <1>5, <1>6, <1>7, <1>8, <1>9

-----------------------------------------------------------------------------
(* The operations on buffer objects.                                        *)
SameUse(b, c) ==
    /\ c.references = b.references /\ c.mmapped = b.mmapped /\ c.exported = b.exported

LEMMA GemFields ==
    ASSUME NEW b \in Gems
    PROVE  /\ b.references \in Int /\ b.pages \in BOOLEAN /\ b.pages_pin_count \in Int
           /\ b.vmapping \in BOOLEAN /\ b.maps \in Int /\ b.mmapped \in Int /\ b.exported \in Int
           /\ \A o : Sound(o, b) /\ b.references > 0 => b.pages_pin_count >= 0
  <1>1. /\ b.references \in Int /\ b.pages \in BOOLEAN /\ b.pages_pin_count \in Int
        /\ b.vmapping \in BOOLEAN /\ b.maps \in Int /\ b.mmapped \in Int /\ b.exported \in Int
    BY DEF Gems
  <1> QED BY <1>1 DEF Sound, Pins

LEMMA GetObject ==
    ASSUME NEW o, NEW b \in Gems, Sound(o, b), b.references > 0
    PROVE  /\ drm_gem_object_get(b) \in Gems /\ Sound(o, drm_gem_object_get(b))
           /\ drm_gem_object_get(b).references = b.references + 1
           /\ drm_gem_object_get(b).vmapping = b.vmapping
           /\ drm_gem_object_get(b).exported = b.exported
  BY DEF Gems, Sound, Pins, drm_gem_object_get

LEMMA UnpinObject ==
    ASSUME NEW b \in Gems
    PROVE  /\ evdi_unpin_pages(b) \in Gems /\ SameUse(b, evdi_unpin_pages(b))
           /\ evdi_unpin_pages(b).vmapping = b.vmapping /\ evdi_unpin_pages(b).maps = b.maps
           /\ evdi_unpin_pages(b).pages_pin_count = b.pages_pin_count - 1
           /\ b.pages_pin_count # 1 => evdi_unpin_pages(b).pages = b.pages
  <1> DEFINE less == [b EXCEPT !.pages_pin_count = @ - 1]
  <1>1. less \in Gems /\ SameUse(b, less) /\ less.vmapping = b.vmapping /\ less.maps = b.maps
        /\ less.pages_pin_count = b.pages_pin_count - 1 /\ less.pages = b.pages
    BY DEF Gems, SameUse
  <1>2. evdi_unpin_pages(b) = IF less.pages_pin_count = 0 THEN [less EXCEPT !.pages = FALSE]
                                                         ELSE less
    BY DEF evdi_unpin_pages, evdi_gem_put_pages
  <1> HIDE DEF less
  <1>3. CASE less.pages_pin_count = 0
    <2>1. b.pages_pin_count = 1
      BY <1>1, <1>3 DEF Gems
    <2> DEFINE c == [less EXCEPT !.pages = FALSE]
    <2>2. /\ c \in Gems /\ SameUse(less, c) /\ c.vmapping = less.vmapping /\ c.maps = less.maps
          /\ c.pages_pin_count = less.pages_pin_count
      BY <1>1 DEF Gems, SameUse
    <2>3. evdi_unpin_pages(b) = c
      BY <1>2, <1>3
    <2> HIDE DEF c
    <2> QED BY <1>1, <2>1, <2>2, <2>3 DEF SameUse
  <1>4. CASE less.pages_pin_count # 0
    BY <1>1, <1>2, <1>4
  <1> QED BY <1>3, <1>4

LEMMA FreeObject ==
    ASSUME NEW o, NEW b \in Gems
    PROVE  evdi_gem_free_object(o, b) \in Gems /\ SameUse(b, evdi_gem_free_object(o, b))
  <1> DEFINE gone == [b EXCEPT !.vmapping = FALSE, !.maps = IF b.vmapping THEN @ - 1 ELSE @]
             unmapped == IF b.vmapping THEN evdi_gem_vunmap(o, b) ELSE b
  <1>1. gone \in Gems /\ SameUse(b, gone)
    <2> DEFINE n == IF b.vmapping THEN b.maps - 1 ELSE b.maps
    <2>1. n \in Int /\ gone = [b EXCEPT !.vmapping = FALSE, !.maps = n]
      BY DEF Gems
    <2> HIDE DEF n, gone
    <2> QED BY <2>1 DEF Gems, SameUse
  <1>2. evdi_gem_vunmap(o, b) = IF evdi_drm_gem_object_use_import_attach(o) THEN gone
                                ELSE evdi_unpin_pages(gone)
    BY DEF evdi_gem_vunmap
  <1> HIDE DEF gone
  <1>3. unmapped \in Gems /\ SameUse(b, unmapped)
    BY <1>1, <1>2, UnpinObject DEF SameUse
  <1>4. evdi_gem_free_object(o, b) = IF unmapped.pages THEN [unmapped EXCEPT !.pages = FALSE]
                                     ELSE unmapped
    BY DEF evdi_gem_free_object, evdi_gem_put_pages
  <1> HIDE DEF unmapped
  <1> QED BY <1>3, <1>4 DEF Gems, SameUse

LEMMA PutObject ==
    ASSUME NEW o, NEW b \in Gems, Sound(o, b), b.references > 0
    PROVE  /\ drm_gem_object_put(o, b) \in Gems /\ Sound(o, drm_gem_object_put(o, b))
           /\ drm_gem_object_put(o, b).references = b.references - 1
           /\ drm_gem_object_put(o, b).exported = b.exported
           /\ b.references > 1 => drm_gem_object_put(o, b).vmapping = b.vmapping
  <1> DEFINE less == [b EXCEPT !.references = @ - 1]
  <1>1. /\ less \in Gems /\ less.references = b.references - 1 /\ less.exported = b.exported
        /\ less.mmapped = b.mmapped /\ less.vmapping = b.vmapping
        /\ Sound(o, less)
    BY DEF Gems, Sound, Pins
  <1>2. drm_gem_object_put(o, b) = IF less.references = 0 THEN evdi_gem_free_object(o, less)
                                   ELSE less
    BY DEF drm_gem_object_put
  <1> HIDE DEF less
  <1>3. CASE less.references = 0
    <2>1. /\ drm_gem_object_put(o, b) \in Gems
          /\ SameUse(less, drm_gem_object_put(o, b))
      BY <1>1, <1>2, <1>3, FreeObject
    <2> QED BY <1>1, <1>3, <2>1 DEF SameUse, Sound, Gems
  <1>4. CASE less.references # 0
    BY <1>1, <1>2, <1>4
  <1> QED BY <1>3, <1>4

(* The pages of an object are pinned once more.                             *)
Pinned(o, b, c) ==
    /\ c \in Gems /\ SameUse(b, c) /\ c.vmapping = b.vmapping /\ c.maps = b.maps
    /\ c.pages_pin_count = b.pages_pin_count + 1 /\ c.pages

LEMMA PinObject ==
    ASSUME NEW o, NEW b \in Gems, Sound(o, b), b.references > 0,
           NEW r \in evdi_pin_pages(o, b)
    PROVE  r = Failed(b) \/ \E c \in Gems : r = Done(c) /\ Pinned(o, b, c)
  <1> DEFINE pinned(x) == [x EXCEPT !.pages_pin_count = @ + 1]
  <1>1. ASSUME NEW x \in Gems, x.pages
        PROVE  Pinned(o, x, pinned(x))
    BY <1>1 DEF Gems, Pinned, SameUse
  <1>2. CASE b.pages_pin_count > 0
    <2>1. b.pages /\ r = Done(pinned(b))
      BY <1>2 DEF Sound, evdi_pin_pages
    <2> QED BY <1>1, <2>1 DEF Pinned
  <1>3. CASE b.pages_pin_count = 0
    <2>1. \E q \in evdi_gem_get_pages(o, b) : r = IF q.ok THEN Done(pinned(q.object)) ELSE q
      BY <1>3 DEF evdi_pin_pages
    <2>2. PICK q \in evdi_gem_get_pages(o, b) : r = IF q.ok THEN Done(pinned(q.object)) ELSE q
      BY <2>1
    <2>3. CASE q = Failed(b)
      BY <2>2, <2>3 DEF Failed
    <2>4. CASE b.pages /\ q = Done(b)
      <3>1. r = Done(pinned(b))
        BY <2>2, <2>4 DEF Done
      <3> QED BY <1>1, <2>4, <3>1 DEF Pinned
    <2>5. CASE q = Done([b EXCEPT !.pages = TRUE])
      <3> DEFINE x == [b EXCEPT !.pages = TRUE]
      <3>1. r = Done(pinned(x))
        BY <2>2, <2>5 DEF Done
      <3>2. /\ x \in Gems /\ x.pages /\ SameUse(b, x) /\ x.vmapping = b.vmapping /\ x.maps = b.maps
            /\ x.pages_pin_count = b.pages_pin_count
        BY DEF Gems, SameUse
      <3> HIDE DEF x
      <3>3. Pinned(o, x, pinned(x))
        BY <1>1, <3>2
      <3>4. Pinned(o, b, pinned(x))
        BY <3>2, <3>3 DEF Pinned, SameUse
      <3> QED BY <3>1, <3>4 DEF Pinned
    <2> QED BY <2>3, <2>4, <2>5 DEF evdi_gem_get_pages
  <1> QED BY <1>2, <1>3, GemFields

LEMMA MapObject ==
    ASSUME NEW o, NEW b \in Gems, Sound(o, b), b.references > 0, ~b.vmapping,
           NEW r \in evdi_gem_vmap(o, b)
    PROVE  \E c \in Gems : /\ SameUse(b, c) /\ Sound(o, c)
                           /\ (r = Done(c) /\ c.vmapping) \/ r = Failed(c)
  <1> DEFINE mapped(x) == [x EXCEPT !.vmapping = TRUE, !.maps = @ + 1]
  <1>1. ASSUME NEW x \in Gems
        PROVE  /\ mapped(x) \in Gems /\ SameUse(x, mapped(x)) /\ mapped(x).vmapping
               /\ mapped(x).maps = x.maps + 1 /\ mapped(x).pages = x.pages
               /\ mapped(x).pages_pin_count = x.pages_pin_count
    <2>1. PICK n \in Int : n = x.maps + 1
      BY GemFields
    <2>2. mapped(x) = [x EXCEPT !.vmapping = TRUE, !.maps = n]
      BY <2>1
    <2> QED BY <2>1, <2>2 DEF Gems, SameUse
  <1>2. CASE Kind[o] = "imported"
    <2>1. r = Done(mapped(b)) \/ r = Failed(b)
      BY <1>2 DEF evdi_gem_vmap, evdi_drm_gem_object_use_import_attach
    <2> HIDE DEF mapped
    <2>2. Sound(o, mapped(b))
      BY <1>1, <1>2, GemFields DEF Sound, Pins, SameUse
    <2>3. SameUse(b, b)
      BY DEF SameUse
    <2> QED BY <1>1, <2>1, <2>2, <2>3
  <1>3. CASE Kind[o] # "imported"
    <2>1. PICK q \in evdi_pin_pages(o, b) :
             r \in IF q.ok THEN {Done(mapped(q.object)), Failed([q.object EXCEPT !.vmapping = FALSE])}
                           ELSE {q}
      <3>1. evdi_gem_vmap(o, b) = UNION {IF q.ok THEN {Done(mapped(q.object)),
                                                       Failed([q.object EXCEPT !.vmapping = FALSE])}
                                                 ELSE {q} : q \in evdi_pin_pages(o, b)}
        BY <1>3 DEF evdi_gem_vmap, evdi_drm_gem_object_use_import_attach
      <3> HIDE DEF mapped
      <3> QED BY <3>1
    <2> HIDE DEF mapped
    <2>2. CASE q = Failed(b)
      <3>1. r = Failed(b) /\ SameUse(b, b)
        BY <2>1, <2>2 DEF Failed, SameUse
      <3> QED BY <3>1
    <2>3. ASSUME NEW c \in Gems, q = Done(c), Pinned(o, b, c)
          PROVE  \E d \in Gems : /\ SameUse(b, d) /\ Sound(o, d)
                                 /\ (r = Done(d) /\ d.vmapping) \/ r = Failed(d)
      <3>1. r = Done(mapped(c)) \/ r = Failed([c EXCEPT !.vmapping = FALSE])
        BY <2>1, <2>3 DEF Done
      <3>2. [c EXCEPT !.vmapping = FALSE] = c
        BY <2>3 DEF Pinned, Gems
      <3>3. Sound(o, c) /\ SameUse(b, c)
        BY <2>3, GemFields DEF Pinned, Sound, Pins, SameUse
      <3>4. Sound(o, mapped(c)) /\ SameUse(b, mapped(c))
        BY <1>1, <1>3, <2>3, GemFields DEF Pinned, Sound, Pins, SameUse
      <3>5. mapped(c) \in Gems /\ mapped(c).vmapping
        BY <1>1
      <3> QED BY <3>1, <3>2, <3>3, <3>4, <3>5
    <2> QED BY <2>2, <2>3, PinObject
  <1> QED BY <1>2, <1>3

LEMMA MmapObject ==
    ASSUME NEW o, NEW b \in Gems, Sound(o, b), b.references > 0, NEW r \in evdi_gem_mmap(o, b)
    PROVE  \E c \in Gems : /\ r.object = c /\ Sound(o, c) /\ c.references = b.references
                           /\ c.exported = b.exported /\ c.vmapping = b.vmapping
  <1>1. PICK q \in evdi_pin_pages(o, b) :
           r = IF q.ok /\ ~IsImported(o) THEN Done([q.object EXCEPT !.mmapped = @ + 1])
                                         ELSE Failed(q.object)
    BY DEF evdi_gem_mmap
  <1>2. CASE q = Failed(b)
    BY <1>1, <1>2 DEF Failed
  <1>3. ASSUME NEW c \in Gems, q = Done(c), Pinned(o, b, c)
        PROVE  \E d \in Gems : /\ r.object = d /\ Sound(o, d) /\ d.references = b.references
                               /\ d.exported = b.exported /\ d.vmapping = b.vmapping
    <2> DEFINE d == [c EXCEPT !.mmapped = @ + 1]
    <2>1. r.object = c \/ r.object = d
      BY <1>1, <1>3 DEF Done, Failed
    <2>2. /\ d \in Gems /\ d.mmapped = c.mmapped + 1 /\ d.references = c.references
          /\ d.pages = c.pages /\ d.pages_pin_count = c.pages_pin_count
          /\ d.vmapping = c.vmapping /\ d.maps = c.maps /\ d.exported = c.exported
      BY DEF Gems
    <2> HIDE DEF d
    <2>3. Sound(o, c) /\ Sound(o, d)
      BY <1>3, <2>2, GemFields DEF Pinned, Sound, Pins, SameUse
    <2> QED BY <1>3, <2>1, <2>2, <2>3 DEF Pinned, SameUse
  <1> QED BY <1>2, <1>3, PinObject

LEMMA ExportObject ==
    ASSUME NEW o, NEW b \in Gems, Sound(o, b), b.references > 0, NEW r \in evdi_prime_pin(o, b)
    PROVE  \/ r = Failed(b)
           \/ \E c \in Gems : /\ r = Done(c) /\ Sound(o, c) /\ c.references = b.references
                              /\ c.exported = b.exported + 1 /\ c.vmapping = b.vmapping
  <1>1. PICK q \in evdi_pin_pages(o, b) :
           r = IF q.ok THEN Done([q.object EXCEPT !.exported = @ + 1]) ELSE q
    BY DEF evdi_prime_pin
  <1>2. CASE q = Failed(b)
    BY <1>1, <1>2 DEF Failed
  <1>3. ASSUME NEW c \in Gems, q = Done(c), Pinned(o, b, c)
        PROVE  \E d \in Gems : /\ r = Done(d) /\ Sound(o, d) /\ d.references = b.references
                               /\ d.exported = b.exported + 1 /\ d.vmapping = b.vmapping
    <2> DEFINE d == [c EXCEPT !.exported = @ + 1]
    <2>1. r = Done(d)
      BY <1>1, <1>3 DEF Done
    <2>2. /\ d \in Gems /\ d.exported = c.exported + 1 /\ d.references = c.references
          /\ d.pages = c.pages /\ d.pages_pin_count = c.pages_pin_count
          /\ d.vmapping = c.vmapping /\ d.maps = c.maps /\ d.mmapped = c.mmapped
      BY DEF Gems
    <2> HIDE DEF d
    <2>3. Sound(o, d)
      BY <1>3, <2>2, GemFields DEF Pinned, Sound, Pins, SameUse
    <2> QED BY <1>3, <2>1, <2>2, <2>3 DEF Pinned, SameUse
  <1> QED BY <1>2, <1>3, PinObject

LEMMA UnexportObject ==
    ASSUME NEW o, NEW b \in Gems, Sound(o, b), b.references > 0, b.exported > 0
    PROVE  /\ evdi_prime_unpin(b) \in Gems /\ Sound(o, evdi_prime_unpin(b))
           /\ evdi_prime_unpin(b).references = b.references
           /\ evdi_prime_unpin(b).exported = b.exported - 1
           /\ evdi_prime_unpin(b).vmapping = b.vmapping
  <1> DEFINE d == [b EXCEPT !.exported = @ - 1]
  <1>1. /\ d \in Gems /\ d.exported = b.exported - 1 /\ d.references = b.references
        /\ d.pages = b.pages /\ d.pages_pin_count = b.pages_pin_count
        /\ d.vmapping = b.vmapping /\ d.maps = b.maps /\ d.mmapped = b.mmapped
    BY DEF Gems
  <1>2. evdi_prime_unpin(b) = evdi_unpin_pages(d)
    BY DEF evdi_prime_unpin
  <1> HIDE DEF d
  <1> DEFINE c == evdi_unpin_pages(d)
  <1>3. /\ c \in Gems /\ SameUse(d, c) /\ c.vmapping = d.vmapping /\ c.maps = d.maps
        /\ c.pages_pin_count = d.pages_pin_count - 1
        /\ d.pages_pin_count # 1 => c.pages = d.pages
    BY <1>1, UnpinObject
  <1> HIDE DEF c
  <1>4. Sound(o, c)
    BY <1>1, <1>3, GemFields DEF Sound, Pins, SameUse
  <1>5. evdi_prime_unpin(b) = c
    BY <1>2 DEF c
  <1> QED BY <1>1, <1>3, <1>4, <1>5 DEF SameUse

-----------------------------------------------------------------------------
(* The list of events.                                                      *)
(* new is list with e at its end, perhaps in the place of an event of its type. *)
Added(list, e, new) ==
    /\ new \in Seq(Events) /\ Len(new) > 0 /\ new[Len(new)] = e
    /\ \A i \in 1 .. Len(new) - 1 : new[i] = list[i]
    /\ \/ Len(new) = Len(list) + 1
       \/ Len(new) = Len(list) /\ list[Len(list)].type = e.type

LEMMA AddEvent ==
    ASSUME NEW list \in Seq(Events), NEW e \in Events
    PROVE  Added(list, e, evdi_painter_add_event_to_pending_list(list, e))
  <1> DEFINE new == evdi_painter_add_event_to_pending_list(list, e)
             squash == list # <<>> /\ Last(list).type = e.type /\ is_evdi_event_squashable(e)
  <1>1. CASE squash
    <2>1. new = [list EXCEPT ![Len(list)] = e]
      BY <1>1 DEF evdi_painter_add_event_to_pending_list
    <2>2. Len(list) \in Nat /\ Len(list) > 0 /\ Last(list) = list[Len(list)]
      BY <1>1 DEF Last
    <2>3. new \in Seq(Events) /\ Len(new) = Len(list)
      BY <2>1, <2>2
    <2>4. new[Len(list)] = e /\ \A i \in 1 .. Len(list) - 1 : new[i] = list[i]
      BY <2>1, <2>2
    <2>5. list[Len(list)].type = e.type
      BY <1>1, <2>2
    <2> HIDE DEF new
    <2>6. Added(list, e, new)
      BY <2>2, <2>3, <2>4, <2>5 DEF Added
    <2> QED BY <2>6 DEF new
  <1>2. CASE ~squash
    <2>1. new = Append(list, e)
      BY <1>2 DEF evdi_painter_add_event_to_pending_list
    <2> HIDE DEF new
    <2>2. /\ new \in Seq(Events) /\ Len(list) \in Nat /\ Len(new) = Len(list) + 1
          /\ new[Len(list) + 1] = e /\ \A i \in 1 .. Len(list) : new[i] = list[i]
      BY <2>1
    <2>3. Added(list, e, new)
      BY <2>2 DEF Added
    <2> QED BY <2>3 DEF new
  <1> QED BY <1>1, <1>2

(* What fits goes to the file that is connected, the rest stays.            *)
Flushed(list, fit) ==
    /\ fit \in 0 .. Len(list) /\ oops' = oops
    /\ pending_events' = SubSeq(list, fit + 1, Len(list))
    /\ \/ fit = 0 /\ inbox' = inbox
       \/ /\ fit > 0 /\ drm_filp \in Files /\ Len(inbox[drm_filp]) + fit <= EventSpace
          /\ inbox' = [inbox EXCEPT ![drm_filp] = inbox[drm_filp] \o SubSeq(list, 1, fit)]

LEMMA FlushEvents ==
    ASSUME PainterTypes, EventTypes, NEW list \in Seq(Events),
           evdi_painter_flush_pending_events(list)
    PROVE  /\ send_events_work' \in BOOLEAN
           /\ \/ oops' /\ pending_events' = list /\ inbox' = inbox
              \/ \E fit \in 0 .. Len(list) : Flushed(list, fit)
  <1>1. CASE list # <<>> /\ drm_filp = None
    BY <1>1 DEF evdi_painter_flush_pending_events, EventTypes
  <1>2. CASE ~(list # <<>> /\ drm_filp = None)
    <2> DEFINE fit == IF list = <<>> THEN 0
                      ELSE Lesser(Len(list), EventSpace - Len(inbox[drm_filp]))
    <2>1. /\ pending_events' = SubSeq(list, fit + 1, Len(list))
          /\ inbox' = IF fit = 0 THEN inbox
                      ELSE [inbox EXCEPT ![drm_filp] = @ \o SubSeq(list, 1, fit)]
          /\ send_events_work' = (fit < Len(list)) /\ oops' = oops
      BY <1>2 DEF evdi_painter_flush_pending_events
    <2>2. fit \in 0 .. Len(list) /\ (fit # 0 => drm_filp \in Files
                                            /\ Len(inbox[drm_filp]) + fit <= EventSpace)
      <3>1. CASE list = <<>>
        BY <3>1
      <3>2. CASE list # <<>>
        <4>1. drm_filp \in Files
          BY <1>2, <3>2 DEF PainterTypes, Maybe
        <4> DEFINE len == Len(inbox[drm_filp])
                   all == Len(list)
        <4>2. len \in Nat /\ len <= EventSpace
          BY <4>1 DEF EventTypes
        <4>3. all \in Nat /\ EventSpace \in Nat
          BY PainterAssumption
        <4>4. fit = Lesser(all, EventSpace - len)
          BY <3>2
        <4> HIDE DEF fit, len, all
        <4>5. fit \in 0 .. all /\ len + fit <= EventSpace
          BY <4>2, <4>3, <4>4 DEF Lesser
        <4> QED BY <4>1, <4>5 DEF len, all
      <3> QED BY <3>1, <3>2
    <2> HIDE DEF fit
    <2>3. inbox' = IF fit = 0 THEN inbox
                   ELSE [inbox EXCEPT ![drm_filp] = inbox[drm_filp] \o SubSeq(list, 1, fit)]
      BY <2>1
    <2>4. fit = 0 \/ fit > 0
      BY <2>2
    <2>5. Flushed(list, fit)
      BY <2>1, <2>2, <2>3, <2>4, Zenon DEF Flushed
    <2>6. send_events_work' \in BOOLEAN
      BY <2>1
    <2> QED BY <2>2, <2>5, <2>6, Zenon
  <1> QED BY <1>1, <1>2

LEMMA FlushTypes ==
    ASSUME PainterTypes, EventTypes, NEW list \in Seq(Events),
           evdi_painter_flush_pending_events(list)
    PROVE  EventTypes'
  <1>1. CASE oops' /\ pending_events' = list /\ inbox' = inbox
    BY <1>1, FlushEvents DEF EventTypes
  <1>2. ASSUME NEW fit \in 0 .. Len(list), Flushed(list, fit) PROVE EventTypes'
    <2>1. pending_events' \in Seq(Events)
      BY <1>2 DEF Flushed
    <2>2. CASE inbox' = inbox
      BY <2>1, <2>2, FlushEvents DEF EventTypes
    <2>3. CASE inbox' # inbox
      <3> DEFINE more == inbox[drm_filp] \o SubSeq(list, 1, fit)
      <3>1. /\ drm_filp \in Files /\ inbox' = [inbox EXCEPT ![drm_filp] = more]
            /\ Len(inbox[drm_filp]) + fit <= EventSpace
        BY <1>2, <2>3 DEF Flushed
      <3>2. /\ inbox[drm_filp] \in Seq(Events) /\ SubSeq(list, 1, fit) \in Seq(Events)
            /\ Len(SubSeq(list, 1, fit)) = fit
        BY <3>1 DEF EventTypes
      <3>3. more \in Seq(Events) /\ Len(more) = Len(inbox[drm_filp]) + fit
        <4>1. \A x, y \in Seq(Events) : /\ x \o y \in Seq(Events)
                                        /\ Len(x \o y) = Len(x) + Len(y)
          OBVIOUS
        <4> QED BY <3>2, <4>1, Zenon
      <3> HIDE DEF more
      <3>4. inbox' \in [Files -> Seq(Events)] /\ \A f \in Files : Len(inbox'[f]) <= EventSpace
        BY <3>1, <3>3 DEF EventTypes
      <3> QED BY <2>1, <3>4, FlushEvents DEF EventTypes
    <2> QED BY <2>2, <2>3
  <1> QED BY <1>1, <1>2, FlushEvents

LEMMA PostTypes ==
    ASSUME PainterTypes, EventTypes, NEW e \in Events, PostEvent(e)
    PROVE  EventTypes'
  <1> DEFINE list == evdi_painter_add_event_to_pending_list(pending_events, e)
  <1>1. list \in Seq(Events)
    BY AddEvent DEF EventTypes, Added
  <1>2. CASE send_events_work
    BY <1>1, <1>2 DEF PostEvent, EventTypes
  <1>3. CASE ~send_events_work
    BY <1>1, <1>3, FlushTypes DEF PostEvent
  <1> QED BY <1>2, <1>3

-----------------------------------------------------------------------------
(* The types.                                                               *)
LEMMA GoesTypes ==
    ASSUME CommitTypes, NEW p \in CommitPlaces \ {"send"}, Goto(p),
           p \in {"plane", "scanout", "damage", "check", "full"} => commit.kind = "frame",
           p \in {"damage", "check", "full", "picture", "oldrect", "newrect"} => commit.fb # None,
           p \in {"picture", "enable"} => commit.kind = "cursor"
    PROVE  CommitTypes'
  BY CommitGoes DEF CommitTypes, SameCommit

LEMMA SendsTypes ==
    ASSUME CommitTypes, NEW p \in ThenPlaces \ {"idle"}, NEW e \in Events, Sending(e, p),
           p = "scanout" => commit.kind = "frame"
    PROVE  CommitTypes'
  <1>1. /\ commit' \in Commits /\ SameCommit /\ commit'.event = commit.event
        /\ \/ MaySend /\ commit'.pc = "send" /\ commit'.then = p /\ commit'.send = e
           \/ ~MaySend /\ commit'.pc = p /\ commit'.then = commit.then
              /\ commit'.send = commit.send
    BY CommitMaySend DEF CommitTypes
  <1>2. p \in {"scanout", "dpms", "vblank", "move", "flush"}
    BY DEF ThenPlaces
  <1> QED BY <1>1, <1>2 DEF CommitTypes, SameCommit

(* A rectangle is marked dirty: what was covered is, and so is the new.     *)
LEMMA MarkDirty ==
    ASSUME PainterTypes, NEW r \in Rects, evdi_painter_mark_dirty(r)
    PROVE  dirty_rects' \in Seq(Rects) /\ (DirtCoversDamage => DirtCoversDamage')
  <1>1. CASE scanout_fb = None
    BY <1>1 DEF evdi_painter_mark_dirty, PainterTypes, DirtCoversDamage
  <1>2. CASE scanout_fb # None
    <2>1. Size[scanout_fb] \in [w : Nat, h : Nat]
      <3>1. scanout_fb \in Objects
        BY <1>2, PainterAssumption DEF PainterTypes, Maybe
      <3> QED BY <3>1, PainterAssumption
    <2> DEFINE cut == evdi_framebuffer_sanitize_rect(Size[scanout_fb], r)
               new == AddDirt(dirty_rects, cut)
               more == Pixels(r) \cap Pixels(FullRect(Size[scanout_fb]))
    <2>2. cut \in Rects /\ more \subseteq Pixels(cut)
      BY <2>1, Sanitized
    <2>3. dirty_rects' = new /\ owed' = owed \cup more
      BY <1>2 DEF evdi_painter_mark_dirty
    <2>4. dirty_rects \in Seq(Rects)
      BY DEF PainterTypes
    <2> HIDE DEF cut, more
    <2>5. new \in Seq(Rects) /\ Covers(new, dirty_rects) /\ Covers(new, <<cut>>)
      BY <2>2, <2>4, AddCovers
    <2> HIDE DEF new
    <2>6. ASSUME DirtCoversDamage PROVE DirtCoversDamage'
      <3>1. SUFFICES ASSUME NEW p \in owed'
                     PROVE  \E j \in 1 .. Len(new) : p \in Pixels(new[j])
        BY <2>3 DEF DirtCoversDamage
      <3>2. CASE p \in owed
        <4>1. PICK i \in 1 .. Len(dirty_rects) : p \in Pixels(dirty_rects[i])
          BY <2>6, <3>2 DEF DirtCoversDamage
        <4> QED BY <2>5, <4>1 DEF Covers
      <3>3. CASE p \in more
        <4>1. 1 \in 1 .. Len(<<cut>>) /\ <<cut>>[1] = cut /\ p \in Pixels(cut)
          BY <2>2, <3>3
        <4> QED BY <2>5, <4>1 DEF Covers
      <3> QED BY <2>3, <3>1, <3>2, <3>3
    <2> QED BY <2>3, <2>5, <2>6
  <1> QED BY <1>1, <1>2

(* The rectangles a commit marks.                                           *)
LEMMA RectTypes ==
    /\ \A size \in [w : Nat, h : Nat] : FullRect(size) \in Rects
    /\ \A size \in [w : Nat, h : Nat], x, y \in Int :
           evdi_cursor_atomic_get_rect(x, y, size) \in Rects
    /\ Rect(0, 0, 0, 0) \in Rects
    /\ \A o \in Objects : Size[o] \in [w : Nat, h : Nat]
  <1>1. \A n \in Int : U16(n) \in Int
    BY DEF U16
  <1>2. ASSUME NEW size \in [w : Nat, h : Nat], NEW x \in Int, NEW y \in Int
        PROVE  evdi_cursor_atomic_get_rect(x, y, size) \in Rects
    <2>1. x + size.w \in Int /\ y + size.h \in Int /\ Greater(x, 0) \in Int /\ Greater(y, 0) \in Int
      BY DEF Greater
    <2>2. U16(x + size.w) \in Int /\ U16(y + size.h) \in Int
      BY <1>1, <2>1
    <2> QED BY <2>1, <2>2 DEF evdi_cursor_atomic_get_rect, Rect, Rects
  <1>3. \A o \in Objects : Size[o] \in [w : Nat, h : Nat]
    BY PainterAssumption
  <1> QED BY <1>2, <1>3 DEF FullRect, Rect, Rects

(* A commit that goes on keeps what it is about, and its event.             *)
CommitKept ==
    /\ SameCommit /\ commit'.event = commit.event
    /\ commit.pc \notin {"idle", "end"} /\ commit'.pc \notin {"idle", "ready", "end"}

LEMMA GoesOn ==
    ASSUME CommitTypes, commit.pc \notin {"idle", "end"}, NEW p \in CommitPlaces,
           \/ p \notin {"send", "idle", "ready", "end"} /\ Goto(p)
           \/ p \in ThenPlaces \ {"idle"} /\ \E e \in Events : Sending(e, p)
    PROVE  CommitKept
  <1>1. CASE p \notin {"send", "idle", "ready", "end"} /\ Goto(p)
    BY <1>1, CommitGoes DEF CommitTypes, CommitKept
  <1>2. CASE p \in ThenPlaces \ {"idle"} /\ \E e \in Events : Sending(e, p)
    <2>1. PICK e \in Events : Sending(e, p)
      BY <1>2
    <2>2. /\ SameCommit /\ commit'.event = commit.event
          /\ commit'.pc = "send" \/ commit'.pc = p
      BY <1>2, <2>1, CommitMaySend DEF CommitTypes
    <2> QED BY <1>2, <2>2 DEF CommitKept, ThenPlaces
  <1> QED BY <1>1, <1>2

(* The marking steps of commits.                                            *)
LEMMA MarkSteps ==
    ASSUME TypeOK, MarkDamage \/ MarkFull \/ MarkOldCursor \/ MarkNewCursor
    PROVE  /\ dirty_rects' \in Seq(Rects) /\ (DirtCoversDamage => DirtCoversDamage')
           /\ CommitTypes' /\ CommitKept /\ MarkUnchanged /\ UNCHANGED cursorVars
  <1>0. PainterTypes /\ CommitTypes /\ commit \in Commits /\ CursorTypes
    BY DEF TypeOK, CommitTypes
  <1>1. CASE MarkDamage
    <2>1. CASE commit.damage = <<>>
      <3>1. Goto("check") /\ UNCHANGED <<dirty_rects, owed>>
        BY <1>1, <2>1 DEF MarkDamage
      <3>2. commit.pc = "damage" /\ commit.kind = "frame" /\ commit.fb # None
        BY <1>0, <1>1 DEF MarkDamage, CommitTypes
      <3>3. CommitTypes' /\ CommitKept
        BY <1>0, <3>1, <3>2, GoesTypes, GoesOn DEF CommitPlaces
      <3> QED BY <1>0, <1>1, <3>1, <3>3 DEF PainterTypes, DirtCoversDamage, MarkDamage
    <2>2. CASE commit.damage # <<>>
      <3>1. evdi_painter_mark_dirty(Head(commit.damage))
            /\ commit' = [commit EXCEPT !.damage = Tail(commit.damage)]
        BY <1>1, <2>2 DEF MarkDamage
      <3>2. commit.damage \in Seq(Rects)
        BY <1>0 DEF Commits
      <3>3. Head(commit.damage) \in Rects /\ Tail(commit.damage) \in Seq(Rects)
        BY <2>2, <3>2
      <3>4. /\ commit' \in Commits /\ SameCommit /\ commit'.event = commit.event
            /\ commit'.pc = commit.pc /\ commit'.send = commit.send /\ commit'.then = commit.then
        BY <1>0, <3>1, <3>3 DEF Commits, SameCommit
      <3>5. CommitTypes' /\ CommitKept
        BY <1>0, <1>1, <3>4 DEF CommitTypes, CommitKept, SameCommit, MarkDamage
      <3> QED BY <1>0, <1>1, <3>1, <3>3, <3>5, MarkDirty DEF MarkDamage
    <2> QED BY <2>1, <2>2
  <1>2. CASE MarkFull
    <2>1. /\ commit.pc = "full" /\ commit.fb \in Objects /\ Goto("flush")
          /\ evdi_painter_mark_dirty(FullRect(Size[commit.fb]))
      BY <1>0, <1>2 DEF MarkFull, CommitTypes, Commits, Maybe
    <2>2. CommitTypes' /\ CommitKept
      BY <1>0, <2>1, GoesTypes, GoesOn DEF CommitPlaces
    <2> QED BY <1>0, <1>2, <2>1, <2>2, RectTypes, MarkDirty DEF MarkFull
  <1>3. CASE MarkOldCursor
    <2>1. commit.pc = "oldrect" /\ commit.fb # None /\ Goto("newrect")
      BY <1>0, <1>3 DEF MarkOldCursor, CommitTypes
    <2>2. CommitTypes' /\ CommitKept
      BY <1>0, <2>1, GoesTypes, GoesOn DEF CommitPlaces
    <2> DEFINE size == IF commit.old = None THEN [w |-> 0, h |-> 0] ELSE Size[commit.old]
    <2>3. size \in [w : Nat, h : Nat] /\ commit.cursor.x \in Int /\ commit.cursor.y \in Int
      BY <1>0, RectTypes DEF Commits, Maybe, CursorStates
    <2>4. \/ UNCHANGED <<dirty_rects, owed>>
          \/ evdi_painter_mark_dirty(
                 evdi_cursor_atomic_get_rect(commit.cursor.x, commit.cursor.y, size))
      BY <1>3 DEF MarkOldCursor
    <2> HIDE DEF size
    <2>5. dirty_rects' \in Seq(Rects) /\ (DirtCoversDamage => DirtCoversDamage')
      <3>1. CASE UNCHANGED <<dirty_rects, owed>>
        BY <1>0, <3>1 DEF PainterTypes, DirtCoversDamage
      <3> QED BY <1>0, <2>3, <2>4, <3>1, RectTypes, MarkDirty
    <2> QED BY <1>3, <2>2, <2>5 DEF MarkOldCursor
  <1>4. CASE MarkNewCursor
    <2>1. commit.pc = "newrect" /\ commit.fb \in Objects /\ Goto("flush")
      BY <1>0, <1>4 DEF MarkNewCursor, CommitTypes, Commits, Maybe
    <2>2. CommitTypes' /\ CommitKept
      BY <1>0, <2>1, GoesTypes, GoesOn DEF CommitPlaces
    <2> DEFINE r == IF commit.fb \in RectUpdates
                    THEN evdi_cursor_atomic_get_rect(cursor.x, cursor.y, Size[commit.fb])
                    ELSE IF scanout_fb = None THEN Rect(0, 0, 0, 0) ELSE FullRect(Size[scanout_fb])
    <2>3. evdi_painter_mark_dirty(r)
      BY <1>4 DEF MarkNewCursor
    <2>4. r \in Rects
      <3>1. cursor.x \in Int /\ cursor.y \in Int
        BY <1>0 DEF CursorTypes, CursorStates
      <3>2. scanout_fb # None => scanout_fb \in Objects
        BY <1>0, PainterAssumption DEF PainterTypes, Maybe
      <3> QED BY <2>1, <3>1, <3>2, RectTypes
    <2> HIDE DEF r
    <2> QED BY <1>0, <1>4, <2>2, <2>3, <2>4, MarkDirty DEF MarkNewCursor
  <1> QED BY <1>1, <1>2, <1>3, <1>4

LEMMA MarkTypes ==
    ASSUME TypeOK, MarkDamage \/ MarkFull \/ MarkOldCursor \/ MarkNewCursor
    PROVE  TypeOK'
  BY MarkSteps, KeptTypes DEF TypeOK, PainterTypes, MarkUnchanged, eventVars

(* The steps of a commit that only send, or go on.                          *)
LEMMA NotifyTypes ==
    ASSUME TypeOK,
           \/ evdi_plane_atomic_update \/ CheckDirts \/ evdi_crtc_atomic_flush
           \/ evdi_painter_mode_changed_notify \/ NotifyDpms \/ SendCursorMove
    PROVE  TypeOK' /\ CommitKept
  <1>0. PainterTypes /\ CommitTypes /\ commit \in Commits /\ CursorTypes
    BY DEF TypeOK, CommitTypes
  <1> DEFINE Rest == /\ UNCHANGED <<is_connected, drm_filp, dirty_rects, scanout_fb,
                                     was_update_requested, vblank>>
                     /\ UNCHANGED <<pending_events, send_events_work, inbox>>
                     /\ UNCHANGED cursorVars /\ UNCHANGED planeVars
                     /\ UNCHANGED <<flips, answered, told>> /\ UNCHANGED grab /\ UNCHANGED ddcci
                     /\ UNCHANGED budget /\ needs_full_modeset' \in BOOLEAN
  <1>1. ASSUME Rest, CommitTypes' PROVE TypeOK'
    BY <1>0, <1>1, KeptTypes DEF TypeOK, PainterTypes
  <1>2. CASE evdi_plane_atomic_update
    <2>1. Rest
      BY <1>0, <1>2 DEF evdi_plane_atomic_update, painterVars, eventVars, ghostVars, PainterTypes
    <2>2. commit.pc = "plane" /\ commit.kind = "frame"
      BY <1>0, <1>2 DEF evdi_plane_atomic_update, CommitTypes
    <2>3. Goto("scanout") \/ \E e \in Events : Sending(e, "scanout")
      BY <1>2, EventsAreEvents DEF evdi_plane_atomic_update, evdi_painter_dpms_notify
    <2>4. CommitTypes' /\ CommitKept
      BY <1>0, <2>2, <2>3, GoesTypes, SendsTypes, GoesOn DEF CommitPlaces, ThenPlaces
    <2> QED BY <1>1, <2>1, <2>4
  <1>3. CASE CheckDirts
    <2>1. Rest
      BY <1>0, <1>3 DEF CheckDirts, MarkUnchanged, eventVars, PainterTypes
    <2>2. commit.pc = "check" /\ commit.kind = "frame" /\ commit.fb # None
      BY <1>0, <1>3 DEF CheckDirts, CommitTypes
    <2>3. Goto("full") \/ Goto("flush")
      BY <1>3 DEF CheckDirts
    <2>4. CommitTypes' /\ CommitKept
      BY <1>0, <2>2, <2>3, GoesTypes, GoesOn DEF CommitPlaces
    <2> QED BY <1>1, <2>1, <2>4
  <1>4. CASE evdi_crtc_atomic_flush
    <2>1. Rest
      BY <1>0, <1>4 DEF evdi_crtc_atomic_flush, FlushUnchanged, eventVars, PainterTypes
    <2>2. PICK m, d \in BOOLEAN :
             commit' = [commit EXCEPT !.pc = "mode", !.notifyMode = m, !.notifyDpms = d]
      <3>1. needs_full_modeset \in BOOLEAN /\ commit.mode \in BOOLEAN
        BY <1>0 DEF PainterTypes, Commits
      <3> DEFINE m == plane # None /\ (commit.mode \/ needs_full_modeset)
                 d == \/ commit.kind = "frame" /\ (commit.old = None) # (plane = None)
                      \/ needs_full_modeset
      <3>2. m \in BOOLEAN /\ d \in BOOLEAN
        BY <3>1
      <3>3. commit' = [commit EXCEPT !.pc = "mode", !.notifyMode = m, !.notifyDpms = d]
        BY <1>4 DEF evdi_crtc_atomic_flush
      <3> HIDE DEF m, d
      <3> QED BY <3>2, <3>3
    <2>3. /\ commit' \in Commits /\ SameCommit /\ commit'.event = commit.event
          /\ commit'.pc = "mode"
      BY <1>0, <2>2 DEF Commits, SameCommit, CommitPlaces
    <2>4. CommitTypes' /\ CommitKept
      BY <1>0, <1>4, <2>3 DEF CommitTypes, CommitKept, SameCommit, evdi_crtc_atomic_flush
    <2> QED BY <1>1, <2>1, <2>4
  <1>5. CASE evdi_painter_mode_changed_notify
    <2>1. Rest
      BY <1>0, <1>5
      DEF evdi_painter_mode_changed_notify, FlushUnchanged, eventVars, PainterTypes, MaySend
    <2>2. commit.pc = "mode"
      BY <1>5 DEF evdi_painter_mode_changed_notify
    <2>3. Goto("dpms") \/ \E e \in Events : Sending(e, "dpms")
      <3>1. scanout_fb \in Maybe(Objects)
        BY <1>0, PainterAssumption DEF PainterTypes, Maybe
      <3> QED BY <1>5, <3>1, EventsAreEvents DEF evdi_painter_mode_changed_notify
    <2>4. CommitTypes' /\ CommitKept
      BY <1>0, <2>2, <2>3, GoesTypes, SendsTypes, GoesOn DEF CommitPlaces, ThenPlaces
    <2> QED BY <1>1, <2>1, <2>4
  <1>6. CASE NotifyDpms
    <2>1. Rest
      BY <1>0, <1>6 DEF NotifyDpms, FlushUnchanged, eventVars, PainterTypes
    <2>2. commit.pc = "dpms"
      BY <1>6 DEF NotifyDpms
    <2>3. Goto("vblank") \/ \E e \in Events : Sending(e, "vblank")
      BY <1>6, EventsAreEvents DEF NotifyDpms, evdi_painter_dpms_notify
    <2>4. CommitTypes' /\ CommitKept
      BY <1>0, <2>2, <2>3, GoesTypes, SendsTypes, GoesOn DEF CommitPlaces, ThenPlaces
    <2> QED BY <1>1, <2>1, <2>4
  <1>7. CASE SendCursorMove
    <2>1. Rest
      BY <1>0, <1>7 DEF SendCursorMove, painterVars, eventVars, ghostVars, PainterTypes
    <2>2. commit.pc = "move"
      BY <1>7 DEF SendCursorMove
    <2>3. Goto("flush") \/ \E e \in Events : Sending(e, "flush")
      <3>1. <<cursor.x, cursor.y>> \in Points
        BY <1>0 DEF CursorTypes, CursorStates, Points
      <3> QED BY <1>7, <3>1, EventsAreEvents DEF SendCursorMove
    <2>4. CommitTypes' /\ CommitKept
      BY <1>0, <2>2, <2>3, GoesTypes, SendsTypes, GoesOn DEF CommitPlaces, ThenPlaces
    <2> QED BY <1>1, <2>1, <2>4
  <1> QED BY <1>2, <1>3, <1>4, <1>5, <1>6, <1>7

(* The framebuffer is shown, an event is sent, a cursor picture is announced. *)
LEMMA ShowTypes ==
    ASSUME TypeOK, SetScanout \/ CommitSends \/ SendCursorSet
    PROVE  TypeOK' /\ CommitKept
  <1>0. PainterTypes /\ CommitTypes /\ commit \in Commits /\ CursorTypes /\ PlaneTypes
        /\ EventTypes /\ GhostTypes
    BY DEF TypeOK, CommitTypes
  <1>1. CASE SetScanout
    <2>1. /\ commit.pc = "scanout" /\ commit.kind = "frame" /\ commit.fb \in Maybe(Fbs)
      BY <1>0, <1>1 DEF SetScanout, CommitTypes
    <2>2. \/ Goto("flush") /\ UNCHANGED <<needs_full_modeset, scanout_fb>>
          \/ /\ commit.fb # None /\ needs_full_modeset' \in BOOLEAN
             /\ \/ Goto("damage") /\ scanout_fb' = commit.fb
                \/ Goto("check") /\ scanout_fb' = scanout_fb
      BY <1>0, <1>1 DEF SetScanout, evdi_painter_set_scanout_buffer, PainterTypes
    <2>3. CommitTypes' /\ CommitKept
      BY <1>0, <2>1, <2>2, GoesTypes, GoesOn DEF CommitPlaces
    <2>4. PainterTypes'
      BY <1>0, <1>1, <2>1, <2>2 DEF PainterTypes, SetScanout
    <2> QED BY <1>1, <2>3, <2>4, KeptTypes DEF TypeOK, SetScanout, eventVars, ghostVars
  <1>2. CASE CommitSends
    <2>1. /\ commit.pc = "send" /\ commit.send \in Events /\ commit.then \in ThenPlaces \ {"idle"}
          /\ commit.then = "scanout" => commit.kind = "frame"
      BY <1>0, <1>2 DEF CommitSends, CommitTypes, Commits
    <2>2. EventTypes'
      BY <1>0, <1>2, <2>1, PostTypes DEF CommitSends
    <2>3. PainterTypes'
      BY <1>0, <1>2 DEF CommitSends, PainterTypes
    <2>4. GhostTypes'
      <3>1. commit.send.type = "cursor_move" => commit.send.value \in Points
        BY <2>1 DEF Events
      <3> QED BY <1>0, <1>2, <3>1 DEF GhostTypes, CommitSends, Maybe
    <2>5. /\ commit' \in Commits /\ SameCommit /\ commit'.event = commit.event
          /\ commit'.pc = commit.then
      BY <1>0, <1>2, <2>1 DEF CommitSends, Commits, SameCommit, Maybe, CommitPlaces, ThenPlaces
    <2>6. CommitTypes' /\ CommitKept
      BY <1>0, <2>1, <2>5 DEF CommitTypes, CommitKept, SameCommit, ThenPlaces
    <2> QED BY <1>2, <2>2, <2>3, <2>4, <2>6, KeptTypes DEF TypeOK, CommitSends
  <1>3. CASE SendCursorSet
    <2>1. commit.pc = "set" /\ cursor.object \in Maybe(Objects)
      BY <1>0, <1>3 DEF SendCursorSet, CursorTypes, CursorStates
    <2>2. UNCHANGED commit \/ \E e \in Events : Sending(e, "move")
      BY <1>3, <2>1, EventsAreEvents DEF SendCursorSet
    <2>3. CommitTypes' /\ CommitKept
      <3>1. CASE UNCHANGED commit
        BY <1>0, <2>1, <3>1 DEF CommitTypes, CommitKept, SameCommit
      <3>2. CASE \E e \in Events : Sending(e, "move")
        BY <1>0, <2>1, <3>2, SendsTypes, GoesOn DEF CommitPlaces, ThenPlaces
      <3> QED BY <2>2, <3>1, <3>2
    <2>4. PlaneTypes'
      <3>1. drm_filp \in Maybe(Files)
        BY <1>0 DEF PainterTypes
      <3> QED BY <1>0, <1>3, <2>1, <3>1 DEF PlaneTypes, SendCursorSet, Maybe
    <2> QED BY <1>3, <2>3, <2>4, KeptTypes DEF TypeOK, SendCursorSet, ghostVars
  <1> QED BY <1>1, <1>2, <1>3

(* The end of a commit.                                                     *)
LEMMA SentTypes ==
    ASSUME NEW sent \in Seq(Nat), NEW e
    PROVE  evdi_send_vblank(sent, e) \in Seq(Nat) /\ Len(evdi_send_vblank(sent, e)) = Len(sent)
  <1>1. CASE e = None
    BY <1>1 DEF evdi_send_vblank
  <1>2. CASE e # None
    <2>1. evdi_send_vblank(sent, e) = [sent EXCEPT ![e] = sent[e] + 1]
      BY <1>2 DEF evdi_send_vblank
    <2>2. CASE e \in 1 .. Len(sent)
      <3>1. sent[e] + 1 \in Nat
        BY <2>2
      <3> QED BY <2>1, <2>2, <3>1
    <2>3. CASE e \notin 1 .. Len(sent)
      <3>1. [sent EXCEPT ![e] = sent[e] + 1] = sent
        BY <2>3
      <3> QED BY <2>1, <3>1
    <2> QED BY <2>2, <2>3
  <1> QED BY <1>1, <1>2

LEMMA NoCommitTypes ==
    /\ NoCommit \in Commits /\ NoCommit.pc = "idle" /\ NoCommit.event = None
    /\ NoCommit.kind = "frame" /\ NoCommit.fb = None /\ NoCommit.old = None
  BY DEF NoCommit, Commits, NoCursor, CursorStates, Maybe, CommitPlaces, ThenPlaces

LEMMA EndTypes ==
    ASSUME TypeOK,
           \/ evdi_painter_set_vblank \/ evdi_painter_send_update_ready_if_needed \/ EndCommit
    PROVE  TypeOK'
  <1>0. PainterTypes /\ CommitTypes /\ commit \in Commits /\ EventTypes /\ GhostTypes
    BY DEF TypeOK, CommitTypes
  <1>1. CASE evdi_painter_set_vblank
    <2>1. /\ commit' \in Commits /\ SameCommit /\ commit'.event = None /\ commit'.pc = "ready"
          /\ commit.event \in Maybe(Nat)
      BY <1>0, <1>1 DEF evdi_painter_set_vblank, Commits, SameCommit, CommitPlaces, Maybe
    <2>2. CommitTypes'
      BY <1>0, <2>1 DEF CommitTypes, SameCommit
    <2>3. PainterTypes'
      BY <1>0, <1>1, <2>1 DEF evdi_painter_set_vblank, FlushUnchanged, PainterTypes, Maybe
    <2>4. GhostTypes'
      <3>1. answered' \in Seq(Nat)
        <4>1. evdi_send_vblank(answered, vblank) \in Seq(Nat)
          BY <1>0, SentTypes DEF GhostTypes
        <4>2. evdi_send_vblank(evdi_send_vblank(answered, vblank), commit.event) \in Seq(Nat)
          BY <4>1, SentTypes
        <4> QED BY <1>1, <4>1, <4>2 DEF evdi_painter_set_vblank
      <3> QED BY <1>0, <1>1, <3>1 DEF GhostTypes, evdi_painter_set_vblank, FlushUnchanged
    <2> QED BY <1>1, <2>2, <2>3, <2>4, KeptTypes
            DEF TypeOK, evdi_painter_set_vblank, FlushUnchanged, eventVars
  <1>2. CASE evdi_painter_send_update_ready_if_needed
    <2>1. commit.pc = "ready" /\ Goto("end")
      BY <1>2 DEF evdi_painter_send_update_ready_if_needed
    <2>2. CommitTypes'
      BY <1>0, <2>1, GoesTypes DEF CommitPlaces
    <2>3. PainterTypes'
      BY <1>0, <1>2
      DEF evdi_painter_send_update_ready_if_needed, FlushUnchanged, PainterTypes
    <2>4. EventTypes'
      <3>1. UNCHANGED eventVars \/ PostEvent(Event("update_ready", None))
        BY <1>2 DEF evdi_painter_send_update_ready_if_needed
      <3>2. Event("update_ready", None) \in Events
        BY EventsAreEvents DEF Maybe
      <3> QED BY <1>0, <3>1, <3>2, PostTypes, KeptTypes DEF eventVars
    <2> QED BY <1>2, <2>2, <2>3, <2>4, KeptTypes
            DEF TypeOK, evdi_painter_send_update_ready_if_needed, FlushUnchanged
  <1>3. CASE EndCommit
    <2>1. CommitTypes'
      <3>1. commit' = NoCommit
        BY <1>3 DEF EndCommit
      <3> QED BY <3>1, NoCommitTypes DEF CommitTypes, Maybe
    <2>2. PainterTypes'
      BY <1>0, <1>3 DEF EndCommit, FlushUnchanged, PainterTypes
    <2> QED BY <1>3, <2>1, <2>2, KeptTypes DEF TypeOK, EndCommit, FlushUnchanged, eventVars
  <1> QED BY <1>1, <1>2, <1>3

LEMMA BudgetSets ==
    ASSUME TypeOK
    PROVE  /\ budget.fbs \subseteq Fbs \cup {None} /\ budget.pictures \subseteq Objects \cup {None}
           /\ budget.clips \subseteq Seq(Rects) /\ budget.modes \subseteq BOOLEAN
           /\ budget.limits \subseteq Nat /\ budget.files \subseteq Files
  BY DEF TypeOK, Budgets

LEMMA BeginTypes ==
    ASSUME TypeOK, NEW f \in Maybe(Fbs), NEW clips \in Seq(Rects), NEW m \in BOOLEAN,
           BeginCommit(f, clips, m)
    PROVE  TypeOK' /\ commit'.pc = "plane" /\ commit'.kind = "frame" /\ commit'.fb = f
           /\ commit'.old = plane /\ commit'.event = flips + 1
  <1>0. PainterTypes /\ CommitTypes /\ PlaneTypes /\ GhostTypes /\ budget \in Budgets
    BY DEF TypeOK
  <1> DEFINE d == IF f = None THEN <<>>
                  ELSE IF plane = None \/ clips = <<>> \/ Size[plane] # Size[f]
                  THEN <<FullRect(Size[f])>> ELSE clips
  <1>1. d \in Seq(Rects)
    <2>1. f # None => FullRect(Size[f]) \in Rects
      BY RectTypes, PainterAssumption DEF Maybe
    <2>2. \A r \in Rects : <<r>> \in Seq(Rects)
      OBVIOUS
    <2> QED BY <2>1, <2>2
  <1>2. commit' = [NoCommit EXCEPT !.pc = "plane", !.fb = f, !.old = plane, !.event = flips + 1,
                                   !.damage = d, !.mode = m]
    BY DEF BeginCommit
  <1> HIDE DEF d
  <1>3. flips + 1 \in Nat /\ plane \in Maybe(Fbs) /\ Fbs \subseteq Objects
    BY <1>0, PainterAssumption DEF GhostTypes, PlaneTypes
  <1>4. PICK n \in Nat : n = flips + 1
    BY <1>3
  <1>5. /\ commit' \in Commits /\ commit'.pc = "plane" /\ commit'.kind = "frame"
        /\ commit'.fb = f /\ commit'.old = plane /\ commit'.event = n
    BY <1>1, <1>2, <1>3, <1>4, NoCommitTypes DEF Commits, Maybe, CommitPlaces
  <1>6. CommitTypes'
    BY <1>3, <1>5 DEF CommitTypes
  <1>7. GhostTypes'
    <2>1. answered' \in Seq(Nat)
      BY <1>0 DEF GhostTypes, BeginCommit
    <2> QED BY <1>0, <1>3, <2>1 DEF GhostTypes, BeginCommit
  <1>8. PlaneTypes'
    BY <1>0 DEF PlaneTypes, BeginCommit
  <1>9. (budget \in Budgets)'
    BY <1>0, SpendTypes DEF BeginCommit
  <1>10. TypeOK'
    BY <1>6, <1>7, <1>8, <1>9, KeptTypes DEF TypeOK, BeginCommit, eventVars
  <1> QED BY <1>4, <1>5, <1>10

(* What a commit of the cursor does to the cursor and to its own record.    *)
LEMMA CursorCommitTypes ==
    ASSUME TypeOK, NEW o \in Maybe(Objects), NEW x \in Int, NEW y \in Int,
           evdi_cursor_atomic_update(o, x, y)
    PROVE  /\ TypeOK' /\ commit'.kind = "cursor" /\ commit'.event = None
           /\ commit'.fb = o /\ commit'.old = cursorPlane /\ commit'.cursor = cursor
           /\ commit'.pc = IF o = cursorPlane THEN "events"
                          ELSE IF o = None THEN "enable" ELSE "picture"
  <1>0. PainterTypes /\ CommitTypes /\ PlaneTypes /\ CursorTypes /\ budget \in Budgets
    BY DEF TypeOK
  <1>1. cursor' \in CursorStates
    BY <1>0 DEF CursorTypes, CursorStates, evdi_cursor_atomic_update
  <1> DEFINE pc == IF o = cursorPlane THEN "events" ELSE IF o = None THEN "enable" ELSE "picture"
             moved == <<x, y>> # <<cursor.x, cursor.y>>
  <1>2. commit' = [NoCommit EXCEPT !.kind = "cursor", !.fb = o, !.old = cursorPlane,
                       !.cursor = cursor, !.moved = moved, !.pc = pc]
    BY DEF evdi_cursor_atomic_update
  <1>3. moved \in BOOLEAN /\ pc \in {"events", "enable", "picture"}
        /\ (pc = "picture" => o # None)
    OBVIOUS
  <1> HIDE DEF moved
  <1>4. cursorPlane \in Maybe(Objects) /\ cursor \in CursorStates
    BY <1>0 DEF PlaneTypes, CursorTypes
  <1>5. /\ commit' \in Commits /\ commit'.pc = pc /\ commit'.kind = "cursor"
        /\ commit'.fb = o /\ commit'.old = cursorPlane /\ commit'.cursor = cursor
        /\ commit'.event = None
    <2> HIDE DEF pc
    <2> QED BY <1>2, <1>3, <1>4, NoCommitTypes DEF Commits, CommitPlaces
  <1>6. CommitTypes'
    BY <1>3, <1>5 DEF CommitTypes
  <1>7. CursorTypes'
    BY <1>0, <1>1 DEF CursorTypes, evdi_cursor_atomic_update
  <1>8. PlaneTypes'
    BY <1>0 DEF PlaneTypes, evdi_cursor_atomic_update
  <1>9. (budget \in Budgets)'
    BY <1>0, SpendTypes DEF evdi_cursor_atomic_update
  <1>10. TypeOK'
    BY <1>6, <1>7, <1>8, <1>9, KeptTypes DEF TypeOK, evdi_cursor_atomic_update, eventVars
  <1> QED BY <1>5, <1>10

(* The other sections of the update.                                        *)
CursorSection == evdi_cursor_set \/ evdi_cursor_enable \/ CheckCursorEvents

(* A mapping is done, or it failed.                                         *)
LEMMA MapAnswers ==
    ASSUME NEW o, NEW b, NEW r \in evdi_gem_vmap(o, b)
    PROVE  r.ok \in BOOLEAN
  <1>1. \A x : Done(x).ok \in BOOLEAN /\ Failed(x).ok \in BOOLEAN
    BY DEF Done, Failed
  <1>2. \A q \in evdi_gem_get_pages(o, b) : q.ok \in BOOLEAN
    BY <1>1 DEF evdi_gem_get_pages
  <1>3. \A q \in evdi_pin_pages(o, b) : q.ok \in BOOLEAN
    BY <1>1, <1>2 DEF evdi_pin_pages
  <1> QED BY <1>1, <1>3 DEF evdi_gem_vmap

LEMMA SectionTypes ==
    ASSUME TypeOK, CursorSection
    PROVE  /\ TypeOK' /\ CommitKept /\ CursorUnchanged
           /\ commit.pc \in {"picture", "enable", "events"}
           /\ commit'.pc \in {"enable", "events", "flush", "oldrect", "set", "move"}
           /\ cursor'.x = cursor.x /\ cursor'.y = cursor.y
  <1>0. PainterTypes /\ CommitTypes /\ commit \in Commits /\ PlaneTypes /\ CursorTypes
        /\ cursor \in CursorStates
    BY DEF TypeOK, CommitTypes, CursorTypes
  <1>1. CursorUnchanged
    BY DEF CursorSection, evdi_cursor_set, evdi_cursor_enable, CheckCursorEvents
  <1>2. cursor' \in CursorStates /\ cursor'.x = cursor.x /\ cursor'.y = cursor.y
    <2>1. CASE evdi_cursor_set
      <3>1. commit.fb \in Maybe(Objects)
        BY <1>0 DEF Commits
      <3>2. PICK ok \in BOOLEAN :
                cursor' = [cursor EXCEPT !.enabled = ok,
                                         !.object = IF ok THEN commit.fb ELSE None]
        <4>1. PICK r \in IF gem[commit.fb].vmapping THEN {Done(gem[commit.fb])}
                          ELSE Outcomes(evdi_gem_vmap(commit.fb, gem[commit.fb])) :
                  cursor' = [cursor EXCEPT !.enabled = r.ok,
                                           !.object = IF r.ok THEN commit.fb ELSE None]
          BY <2>1, Zenon DEF evdi_cursor_set
        <4>2. r.ok \in BOOLEAN
          <5>1. r = Done(gem[commit.fb]) \/ r \in evdi_gem_vmap(commit.fb, gem[commit.fb])
            BY DEF Outcomes
          <5>2. Done(gem[commit.fb]).ok = TRUE
            BY DEF Done
          <5>3. CASE r \in evdi_gem_vmap(commit.fb, gem[commit.fb])
            BY <5>3, MapAnswers
          <5> QED BY <5>1, <5>2, <5>3
        <4>3. CASE r.ok = TRUE
          BY <4>1, <4>3
        <4>4. CASE r.ok = FALSE
          BY <4>1, <4>4
        <4> QED BY <4>2, <4>3, <4>4
      <3> QED BY <1>0, <3>1, <3>2 DEF CursorStates, Maybe
    <2>2. CASE evdi_cursor_enable
      BY <1>0, <2>2 DEF evdi_cursor_enable, CursorStates, Maybe
    <2>3. CASE CheckCursorEvents
      BY <1>0, <2>3 DEF CheckCursorEvents
    <2> QED BY <2>1, <2>2, <2>3 DEF CursorSection
  <1>3. PICK q \in {"enable", "events", "flush", "oldrect", "set", "move"} :
            Goto(q) /\ (q = "oldrect" => commit.fb # None) /\ (q = "enable" => commit.pc = "picture")
    <2>1. CASE evdi_cursor_set
      <3>1. Goto("enable") /\ commit.pc = "picture"
        BY <2>1 DEF evdi_cursor_set
      <3> QED BY <3>1
    <2>2. CASE evdi_cursor_enable
      <3>1. Goto("events")
        BY <2>2 DEF evdi_cursor_enable
      <3> QED BY <3>1
    <2>3. CASE CheckCursorEvents
      BY <2>3 DEF CheckCursorEvents
    <2> QED BY <2>1, <2>2, <2>3 DEF CursorSection
  <1>4. commit.pc \in {"picture", "enable", "events"}
    BY DEF CursorSection, evdi_cursor_set, evdi_cursor_enable, CheckCursorEvents
  <1>5. CommitTypes' /\ CommitKept /\ commit'.pc = q
    <2>1. q \in CommitPlaces \ {"send", "idle", "ready", "end", "plane", "scanout", "damage",
                                "check", "full", "picture", "newrect"}
      BY <1>3 DEF CommitPlaces
    <2>2. q = "enable" => commit.kind = "cursor"
      BY <1>0, <1>3 DEF CommitTypes
    <2>3. CommitTypes'
      BY <1>0, <1>3, <2>1, <2>2, GoesTypes
    <2>4. CommitKept
      BY <1>0, <1>3, <1>4, <2>1, GoesOn
    <2> QED BY <1>0, <1>3, <2>1, <2>3, <2>4, CommitGoes
  <1>6. CursorTypes'
    BY <1>0, <1>1, <1>2 DEF CursorTypes, CursorUnchanged
  <1>7. PlaneTypes'
    BY <1>0, <1>1 DEF PlaneTypes, CursorUnchanged, planeVars
  <1>8. TypeOK'
    BY <1>1, <1>5, <1>6, <1>7, KeptTypes DEF TypeOK, CursorUnchanged, eventVars
  <1> QED BY <1>1, <1>2, <1>3, <1>4, <1>5, <1>8

(* The client, and its files.                                               *)
LEMMA ClientTypes ==
    ASSUME TypeOK, NEW f \in Files,
           \/ evdi_painter_connect(f) \/ evdi_painter_disconnect(f) \/ ClientReads(f) \/ CloseFile(f)
    PROVE  TypeOK'
  <1>0. PainterTypes /\ EventTypes /\ CursorTypes /\ PlaneTypes /\ GhostTypes /\ ddcci \in Ddcs
        /\ budget \in Budgets
    BY DEF TypeOK
  <1>1. CASE evdi_painter_connect(f)
    <2>1. PainterTypes' /\ GhostTypes'
      BY <1>0, <1>1 DEF evdi_painter_connect, PainterTypes, GhostTypes, Maybe
    <2>2. (budget \in Budgets)'
      BY <1>0, <1>1, SpendTypes DEF evdi_painter_connect
    <2> QED BY <1>1, <2>1, <2>2, KeptTypes DEF TypeOK, evdi_painter_connect, eventVars
  <1>2. CASE evdi_painter_disconnect(f)
    <2>1. PainterTypes'
      BY <1>0, <1>2 DEF evdi_painter_disconnect, PainterTypes, Maybe
    <2>2. GhostTypes'
      BY <1>0, <1>2, SentTypes DEF evdi_painter_disconnect, GhostTypes, Maybe
    <2>3. EventTypes'
      <3>1. pending_events' = <<>> /\ send_events_work' = FALSE /\ inbox' = inbox
        BY <1>2 DEF evdi_painter_disconnect
      <3>2. pending_events' \in Seq(Events)
        BY <3>1
      <3> QED BY <1>0, <3>1, <3>2 DEF EventTypes
    <2>4. CursorTypes'
      <3>1. cursor' = [cursor EXCEPT !.enabled = FALSE, !.object = None]
        BY <1>2 DEF evdi_painter_disconnect
      <3> QED BY <1>0, <1>2, <3>1 DEF CursorTypes, CursorStates, Maybe, evdi_painter_disconnect
    <2>5. (ddcci \in Ddcs)'
      <3>1. ddcci' = [ddcci EXCEPT !.buffer = None, !.done = TRUE]
        BY <1>2 DEF evdi_painter_disconnect
      <3> QED BY <1>0, <3>1 DEF Ddcs, Maybe
    <2>6. (budget \in Budgets)'
      BY <1>0, <1>2, SpendTypes DEF evdi_painter_disconnect
    <2> QED BY <1>2, <2>1, <2>2, <2>3, <2>4, <2>5, <2>6, KeptTypes
            DEF TypeOK, evdi_painter_disconnect
  <1>3. CASE ClientReads(f)
    <2>1. EventTypes'
      BY <1>0, <1>3, PainterAssumption DEF ClientReads, EventTypes
    <2>2. (budget \in Budgets)'
      BY <1>0, <1>3, SpendTypes DEF ClientReads
    <2> QED BY <1>3, <2>1, <2>2, KeptTypes DEF TypeOK, ClientReads
  <1>4. CASE CloseFile(f)
    <2>1. EventTypes'
      BY <1>0, <1>4, PainterAssumption DEF CloseFile, EventTypes, BufferUnchanged
    <2>2. PlaneTypes'
      BY <1>0, <1>4 DEF CloseFile, PlaneTypes, BufferUnchanged
    <2> QED BY <1>4, <2>1, <2>2, KeptTypes DEF TypeOK, CloseFile, BufferUnchanged, ghostVars
  <1> QED BY <1>1, <1>2, <1>3, <1>4

(* The grab keeps its framebuffer and its event while it goes on.           *)
GrabKept ==
    /\ grab.pc \in {"map", "copy", "paint"} /\ grab'.pc \in {"copy", "paint", "end"}
    /\ grab'.fb = grab.fb /\ grab'.event = grab.event

LEMMA GrabGoes ==
    ASSUME TypeOK, NEW p \in {"copy", "paint", "end"}, grab.pc \in {"map", "copy", "paint"},
           grab' = [grab EXCEPT !.pc = p]
    PROVE  (grab \in Grabs)' /\ GrabHasFb' /\ GrabKept /\ grab'.pc = p
  BY DEF TypeOK, Grabs, GrabHasFb, GrabKept, GrabPlaces

LEMMA NoGrabTypes ==
    NoGrab \in Grabs /\ NoGrab.pc = "idle" /\ NoGrab.fb = None /\ NoGrab.event = None
  BY DEF NoGrab, Grabs, GrabPlaces, Maybe

LEMMA GrabTypes ==
    ASSUME TypeOK, GrabMaps \/ GrabCopies \/ GrabPaintsCursor
    PROVE  TypeOK' /\ GrabKept
  <1>1. grab.pc \in {"map", "copy", "paint"} /\ GrabUnchanged
    BY DEF GrabMaps, GrabCopies, GrabPaintsCursor
  <1>2. PICK p \in {"copy", "paint", "end"} : grab' = [grab EXCEPT !.pc = p]
    <2>1. CASE GrabMaps
      BY <2>1 DEF GrabMaps
    <2>2. CASE GrabCopies
      BY <2>2 DEF GrabCopies
    <2>3. CASE GrabPaintsCursor
      BY <2>3 DEF GrabPaintsCursor
    <2> QED BY <2>1, <2>2, <2>3
  <1>3. (grab \in Grabs)' /\ GrabHasFb' /\ GrabKept
    BY <1>1, <1>2, GrabGoes
  <1>4. GhostTypes'
    BY DEF TypeOK, GhostTypes, GrabMaps, GrabCopies, GrabPaintsCursor, GrabUnchanged
  <1> QED BY <1>1, <1>3, <1>4, KeptTypes DEF TypeOK, GrabUnchanged, eventVars

LEMMA AskTypes ==
    ASSUME TypeOK, evdi_painter_request_update_ioctl \/ GrabEnds
    PROVE  TypeOK'
  <1>1. CASE evdi_painter_request_update_ioctl
    <2>1. (grab \in Grabs)' /\ GrabHasFb'
      BY <1>1 DEF TypeOK, Grabs, GrabHasFb, GrabPlaces, evdi_painter_request_update_ioctl
    <2>2. PainterTypes'
      BY <1>1 DEF TypeOK, PainterTypes, evdi_painter_request_update_ioctl
    <2> QED BY <1>1, <2>1, <2>2, KeptTypes
            DEF TypeOK, evdi_painter_request_update_ioctl, eventVars, ghostVars
  <1>2. CASE GrabEnds
    <2>1. (grab \in Grabs)' /\ GrabHasFb'
      BY <1>2, NoGrabTypes DEF GrabHasFb, GrabEnds
    <2>2. GhostTypes'
      BY <1>2, SentTypes DEF TypeOK, GhostTypes, GrabEnds, GrabUnchanged
    <2> QED BY <1>2, <2>1, <2>2, KeptTypes DEF TypeOK, GrabEnds, GrabUnchanged, eventVars
  <1> QED BY <1>1, <1>2

LEMMA GrabpixTypes ==
    ASSUME TypeOK, NEW size \in [w : Nat, h : Nat], NEW limit \in Nat,
           evdi_painter_grabpix_ioctl(size, limit)
    PROVE  TypeOK' /\ (DirtCoversDamage => DirtCoversDamage')
  <1> DEFINE rects == GrabDirts(dirty_rects, limit)
  <1>0. PainterTypes /\ dirty_rects \in Seq(Rects) /\ grab \in Grabs
    BY DEF TypeOK, PainterTypes
  <1>1. rects \in Seq(Rects) /\ Covers(rects, dirty_rects)
    BY <1>0, GrabCovers
  <1>2. /\ UNCHANGED <<is_connected, drm_filp, scanout_fb, was_update_requested, needs_full_modeset,
                        eventVars, vtVars, cursorVars, ddcci, planeVars, gem, commit, budget, flips,
                        answered, told, seen, pictureVars>>
        /\ IF scanout_fb = None
           THEN dirty_rects' = rects /\ UNCHANGED <<vblank, fbrefs, grab, owed>>
           ELSE /\ dirty_rects' = <<>> /\ vblank' = None
                /\ fbrefs' = FbGet(fbrefs, scanout_fb)
                /\ grab' = [pc |-> "map", rects |-> rects, fb |-> scanout_fb,
                            event |-> vblank, size |-> size]
                /\ owed' = owed \ UNION {Pixels(rects[i]) : i \in 1 .. Len(rects)}
    BY DEF evdi_painter_grabpix_ioctl
  <1> HIDE DEF rects
  <1>3. PainterTypes'
    <2>1. dirty_rects' \in Seq(Rects) /\ (vblank' = vblank \/ vblank' = None)
      <3>1. <<>> \in Seq(Rects)
        OBVIOUS
      <3> QED BY <1>1, <1>2, <3>1, Zenon
    <2> QED BY <1>0, <1>2, <2>1 DEF PainterTypes, Maybe
  <1>4. (grab \in Grabs)' /\ GrabHasFb'
    <2>1. CASE scanout_fb = None
      BY <1>2, <2>1 DEF TypeOK, GrabHasFb
    <2>2. CASE scanout_fb # None
      <3>1. grab' \in Grabs /\ grab'.fb = scanout_fb
        BY <1>0, <1>1, <1>2, <2>2 DEF PainterTypes, Grabs, GrabPlaces, Maybe
      <3> QED BY <2>2, <3>1 DEF GrabHasFb
    <2> QED BY <2>1, <2>2
  <1>5. TypeOK'
    BY <1>2, <1>3, <1>4, KeptTypes DEF TypeOK, eventVars
  <1>6. ASSUME DirtCoversDamage PROVE DirtCoversDamage'
    <2>1. ASSUME NEW p \in owed PROVE \E j \in 1 .. Len(rects) : p \in Pixels(rects[j])
      <3>1. PICK i \in 1 .. Len(dirty_rects) : p \in Pixels(dirty_rects[i])
        BY <1>6 DEF DirtCoversDamage
      <3> QED BY <1>1, <3>1 DEF Covers
    <2>2. CASE scanout_fb = None
      BY <1>2, <2>1, <2>2 DEF DirtCoversDamage
    <2>3. CASE scanout_fb # None
      <3>1. owed' = {}
        BY <1>2, <2>1, <2>3
      <3> QED BY <3>1 DEF DirtCoversDamage
    <2> QED BY <2>2, <2>3
  <1> QED BY <1>5, <1>6

(* The console and the switch of cursor events.                             *)
LEMMA SwitchTypes ==
    ASSUME TypeOK,
           \/ evdi_painter_enable_cursor_events_ioctl \/ evdi_painter_vt_notifier_call \/ VtSends
           \/ evdi_painter_force_full_modeset \/ evdi_send_events_work
    PROVE  TypeOK'
  <1>0. PainterTypes /\ EventTypes /\ CursorTypes /\ budget \in Budgets
    BY DEF TypeOK
  <1>1. CASE evdi_painter_enable_cursor_events_ioctl
    <2>1. CursorTypes' /\ (budget \in Budgets)'
      BY <1>0, <1>1, SpendTypes DEF CursorTypes, evdi_painter_enable_cursor_events_ioctl
    <2> QED BY <1>1, <2>1, KeptTypes
            DEF TypeOK, evdi_painter_enable_cursor_events_ioctl, eventVars, ghostVars
  <1>2. CASE evdi_painter_vt_notifier_call
    <2>1. (budget \in Budgets)'
      BY <1>0, <1>2, SpendTypes DEF evdi_painter_vt_notifier_call
    <2> QED BY <1>2, <2>1, KeptTypes
            DEF TypeOK, evdi_painter_vt_notifier_call, eventVars, ghostVars
  <1>3. CASE VtSends
    <2>1. EventTypes'
      BY <1>0, <1>3, EventsAreEvents, PostTypes DEF VtSends
    <2> QED BY <1>3, <2>1, KeptTypes DEF TypeOK, VtSends, ghostVars
  <1>4. CASE evdi_painter_force_full_modeset
    <2>1. PainterTypes'
      BY <1>0, <1>4 DEF PainterTypes, evdi_painter_force_full_modeset
    <2> QED BY <1>4, <2>1, KeptTypes
            DEF TypeOK, evdi_painter_force_full_modeset, eventVars, ghostVars
  <1>5. CASE evdi_send_events_work
    <2>1. EventTypes'
      <3>1. pending_events \in Seq(Events)
        BY <1>0 DEF EventTypes
      <3> QED BY <1>0, <1>5, <3>1, FlushTypes DEF evdi_send_events_work
    <2> QED BY <1>5, <2>1, KeptTypes DEF TypeOK, evdi_send_events_work, ghostVars
  <1> QED BY <1>1, <1>2, <1>3, <1>4, <1>5

(* Buffers, for each object and for a framebuffer that is removed.          *)
LEMMA HandleTypes ==
    ASSUME TypeOK, NEW o,
           MapDumb(o) \/ PrimeExport(o) \/ PrimeRelease(o) \/ CloseHandle(o) \/ RemoveFb(o)
    PROVE  TypeOK'
  <1>1. BufferUnchanged /\ UNCHANGED inbox
    BY DEF MapDumb, PrimeExport, PrimeRelease, CloseHandle, RemoveFb
  <1>2. (budget \in Budgets)'
    BY SpendTypes DEF TypeOK, MapDumb, PrimeExport, PrimeRelease, CloseHandle, RemoveFb
  <1>3. handles' \subseteq handles
    BY DEF MapDumb, PrimeExport, PrimeRelease, CloseHandle, RemoveFb
  <1>4. PlaneTypes'
    BY <1>1, <1>3 DEF TypeOK, PlaneTypes, BufferUnchanged
  <1> QED BY <1>1, <1>2, <1>4, KeptTypes DEF TypeOK, BufferUnchanged, ghostVars

LEMMA DdcTypes ==
    ASSUME TypeOK,
           \/ evdi_painter_i2c_data_notify \/ DdcSends \/ evdi_painter_ddcci_data
           \/ \E m \in 1 .. 2 : evdi_painter_ddcci_response_ioctl(m)
    PROVE  TypeOK'
  <1>0. PainterTypes /\ EventTypes /\ ddcci \in Ddcs /\ budget \in Budgets
    BY DEF TypeOK
  <1>1. CASE evdi_painter_i2c_data_notify
    <2>1. PICK p \in {"send", "wait"} :
             ddcci' = [ddcci EXCEPT !.done = FALSE, !.asked = ddcci.asked + 1, !.got = None, !.pc = p]
      BY <1>1 DEF evdi_painter_i2c_data_notify
    <2>2. PICK n \in Nat : n = ddcci.asked + 1
      BY <1>0 DEF Ddcs
    <2>3. (ddcci \in Ddcs)'
      BY <1>0, <2>1, <2>2 DEF Ddcs, DdcPlaces, Maybe
    <2>4. (budget \in Budgets)'
      BY <1>0, <1>1, SpendTypes DEF evdi_painter_i2c_data_notify
    <2> QED BY <1>1, <2>3, <2>4, KeptTypes
            DEF TypeOK, evdi_painter_i2c_data_notify, DdcUnchanged, eventVars, ghostVars
  <1>2. CASE DdcSends
    <2>1. EventTypes'
      <3>1. ddcci.asked \in Nat
        BY <1>0 DEF Ddcs
      <3> QED BY <1>0, <1>2, <3>1, EventsAreEvents, PostTypes DEF DdcSends
    <2>2. (ddcci \in Ddcs)'
      BY <1>0, <1>2 DEF DdcSends, Ddcs, DdcPlaces
    <2> QED BY <1>2, <2>1, <2>2, KeptTypes DEF TypeOK, DdcSends, DdcUnchanged, ghostVars
  <1>3. CASE evdi_painter_ddcci_data
    <2>1. (ddcci \in Ddcs)'
      BY <1>0, <1>3 DEF evdi_painter_ddcci_data, Ddcs, DdcPlaces
    <2> QED BY <1>3, <2>1, KeptTypes
            DEF TypeOK, evdi_painter_ddcci_data, DdcUnchanged, eventVars, ghostVars
  <1>4. ASSUME NEW m \in 1 .. 2, evdi_painter_ddcci_response_ioctl(m) PROVE TypeOK'
    <2>1. m \in Nat /\ ddcci' = [ddcci EXCEPT !.buffer = m, !.done = TRUE]
      BY <1>4 DEF evdi_painter_ddcci_response_ioctl
    <2>2. (ddcci \in Ddcs)'
      BY <1>0, <2>1 DEF Ddcs, Maybe
    <2> QED BY <1>4, <2>2, KeptTypes
            DEF TypeOK, evdi_painter_ddcci_response_ioctl, DdcUnchanged, eventVars, ghostVars
  <1> QED BY <1>1, <1>2, <1>3, <1>4

LEMMA InitTypes == Init => TypeOK
  <1> SUFFICES ASSUME Init PROVE TypeOK
    OBVIOUS
  <1>0. budget \in Budgets /\ budget.events \in BOOLEAN /\ EventSpace \in Nat
    BY WorkloadsAssumption, PainterAssumption DEF Init, Budgets
  <1>1. <<>> \in Seq(Rects) /\ <<>> \in Seq(Events) /\ <<>> \in Seq(Nat) /\ Len(<<>>) = 0
    OBVIOUS
  <1>2. PainterTypes
    BY <1>1 DEF Init, PainterTypes, Maybe
  <1>3. EventTypes
    <2>1. pending_events = <<>> /\ send_events_work = FALSE /\ inbox = [f \in Files |-> <<>>]
      BY DEF Init
    <2>2. \A f \in Files : inbox[f] = <<>>
      BY <2>1
    <2>3. inbox \in [Files -> Seq(Events)] /\ pending_events \in Seq(Events)
      BY <1>1, <2>1
    <2>4. ASSUME NEW f \in Files PROVE Len(inbox[f]) <= EventSpace
      <3>1. Len(inbox[f]) = 0
        BY <2>2
      <3> QED BY <1>0, <3>1
    <2> QED BY <2>1, <2>3, <2>4 DEF EventTypes
  <1>4. CursorTypes
    BY <1>0 DEF Init, CursorTypes, CursorStates, NoCursor, Maybe
  <1>5. PlaneTypes
    BY PainterAssumption DEF Init, PlaneTypes, Maybe
  <1>6. GhostTypes
    BY <1>1 DEF Init, GhostTypes, Maybe
  <1>7. CommitTypes
    <2>1. commit = NoCommit
      BY DEF Init
    <2> QED BY <2>1, NoCommitTypes DEF CommitTypes, Maybe
  <1>8. grab \in Grabs /\ GrabHasFb
    <2>1. grab = NoGrab
      BY DEF Init
    <2> QED BY <2>1, NoGrabTypes DEF GrabHasFb
  <1>9. ddcci \in Ddcs
    BY DEF Init, NoDdc, Ddcs, DdcPlaces, Maybe
  <1> QED BY <1>0, <1>2, <1>3, <1>4, <1>5, <1>6, <1>7, <1>8, <1>9 DEF TypeOK

LEMMA NextTypes ==
    ASSUME TypeOK, [Next]_vars
    PROVE  TypeOK'
  <1>0. /\ budget.fbs \subseteq Maybe(Fbs) /\ budget.pictures \subseteq Maybe(Objects)
        /\ budget.clips \subseteq Seq(Rects) /\ budget.modes \subseteq BOOLEAN
        /\ budget.limits \subseteq Nat /\ budget.files \subseteq Files
    BY BudgetSets DEF Maybe
  <1>1. ASSUME NEW f \in budget.fbs, NEW clips \in budget.clips, NEW m \in budget.modes,
               BeginCommit(f, clips, m)
        PROVE  TypeOK'
    BY <1>0, <1>1, BeginTypes
  <1>2. ASSUME NEW o \in budget.pictures, NEW p \in Positions,
               evdi_cursor_atomic_update(o, p[1], p[2])
        PROVE  TypeOK'
    <2>1. p[1] \in Int /\ p[2] \in Int
      BY PainterAssumption
    <2> QED BY <1>0, <1>2, <2>1, CursorCommitTypes
  <1>3. CASE CommitStep
    BY <1>3, MarkTypes, NotifyTypes, ShowTypes, EndTypes, SectionTypes DEF CommitStep, CursorSection
  <1>4. CASE ClientStep
    <2>1. ASSUME NEW f \in budget.fbs \ {None}, NEW limit \in budget.limits,
                 evdi_painter_grabpix_ioctl(Size[f], limit)
          PROVE  TypeOK'
      <3>1. Size[f] \in [w : Nat, h : Nat]
        BY <1>0, RectTypes, PainterAssumption DEF Maybe
      <3> QED BY <1>0, <2>1, <3>1, GrabpixTypes
    <2> QED BY <1>4, <2>1, GrabTypes, AskTypes DEF ClientStep
  <1>5. ASSUME NEW f \in budget.files,
               \/ evdi_painter_connect(f) \/ evdi_painter_disconnect(f) \/ ClientReads(f)
               \/ CloseFile(f)
        PROVE  TypeOK'
    BY <1>0, <1>5, ClientTypes
  <1>6. CASE \/ evdi_painter_enable_cursor_events_ioctl \/ evdi_painter_vt_notifier_call \/ VtSends
             \/ evdi_painter_force_full_modeset \/ evdi_send_events_work
    BY <1>6, SwitchTypes
  <1>7. CASE \/ \E o \in (budget.fbs \cup budget.pictures) \ {None} :
                   MapDumb(o) \/ PrimeExport(o) \/ PrimeRelease(o) \/ CloseHandle(o)
             \/ \E f \in budget.fbs \ {None} : RemoveFb(f)
    BY <1>7, HandleTypes
  <1>8. CASE \/ evdi_painter_i2c_data_notify \/ DdcSends \/ evdi_painter_ddcci_data
             \/ \E m \in 1 .. 2 : evdi_painter_ddcci_response_ioctl(m)
    BY <1>8, DdcTypes
  <1>9. CASE UNCHANGED vars
    BY <1>9, KeptTypes DEF TypeOK, vars, eventVars, ghostVars
  <1> QED BY <1>1, <1>2, <1>3, <1>4, <1>5, <1>6, <1>7, <1>8, <1>9 DEF Next

(* Every variable of the painter, the compositor and the clients keeps its
   type; what is on the list are rectangles, merged and collapsed as they may
   be, and the events in a file never exceed its space.                     *)
THEOREM PainterTypeCorrect == Spec => []TypeOK
  <1>1. Init => TypeOK
    BY InitTypes
  <1>2. TypeOK /\ [Next]_vars => TypeOK'
    BY NextTypes
  <1> QED BY <1>1, <1>2, PTL DEF Spec

-----------------------------------------------------------------------------
(* Steps that leave the damage, the commit, the grab and the flips alone.   *)
Quiet ==
    \/ evdi_painter_enable_cursor_events_ioctl \/ evdi_painter_vt_notifier_call \/ VtSends
    \/ evdi_painter_force_full_modeset \/ evdi_send_events_work
    \/ \E o \in Objects : MapDumb(o) \/ PrimeExport(o) \/ PrimeRelease(o) \/ CloseHandle(o)
    \/ \E f \in Fbs : RemoveFb(f)
    \/ evdi_painter_i2c_data_notify \/ DdcSends \/ evdi_painter_ddcci_data
    \/ \E m \in 1 .. 2 : evdi_painter_ddcci_response_ioctl(m)
    \/ \E f \in Files : evdi_painter_connect(f) \/ ClientReads(f) \/ CloseFile(f)
    \/ UNCHANGED vars

LEMMA QuietSteps ==
    ASSUME Quiet
    PROVE  UNCHANGED <<dirty_rects, owed, was_update_requested, scanout_fb, vblank, commit, grab,
                       flips, answered, plane, cursorPlane, cursor>>
  <1>1. CASE \/ evdi_painter_enable_cursor_events_ioctl \/ evdi_painter_vt_notifier_call \/ VtSends
             \/ evdi_painter_force_full_modeset \/ evdi_send_events_work
    BY <1>1 DEF evdi_painter_enable_cursor_events_ioctl, evdi_painter_vt_notifier_call,
       VtSends, evdi_painter_force_full_modeset, evdi_send_events_work, painterVars, ghostVars,
       planeVars, cursorVars
  <1>2. ASSUME NEW o, \/ MapDumb(o) \/ PrimeExport(o) \/ PrimeRelease(o) \/ CloseHandle(o)
                      \/ RemoveFb(o) \/ CloseFile(o)
        PROVE  BufferUnchanged
    BY <1>2 DEF MapDumb, PrimeExport, PrimeRelease, CloseHandle, RemoveFb, CloseFile
  <1>3. CASE BufferUnchanged
    BY <1>3 DEF BufferUnchanged, painterVars, ghostVars, cursorVars
  <1>4. CASE \/ evdi_painter_i2c_data_notify \/ DdcSends \/ evdi_painter_ddcci_data
             \/ \E m \in 1 .. 2 : evdi_painter_ddcci_response_ioctl(m)
    <2>1. DdcUnchanged
      BY <1>4 DEF evdi_painter_i2c_data_notify, DdcSends, evdi_painter_ddcci_data,
         evdi_painter_ddcci_response_ioctl
    <2> QED BY <2>1 DEF DdcUnchanged, painterVars, ghostVars, planeVars, cursorVars
  <1>5. CASE \E f \in Files : evdi_painter_connect(f) \/ ClientReads(f)
    BY <1>5 DEF evdi_painter_connect, ClientReads, painterVars, planeVars, cursorVars
  <1>6. CASE UNCHANGED vars
    BY <1>6 DEF vars, painterVars, ghostVars, planeVars, cursorVars
  <1> QED BY <1>1, <1>2, <1>3, <1>4, <1>5, <1>6 DEF Quiet

(* What a step can be; the inputs have their types.                         *)
LEMMA NextCases ==
    ASSUME TypeOK, [Next]_vars
    PROVE  \/ \E f \in Maybe(Fbs), clips \in Seq(Rects), m \in BOOLEAN : BeginCommit(f, clips, m)
           \/ \E o \in Maybe(Objects), x, y \in Int : evdi_cursor_atomic_update(o, x, y)
           \/ CommitStep
           \/ evdi_painter_request_update_ioctl
           \/ \E size \in [w : Nat, h : Nat], limit \in Nat : evdi_painter_grabpix_ioctl(size, limit)
           \/ GrabMaps \/ GrabCopies \/ GrabPaintsCursor \/ GrabEnds
           \/ \E f \in Files : evdi_painter_disconnect(f)
           \/ Quiet
  <1>0. /\ budget.fbs \subseteq Maybe(Fbs) /\ budget.pictures \subseteq Maybe(Objects)
        /\ budget.clips \subseteq Seq(Rects) /\ budget.modes \subseteq BOOLEAN
        /\ budget.limits \subseteq Nat /\ budget.files \subseteq Files
    BY BudgetSets DEF Maybe
  <1>1. \A p \in Positions : p[1] \in Int /\ p[2] \in Int
    BY PainterAssumption
  <1>2. \A f \in budget.fbs \ {None} : f \in Fbs /\ f \in Objects /\ Size[f] \in [w : Nat, h : Nat]
    BY <1>0, RectTypes, PainterAssumption DEF Maybe
  <1>3. \A o \in (budget.fbs \cup budget.pictures) \ {None} : o \in Objects
    BY <1>0, <1>2 DEF Maybe
  <1>4. ASSUME NEW o \in budget.pictures, NEW p \in Positions,
               evdi_cursor_atomic_update(o, p[1], p[2])
        PROVE  \E q \in Maybe(Objects), x, y \in Int : evdi_cursor_atomic_update(q, x, y)
    BY <1>0, <1>1, <1>4
  <1>5. CASE ClientStep
    BY <1>0, <1>2, <1>5 DEF ClientStep
  <1>6. CASE UNCHANGED vars
    BY <1>6 DEF Quiet
  <1>7. CASE \E f \in budget.files : \/ evdi_painter_connect(f) \/ evdi_painter_disconnect(f)
                                     \/ ClientReads(f) \/ CloseFile(f)
    BY <1>0, <1>7 DEF Quiet
  <1>8. CASE \/ \E o \in (budget.fbs \cup budget.pictures) \ {None} :
                   MapDumb(o) \/ PrimeExport(o) \/ PrimeRelease(o) \/ CloseHandle(o)
             \/ \E f \in budget.fbs \ {None} : RemoveFb(f)
    BY <1>2, <1>3, <1>8 DEF Quiet
  <1>9. CASE \/ evdi_painter_enable_cursor_events_ioctl \/ evdi_painter_vt_notifier_call \/ VtSends
             \/ evdi_painter_force_full_modeset \/ evdi_send_events_work
             \/ evdi_painter_i2c_data_notify \/ DdcSends \/ evdi_painter_ddcci_data
             \/ \E m \in 1 .. 2 : evdi_painter_ddcci_response_ioctl(m)
    BY <1>9 DEF Quiet
  <1> QED BY <1>0, <1>4, <1>5, <1>6, <1>7, <1>8, <1>9 DEF Next

-----------------------------------------------------------------------------
(* The damage.                                                              *)
LEMMA DirtStep ==
    ASSUME TypeOK, DirtCoversDamage, [Next]_vars
    PROVE  DirtCoversDamage'
  <1>0. UNCHANGED <<dirty_rects, owed>> => DirtCoversDamage'
    BY DEF DirtCoversDamage
  <1>1. ASSUME NEW f, NEW clips, NEW m, BeginCommit(f, clips, m) PROVE DirtCoversDamage'
    BY <1>0, <1>1 DEF BeginCommit, painterVars
  <1>2. ASSUME NEW o, NEW x, NEW y, evdi_cursor_atomic_update(o, x, y) PROVE DirtCoversDamage'
    BY <1>0, <1>2 DEF evdi_cursor_atomic_update, painterVars
  <1>3. CASE CommitStep
    <2>1. CASE MarkDamage \/ MarkFull \/ MarkOldCursor \/ MarkNewCursor
      BY <2>1, MarkSteps
    <2>2. CASE \/ evdi_plane_atomic_update \/ SetScanout \/ SendCursorSet \/ SendCursorMove
               \/ CommitSends \/ CheckDirts
      BY <1>0, <2>2 DEF evdi_plane_atomic_update, SetScanout, SendCursorSet, SendCursorMove,
         CommitSends, CheckDirts, painterVars, ghostVars
    <2>3. CASE \/ evdi_crtc_atomic_flush \/ evdi_painter_mode_changed_notify \/ NotifyDpms
               \/ evdi_painter_set_vblank \/ evdi_painter_send_update_ready_if_needed \/ EndCommit
      <3>1. FlushUnchanged
        BY <2>3 DEF evdi_crtc_atomic_flush, evdi_painter_mode_changed_notify, NotifyDpms,
           evdi_painter_set_vblank, evdi_painter_send_update_ready_if_needed, EndCommit
      <3> QED BY <1>0, <3>1 DEF FlushUnchanged
    <2>4. CASE CursorSection
      BY <1>0, <2>4, SectionTypes DEF CursorUnchanged, painterVars
    <2> QED BY <1>3, <2>1, <2>2, <2>3, <2>4 DEF CommitStep, CursorSection
  <1>4. ASSUME NEW size \in [w : Nat, h : Nat], NEW limit \in Nat,
               evdi_painter_grabpix_ioctl(size, limit)
        PROVE  DirtCoversDamage'
    BY <1>4, GrabpixTypes
  <1>5. CASE evdi_painter_request_update_ioctl
    BY <1>0, <1>5 DEF evdi_painter_request_update_ioctl, ghostVars
  <1>6. CASE GrabMaps \/ GrabCopies \/ GrabPaintsCursor \/ GrabEnds
    <2>1. GrabUnchanged
      BY <1>6 DEF GrabMaps, GrabCopies, GrabPaintsCursor, GrabEnds
    <2> QED BY <1>0, <2>1 DEF GrabUnchanged, painterVars
  <1>7. ASSUME NEW f, evdi_painter_disconnect(f) PROVE DirtCoversDamage'
    BY <1>0, <1>7 DEF evdi_painter_disconnect
  <1>8. CASE Quiet
    BY <1>0, <1>8, QuietSteps
  <1> QED BY <1>1, <1>2, <1>3, <1>4, <1>5, <1>6, <1>7, <1>8, NextCases

(* evdi_painter_mark_dirty, merge_dirty_rects and collapse_dirty_rects lose no
   damage: whatever the commits, the grabs and the limits of the clients, a
   pixel that was damaged and not yet given to a grab is in a rectangle.    *)
THEOREM DamageIsNotLost == Spec => []DirtCoversDamage
  <1>1. Init => DirtCoversDamage
    BY DEF Init, DirtCoversDamage
  <1>2. TypeOK /\ DirtCoversDamage /\ [Next]_vars => DirtCoversDamage'
    BY DirtStep
  <1> QED BY <1>1, <1>2, PainterTypeCorrect, PTL DEF Spec

-----------------------------------------------------------------------------
(* The wake-up.                                                             *)

(* The steps of a commit between its first and its last.                    *)
LEMMA CommitGoesOn ==
    ASSUME TypeOK,
           \/ evdi_plane_atomic_update \/ SetScanout \/ MarkDamage \/ CheckDirts \/ MarkFull
           \/ evdi_crtc_atomic_flush \/ evdi_painter_mode_changed_notify \/ NotifyDpms
           \/ CommitSends \/ MarkOldCursor \/ MarkNewCursor \/ SendCursorSet \/ SendCursorMove
           \/ CursorSection
    PROVE  /\ CommitKept
           /\ UNCHANGED <<was_update_requested, vblank, grab, flips, answered, plane>>
  <1>1. CommitKept
    BY MarkSteps, NotifyTypes, ShowTypes, SectionTypes
  <1>2. UNCHANGED <<was_update_requested, vblank, grab, flips, answered, plane>>
    <2>1. CASE MarkDamage \/ CheckDirts \/ MarkFull \/ MarkOldCursor \/ MarkNewCursor
      BY <2>1 DEF MarkDamage, CheckDirts, MarkFull, MarkOldCursor, MarkNewCursor, MarkUnchanged,
         planeVars
    <2>2. CASE evdi_crtc_atomic_flush \/ evdi_painter_mode_changed_notify \/ NotifyDpms
      BY <2>2 DEF evdi_crtc_atomic_flush, evdi_painter_mode_changed_notify, NotifyDpms,
         FlushUnchanged, planeVars
    <2>3. CASE \/ evdi_plane_atomic_update \/ SetScanout \/ CommitSends \/ SendCursorSet
               \/ SendCursorMove
      BY <2>3 DEF evdi_plane_atomic_update, SetScanout, CommitSends, SendCursorSet, SendCursorMove,
         painterVars, ghostVars, planeVars
    <2>4. CASE CursorSection
      BY <2>4, SectionTypes DEF CursorUnchanged, painterVars, planeVars
    <2> QED BY <2>1, <2>2, <2>3, <2>4
  <1> QED BY <1>1, <1>2

LEMMA WakeStep ==
    ASSUME TypeOK, WakeInv, [Next]_vars
    PROVE  WakeInv'
  <1>0. UNCHANGED <<was_update_requested, dirty_rects, commit, grab>> => WakeInv'
    BY DEF WakeInv, NoLostWakeup
  <1>c. commit \in Commits /\ grab \in Grabs
    BY DEF TypeOK, CommitTypes
  <1>1. ASSUME NEW f \in Maybe(Fbs), NEW clips \in Seq(Rects), NEW m \in BOOLEAN,
               BeginCommit(f, clips, m)
        PROVE  WakeInv'
    <2>1. commit'.pc = "plane"
      BY <1>1, BeginTypes
    <2> QED BY <1>1, <2>1 DEF WakeInv, NoLostWakeup, BeginCommit, painterVars
  <1>2. ASSUME NEW o \in Maybe(Objects), NEW x \in Int, NEW y \in Int,
               evdi_cursor_atomic_update(o, x, y)
        PROVE  WakeInv'
    <2>1. commit'.pc \in {"picture", "enable", "events"}
      BY <1>2, CursorCommitTypes, Zenon
    <2> QED BY <1>2, <2>1 DEF WakeInv, NoLostWakeup, evdi_cursor_atomic_update, painterVars
  <1>3. CASE CommitStep
    <2>1. CASE \/ evdi_plane_atomic_update \/ SetScanout \/ MarkDamage \/ CheckDirts \/ MarkFull
               \/ evdi_crtc_atomic_flush \/ evdi_painter_mode_changed_notify \/ NotifyDpms
               \/ CommitSends \/ MarkOldCursor \/ MarkNewCursor \/ SendCursorSet \/ SendCursorMove
               \/ CursorSection
      BY <2>1, CommitGoesOn DEF CommitKept, WakeInv, NoLostWakeup
    <2>2. CASE evdi_painter_set_vblank
      <3>1. commit'.pc = "ready"
        BY <1>c, <2>2 DEF evdi_painter_set_vblank, Commits
      <3> QED BY <2>2, <3>1 DEF evdi_painter_set_vblank, FlushUnchanged, WakeInv, NoLostWakeup
    <2>3. CASE evdi_painter_send_update_ready_if_needed
      BY <2>3 DEF evdi_painter_send_update_ready_if_needed, FlushUnchanged, WakeInv, NoLostWakeup
    <2>4. CASE EndCommit
      BY <2>4 DEF EndCommit, FlushUnchanged, WakeInv, NoLostWakeup
    <2> QED BY <1>3, <2>1, <2>2, <2>3, <2>4 DEF CommitStep, CursorSection
  <1>4. ASSUME NEW size, NEW limit, evdi_painter_grabpix_ioctl(size, limit) PROVE WakeInv'
    BY <1>4 DEF WakeInv, NoLostWakeup, evdi_painter_grabpix_ioctl
  <1>5. CASE evdi_painter_request_update_ioctl
    BY <1>5 DEF WakeInv, NoLostWakeup, evdi_painter_request_update_ioctl
  <1>6. CASE GrabMaps \/ GrabCopies \/ GrabPaintsCursor \/ GrabEnds
    <2>1. GrabUnchanged /\ grab.pc # "idle"
      BY <1>6 DEF GrabMaps, GrabCopies, GrabPaintsCursor, GrabEnds
    <2> QED BY <2>1 DEF GrabUnchanged, painterVars, WakeInv, NoLostWakeup
  <1>7. ASSUME NEW f, evdi_painter_disconnect(f) PROVE WakeInv'
    BY <1>7 DEF evdi_painter_disconnect, WakeInv, NoLostWakeup
  <1>8. CASE Quiet
    BY <1>0, <1>8, QuietSteps
  <1> QED BY <1>1, <1>2, <1>3, <1>4, <1>5, <1>6, <1>7, <1>8, NextCases

(* A request that evdi_painter_request_update_ioctl remembered is never left
   standing while there is something to grab and no commit is on its way to
   evdi_painter_send_update_ready_if_needed.                                *)
THEOREM WakeupIsNotLost == Spec => []NoLostWakeup
  <1>1. Init => WakeInv
    BY DEF Init, WakeInv, NoLostWakeup, NoGrab
  <1>2. TypeOK /\ WakeInv /\ [Next]_vars => WakeInv'
    BY WakeStep
  <1>3. WakeInv => NoLostWakeup
    BY DEF WakeInv
  <1> QED BY <1>1, <1>2, <1>3, PainterTypeCorrect, PTL DEF Spec

-----------------------------------------------------------------------------
(* The events of flips.                                                     *)
LEMMA SentOnce ==
    ASSUME NEW sent \in Seq(Nat), NEW e \in Maybe(1 .. Len(sent))
    PROVE  /\ evdi_send_vblank(sent, e) \in Seq(Nat)
           /\ Len(evdi_send_vblank(sent, e)) = Len(sent)
           /\ \A i \in 1 .. Len(sent) : evdi_send_vblank(sent, e)[i] = sent[i] + Holds(e, i)
  <1>0. \A i \in 1 .. Len(sent) : sent[i] \in Nat /\ i # None
    BY PainterAssumption
  <1>1. CASE e = None
    <2>1. evdi_send_vblank(sent, e) = sent
      BY <1>1 DEF evdi_send_vblank
    <2> QED BY <1>0, <1>1, <2>1 DEF Holds
  <1>2. CASE e # None
    <2>1. evdi_send_vblank(sent, e) = [sent EXCEPT ![e] = sent[e] + 1] /\ e \in 1 .. Len(sent)
      BY <1>2 DEF evdi_send_vblank, Maybe
    <2>2. sent[e] + 1 \in Nat
      BY <1>0, <2>1
    <2> QED BY <1>0, <2>1, <2>2 DEF Holds
  <1> QED BY <1>1, <1>2

Once(sent, c, v, g) ==
    /\ {c, v, g} \subseteq Maybe(1 .. Len(sent))
    /\ \A e \in 1 .. Len(sent) : sent[e] + Holds(c, e) + Holds(v, e) + Holds(g, e) = 1

LEMMA OnceSent ==
    ASSUME NEW sent \in Seq(Nat), NEW c, NEW v, NEW g, Once(sent, c, v, g)
    PROVE  /\ Once(evdi_send_vblank(sent, c), None, v, g)
           /\ Once(evdi_send_vblank(sent, v), c, None, g)
           /\ Once(evdi_send_vblank(sent, g), c, v, None)
           /\ v = None => Once(sent, None, c, g)
           /\ g = None => Once(sent, c, None, v)
  <1>0. \A i \in 1 .. Len(sent) : i # None /\ sent[i] \in Nat
    BY PainterAssumption
  <1>1. c \in Maybe(1 .. Len(sent)) /\ v \in Maybe(1 .. Len(sent)) /\ g \in Maybe(1 .. Len(sent))
        /\ None \in Maybe(1 .. Len(sent))
    BY DEF Once, Maybe
  <1>2. \A x, i : Holds(x, i) \in {0, 1}
    BY DEF Holds
  <1>3. \A i \in 1 .. Len(sent) : Holds(None, i) = 0
    BY <1>0 DEF Holds
  <1>4. ASSUME NEW x \in {c, v, g}
        PROVE  /\ Len(evdi_send_vblank(sent, x)) = Len(sent)
               /\ \A i \in 1 .. Len(sent) : evdi_send_vblank(sent, x)[i] = sent[i] + Holds(x, i)
    BY <1>1, SentOnce
  <1>5. \A e \in 1 .. Len(sent) : sent[e] + Holds(c, e) + Holds(v, e) + Holds(g, e) = 1
    BY DEF Once
  <1>6. Once(evdi_send_vblank(sent, c), None, v, g)
    BY <1>0, <1>1, <1>2, <1>3, <1>4, <1>5 DEF Once
  <1>7. Once(evdi_send_vblank(sent, v), c, None, g)
    BY <1>0, <1>1, <1>2, <1>3, <1>4, <1>5 DEF Once
  <1>8. Once(evdi_send_vblank(sent, g), c, v, None)
    BY <1>0, <1>1, <1>2, <1>3, <1>4, <1>5 DEF Once
  <1>9. v = None => Once(sent, None, c, g)
    BY <1>0, <1>1, <1>2, <1>3, <1>5 DEF Once
  <1>10. g = None => Once(sent, c, None, v)
    BY <1>0, <1>1, <1>2, <1>3, <1>5 DEF Once
  <1> QED BY <1>6, <1>7, <1>8, <1>9, <1>10

LEMMA FlipStep ==
    ASSUME TypeOK, FlipInv, [Next]_vars
    PROVE  FlipInv'
  <1> DEFINE Places == /\ commit.pc \in {"idle", "ready", "end"} => commit.event = None
                       /\ grab.pc \in {"idle", "granted"} => grab.event = None
             Flips == /\ Len(answered) = flips /\ answered \in Seq(Nat)
                      /\ Once(answered, commit.event, vblank, grab.event)
  <1>0. Places /\ Flips
    BY DEF FlipInv, TypeOK, GhostTypes, Once
  <1>p. Places' /\ Flips' => FlipInv'
    BY DEF FlipInv, Once
  <1>c. commit \in Commits /\ grab \in Grabs
    BY DEF TypeOK, CommitTypes
  <1>1. ASSUME NEW f \in Maybe(Fbs), NEW clips \in Seq(Rects), NEW m \in BOOLEAN,
               BeginCommit(f, clips, m)
        PROVE  FlipInv'
    <2>1. /\ commit'.pc = "plane" /\ commit'.event = flips + 1 /\ UNCHANGED <<grab, vblank>>
          /\ commit.event = None /\ flips' = flips + 1 /\ answered' = Append(answered, 0)
      BY <1>0, <1>1, BeginTypes DEF BeginCommit, painterVars
    <2>2. /\ answered' \in Seq(Nat) /\ Len(answered') = flips + 1 /\ flips \in Nat
          /\ answered'[flips + 1] = 0 /\ \A e \in 1 .. flips : answered'[e] = answered[e]
      BY <1>0, <2>1 DEF TypeOK, GhostTypes
    <2>3. \A e \in 1 .. flips + 1 : e # None
      BY <2>2, PainterAssumption
    <2>4. /\ vblank \in Maybe(1 .. flips) /\ grab.event \in Maybe(1 .. flips)
          /\ \A e \in 1 .. flips : /\ answered[e] \in Nat
                                    /\ answered[e] + Holds(None, e) + Holds(vblank, e)
                                       + Holds(grab.event, e) = 1
      BY <1>0, <2>1 DEF Once
    <2>5. Once(answered', flips + 1, vblank, grab.event)
      <3>1. \A e \in 1 .. flips + 1 : e = flips + 1 \/ e \in 1 .. flips
        BY <2>2
      <3>2. \A e \in 1 .. flips : Holds(flips + 1, e) = 0 /\ Holds(None, e) = 0
        BY <2>2, <2>3 DEF Holds
      <3>3. Holds(flips + 1, flips + 1) = 1 /\ Holds(vblank, flips + 1) = 0
            /\ Holds(grab.event, flips + 1) = 0
        BY <2>2, <2>3, <2>4 DEF Holds, Maybe
      <3>4. {flips + 1, vblank, grab.event} \subseteq Maybe(1 .. flips + 1)
        BY <2>2, <2>4 DEF Maybe
      <3>5. \A x, i : Holds(x, i) \in {0, 1}
        BY DEF Holds
      <3>6. ASSUME NEW e \in 1 .. flips + 1
            PROVE  answered'[e] + Holds(flips + 1, e) + Holds(vblank, e) + Holds(grab.event, e) = 1
        BY <2>2, <2>4, <3>1, <3>2, <3>3, <3>5
      <3> QED BY <2>2, <3>4, <3>6 DEF Once
    <2>6. Flips'
      BY <2>1, <2>2, <2>5
    <2>7. Places'
      BY <1>0, <2>1
    <2> QED BY <1>p, <2>6, <2>7
  <1>2. ASSUME NEW o \in Maybe(Objects), NEW x \in Int, NEW y \in Int,
               evdi_cursor_atomic_update(o, x, y)
        PROVE  FlipInv'
    <2>1. commit'.event = None /\ commit.event = None
          /\ UNCHANGED <<grab, vblank, answered, flips>>
      BY <1>0, <1>2, CursorCommitTypes DEF evdi_cursor_atomic_update, painterVars
    <2> QED BY <1>0, <1>p, <2>1
  <1>3. CASE CommitStep
    <2>1. CASE \/ evdi_plane_atomic_update \/ SetScanout \/ MarkDamage \/ CheckDirts \/ MarkFull
               \/ evdi_crtc_atomic_flush \/ evdi_painter_mode_changed_notify \/ NotifyDpms
               \/ CommitSends \/ MarkOldCursor \/ MarkNewCursor \/ SendCursorSet \/ SendCursorMove
               \/ CursorSection
      <3>1. CommitKept /\ UNCHANGED <<grab, vblank, answered, flips>>
        BY <2>1, CommitGoesOn
      <3> QED BY <1>0, <1>p, <3>1 DEF CommitKept
    <2>2. CASE evdi_painter_set_vblank
      <3>1. commit'.pc = "ready" /\ commit'.event = None
        BY <1>c, <2>2 DEF evdi_painter_set_vblank, Commits
      <3> DEFINE sent == evdi_send_vblank(answered, vblank)
      <3>2. UNCHANGED <<grab, flips>>
            /\ \/ vblank' = commit.event /\ answered' = sent
               \/ vblank' = None /\ answered' = evdi_send_vblank(sent, commit.event)
        BY <2>2 DEF evdi_painter_set_vblank, FlushUnchanged
      <3>3. Once(sent, commit.event, None, grab.event)
        BY <1>0, OnceSent
      <3>4. sent \in Seq(Nat) /\ Len(sent) = Len(answered)
        BY <1>0, SentTypes
      <3> HIDE DEF sent
      <3>5. CASE vblank' = commit.event /\ answered' = sent
        <4>1. Once(sent, None, commit.event, grab.event)
          BY <3>3, <3>4, OnceSent
        <4> QED BY <1>0, <1>p, <3>1, <3>2, <3>4, <3>5, <4>1
      <3>6. CASE vblank' = None /\ answered' = evdi_send_vblank(sent, commit.event)
        <4>1. Once(answered', None, None, grab.event) /\ answered' \in Seq(Nat)
              /\ Len(answered') = Len(answered)
          BY <3>3, <3>4, <3>6, OnceSent, SentTypes
        <4> QED BY <1>0, <1>p, <3>1, <3>2, <3>6, <4>1
      <3> QED BY <3>2, <3>5, <3>6
    <2>3. CASE evdi_painter_send_update_ready_if_needed
      <3>1. commit'.event = commit.event /\ commit.event = None /\ commit'.pc = "end"
            /\ UNCHANGED <<grab, vblank, answered, flips>>
        <4>1. commit.pc = "ready" /\ Goto("end") /\ UNCHANGED <<grab, vblank, answered, flips>>
          BY <2>3 DEF evdi_painter_send_update_ready_if_needed, FlushUnchanged
        <4> QED BY <1>0, <1>c, <4>1, CommitGoes DEF CommitPlaces
      <3> QED BY <1>0, <1>p, <3>1
    <2>4. CASE EndCommit
      <3>1. commit'.event = None /\ commit.event = None
            /\ UNCHANGED <<grab, vblank, answered, flips>>
        BY <1>0, <2>4, NoCommitTypes DEF EndCommit, FlushUnchanged
      <3> QED BY <1>0, <1>p, <3>1
    <2> QED BY <1>3, <2>1, <2>2, <2>3, <2>4 DEF CommitStep, CursorSection
  <1>4. ASSUME NEW size, NEW limit, evdi_painter_grabpix_ioctl(size, limit) PROVE FlipInv'
    <2>1. CASE scanout_fb = None
      <3>1. UNCHANGED <<commit, grab, vblank, answered, flips>>
        BY <1>4, <2>1 DEF evdi_painter_grabpix_ioctl
      <3> QED BY <1>0, <1>p, <3>1
    <2>2. CASE scanout_fb # None
      <3>1. /\ UNCHANGED <<commit, answered, flips>> /\ vblank' = None /\ grab.event = None
            /\ grab'.event = vblank /\ grab'.pc = "map"
        BY <1>0, <1>4, <2>2 DEF evdi_painter_grabpix_ioctl
      <3>2. Once(answered, commit.event, None, vblank)
        BY <1>0, <3>1, OnceSent
      <3> QED BY <1>0, <1>p, <3>1, <3>2
    <2> QED BY <2>1, <2>2
  <1>5. CASE evdi_painter_request_update_ioctl
    <2>1. UNCHANGED <<commit, vblank, answered, flips>> /\ grab.pc = "idle"
          /\ grab'.event = grab.event
      BY <1>c, <1>5 DEF evdi_painter_request_update_ioctl, ghostVars, Grabs
    <2> QED BY <1>0, <1>p, <2>1
  <1>6. CASE GrabMaps \/ GrabCopies \/ GrabPaintsCursor
    <2>1. GrabKept /\ UNCHANGED <<commit, vblank, answered, flips>>
      BY <1>6, GrabTypes DEF GrabMaps, GrabCopies, GrabPaintsCursor, GrabUnchanged, painterVars
    <2> QED BY <1>0, <1>p, <2>1 DEF GrabKept
  <1>7. CASE GrabEnds
    <2>1. /\ UNCHANGED <<commit, vblank, flips>> /\ grab'.event = None
          /\ answered' = evdi_send_vblank(answered, grab.event)
      BY <1>7, NoGrabTypes DEF GrabEnds, GrabUnchanged, painterVars
    <2>2. Once(answered', commit.event, vblank, None) /\ answered' \in Seq(Nat)
          /\ Len(answered') = Len(answered)
      BY <1>0, <2>1, OnceSent, SentTypes
    <2> QED BY <1>0, <1>p, <2>1, <2>2
  <1>8. ASSUME NEW f, evdi_painter_disconnect(f) PROVE FlipInv'
    <2>1. /\ UNCHANGED <<commit, grab, flips>> /\ vblank' = None
          /\ answered' = evdi_send_vblank(answered, vblank)
      BY <1>8 DEF evdi_painter_disconnect
    <2>2. Once(answered', commit.event, None, grab.event) /\ answered' \in Seq(Nat)
          /\ Len(answered') = Len(answered)
      BY <1>0, <2>1, OnceSent, SentTypes
    <2> QED BY <1>0, <1>p, <2>1, <2>2
  <1>9. CASE Quiet
    <2>1. UNCHANGED <<commit, grab, vblank, answered, flips>>
      BY <1>9, QuietSteps
    <2> QED BY <1>0, <1>p, <2>1
  <1> QED BY <1>1, <1>2, <1>3, <1>4, <1>5, <1>6, <1>7, <1>8, <1>9, NextCases

LEMMA HoldersCounted ==
    ASSUME NEW c, NEW v, NEW g, NEW e
    PROVE  Cardinality({h \in {<<"commit", c>>, <<"painter", v>>, <<"grab", g>>} : h[2] = e})
             = Holds(c, e) + Holds(v, e) + Holds(g, e)
  <1> DEFINE Add(S, x, p) == IF p THEN S \cup {x} ELSE S
             S1 == Add({}, <<"commit", c>>, c = e)
             S2 == Add(S1, <<"painter", v>>, v = e)
             S3 == Add(S2, <<"grab", g>>, g = e)
  <1>1. ASSUME NEW S, NEW x, NEW p \in BOOLEAN, IsFiniteSet(S), x \notin S
        PROVE  /\ IsFiniteSet(Add(S, x, p)) /\ Cardinality(S) \in Nat
               /\ Cardinality(Add(S, x, p)) = Cardinality(S) + (IF p THEN 1 ELSE 0)
    <2>1. Cardinality(S) \in Nat
      BY <1>1, FS_CardinalityType
    <2>2. CASE p
      BY <1>1, <2>1, <2>2, FS_AddElement
    <2>3. CASE ~p
      BY <1>1, <2>1, <2>3
    <2> QED BY <2>2, <2>3
  <1>2. IsFiniteSet({}) /\ Cardinality({}) = 0
    BY FS_EmptySet
  <1>3. <<"commit", c>>[1] = "commit" /\ <<"painter", v>>[1] = "painter" /\ <<"grab", g>>[1] = "grab"
    OBVIOUS
  <1>4. <<"painter", v>> \notin S1 /\ <<"grab", g>> \notin S2
    BY <1>3
  <1>5. {h \in {<<"commit", c>>, <<"painter", v>>, <<"grab", g>>} : h[2] = e} = S3
    OBVIOUS
  <1> HIDE DEF Add
  <1>6. IsFiniteSet(S1) /\ Cardinality(S1) = Holds(c, e)
    <2>1. <<"commit", c>> \notin {} /\ (c = e) \in BOOLEAN
      OBVIOUS
    <2>2. IsFiniteSet(S1) /\ Cardinality(S1) = 0 + (IF c = e THEN 1 ELSE 0)
      BY <1>1, <1>2, <2>1, Zenon
    <2> QED BY <2>2 DEF Holds
  <1> HIDE DEF S1
  <1>7. IsFiniteSet(S2) /\ Cardinality(S2) = Cardinality(S1) + Holds(v, e)
    BY <1>1, <1>4, <1>6 DEF Holds
  <1> HIDE DEF S2
  <1>8. Cardinality(S3) = Cardinality(S2) + Holds(g, e)
    BY <1>1, <1>4, <1>7 DEF Holds
  <1> HIDE DEF S3
  <1>9. Holds(c, e) \in Nat /\ Holds(v, e) \in Nat /\ Holds(g, e) \in Nat
    BY DEF Holds
  <1> QED BY <1>5, <1>6, <1>7, <1>8, <1>9

(* The event of a flip is in one place: no order of commits, failed grabs,
   disconnects and reconnects makes evdi_painter_set_vblank and the grab lose
   it or send it twice.                                                     *)
THEOREM FlipIsHeldOnce == Spec => []FlipHeldOnce
  <1>1. Init => FlipInv
    <2> SUFFICES ASSUME Init PROVE FlipInv
      OBVIOUS
    <2>1. /\ answered = <<>> /\ flips = 0 /\ commit.event = None /\ vblank = None
          /\ grab.event = None
      BY NoCommitTypes, NoGrabTypes DEF Init
    <2>2. Len(answered) = 0
      BY <2>1
    <2> QED BY <2>1, <2>2 DEF FlipInv, Maybe
  <1>2. TypeOK /\ FlipInv /\ [Next]_vars => FlipInv'
    BY FlipStep
  <1>3. TypeOK /\ FlipInv => FlipHeldOnce
    <2> SUFFICES ASSUME TypeOK, FlipInv, NEW e \in 1 .. flips
                 PROVE  answered[e] + Cardinality({h \in {<<"commit", commit.event>>,
                            <<"painter", vblank>>, <<"grab", grab.event>>} : h[2] = e}) = 1
      BY DEF FlipHeldOnce
    <2>1. answered[e] \in Nat
      BY DEF TypeOK, GhostTypes, FlipInv
    <2>2. answered[e] + Holds(commit.event, e) + Holds(vblank, e) + Holds(grab.event, e) = 1
      BY DEF FlipInv
    <2>3. \A x : Holds(x, e) \in Nat
      BY DEF Holds
    <2> DEFINE n == Cardinality({h \in {<<"commit", commit.event>>,
                            <<"painter", vblank>>, <<"grab", grab.event>>} : h[2] = e})
    <2>4. n = Holds(commit.event, e) + Holds(vblank, e) + Holds(grab.event, e)
      BY HoldersCounted
    <2> HIDE DEF n
    <2>5. answered[e] + n = 1
      BY <2>1, <2>2, <2>3, <2>4
    <2> QED BY <2>5 DEF n
  <1> QED BY <1>1, <1>2, <1>3, PainterTypeCorrect, PTL DEF Spec

-----------------------------------------------------------------------------
(* The moves of the cursor.                                                 *)
LEMMA AddMove ==
    ASSUME NEW list \in Seq(Events), NEW e \in Events, NEW new, Added(list, e, new),
           NEW v, NEW position, NEW box
    PROVE  /\ IsMove(e) => Newest(e.value, position, box, new)
           /\ ~IsMove(e) /\ Newest(v, position, box, list) => Newest(v, position, box, new)
  <1>0. /\ Len(list) \in Nat /\ Len(new) \in Nat /\ Len(new) \in 1 .. Len(new)
        /\ new[Len(new)] = e /\ \A i \in 1 .. Len(new) - 1 : new[i] = list[i]
    BY DEF Added
  <1>1. IsMove(e) => MovesEndAt(e.value, new)
    BY <1>0 DEF MovesEndAt
  <1>2. ASSUME ~IsMove(e), MovesEndAt(v, list) PROVE MovesEndAt(v, new)
    <2>1. PICK i \in 1 .. Len(list) : /\ IsMove(list[i]) /\ v = list[i].value
                                      /\ \A j \in 1 .. Len(list) : IsMove(list[j]) => j <= i
      BY <1>2 DEF MovesEndAt
    <2>2. i \in 1 .. Len(new) - 1
      <3>1. CASE Len(new) = Len(list) + 1
        BY <3>1
      <3>2. CASE Len(new) = Len(list) /\ list[Len(list)].type = e.type
        <4>1. i # Len(list)
          BY <1>2, <2>1, <3>2 DEF IsMove
        <4> QED BY <1>0, <3>2, <4>1
      <3> QED BY <3>1, <3>2 DEF Added
    <2>3. new[i] = list[i] /\ i \in 1 .. Len(new)
      BY <1>0, <2>2
    <2>4. ASSUME NEW j \in 1 .. Len(new), IsMove(new[j]) PROVE j <= i
      <3>1. j \in 1 .. Len(new) - 1
        BY <1>0, <1>2, <2>4
      <3>2. new[j] = list[j] /\ j \in 1 .. Len(list)
        BY <1>0, <3>1 DEF Added
      <3> QED BY <2>1, <2>4, <3>2
    <2> QED BY <2>1, <2>3, <2>4 DEF MovesEndAt
  <1>3. ASSUME ~IsMove(e), NoMove(list) PROVE NoMove(new)
    <2>1. SUFFICES ASSUME NEW j \in 1 .. Len(new) PROVE ~IsMove(new[j])
      BY DEF NoMove
    <2>2. CASE j = Len(new)
      BY <1>0, <1>3, <2>2
    <2>3. CASE j # Len(new)
      <3>1. new[j] = list[j] /\ j \in 1 .. Len(list)
        BY <1>0, <2>3 DEF Added
      <3> QED BY <1>3, <3>1 DEF NoMove
    <2> QED BY <2>2, <2>3
  <1> QED BY <1>1, <1>2, <1>3 DEF Newest

LEMMA FlushMove ==
    ASSUME NEW list \in Seq(Events), NEW box \in Seq(Events), NEW fit \in 0 .. Len(list),
           NEW v, NEW position, Newest(v, position, box, list)
    PROVE  Newest(v, position, box \o SubSeq(list, 1, fit), SubSeq(list, fit + 1, Len(list)))
  <1> DEFINE head == SubSeq(list, 1, fit)
             rest == SubSeq(list, fit + 1, Len(list))
             more == box \o head
             n == Len(list)
             b == Len(box)
  <1>1. /\ n \in Nat /\ b \in Nat /\ fit \in Nat /\ fit <= n
        /\ head \in Seq(Events) /\ rest \in Seq(Events) /\ Len(head) = fit /\ Len(rest) = n - fit
        /\ \A i \in 1 .. fit : head[i] = list[i]
        /\ \A i \in 1 .. n - fit : rest[i] = list[fit + i]
    OBVIOUS
  <1> HIDE DEF head, rest
  <1>3. \A i \in 1 .. fit : more[b + i] = list[i]
    <2>1. \A x, y \in Seq(Events) : \A i \in 1 .. Len(y) : (x \o y)[Len(x) + i] = y[i]
      OBVIOUS
    <2> QED BY <1>1, <2>1
  <1>4. Len(more) = b + fit /\ \A i \in 1 .. b : more[i] = box[i]
    <2>1. \A x, y \in Seq(Events) : Len(x \o y) = Len(x) + Len(y)
                                   /\ \A i \in 1 .. Len(x) : (x \o y)[i] = x[i]
      OBVIOUS
    <2> QED BY <1>1, <2>1
  <1> HIDE DEF more, n, b
  <1>5. CASE MovesEndAt(v, list)
    <2>1. PICK i \in 1 .. n : /\ IsMove(list[i]) /\ v = list[i].value
                              /\ \A j \in 1 .. n : IsMove(list[j]) => j <= i
      BY <1>5 DEF MovesEndAt, n
    <2>2. CASE i > fit
      <3> DEFINE k == i - fit
      <3>1. k \in 1 .. n - fit /\ fit + k = i
        BY <1>1, <2>2
      <3>2. rest[k] = list[i]
        BY <1>1, <3>1
      <3>3. ASSUME NEW j \in 1 .. n - fit, IsMove(rest[j]) PROVE j <= k
        <4>1. fit + j \in 1 .. n /\ rest[j] = list[fit + j]
          BY <1>1
        <4>2. fit + j <= i
          BY <2>1, <3>3, <4>1
        <4> QED BY <1>1, <4>2
      <3> HIDE DEF k
      <3>4. MovesEndAt(v, rest)
        BY <1>1, <2>1, <3>1, <3>2, <3>3 DEF MovesEndAt
      <3> QED BY <3>4 DEF Newest, rest, more, head
    <2>3. CASE ~(i > fit)
      <3>1. NoMove(rest)
        <4>1. SUFFICES ASSUME NEW j \in 1 .. n - fit PROVE ~IsMove(rest[j])
          BY <1>1 DEF NoMove
        <4>2. fit + j \in 1 .. n /\ rest[j] = list[fit + j] /\ ~(fit + j <= i)
          BY <1>1, <2>3
        <4> QED BY <2>1, <4>2
      <3>2. b + i \in 1 .. b + fit /\ more[b + i] = list[i]
        BY <1>1, <1>3, <2>3
      <3>3. ASSUME NEW j \in 1 .. b + fit, IsMove(more[j]) PROVE j <= b + i
        <4>1. CASE j <= b
          BY <1>1, <4>1
        <4>2. CASE ~(j <= b)
          <5> DEFINE k == j - b
          <5>1. k \in 1 .. fit /\ j = b + k /\ k \in 1 .. n
            BY <1>1, <4>2
          <5>2. more[j] = list[k]
            BY <1>3, <5>1
          <5>3. k <= i
            BY <2>1, <3>3, <5>1, <5>2
          <5> QED BY <1>1, <5>1, <5>3
        <4> QED BY <4>1, <4>2
      <3>4. MovesEndAt(v, more)
        BY <1>4, <2>1, <3>2, <3>3 DEF MovesEndAt
      <3> QED BY <3>1, <3>4 DEF Newest, rest, more, head
    <2> QED BY <2>2, <2>3
  <1>6. ASSUME NoMove(list)
        PROVE  /\ NoMove(rest) /\ \A j \in 1 .. b + fit : IsMove(more[j]) => j \in 1 .. b
    <2>1. \A i \in 1 .. n : ~IsMove(list[i])
      BY <1>6 DEF NoMove, n
    <2>2. NoMove(rest)
      <3>1. SUFFICES ASSUME NEW j \in 1 .. n - fit PROVE ~IsMove(rest[j])
        BY <1>1 DEF NoMove
      <3>2. fit + j \in 1 .. n /\ rest[j] = list[fit + j]
        BY <1>1
      <3> QED BY <2>1, <3>2
    <2>3. ASSUME NEW j \in 1 .. b + fit, j \notin 1 .. b PROVE ~IsMove(more[j])
      <3> DEFINE k == j - b
      <3>1. k \in 1 .. fit /\ j = b + k /\ k \in 1 .. n
        BY <1>1, <2>3
      <3> QED BY <1>3, <2>1, <3>1
    <2> QED BY <2>2, <2>3
  <1>7. CASE NoMove(list) /\ MovesEndAt(v, box)
    <2>1. PICK i \in 1 .. b : /\ IsMove(box[i]) /\ v = box[i].value
                              /\ \A j \in 1 .. b : IsMove(box[j]) => j <= i
      BY <1>7 DEF MovesEndAt, b
    <2>2. i \in 1 .. b + fit /\ more[i] = box[i]
      BY <1>1, <1>4
    <2>3. ASSUME NEW j \in 1 .. b + fit, IsMove(more[j]) PROVE j <= i
      BY <1>4, <1>6, <1>7, <2>1, <2>3
    <2>4. MovesEndAt(v, more)
      BY <1>4, <2>1, <2>2, <2>3 DEF MovesEndAt
    <2> QED BY <1>6, <1>7, <2>4 DEF Newest, rest, more, head
  <1>8. CASE NoMove(list) /\ NoMove(box) /\ v = position
    <2>1. NoMove(more)
      <3>1. SUFFICES ASSUME NEW j \in 1 .. b + fit, IsMove(more[j]) PROVE FALSE
        BY <1>4 DEF NoMove
      <3>2. j \in 1 .. b /\ more[j] = box[j]
        BY <1>4, <1>6, <1>8, <3>1
      <3> QED BY <1>8, <3>1, <3>2 DEF NoMove, b
    <2> QED BY <1>6, <1>8, <2>1 DEF Newest, rest, more, head
  <1> QED BY <1>5, <1>7, <1>8 DEF Newest

(* The operator of the property computes the last move.                     *)
LEMMA LastMoveIs ==
    ASSUME NEW list \in Seq(Events), NEW position, NEW v
    PROVE  /\ MovesEndAt(v, list) => LastMove(position, list) = v
           /\ NoMove(list) => LastMove(position, list) = position
           /\ NoMove(list) \/ MovesEndAt(LastMove(position, list), list)
  <1> DEFINE moves == {i \in DOMAIN list : list[i].type = "cursor_move"}
             Top(i) == i \in moves /\ \A j \in moves : j <= i
             last == CHOOSE i \in moves : \A j \in moves : j <= i
  <1>1. LastMove(position, list) = IF moves = {} THEN position ELSE list[last].value
    BY DEF LastMove
  <1>2. moves = {i \in 1 .. Len(list) : IsMove(list[i])} /\ Len(list) \in Nat
    BY DEF IsMove
  <1> HIDE DEF moves
  <1>3. NoMove(list) <=> moves = {}
    BY <1>2 DEF NoMove
  <1>4. ASSUME NEW i \in moves, \A j \in moves : j <= i PROVE last = i
    <2>1. last \in moves /\ \A j \in moves : j <= last
      BY <1>4, Zenon
    <2> HIDE DEF last
    <2>2. last <= i /\ i <= last /\ last \in Nat /\ i \in Nat
      BY <1>2, <1>4, <2>1
    <2> QED BY <2>2
  <1> HIDE DEF last
  <1>5. ASSUME MovesEndAt(v, list) PROVE LastMove(position, list) = v
    <2>1. PICK i \in 1 .. Len(list) : /\ IsMove(list[i]) /\ v = list[i].value
                                      /\ \A j \in 1 .. Len(list) : IsMove(list[j]) => j <= i
      BY <1>5 DEF MovesEndAt
    <2>2. i \in moves /\ \A j \in moves : j <= i
      BY <1>2, <2>1
    <2> QED BY <1>1, <1>4, <2>1, <2>2
  <1>6. ASSUME ~NoMove(list) PROVE MovesEndAt(LastMove(position, list), list)
    <2> DEFINE above(i) == Len(list) - i
               T == {n \in 0 .. Len(list) : \E i \in moves : n = above(i)}
    <2>1. PICK k \in moves : TRUE
      BY <1>3, <1>6
    <2>2. T \in SUBSET Nat /\ T # {}
      <3>1. above(k) \in 0 .. Len(list)
        BY <1>2, <2>1
      <3> QED BY <2>1, <3>1
    <2>3. PICK n \in T : \A m \in T : n <= m
      BY <2>2, LeastNat
    <2>4. PICK i \in moves : n = above(i)
      BY <2>3
    <2>5. ASSUME NEW j \in moves PROVE j <= i
      <3>1. above(j) \in T /\ j \in Nat /\ i \in Nat
        BY <1>2
      <3>2. above(i) <= above(j)
        BY <2>3, <2>4, <3>1
      <3> QED BY <1>2, <3>1, <3>2
    <2>6. last = i
      BY <1>4, <2>5
    <2>7. LastMove(position, list) = list[i].value
      BY <1>1, <2>4, <2>6
    <2> QED BY <1>2, <2>4, <2>5, <2>7 DEF MovesEndAt
  <1> QED BY <1>1, <1>3, <1>5, <1>6

(* A flush, and an event that is posted, keep the newest move.              *)
LEMMA FlushStays ==
    ASSUME PainterTypes, EventTypes, NEW list \in Seq(Events), drm_filp # None,
           evdi_painter_flush_pending_events(list), UNCHANGED <<drm_filp, seen>>,
           NEW v, Newest(v, seen, inbox[drm_filp], list), ~oops'
    PROVE  Newest(v, seen', (inbox[drm_filp])', pending_events')
  <1>0. drm_filp \in Files /\ inbox \in [Files -> Seq(Events)] /\ inbox[drm_filp] \in Seq(Events)
    BY DEF PainterTypes, EventTypes, Maybe
  <1>1. PICK fit \in 0 .. Len(list) : Flushed(list, fit)
    BY FlushEvents
  <1> DEFINE head == SubSeq(list, 1, fit)
             box == inbox[drm_filp]
  <1>2. pending_events' = SubSeq(list, fit + 1, Len(list))
    BY <1>1 DEF Flushed
  <1>3. Newest(v, seen, box \o head, SubSeq(list, fit + 1, Len(list)))
    BY <1>0, FlushMove
  <1>4. inbox'[drm_filp] = box \o head
    <2>1. CASE fit = 0 /\ inbox' = inbox
      <3>1. head = <<>>
        BY <2>1
      <3> HIDE DEF head
      <3>2. box \o <<>> = box
        BY <1>0
      <3> QED BY <2>1, <3>1, <3>2
    <2>2. CASE inbox' = [inbox EXCEPT ![drm_filp] = box \o head]
      <3> HIDE DEF head
      <3> QED BY <1>0, <2>2
    <2> QED BY <1>1, <2>1, <2>2 DEF Flushed
  <1> HIDE DEF head, box
  <1> QED BY <1>2, <1>3, <1>4

LEMMA PostStays ==
    ASSUME PainterTypes, EventTypes, NEW e \in Events, drm_filp # None, PostEvent(e),
           UNCHANGED <<drm_filp, seen>>, NEW v, ~oops',
           IF IsMove(e) THEN v = e.value ELSE Newest(v, seen, inbox[drm_filp], pending_events)
    PROVE  Newest(v, seen', (inbox[drm_filp])', pending_events')
  <1> DEFINE list == evdi_painter_add_event_to_pending_list(pending_events, e)
  <1>1. list \in Seq(Events) /\ Added(pending_events, e, list)
    BY AddEvent DEF EventTypes, Added
  <1>2. Newest(v, seen, inbox[drm_filp], list)
    <2> HIDE DEF list
    <2>1. pending_events \in Seq(Events)
      BY DEF EventTypes
    <2> QED BY <1>1, <2>1, AddMove
  <1>3. \/ pending_events' = list /\ inbox' = inbox
        \/ evdi_painter_flush_pending_events(list)
    BY DEF PostEvent
  <1> HIDE DEF list
  <1> QED BY <1>1, <1>2, <1>3, FlushStays

LEMMA MoveStep ==
    ASSUME TypeOK, MoveInv, [Next]_vars
    PROVE  MoveInv'
  <1>0. UNCHANGED <<told, seen, drm_filp, inbox, pending_events>> /\ (oops => oops') => MoveInv'
    BY DEF MoveInv
  <1>1. ASSUME NEW f, NEW clips, NEW m, BeginCommit(f, clips, m) PROVE MoveInv'
    BY <1>0, <1>1 DEF BeginCommit, painterVars, eventVars
  <1>2. ASSUME NEW o, NEW x, NEW y, evdi_cursor_atomic_update(o, x, y) PROVE MoveInv'
    BY <1>0, <1>2 DEF evdi_cursor_atomic_update, painterVars, eventVars
  <1>3. ASSUME NEW e \in Events, PostEvent(e), UNCHANGED <<drm_filp, seen>>,
               told' = (IF IsMove(e) THEN e.value ELSE told), ~oops
        PROVE  MoveInv'
    <2> SUFFICES ASSUME told' # None, drm_filp # None, ~oops'
                 PROVE  Newest(told', seen', (inbox[drm_filp])', pending_events')
      BY <1>3 DEF MoveInv
    <2>1. IF IsMove(e) THEN told' = e.value
                       ELSE Newest(told', seen, inbox[drm_filp], pending_events)
      BY <1>3 DEF MoveInv
    <2> QED BY <1>3, <2>1, PostStays DEF TypeOK
  <1>4. CASE CommitStep
    <2>1. CASE MarkDamage \/ CheckDirts \/ MarkFull \/ MarkOldCursor \/ MarkNewCursor
      <3>1. MarkUnchanged
        BY <2>1 DEF MarkDamage, CheckDirts, MarkFull, MarkOldCursor, MarkNewCursor
      <3> QED BY <1>0, <3>1 DEF MarkUnchanged, eventVars
    <2>2. CASE evdi_plane_atomic_update \/ SetScanout \/ SendCursorMove
      BY <1>0, <2>2 DEF evdi_plane_atomic_update, SetScanout, SendCursorMove, painterVars,
         eventVars, ghostVars
    <2>3. CASE \/ evdi_crtc_atomic_flush \/ evdi_painter_mode_changed_notify \/ NotifyDpms
               \/ evdi_painter_set_vblank \/ EndCommit
      <3>1. FlushUnchanged /\ UNCHANGED eventVars
        BY <2>3 DEF evdi_crtc_atomic_flush, evdi_painter_mode_changed_notify, NotifyDpms,
           evdi_painter_set_vblank, EndCommit
      <3> QED BY <1>0, <3>1 DEF FlushUnchanged, eventVars
    <2>4. CASE SendCursorSet
      BY <1>0, <2>4 DEF SendCursorSet, painterVars, ghostVars
    <2>5. CASE CommitSends
      <3>1. commit.send \in Events
        BY <2>5 DEF CommitSends, TypeOK, CommitTypes
      <3> QED BY <1>3, <2>5, <3>1 DEF CommitSends, IsMove
    <2>6. CASE evdi_painter_send_update_ready_if_needed
      <3> DEFINE e == Event("update_ready", None)
      <3>1. e \in Events /\ ~IsMove(e)
        BY DEF Events, Event, Maybe, IsMove
      <3>2. UNCHANGED <<drm_filp, seen, told>> /\ ~oops
        BY <2>6 DEF evdi_painter_send_update_ready_if_needed, FlushUnchanged
      <3>3. PostEvent(e) \/ UNCHANGED eventVars
        BY <2>6 DEF evdi_painter_send_update_ready_if_needed
      <3> HIDE DEF e
      <3> QED BY <1>0, <1>3, <3>1, <3>2, <3>3 DEF eventVars
    <2>7. CASE CursorSection
      BY <1>0, <2>7, SectionTypes DEF CursorUnchanged, painterVars, eventVars
    <2> QED BY <1>4, <2>1, <2>2, <2>3, <2>4, <2>5, <2>6, <2>7 DEF CommitStep, CursorSection
  <1>5. CASE evdi_painter_request_update_ioctl
    BY <1>0, <1>5 DEF evdi_painter_request_update_ioctl, eventVars, ghostVars
  <1>6. ASSUME NEW size, NEW limit, evdi_painter_grabpix_ioctl(size, limit) PROVE MoveInv'
    BY <1>0, <1>6 DEF evdi_painter_grabpix_ioctl, eventVars
  <1>7. CASE GrabMaps \/ GrabCopies \/ GrabPaintsCursor \/ GrabEnds
    <2>1. GrabUnchanged
      BY <1>7 DEF GrabMaps, GrabCopies, GrabPaintsCursor, GrabEnds
    <2> QED BY <1>0, <2>1 DEF GrabUnchanged, painterVars, eventVars
  <1>8. ASSUME NEW f, evdi_painter_disconnect(f) \/ evdi_painter_connect(f) PROVE MoveInv'
    BY <1>8 DEF evdi_painter_disconnect, evdi_painter_connect, MoveInv
  <1>9. CASE Quiet
    <2>1. CASE \/ evdi_painter_enable_cursor_events_ioctl \/ evdi_painter_vt_notifier_call
               \/ evdi_painter_force_full_modeset
      BY <1>0, <2>1 DEF evdi_painter_enable_cursor_events_ioctl, evdi_painter_vt_notifier_call,
         evdi_painter_force_full_modeset, painterVars, ghostVars, eventVars
    <2>2. CASE VtSends \/ DdcSends
      <3>1. PICK e \in Events : PostEvent(e) /\ ~IsMove(e)
        <4>1. Event("dpms", "off") \in Events /\ ~IsMove(Event("dpms", "off"))
          BY DEF Events, Event, IsMove
        <4>2. Event("ddcci", ddcci.asked) \in Events /\ ~IsMove(Event("ddcci", ddcci.asked))
          BY DEF Events, Event, IsMove, TypeOK, Ddcs
        <4> QED BY <2>2, <4>1, <4>2 DEF VtSends, DdcSends
      <3>2. UNCHANGED <<drm_filp, seen, told>> /\ ~oops
        BY <2>2 DEF VtSends, DdcSends, DdcUnchanged, painterVars, ghostVars
      <3> QED BY <1>3, <3>1, <3>2
    <2>3. CASE evdi_send_events_work
      <3> SUFFICES ASSUME told' # None, drm_filp' # None, ~oops'
                   PROVE  Newest(told', seen', (inbox[drm_filp])', pending_events')
        BY DEF MoveInv
      <3>1. UNCHANGED <<drm_filp, seen, told>> /\ ~oops
        BY <2>3 DEF evdi_send_events_work, painterVars, ghostVars
      <3>2. Newest(told, seen, inbox[drm_filp], pending_events) /\ pending_events \in Seq(Events)
        BY <3>1 DEF MoveInv, TypeOK, EventTypes
      <3>3. evdi_painter_flush_pending_events(pending_events)
        BY <2>3 DEF evdi_send_events_work
      <3> QED BY <3>1, <3>2, <3>3, FlushStays DEF TypeOK
    <2>4. ASSUME NEW o, \/ MapDumb(o) \/ PrimeExport(o) \/ PrimeRelease(o) \/ CloseHandle(o)
                        \/ RemoveFb(o)
          PROVE  MoveInv'
      <3>1. BufferUnchanged /\ inbox' = inbox
        BY <2>4 DEF MapDumb, PrimeExport, PrimeRelease, CloseHandle, RemoveFb
      <3> QED BY <1>0, <3>1 DEF BufferUnchanged, painterVars, ghostVars
    <2>5. CASE \/ evdi_painter_i2c_data_notify \/ evdi_painter_ddcci_data
               \/ \E m \in 1 .. 2 : evdi_painter_ddcci_response_ioctl(m)
      <3>1. DdcUnchanged /\ UNCHANGED eventVars
        BY <2>5 DEF evdi_painter_i2c_data_notify, evdi_painter_ddcci_data,
           evdi_painter_ddcci_response_ioctl
      <3> QED BY <1>0, <3>1 DEF DdcUnchanged, eventVars, painterVars, ghostVars
    <2>6. ASSUME NEW f \in Files, ClientReads(f) PROVE MoveInv'
      <3> SUFFICES ASSUME told' # None, drm_filp' # None, ~oops'
                   PROVE  Newest(told', seen', (inbox[drm_filp])', pending_events')
        BY DEF MoveInv
      <3>1. UNCHANGED <<drm_filp, pending_events, oops, told>>
        BY <2>6 DEF ClientReads, painterVars
      <3>2. /\ inbox' = [inbox EXCEPT ![f] = <<>>]
            /\ seen' = IF f = drm_filp THEN LastMove(seen, inbox[f]) ELSE seen
        BY <2>6 DEF ClientReads
      <3>3. /\ drm_filp \in Files /\ inbox \in [Files -> Seq(Events)]
            /\ inbox[drm_filp] \in Seq(Events)
        BY <3>1 DEF TypeOK, PainterTypes, EventTypes, Maybe
      <3>4. Newest(told, seen, inbox[drm_filp], pending_events)
        BY <3>1 DEF MoveInv
      <3>5. CASE f # drm_filp
        BY <3>1, <3>2, <3>3, <3>4, <3>5
      <3>6. CASE f = drm_filp
        <4>1. inbox'[drm_filp] = <<>> /\ seen' = LastMove(seen, inbox[drm_filp])
          BY <3>2, <3>3, <3>6
        <4>2. NoMove(<<>>)
          BY DEF NoMove
        <4>3. /\ MovesEndAt(told, inbox[drm_filp]) => seen' = told
              /\ NoMove(inbox[drm_filp]) => seen' = seen
          BY <3>3, <4>1, LastMoveIs
        <4>4. Newest(told, seen', <<>>, pending_events)
          BY <3>4, <4>2, <4>3 DEF Newest
        <4> QED BY <3>1, <4>1, <4>4
      <3> QED BY <3>5, <3>6
    <2>7. ASSUME NEW f \in Files, CloseFile(f) PROVE MoveInv'
      <3> SUFFICES ASSUME told' # None, drm_filp' # None, ~oops'
                   PROVE  Newest(told', seen', (inbox[drm_filp])', pending_events')
        BY DEF MoveInv
      <3>1. /\ UNCHANGED <<drm_filp, pending_events, oops, told, seen>> /\ drm_filp # f
            /\ inbox' = [inbox EXCEPT ![f] = <<>>]
        BY <2>7 DEF CloseFile, BufferUnchanged, painterVars, ghostVars
      <3>2. drm_filp \in Files /\ inbox \in [Files -> Seq(Events)]
        BY <3>1 DEF TypeOK, PainterTypes, EventTypes, Maybe
      <3>3. inbox'[drm_filp] = inbox[drm_filp]
        BY <3>1, <3>2
      <3> QED BY <3>1, <3>3 DEF MoveInv
    <2>8. CASE UNCHANGED vars
      BY <1>0, <2>8 DEF vars, painterVars, eventVars, ghostVars
    <2> QED BY <1>8, <1>9, <2>1, <2>2, <2>3, <2>4, <2>5, <2>6, <2>7, <2>8 DEF Quiet
  <1> QED BY <1>1, <1>2, <1>4, <1>5, <1>6, <1>7, <1>8, <1>9, NextCases

(* Squashing moves, a full file and the delayed work never lose the newest
   position of the cursor: however the commits, the flushes and the reads of
   the client follow each other, it is the last move the client has read, has
   in its file, or will be sent.                                            *)
THEOREM LatestMoveIsKept == Spec => []LatestMoveSurvives
  <1>1. Init => MoveInv
    BY DEF Init, MoveInv
  <1>2. TypeOK /\ MoveInv /\ [Next]_vars => MoveInv'
    BY MoveStep
  <1>3. TypeOK /\ MoveInv => LatestMoveSurvives
    <2> SUFFICES ASSUME TypeOK, MoveInv, told # None, drm_filp # None, ~oops
                 PROVE  LastMove(LastMove(seen, inbox[drm_filp]), pending_events) = told
      BY DEF LatestMoveSurvives
    <2>1. inbox[drm_filp] \in Seq(Events) /\ pending_events \in Seq(Events)
      BY DEF TypeOK, PainterTypes, EventTypes, Maybe
    <2>2. Newest(told, seen, inbox[drm_filp], pending_events)
      BY DEF MoveInv
    <2> DEFINE read == LastMove(seen, inbox[drm_filp])
    <2>3. /\ MovesEndAt(told, inbox[drm_filp]) => read = told
          /\ NoMove(inbox[drm_filp]) => read = seen
      BY <2>1, LastMoveIs
    <2> HIDE DEF read
    <2>4. /\ MovesEndAt(told, pending_events) => LastMove(read, pending_events) = told
          /\ NoMove(pending_events) => LastMove(read, pending_events) = read
      BY <2>1, LastMoveIs
    <2>5. LastMove(read, pending_events) = told
      BY <2>2, <2>3, <2>4 DEF Newest
    <2> QED BY <2>5 DEF read
  <1> QED BY <1>1, <1>2, <1>3, PainterTypeCorrect, PTL DEF Spec

-----------------------------------------------------------------------------
(* Who holds a buffer.                                                      *)
LEMMA GetAlive ==
    ASSUME NEW o, NEW b, NEW n \in Nat, Alive(o, b, n), b.references > 0
    PROVE  /\ Alive(o, drm_gem_object_get(b), n + 1)
           /\ drm_gem_object_get(b).vmapping = b.vmapping
  <1>1. b \in Gems /\ Sound(o, b) /\ b.references >= n + b.exported
    BY DEF Alive
  <1>2. b.references \in Int /\ b.exported \in Int
    BY <1>1, GemFields
  <1> QED BY <1>1, <1>2, GetObject DEF Alive

LEMMA PutAlive ==
    ASSUME NEW o, NEW b, NEW n \in Nat, Alive(o, b, n + 1)
    PROVE  /\ Alive(o, drm_gem_object_put(o, b), n)
           /\ n > 0 => drm_gem_object_put(o, b).vmapping = b.vmapping
  <1>1. b \in Gems /\ Sound(o, b) /\ b.references >= n + 1 + b.exported
    BY DEF Alive
  <1>2. b.references \in Int /\ b.exported \in Int /\ b.exported >= 0
    BY <1>1, GemFields DEF Sound
  <1>3. b.references > 0 /\ (n > 0 => b.references > 1)
    BY <1>1, <1>2
  <1> QED BY <1>1, <1>2, <1>3, PutObject DEF Alive

(* What becomes of the objects when framebuffers are got and put.           *)
Passes(refs, objects, refs2, objects2) ==
    /\ refs2 \in [Fbs -> Int] /\ objects2 \in [Objects -> Gems]
    /\ \A o \in Objects, n \in Nat :
          Alive(o, objects[o], n + Live(refs, o)) =>
              /\ Alive(o, objects2[o], n + Live(refs2, o))
              /\ n + Live(refs2, o) > 0 /\ objects[o].vmapping => objects2[o].vmapping

LEMMA FbsAreObjects ==
    /\ None \notin Fbs /\ Fbs \subseteq Objects /\ None \notin Objects
    /\ "id" \notin Files /\ "compositor" # "id" /\ "compositor" \notin Files /\ None \notin Files
  BY PainterAssumption

(* The reference of a framebuffer that is put.                              *)
RefsLess(refs, f) == [refs EXCEPT ![f] = @ - 1]
ObjectsLess(refs, objects, f) ==
    IF refs[f] = 1 THEN [objects EXCEPT ![f] = drm_gem_object_put(f, @)] ELSE objects

LEMMA PutFb ==
    ASSUME NEW refs \in [Fbs -> Int], NEW objects \in [Objects -> Gems], NEW f \in Fbs,
           refs[f] > 0
    PROVE  /\ Passes(refs, objects, RefsLess(refs, f), ObjectsLess(refs, objects, f))
           /\ \A g \in Fbs : RefsLess(refs, f)[g] = refs[g] - Holds(f, g)
  <1> DEFINE refs2 == RefsLess(refs, f)
             objects2 == ObjectsLess(refs, objects, f)
  <1>0. /\ refs2 = [refs EXCEPT ![f] = @ - 1]
        /\ objects2 = IF refs[f] = 1 THEN [objects EXCEPT ![f] = drm_gem_object_put(f, @)]
                                     ELSE objects
    BY DEF RefsLess, ObjectsLess
  <1> HIDE DEF refs2, objects2
  <1>1. \A g \in Fbs : refs2[g] = refs[g] - Holds(f, g)
    BY <1>0 DEF Holds
  <1>2. refs2 \in [Fbs -> Int]
    BY <1>0
  <1>3. f \in Objects
    BY FbsAreObjects
  <1>4. objects2 \in [Objects -> Gems]
    <2>1. drm_gem_object_put(f, objects[f]) \in Gems
      <3> DEFINE less == [objects[f] EXCEPT !.references = @ - 1]
      <3>1. less \in Gems
        BY <1>3 DEF Gems
      <3>2. drm_gem_object_put(f, objects[f])
               = IF less.references = 0 THEN evdi_gem_free_object(f, less) ELSE less
        BY DEF drm_gem_object_put
      <3> HIDE DEF less
      <3> QED BY <3>1, <3>2, FreeObject
    <2> QED BY <1>0, <1>3, <2>1
  <1>5. ASSUME NEW o \in Objects, NEW n \in Nat, Alive(o, objects[o], n + Live(refs, o))
        PROVE  /\ Alive(o, objects2[o], n + Live(refs2, o))
               /\ n + Live(refs2, o) > 0 /\ objects[o].vmapping => objects2[o].vmapping
    <2>1. CASE o # f
      <3>1. objects2[o] = objects[o] /\ Live(refs2, o) = Live(refs, o)
        BY <1>0, <1>1, <2>1 DEF Live, Holds
      <3> QED BY <1>5, <3>1
    <2>2. CASE o = f /\ refs[f] # 1
      <3>1. objects2[o] = objects[o] /\ Live(refs2, o) = 1 /\ Live(refs, o) = 1
        BY <1>0, <2>2 DEF Live
      <3> QED BY <1>5, <3>1
    <2>3. CASE o = f /\ refs[f] = 1
      <3>1. /\ objects2[o] = drm_gem_object_put(o, objects[o])
            /\ Live(refs2, o) = 0 /\ Live(refs, o) = 1
        BY <1>0, <2>3 DEF Live
      <3>2. Alive(o, objects[o], n + 1)
        BY <1>5, <3>1
      <3>3. n + 0 = n
        OBVIOUS
      <3> QED BY <3>1, <3>2, <3>3, PutAlive
    <2> QED BY <2>1, <2>2, <2>3
  <1> QED BY <1>1, <1>2, <1>4, <1>5 DEF Passes, refs2, objects2

LEMMA DropFb ==
    ASSUME BufferTypes, NEW f \in Maybe(Fbs), f # None => fbrefs[f] > 0, drm_framebuffer_put(f)
    PROVE  /\ Passes(fbrefs, gem, fbrefs', gem')
           /\ \A g \in Fbs : fbrefs'[g] = fbrefs[g] - Holds(f, g)
  <1>1. CASE f = None
    <2>1. UNCHANGED <<fbrefs, gem>>
      BY <1>1 DEF drm_framebuffer_put, bufferVars
    <2> QED BY <1>1, <2>1, FbsAreObjects DEF Passes, BufferTypes, Holds
  <1>2. CASE f # None
    <2>1. fbrefs' = RefsLess(fbrefs, f) /\ gem' = ObjectsLess(fbrefs, gem, f)
      BY <1>2 DEF drm_framebuffer_put, RefsLess, ObjectsLess
    <2>2. /\ fbrefs \in [Fbs -> Int] /\ gem \in [Objects -> Gems] /\ f \in Fbs
          /\ fbrefs[f] > 0
      BY <1>2 DEF BufferTypes, Maybe
    <2> QED BY <2>1, <2>2, PutFb
  <1> QED BY <1>1, <1>2

LEMMA TakeFb ==
    ASSUME NEW refs \in [Fbs -> Int], NEW objects \in [Objects -> Gems], NEW f \in Maybe(Fbs),
           f # None => refs[f] > 0
    PROVE  /\ Passes(refs, objects, FbGet(refs, f), objects)
           /\ \A g \in Fbs : FbGet(refs, f)[g] = refs[g] + Holds(f, g)
  <1>1. \A g \in Fbs : FbGet(refs, f)[g] = refs[g] + Holds(f, g)
    BY FbsAreObjects DEF FbGet, Holds, Maybe
  <1>2. FbGet(refs, f) \in [Fbs -> Int]
    BY <1>1 DEF FbGet, Maybe
  <1>3. ASSUME NEW o \in Objects PROVE Live(FbGet(refs, f), o) = Live(refs, o)
    <2>1. CASE f = o
      <3>1. o # None
        BY FbsAreObjects
      <3>2. o \in Fbs => refs[o] \in Int /\ refs[o] > 0 /\ FbGet(refs, f)[o] = refs[o] + 1
        BY <1>1, <2>1, <3>1 DEF Holds
      <3>3. o \in Fbs => refs[o] + 1 > 0
        BY <3>2
      <3> QED BY <3>2, <3>3 DEF Live
    <2>2. CASE f # o
      <3>1. o \in Fbs => FbGet(refs, f)[o] = refs[o]
        <4>1. Holds(f, o) = 0
          BY <2>2 DEF Holds
        <4> QED BY <1>1, <4>1
      <3> QED BY <3>1 DEF Live
    <2> QED BY <2>1, <2>2
  <1> QED BY <1>1, <1>2, <1>3 DEF Passes

LEMMA SwapFb ==
    ASSUME BufferTypes, NEW new \in Maybe(Fbs), NEW old \in Maybe(Fbs),
           new # None => fbrefs[new] > 0, old # None => fbrefs[old] > 0, FbReplace(new, old)
    PROVE  /\ Passes(fbrefs, gem, fbrefs', gem')
           /\ \A g \in Fbs : fbrefs'[g] = fbrefs[g] + Holds(new, g) - Holds(old, g)
  <1> DEFINE refs == FbGet(fbrefs, new)
  <1>1. /\ Passes(fbrefs, gem, refs, gem)
        /\ \A g \in Fbs : refs[g] = fbrefs[g] + Holds(new, g)
    BY TakeFb DEF BufferTypes
  <1>2. IF old = None THEN fbrefs' = refs /\ gem' = gem
        ELSE fbrefs' = RefsLess(refs, old) /\ gem' = ObjectsLess(refs, gem, old)
    BY DEF FbReplace, RefsLess, ObjectsLess
  <1> HIDE DEF refs
  <1>3. refs \in [Fbs -> Int] /\ gem \in [Objects -> Gems] /\ fbrefs \in [Fbs -> Int]
    BY <1>1 DEF Passes, BufferTypes
  <1>4. CASE old = None
    BY <1>1, <1>2, <1>3, <1>4, FbsAreObjects DEF Holds
  <1>5. CASE old # None
    <2>1. old \in Fbs /\ refs[old] > 0
      <3>1. old \in Fbs /\ fbrefs[old] > 0 /\ fbrefs[old] \in Int
        BY <1>3, <1>5 DEF Maybe
      <3>2. Holds(new, old) \in 0 .. 1 /\ refs[old] = fbrefs[old] + Holds(new, old)
        BY <1>1, <3>1 DEF Holds
      <3> QED BY <3>1, <3>2
    <2>2. /\ Passes(refs, gem, fbrefs', gem')
          /\ \A g \in Fbs : fbrefs'[g] = refs[g] - Holds(old, g)
      BY <1>2, <1>3, <1>5, <2>1, PutFb
    <2>3. Passes(fbrefs, gem, fbrefs', gem')
      <3>1. ASSUME NEW o \in Objects, NEW n \in Nat, Alive(o, gem[o], n + Live(fbrefs, o))
            PROVE  /\ Alive(o, gem'[o], n + Live(fbrefs', o))
                   /\ n + Live(fbrefs', o) > 0 /\ gem[o].vmapping => gem'[o].vmapping
        <4>1. Alive(o, gem[o], n + Live(refs, o))
          BY <1>1, <3>1 DEF Passes
        <4> QED BY <2>2, <4>1 DEF Passes
      <3> QED BY <2>2, <3>1 DEF Passes
    <2>4. ASSUME NEW g \in Fbs PROVE fbrefs'[g] = fbrefs[g] + Holds(new, g) - Holds(old, g)
      <3>1. refs[g] = fbrefs[g] + Holds(new, g) /\ fbrefs'[g] = refs[g] - Holds(old, g)
        BY <1>1, <2>2
      <3>2. fbrefs[g] \in Int /\ Holds(new, g) \in Int /\ Holds(old, g) \in Int
        BY <1>3 DEF Holds
      <3> QED BY <3>1, <3>2
    <2> QED BY <2>3, <2>4
  <1> QED BY <1>4, <1>5

(* evdi_cursor_set_gem: the cursor holds the new picture, no longer the old. *)
LEMMA ShowCursor ==
    ASSUME NEW objects \in [Objects -> Gems], cursor.object \in Maybe(Objects),
           NEW new \in Maybe(Objects), new # None => objects[new].references > 0,
           NEW o \in Objects, NEW n \in Nat, Alive(o, objects[o], n + Holds(cursor.object, o))
    PROVE  /\ Alive(o, evdi_cursor_set_gem(objects, new)[o], n + Holds(new, o))
           /\ n + Holds(new, o) > 0 /\ objects[o].vmapping
              => evdi_cursor_set_gem(objects, new)[o].vmapping
  <1> DEFINE old == cursor.object
             got == IF new = None THEN objects
                    ELSE [objects EXCEPT ![new] = drm_gem_object_get(@)]
             k == Holds(old, o)
             m == n + Holds(new, o)
  <1>1. evdi_cursor_set_gem(objects, new)
           = IF old = None THEN got ELSE [got EXCEPT ![old] = drm_gem_object_put(old, @)]
    BY DEF evdi_cursor_set_gem
  <1>2. k \in Nat /\ Holds(new, o) \in Nat /\ o # None /\ n + k \in Nat /\ m \in Nat
    BY FbsAreObjects DEF Holds
  <1>3. Alive(o, got[o], m + k) /\ got[o].vmapping = objects[o].vmapping
    <2>1. CASE o = new
      <3>1. got[o] = drm_gem_object_get(objects[o]) /\ objects[o].references > 0
            /\ Holds(new, o) = 1
        BY <1>2, <2>1 DEF Holds
      <3>2. m + k = (n + k) + 1
        BY <1>2, <3>1
      <3> HIDE DEF got, k, m
      <3>3. Alive(o, objects[o], n + k)
        BY DEF k
      <3> QED BY <1>2, <3>1, <3>2, <3>3, GetAlive
    <2>2. CASE o # new
      <3>1. got[o] = objects[o] /\ Holds(new, o) = 0
        BY <2>2 DEF Holds
      <3>2. m + k = n + k
        BY <1>2, <3>1
      <3> QED BY <3>1, <3>2
    <2> QED BY <2>1, <2>2
  <1>4. DOMAIN got = Objects
    OBVIOUS
  <1> HIDE DEF got, m
  <1>5. CASE o = old
    <2>1. k = 1 /\ evdi_cursor_set_gem(objects, new)[o] = drm_gem_object_put(o, got[o])
      BY <1>1, <1>2, <1>4, <1>5 DEF Holds
    <2> QED BY <1>2, <1>3, <2>1, PutAlive DEF m
  <1>6. CASE o # old
    <2>1. k = 0 /\ evdi_cursor_set_gem(objects, new)[o] = got[o]
      BY <1>1, <1>6 DEF Holds
    <2>2. m + k = m
      BY <1>2, <2>1
    <2> QED BY <1>3, <2>1, <2>2 DEF m
  <1> QED BY <1>5, <1>6

LEMMA CursorTyped ==
    ASSUME NEW objects \in [Objects -> Gems], NEW new,
           \A o \in Objects : evdi_cursor_set_gem(objects, new)[o] \in Gems
    PROVE  evdi_cursor_set_gem(objects, new) \in [Objects -> Gems]
  <1> DEFINE all == evdi_cursor_set_gem(objects, new)
  <1>1. all = [o \in Objects |-> all[o]]
    BY DEF evdi_cursor_set_gem
  <1> HIDE DEF all
  <1> QED BY <1>1 DEF all

(* The handles of an object are counted.                                    *)
LEMMA Opened ==
    ASSUME NEW o
    PROVE  /\ IsFiniteSet(Openers(o)) /\ Cardinality(Openers(o)) \in Nat /\ Openings(o) \in Nat
           /\ Openings(o)' \in Nat /\ Cardinality(Openers(o)') \in Nat
           /\ Planes(o) \in Nat /\ Planes(o)' \in Nat
  <1>1. IsFiniteSet(Files \cup {"compositor"})
    BY PainterAssumption, FS_AddElement
  <1>2. /\ Openers(o) \in SUBSET (Files \cup {"compositor"})
        /\ Openers(o)' \in SUBSET (Files \cup {"compositor"})
    BY DEF Openers
  <1>3. /\ IsFiniteSet(Openers(o)) /\ Cardinality(Openers(o)) \in Nat
        /\ Cardinality(Openers(o)') \in Nat
    BY <1>1, <1>2, FS_Subset, FS_CardinalityType
  <1>4. Planes(o) \in Nat /\ Planes(o)' \in Nat
    BY DEF Planes, Holds
  <1> QED BY <1>3, <1>4 DEF Openings, Holds

(* Of whatever is held, somebody keeps it alive.                            *)
HeldFb(f) == f \in {plane, scanout_fb, grab.fb, OldFb} \/ <<f, "id">> \in handles
HeldObject(o) ==
    \/ \E x \in Files \cup {"compositor"} : <<o, x>> \in handles
    \/ o \in {cursor.object, cursorPlane, OldPicture} \/ gem[o].exported > 0 \/ (o \in Fbs /\ fbrefs[o] > 0)

LEMMA HeldIsAlive ==
    ASSUME TypeOK, BufInv
    PROVE  /\ \A f \in Fbs : HeldFb(f) => fbrefs[f] > 0
           /\ \A o \in Objects : HeldObject(o) => gem[o].references > 0
  <1>1. ASSUME NEW f \in Fbs, HeldFb(f) PROVE fbrefs[f] > 0
    BY <1>1 DEF HeldFb, BufInv, FbInv, FbHolders, Holds
  <1>2. ASSUME NEW o \in Objects, HeldObject(o) PROVE gem[o].references > 0
    <2> DEFINE c == Cardinality(Openers(o)) + Planes(o)
               h == Holds(cursor.object, o)
               k == Live(fbrefs, o)
    <2>1. Alive(o, gem[o], Openings(o) + k) /\ gem[o] \in Gems
      BY DEF BufInv, GemInv, BufferTypes
    <2>2. IsFiniteSet(Openers(o)) /\ Cardinality(Openers(o)) \in Nat /\ Planes(o) \in Nat
          /\ c \in Nat /\ Openings(o) = c + h /\ h \in Nat /\ k \in Nat
      BY Opened DEF Openings, Holds, Live
    <2>3. gem[o].exported \in Int /\ gem[o].exported >= 0 /\ gem[o].references \in Int
      BY <2>1, GemFields DEF Alive, Sound
    <2>4. gem[o].references >= c + h + k + gem[o].exported
      BY <2>1, <2>2, <2>3 DEF Alive
    <2>5. cursor.object = o => h = 1
      BY DEF Holds
    <2>6. (o \in Fbs /\ fbrefs[o] > 0) => k = 1
      BY DEF Live
    <2>7. (\E x \in Files \cup {"compositor"} : <<o, x>> \in handles) => c # 0
      <3>1. (\E x \in Files \cup {"compositor"} : <<o, x>> \in handles) => Openers(o) # {}
        BY DEF Openers
      <3>2. IsFiniteSet(Openers(o)) => (Cardinality(Openers(o)) = 0 <=> Openers(o) = {})
        BY FS_EmptySet, Zenon
      <3> QED BY <2>2, <3>1, <3>2
    <2>9. o \in {cursorPlane, OldPicture} => c # 0
      <3>1. o \in {cursorPlane, OldPicture} => Planes(o) > 0
        BY DEF Planes, Holds
      <3> QED BY <2>2, <3>1
    <2> HIDE DEF c, h, k
    <2>8. gem[o].exported > 0 \/ c # 0 \/ h = 1 \/ k = 1
      BY <1>2, <2>5, <2>6, <2>7, <2>9 DEF HeldObject
    <2> QED BY <2>2, <2>3, <2>4, <2>8
  <1> QED BY <1>1, <1>2

(* The objects after a step: each is held as it should be, and while it is
   held it keeps its mapping.                                               *)
Kept(o) ==
    /\ Alive(o, gem'[o], Openings(o)' + Live(fbrefs', o))
    /\ Openings(o)' + Live(fbrefs', o) > 0 /\ gem[o].vmapping => gem'[o].vmapping

LEMMA BuffersKept ==
    ASSUME TypeOK', gem' = [o \in Objects |-> gem'[o]], fbrefs' \in [Fbs -> Int],
           \A o \in Objects : Kept(o), FbInv', UseInv',
           grab'.pc \in {"copy", "paint"} => \/ gem'[grab'.fb].vmapping
                                             \/ gem[grab'.fb].vmapping,
           cursor'.object # None => \/ gem'[cursor'.object].vmapping
                                    \/ gem[cursor'.object].vmapping
    PROVE  BufInv'
  <1>1. GemInv'
    BY DEF GemInv, Kept
  <1>2. BufferTypes'
    <2>1. \A o \in Objects : gem'[o] \in Gems
      BY DEF Kept, Alive
    <2> QED BY <2>1 DEF BufferTypes
  <1>3. ASSUME (grab.pc \in {"copy", "paint"})' PROVE gem'[grab'.fb].vmapping
    <2>1. PICK f \in Fbs : f = grab'.fb
      BY <1>3 DEF TypeOK, GrabHasFb, Grabs, Maybe
    <2>2. Live(fbrefs', f) = 1
      <3>1. fbrefs'[f] = FbHolders(f)'
        BY DEF FbInv
      <3>2. FbHolders(f)' > 0
        BY <2>1 DEF FbHolders, Holds
      <3> QED BY <3>1, <3>2 DEF Live
    <2>3. Kept(f) /\ Openings(f)' \in Nat
      BY FbsAreObjects, Opened
    <2> QED BY <1>3, <2>1, <2>2, <2>3 DEF Kept
  <1>4. ASSUME cursor'.object # None PROVE gem'[cursor'.object].vmapping
    <2>1. PICK o \in Objects : o = cursor'.object
      BY <1>4 DEF TypeOK, CursorTypes, CursorStates, Maybe
    <2>2. Openings(o)' > 0 /\ Live(fbrefs', o) \in Nat /\ Openings(o)' \in Nat
      <3>1. /\ Openings(o)' = Cardinality(Openers(o)') + Planes(o)' + Holds(cursor'.object, o)
            /\ Holds(cursor'.object, o) = 1
        BY <2>1 DEF Openings, Holds
      <3>2. Cardinality(Openers(o)') \in Nat /\ Openings(o)' \in Nat /\ Planes(o)' \in Nat
        BY Opened
      <3> QED BY <3>1, <3>2 DEF Live
    <2>3. Kept(o)
      OBVIOUS
    <2> QED BY <1>4, <2>1, <2>2, <2>3 DEF Kept
  <1> QED BY <1>1, <1>2, <1>3, <1>4 DEF BufInv

(* Steps of framebuffers only.                                              *)
LEMMA PassesKeep ==
    ASSUME BufInv, Passes(fbrefs, gem, fbrefs', gem'), NEW o \in Objects,
           Openings(o)' = Openings(o)
    PROVE  Kept(o) /\ gem' = [p \in Objects |-> gem'[p]] /\ fbrefs' \in [Fbs -> Int]
  <1>1. Openings(o) \in Nat
    BY Opened
  <1>2. Alive(o, gem[o], Openings(o) + Live(fbrefs, o))
    BY DEF BufInv, GemInv
  <1> QED BY <1>1, <1>2 DEF Passes, Kept

LEMMA SamePasses ==
    ASSUME BufInv, UNCHANGED <<fbrefs, gem>>
    PROVE  Passes(fbrefs, gem, fbrefs', gem')
  BY DEF Passes, BufInv, BufferTypes

LEMMA SameOpenings ==
    ASSUME TypeOK, NEW o, cursor'.object = cursor.object, SamePlanes,
           \/ UNCHANGED handles \/ \E f : handles' = handles \ {<<f, "id">>}
    PROVE  Openings(o)' = Openings(o)
  <1>1. \A x \in Files \cup {"compositor"} : <<o, x>> \in handles' <=> <<o, x>> \in handles
    BY FbsAreObjects
  <1>2. Openers(o)' = Openers(o)
    BY <1>1 DEF Openers
  <1> QED BY <1>2 DEF Openings, Planes, SamePlanes

(* A step that leaves the holders alone.                                    *)
LEMMA NoBufferStep ==
    ASSUME TypeOK, TypeOK', BufInv, UseInv',
           UNCHANGED <<fbrefs, gem, handles, plane, scanout_fb, OldFb>>,
           cursor'.object = cursor.object, SamePlanes, grab'.fb = grab.fb,
           grab'.pc \in {"copy", "paint"} => grab.pc \in {"copy", "paint"}
    PROVE  BufInv'
  <1>1. FbInv'
    BY DEF BufInv, FbInv, FbHolders
  <1>2. \A o \in Objects : Kept(o)
    BY SamePasses, SameOpenings, PassesKeep
  <1>3. gem' = [o \in Objects |-> gem'[o]] /\ fbrefs' \in [Fbs -> Int]
    BY DEF BufInv, BufferTypes
  <1>4. /\ grab'.pc \in {"copy", "paint"} => gem'[grab'.fb].vmapping
        /\ cursor'.object # None => gem'[cursor'.object].vmapping
    BY DEF BufInv
  <1> QED BY <1>1, <1>2, <1>3, <1>4, BuffersKept

(* What a commit does.                                                      *)
LEMMA BufBegin ==
    ASSUME TypeOK, BufInv, NEW f \in Maybe(Fbs), NEW clips \in Seq(Rects), NEW m \in BOOLEAN,
           BeginCommit(f, clips, m)
    PROVE  BufInv'
  <1>1. /\ TypeOK' /\ commit'.pc = "plane" /\ commit'.kind = "frame" /\ commit'.fb = f
        /\ commit'.old = plane
    BY BeginTypes
  <1>2. /\ commit.pc = "idle" /\ plane' = f /\ fbrefs' = FbGet(fbrefs, f)
        /\ f # None => <<f, "id">> \in handles
        /\ UNCHANGED <<handles, gem, grab, scanout_fb, cursor, cursorPlane>>
    BY DEF BeginCommit, painterVars, cursorVars
  <1>3. f # None => fbrefs[f] > 0
    BY <1>2, HeldIsAlive DEF HeldFb, Maybe
  <1>4. fbrefs \in [Fbs -> Int] /\ gem \in [Objects -> Gems]
    BY DEF BufInv, BufferTypes
  <1>5. /\ Passes(fbrefs, gem, fbrefs', gem')
        /\ \A g \in Fbs : fbrefs'[g] = fbrefs[g] + Holds(f, g)
    BY <1>2, <1>3, <1>4, TakeFb
  <1>6. FbInv'
    <2>1. OldFb = None /\ OldFb' = plane
      BY <1>1, <1>2 DEF OldFb
    <2>2. ASSUME NEW g \in Fbs PROVE fbrefs'[g] = FbHolders(g)'
      <3>1. fbrefs[g] = FbHolders(g) /\ Holds(OldFb, g) = 0 /\ OldFb' = plane
        BY <2>1, FbsAreObjects DEF BufInv, FbInv, Holds
      <3> QED BY <1>2, <1>5, <3>1 DEF FbHolders, Holds
    <2> QED BY <2>2 DEF FbInv
  <1>7. \A o \in Objects : Kept(o)
    <2>1. SamePlanes
      BY <1>1, <1>2 DEF SamePlanes, OldPicture
    <2> QED BY <1>2, <1>5, <2>1, SameOpenings, PassesKeep
  <1>8. gem' = [o \in Objects |-> gem'[o]] /\ fbrefs' \in [Fbs -> Int]
    BY <1>2, <1>4, <1>5 DEF Passes
  <1>9. UseInv'
    BY <1>1, <1>2 DEF UseInv, BufInv
  <1> QED BY <1>1, <1>2, <1>6, <1>7, <1>8, <1>9, BuffersKept DEF BufInv

LEMMA BufShow ==
    ASSUME TypeOK, BufInv, SetScanout
    PROVE  BufInv'
  <1>0. TypeOK' /\ CommitKept
    BY ShowTypes
  <1>1. /\ commit.pc = "scanout" /\ commit.kind = "frame" /\ commit.fb \in Maybe(Fbs)
        /\ UNCHANGED <<handles, grab, plane, cursor, cursorPlane>> /\ scanout_fb \in Maybe(Fbs)
    BY DEF SetScanout, TypeOK, CommitTypes, PainterTypes, planeVars, cursorVars
  <1>2. OldFb' = OldFb /\ UseInv' /\ SamePlanes
    BY <1>0, <1>1 DEF OldFb, SamePlanes, OldPicture, UseInv, BufInv, CommitKept, SameCommit
  <1>3. CASE UNCHANGED <<scanout_fb, bufferVars>>
    BY <1>0, <1>1, <1>2, <1>3, NoBufferStep DEF bufferVars
  <1>4. CASE scanout_fb' = commit.fb /\ FbReplace(commit.fb, scanout_fb)
    <2>1. commit.fb = plane
      BY <1>1 DEF BufInv, UseInv
    <2>2. /\ commit.fb # None => fbrefs[commit.fb] > 0
          /\ scanout_fb # None => fbrefs[scanout_fb] > 0
      BY <1>1, <2>1, HeldIsAlive DEF HeldFb, Maybe
    <2>3. /\ Passes(fbrefs, gem, fbrefs', gem')
          /\ \A g \in Fbs : fbrefs'[g] = fbrefs[g] + Holds(commit.fb, g) - Holds(scanout_fb, g)
      BY <1>1, <1>4, <2>2, SwapFb DEF BufInv
    <2>4. FbInv'
      <3>1. ASSUME NEW g \in Fbs PROVE fbrefs'[g] = FbHolders(g)'
        <4>1. fbrefs[g] = FbHolders(g) /\ Holds(OldFb, g)' = Holds(OldFb, g)
          BY <1>2 DEF BufInv, FbInv, Holds
        <4> QED BY <1>1, <1>4, <2>3, <4>1 DEF FbHolders, Holds
      <3> QED BY <3>1 DEF FbInv
    <2>5. \A o \in Objects : Kept(o)
      BY <1>1, <1>2, <2>3, SameOpenings, PassesKeep
    <2>6. gem' = [o \in Objects |-> gem'[o]] /\ fbrefs' \in [Fbs -> Int]
      BY <2>3 DEF Passes
    <2> QED BY <1>0, <1>1, <1>2, <2>4, <2>5, <2>6, BuffersKept DEF BufInv
  <1>5. UNCHANGED <<scanout_fb, bufferVars>>
        \/ (scanout_fb' = commit.fb /\ FbReplace(commit.fb, scanout_fb))
    BY DEF SetScanout, evdi_painter_set_scanout_buffer
  <1> QED BY <1>3, <1>4, <1>5

LEMMA BufEnd ==
    ASSUME TypeOK, BufInv, EndCommit
    PROVE  BufInv'
  <1>0. TypeOK' /\ commit \in Commits
    BY EndTypes DEF TypeOK, CommitTypes
  <1>1. /\ commit.pc = "end" /\ commit' = NoCommit
        /\ UNCHANGED <<handles, grab, plane, cursor, scanout_fb, cursorPlane>>
    BY DEF EndCommit, FlushUnchanged, planeVars, cursorVars
  <1>2. OldFb = (IF commit.kind = "frame" THEN commit.old ELSE None) /\ OldFb' = None
        /\ OldPicture = (IF commit.kind = "cursor" THEN commit.old ELSE None) /\ OldPicture' = None
    BY <1>1, NoCommitTypes DEF OldFb, OldPicture
  <1>3. UseInv'
    BY <1>1, NoCommitTypes DEF UseInv, BufInv
  <1>4. CASE commit.kind = "frame"
    <2>1. OldFb \in Maybe(Fbs) /\ drm_framebuffer_put(OldFb) /\ SamePlanes
      BY <1>1, <1>2, <1>4 DEF TypeOK, CommitTypes, Maybe, EndCommit, SamePlanes
    <2>2. OldFb # None => fbrefs[OldFb] > 0
      BY <2>1, HeldIsAlive DEF HeldFb, Maybe
    <2>3. /\ Passes(fbrefs, gem, fbrefs', gem')
          /\ \A g \in Fbs : fbrefs'[g] = fbrefs[g] - Holds(OldFb, g)
      BY <2>1, <2>2, DropFb DEF BufInv
    <2>4. FbInv'
      <3>1. ASSUME NEW g \in Fbs PROVE fbrefs'[g] = FbHolders(g)'
        <4>1. fbrefs[g] = FbHolders(g) /\ Holds(OldFb, g)' = 0
          BY <1>2, FbsAreObjects DEF BufInv, FbInv, Holds
        <4> QED BY <1>1, <2>3, <4>1 DEF FbHolders, Holds
      <3> QED BY <3>1 DEF FbInv
    <2>5. \A o \in Objects : Kept(o)
      BY <1>1, <2>1, <2>3, SameOpenings, PassesKeep
    <2>6. gem' = [o \in Objects |-> gem'[o]] /\ fbrefs' \in [Fbs -> Int]
      BY <2>3 DEF Passes
    <2> QED BY <1>0, <1>1, <1>3, <2>4, <2>5, <2>6, BuffersKept DEF BufInv
  <1>5. CASE commit.kind = "cursor"
    <2> DEFINE c == commit.old
    <2>1. /\ gem' = IF c = None THEN gem ELSE [gem EXCEPT ![c] = drm_gem_object_put(c, @)]
          /\ UNCHANGED fbrefs /\ c \in Maybe(Objects)
      BY <1>0, <1>5 DEF EndCommit, Commits
    <2>2. FbInv'
      BY <1>1, <1>2, <1>5, <2>1 DEF BufInv, FbInv, FbHolders
    <2> HIDE DEF c
    <2>3. ASSUME NEW o \in Objects PROVE Kept(o)
      <3> DEFINE n == Openings(o)'
                 k == Live(fbrefs, o)
      <3>1. Alive(o, gem[o], Openings(o) + k) /\ n \in Nat /\ k \in Nat /\ Live(fbrefs', o) = k
        BY <2>1, Opened DEF BufInv, GemInv, Live
      <3>2. Openings(o) = n + Holds(c, o) /\ Holds(c, o) \in Nat
        <4>1. Planes(o) = Planes(o)' + Holds(c, o)
          <5>1. Holds(OldPicture, o)' = 0 /\ Holds(OldPicture, o) = Holds(c, o)
            BY <1>2, <1>5, FbsAreObjects DEF Holds, c
          <5>2. Holds(cursorPlane, o)' = Holds(cursorPlane, o)
            BY <1>1 DEF Holds
          <5> QED BY <5>1, <5>2 DEF Planes, Holds
        <4>2. Openers(o)' = Openers(o) /\ Holds(cursor.object, o)' = Holds(cursor.object, o)
          BY <1>1 DEF Openers, Holds
        <4>3. Cardinality(Openers(o)) \in Nat /\ Planes(o) \in Nat /\ Planes(o)' \in Nat
              /\ Holds(c, o) \in Nat /\ Holds(cursor.object, o) \in Nat
          BY Opened DEF Holds
        <4> QED BY <4>1, <4>2, <4>3 DEF Openings
      <3> HIDE DEF n, k
      <3>3. CASE c = o
        <4>1. gem'[o] = drm_gem_object_put(o, gem[o])
          BY <2>1, <3>3, FbsAreObjects DEF BufInv, BufferTypes
        <4>2. Openings(o) + k = (n + k) + 1 /\ n + k \in Nat
          BY <3>1, <3>2, <3>3 DEF Holds
        <4>3. Alive(o, gem'[o], n + k) /\ (n + k > 0 => gem'[o].vmapping = gem[o].vmapping)
          BY <3>1, <4>1, <4>2, PutAlive
        <4> QED BY <3>1, <4>2, <4>3 DEF Kept, n
      <3>4. CASE c # o
        <4>1. gem'[o] = gem[o]
          BY <2>1, <3>4 DEF BufInv, BufferTypes
        <4>2. Openings(o) = n
          BY <3>1, <3>2, <3>4 DEF Holds
        <4> QED BY <3>1, <4>1, <4>2 DEF Kept, n
      <3> QED BY <3>3, <3>4
    <2>4. gem' = [o \in Objects |-> gem'[o]] /\ fbrefs' \in [Fbs -> Int]
      BY <2>1 DEF BufInv, BufferTypes, Maybe
    <2> QED BY <1>0, <1>1, <1>3, <2>2, <2>3, <2>4, BuffersKept DEF BufInv
  <1> QED BY <1>0, <1>4, <1>5 DEF Commits

(* The steps of a commit that only mark, notify and send.                   *)
LEMMA BufNotify ==
    ASSUME TypeOK, TypeOK', BufInv,
           \/ evdi_plane_atomic_update \/ MarkDamage \/ CheckDirts \/ MarkFull
           \/ evdi_crtc_atomic_flush \/ evdi_painter_mode_changed_notify \/ NotifyDpms
           \/ CommitSends \/ MarkOldCursor \/ MarkNewCursor \/ SendCursorMove
           \/ evdi_painter_set_vblank \/ evdi_painter_send_update_ready_if_needed
    PROVE  BufInv'
  <1>1. UNCHANGED <<fbrefs, gem, handles, plane, scanout_fb, cursor, grab, cursorPlane>>
    <2>1. CASE MarkDamage \/ CheckDirts \/ MarkFull \/ MarkOldCursor \/ MarkNewCursor
      BY <2>1 DEF MarkDamage, CheckDirts, MarkFull, MarkOldCursor, MarkNewCursor, MarkUnchanged,
         planeVars, bufferVars, cursorVars
    <2>2. CASE \/ evdi_crtc_atomic_flush \/ evdi_painter_mode_changed_notify \/ NotifyDpms
               \/ evdi_painter_set_vblank \/ evdi_painter_send_update_ready_if_needed
      BY <2>2 DEF evdi_crtc_atomic_flush, evdi_painter_mode_changed_notify, NotifyDpms,
         evdi_painter_set_vblank, evdi_painter_send_update_ready_if_needed, FlushUnchanged,
         planeVars, bufferVars, cursorVars
    <2>3. CASE evdi_plane_atomic_update \/ CommitSends \/ SendCursorMove
      BY <2>3 DEF evdi_plane_atomic_update, CommitSends, SendCursorMove,
         painterVars, planeVars, bufferVars, cursorVars
    <2> QED BY <2>1, <2>2, <2>3
  <1>2. SameCommit /\ commit.pc # "idle" /\ commit'.pc # "idle"
    <2>1. CASE \/ evdi_plane_atomic_update \/ MarkDamage \/ CheckDirts \/ MarkFull
               \/ evdi_crtc_atomic_flush \/ evdi_painter_mode_changed_notify \/ NotifyDpms
               \/ CommitSends \/ MarkOldCursor \/ MarkNewCursor \/ SendCursorMove
      BY <2>1, CommitGoesOn DEF CommitKept
    <2>2. CASE evdi_painter_set_vblank \/ evdi_painter_send_update_ready_if_needed
      <3>1. commit \in Commits
        BY DEF TypeOK, CommitTypes
      <3> QED BY <2>2, <3>1 DEF evdi_painter_set_vblank, evdi_painter_send_update_ready_if_needed,
              Goto, SameCommit, Commits
    <2> QED BY <2>1, <2>2
  <1>3. OldFb' = OldFb /\ UseInv' /\ SamePlanes
    BY <1>1, <1>2 DEF OldFb, SamePlanes, OldPicture, UseInv, BufInv, SameCommit
  <1> QED BY <1>1, <1>3, NoBufferStep

LEMMA BufAnnounce ==
    ASSUME TypeOK, TypeOK', BufInv, SendCursorSet
    PROVE  BufInv'
  <1>0. CommitKept
    BY ShowTypes
  <1>1. UNCHANGED <<fbrefs, plane, scanout_fb, cursor, grab, cursorPlane>>
    BY DEF SendCursorSet, painterVars, cursorVars
  <1>2. OldFb' = OldFb /\ UseInv' /\ SamePlanes
    BY <1>0, <1>1 DEF OldFb, SamePlanes, OldPicture, UseInv, BufInv, CommitKept, SameCommit
  <1>3. CASE UNCHANGED <<handles, gem>>
    BY <1>1, <1>2, <1>3, NoBufferStep
  <1>4. CASE ~UNCHANGED <<handles, gem>>
    <2> DEFINE c == cursor.object
               f == drm_filp
    <2>1. /\ c # None /\ f # None /\ <<c, f>> \notin handles
          /\ handles' = handles \cup {<<c, f>>}
          /\ gem' = [gem EXCEPT ![c] = drm_gem_object_get(@)]
      BY <1>4 DEF SendCursorSet
    <2>2. c \in Objects /\ f \in Files
      BY <2>1 DEF TypeOK, CursorTypes, CursorStates, PainterTypes, Maybe
    <2> HIDE DEF c, f
    <2>3. FbInv'
      <3>1. \A g \in Fbs : <<g, "id">> \in handles' <=> <<g, "id">> \in handles
        BY <2>1, <2>2, FbsAreObjects
      <3> QED BY <1>1, <1>2, <3>1 DEF BufInv, FbInv, FbHolders, Holds
    <2>4. ASSUME NEW o \in Objects PROVE Kept(o)
      <3>1. /\ Alive(o, gem[o], Openings(o) + Live(fbrefs, o)) /\ Openings(o) \in Nat
            /\ Live(fbrefs', o) = Live(fbrefs, o) /\ Live(fbrefs, o) \in Nat
        BY <1>1, Opened DEF BufInv, GemInv, Live
      <3>2. CASE o = c
        <4>1. gem[o].references > 0
          BY <2>2, <3>2, HeldIsAlive DEF HeldObject, c
        <4>2. gem'[o] = drm_gem_object_get(gem[o])
          BY <2>1, <2>2, <3>2 DEF BufInv, BufferTypes
        <4>3. Openings(o)' = Openings(o) + 1
          <5>1. Openers(o)' = Openers(o) \cup {f} /\ f \notin Openers(o)
            BY <2>1, <2>2, <3>2 DEF Openers
          <5>2. Cardinality(Openers(o)') = Cardinality(Openers(o)) + 1
            BY <5>1, Opened, FS_AddElement
          <5>3. Holds(cursor.object, o) \in Nat /\ Cardinality(Openers(o)) \in Nat
                /\ Planes(o) \in Nat /\ Planes(o)' = Planes(o)
            BY <1>2, Opened DEF Holds, Planes, SamePlanes
          <5> QED BY <1>1, <5>2, <5>3 DEF Openings
        <4>4. Openings(o)' + Live(fbrefs', o) = (Openings(o) + Live(fbrefs, o)) + 1
          BY <3>1, <4>3
        <4>5. Openings(o) + Live(fbrefs, o) \in Nat
          BY <3>1
        <4>6. /\ Alive(o, gem'[o], (Openings(o) + Live(fbrefs, o)) + 1)
              /\ gem'[o].vmapping = gem[o].vmapping
          BY <3>1, <4>1, <4>2, <4>5, GetAlive
        <4> QED BY <4>4, <4>6 DEF Kept
      <3>3. CASE o # c
        <4>1. gem'[o] = gem[o]
          BY <2>1, <3>3 DEF BufInv, BufferTypes
        <4>2. Openers(o)' = Openers(o)
          BY <2>1, <3>3 DEF Openers
        <4> QED BY <1>1, <1>2, <3>1, <4>1, <4>2 DEF Kept, Openings, Planes, SamePlanes
      <3> QED BY <3>2, <3>3
    <2>5. gem' = [o \in Objects |-> gem'[o]] /\ fbrefs' \in [Fbs -> Int]
      BY <1>1, <2>1 DEF BufInv, BufferTypes
    <2> QED BY <1>1, <1>2, <2>3, <2>4, <2>5, BuffersKept DEF BufInv
  <1> QED BY <1>3, <1>4

(* The picture of the cursor is replaced, after the objects have passed.    *)
LEMMA CursorKeeps ==
    ASSUME TypeOK, BufInv, NEW objects \in [Objects -> Gems], Passes(fbrefs, gem, fbrefs', objects),
           NEW new \in Maybe(Objects),
           new # None => objects[new].references > 0 /\ objects[new].vmapping,
           gem' = evdi_cursor_set_gem(objects, new), cursor'.object = new, UNCHANGED handles,
           SamePlanes
    PROVE  (\A o \in Objects : Kept(o)) /\ gem' = [o \in Objects |-> gem'[o]]
           /\ fbrefs' \in [Fbs -> Int] /\ (new # None => gem'[new].vmapping)
  <1>1. ASSUME NEW o \in Objects PROVE Kept(o) /\ (new = o => gem'[o].vmapping)
    <2> DEFINE c == Cardinality(Openers(o)) + Planes(o)
               h == Holds(cursor.object, o)
               k == Live(fbrefs, o)
               k2 == Live(fbrefs', o)
    <2>1. c \in Nat /\ h \in Nat /\ k \in Nat /\ k2 \in Nat /\ Holds(new, o) \in Nat
      BY Opened DEF Holds, Live
    <2>2. Openings(o) = c + h /\ Openings(o)' = c + Holds(new, o)
      BY DEF Openings, Openers, Planes, SamePlanes
    <2>3. Alive(o, gem[o], Openings(o) + k)
      BY DEF BufInv, GemInv
    <2>4. cursor.object \in Maybe(Objects)
      BY DEF TypeOK, CursorTypes, CursorStates
    <2> HIDE DEF c, h, k, k2
    <2>5. /\ Alive(o, objects[o], (c + h) + k2)
          /\ (c + h) + k2 > 0 /\ gem[o].vmapping => objects[o].vmapping
      <3>1. c + h \in Nat
        BY <2>1
      <3> QED BY <2>2, <2>3, <3>1 DEF Passes, k, k2
    <2>6. (c + h) + k2 = (c + k2) + h /\ c + k2 \in Nat
      BY <2>1
    <2>7. Alive(o, objects[o], (c + k2) + Holds(cursor.object, o))
      BY <2>5, <2>6 DEF h
    <2>8. /\ Alive(o, gem'[o], (c + k2) + Holds(new, o))
          /\ (c + k2) + Holds(new, o) > 0 /\ objects[o].vmapping => gem'[o].vmapping
      BY <2>4, <2>6, <2>7, ShowCursor
    <2>9. Openings(o)' + k2 = (c + k2) + Holds(new, o)
      BY <2>1, <2>2
    <2>10. CASE new = o
      <3>1. Holds(new, o) = 1 /\ objects[o].vmapping
        BY <2>10, FbsAreObjects DEF Holds
      <3>2. (c + k2) + Holds(new, o) > 0
        BY <2>1, <3>1
      <3> QED BY <2>8, <2>9, <3>1, <3>2 DEF Kept, k2
    <2>11. CASE new # o
      <3>1. Holds(new, o) = 0
        BY <2>11 DEF Holds
      <3>2. (c + k2) + Holds(new, o) > 0 => (c + h) + k2 > 0
        BY <2>1, <3>1
      <3> QED BY <2>5, <2>8, <2>9, <2>11, <3>2 DEF Kept, k2
    <2> QED BY <2>10, <2>11
  <1>2. gem' = [o \in Objects |-> gem'[o]]
    BY DEF evdi_cursor_set_gem
  <1>3. new # None => new \in Objects
    BY DEF Maybe
  <1> QED BY <1>1, <1>2, <1>3 DEF Passes

(* An object that is mapped is held as before.                              *)
LEMMA MapPasses ==
    ASSUME BufInv, NEW o \in Objects, gem[o].references > 0, UNCHANGED fbrefs,
           NEW r \in IF gem[o].vmapping THEN {Done(gem[o])}
                     ELSE Outcomes(evdi_gem_vmap(o, gem[o])),
           NEW objects, objects = [gem EXCEPT ![o] = r.object]
    PROVE  /\ Passes(fbrefs, gem, fbrefs', objects) /\ objects \in [Objects -> Gems]
           /\ r.object.references > 0 /\ (r.ok => r.object.vmapping)
  <1> DEFINE b == gem[o]
  <1>0. b \in Gems /\ gem \in [Objects -> Gems] /\ fbrefs \in [Fbs -> Int] /\ Sound(o, b)
    BY DEF BufInv, BufferTypes, GemInv, Alive
  <1>1. PICK c \in Gems : /\ SameUse(b, c) /\ Sound(o, c) /\ r.object = c
                          /\ r.ok => c.vmapping
                          /\ b.vmapping => c.vmapping
    <2>1. CASE b.vmapping
      <3>1. r = Done(b)
        BY <2>1
      <3> QED BY <1>0, <2>1, <3>1 DEF Done, SameUse
    <2>2. CASE ~b.vmapping
      <3>1. r \in evdi_gem_vmap(o, b)
        BY <2>2 DEF Outcomes
      <3>2. PICK c \in Gems : /\ SameUse(b, c) /\ Sound(o, c)
                              /\ (r = Done(c) /\ c.vmapping) \/ r = Failed(c)
        BY <1>0, <2>2, <3>1, MapObject
      <3> QED BY <2>2, <3>2 DEF Done, Failed
    <2> QED BY <2>1, <2>2
  <1>2. objects \in [Objects -> Gems]
    BY <1>0, <1>1
  <1>3. ASSUME NEW p \in Objects, NEW n \in Nat, Alive(p, gem[p], n + Live(fbrefs, p))
        PROVE  /\ Alive(p, objects[p], n + Live(fbrefs', p))
               /\ n + Live(fbrefs', p) > 0 /\ gem[p].vmapping => objects[p].vmapping
    <2>1. CASE p # o
      BY <1>0, <1>3, <2>1
    <2>2. CASE p = o
      <3>1. objects[p] = c
        BY <1>0, <1>1, <2>2
      <3> QED BY <1>1, <1>3, <2>2, <3>1 DEF Alive, SameUse
    <2> QED BY <2>1, <2>2
  <1> QED BY <1>0, <1>1, <1>2, <1>3 DEF Passes, SameUse

LEMMA BufCursor ==
    ASSUME TypeOK, BufInv, NEW o \in Maybe(Objects), NEW x \in Int, NEW y \in Int,
           evdi_cursor_atomic_update(o, x, y)
    PROVE  BufInv'
  <1>1. TypeOK' /\ commit'.kind = "cursor" /\ commit'.fb = o /\ commit'.old = cursorPlane
        /\ commit'.pc # "idle"
    BY CursorCommitTypes
  <1>2. commit.pc = "idle" /\ UNCHANGED <<fbrefs, handles, plane, scanout_fb, grab>>
        /\ cursorPlane' = o
        /\ gem' = IF o = None THEN gem ELSE [gem EXCEPT ![o] = drm_gem_object_get(@)]
    BY DEF evdi_cursor_atomic_update, painterVars
  <1>3. OldFb' = OldFb /\ UseInv'
    BY <1>1, <1>2 DEF OldFb, UseInv, BufInv
  <1>4. FbInv'
    BY <1>2, <1>3 DEF BufInv, FbInv, FbHolders
  <1>5. cursor'.object = cursor.object
    BY DEF evdi_cursor_atomic_update, TypeOK, CursorTypes, CursorStates
  <1>6. ASSUME NEW p \in Objects
        PROVE  Kept(p) /\ (gem[p].vmapping => gem'[p].vmapping)
    <2> DEFINE n == Openings(p)
               k == Live(fbrefs, p)
    <2>1. Alive(p, gem[p], n + k) /\ n \in Nat /\ k \in Nat /\ Live(fbrefs', p) = k
      BY <1>2, Opened DEF BufInv, GemInv, Live
    <2>2. Openings(p)' = n + Holds(o, p) /\ Holds(o, p) \in Nat
      <3>1. OldPicture = None /\ OldPicture' = cursorPlane
        BY <1>1, <1>2 DEF OldPicture
      <3>2. Planes(p)' = Planes(p) + Holds(o, p)
        <4>1. Holds(None, p) = 0
          BY FbsAreObjects DEF Holds
        <4>2. Planes(p) = Holds(cursorPlane, p) + Holds(None, p)
          BY <3>1 DEF Planes
        <4>3. Planes(p)' = Holds(o, p) + Holds(cursorPlane, p)
          BY <1>2, <3>1 DEF Planes
        <4>4. Holds(o, p) \in Nat /\ Holds(cursorPlane, p) \in Nat
          BY DEF Holds
        <4> QED BY <4>1, <4>2, <4>3, <4>4
      <3>3. Openers(p)' = Openers(p) /\ Holds(cursor.object, p)' = Holds(cursor.object, p)
        BY <1>2, <1>5 DEF Openers, Holds
      <3>4. Cardinality(Openers(p)) \in Nat /\ Planes(p) \in Nat /\ Holds(o, p) \in Nat
            /\ Holds(cursor.object, p) \in Nat
        BY Opened DEF Holds
      <3> QED BY <3>2, <3>3, <3>4 DEF Openings
    <2> HIDE DEF n, k
    <2>3. CASE o = p
      <3>1. gem[p].references > 0
        <4>1. o \in {None, cursorPlane} \/ <<o, "compositor">> \in handles
          BY DEF evdi_cursor_atomic_update
        <4>2. p # None
          BY FbsAreObjects
        <4> QED BY <2>3, <4>1, <4>2, HeldIsAlive DEF HeldObject
      <3>2. gem'[p] = drm_gem_object_get(gem[p])
        BY <1>2, <2>3, FbsAreObjects DEF BufInv, BufferTypes
      <3>3. Openings(p)' + k = (n + k) + 1 /\ n + k \in Nat
        BY <2>1, <2>2, <2>3 DEF Holds
      <3>4. Alive(p, gem'[p], (n + k) + 1) /\ gem'[p].vmapping = gem[p].vmapping
        BY <2>1, <3>1, <3>2, <3>3, GetAlive
      <3> QED BY <2>1, <3>3, <3>4 DEF Kept
    <2>4. CASE o # p
      <3>1. gem'[p] = gem[p]
        BY <1>2, <2>4 DEF BufInv, BufferTypes
      <3>2. Openings(p)' = n
        BY <2>1, <2>2, <2>4 DEF Holds
      <3> QED BY <2>1, <3>1, <3>2 DEF Kept
    <2> QED BY <2>3, <2>4
  <1>7. gem' = [p \in Objects |-> gem'[p]] /\ fbrefs' \in [Fbs -> Int]
    BY <1>2 DEF BufInv, BufferTypes
  <1> QED BY <1>1, <1>2, <1>3, <1>4, <1>5, <1>6, <1>7, BuffersKept DEF BufInv

(* The cursor shows the picture of its plane, or none.                      *)
LEMMA BufSection ==
    ASSUME TypeOK, BufInv, CursorSection
    PROVE  BufInv'
  <1>1. /\ TypeOK' /\ SameCommit /\ commit.pc \notin {"idle", "end"} /\ commit'.pc # "idle"
        /\ UNCHANGED <<fbrefs, handles, plane, cursorPlane, scanout_fb, grab>>
    BY SectionTypes DEF CommitKept, CursorUnchanged, planeVars, painterVars
  <1>2. OldFb' = OldFb /\ UseInv' /\ SamePlanes
    BY <1>1 DEF OldFb, SamePlanes, OldPicture, UseInv, BufInv, SameCommit
  <1>3. FbInv'
    BY <1>1, <1>2 DEF BufInv, FbInv, FbHolders
  <1>4. Passes(fbrefs, gem, fbrefs', gem) /\ gem \in [Objects -> Gems]
    BY <1>1 DEF Passes, BufInv, BufferTypes
  <1>5. cursor \in CursorStates /\ commit.fb \in Maybe(Objects)
    BY DEF TypeOK, CursorTypes, CommitTypes, Commits
  <1>6. CASE UNCHANGED gem /\ cursor'.object = cursor.object
    BY <1>1, <1>2, <1>6, NoBufferStep
  <1>7. CASE cursor'.object = None /\ gem' = evdi_cursor_set_gem(gem, None)
    <2>1. /\ \A p \in Objects : Kept(p)
          /\ gem' = [p \in Objects |-> gem'[p]] /\ fbrefs' \in [Fbs -> Int]
      BY <1>1, <1>2, <1>4, <1>7, CursorKeeps DEF Maybe
    <2> QED BY <1>1, <1>2, <1>3, <1>7, <2>1, BuffersKept DEF BufInv
  <1>8. CASE evdi_cursor_set
    <2> DEFINE o == commit.fb
    <2>1. o \in Objects /\ gem[o].references > 0
      <3>1. commit.pc = "picture" /\ o # None /\ o \in Objects
        BY <1>5, <1>8 DEF evdi_cursor_set, TypeOK, CommitTypes, Maybe
      <3>2. o = cursorPlane
        BY <3>1 DEF BufInv, UseInv, TypeOK, CommitTypes
      <3> QED BY <3>1, <3>2, HeldIsAlive DEF HeldObject
    <2>2. PICK r \in IF gem[o].vmapping THEN {Done(gem[o])}
                     ELSE Outcomes(evdi_gem_vmap(o, gem[o])) :
             /\ gem' = evdi_cursor_set_gem([gem EXCEPT ![o] = r.object], IF r.ok THEN o ELSE None)
             /\ cursor' = [cursor EXCEPT !.enabled = r.ok, !.object = IF r.ok THEN o ELSE None]
      BY <1>8, Zenon DEF evdi_cursor_set
    <2> DEFINE objects == [gem EXCEPT ![o] = r.object]
               new == IF r.ok THEN o ELSE None
    <2> HIDE DEF o
    <2>3. /\ Passes(fbrefs, gem, fbrefs', objects) /\ objects \in [Objects -> Gems]
          /\ r.object.references > 0 /\ (r.ok => r.object.vmapping)
      BY <1>1, <2>1, MapPasses
    <2>4. /\ new \in Maybe(Objects)
          /\ new # None => objects[new].references > 0 /\ objects[new].vmapping
      BY <2>1, <2>3 DEF Maybe, BufInv, BufferTypes
    <2>5. gem' = evdi_cursor_set_gem(objects, new) /\ cursor'.object = new
      BY <1>5, <2>2 DEF CursorStates
    <2> HIDE DEF objects, new
    <2>6. /\ \A p \in Objects : Kept(p)
          /\ gem' = [p \in Objects |-> gem'[p]] /\ fbrefs' \in [Fbs -> Int]
          /\ new # None => gem'[new].vmapping
      BY <1>1, <1>2, <2>3, <2>4, <2>5, CursorKeeps
    <2> QED BY <1>1, <1>2, <1>3, <2>5, <2>6, BuffersKept DEF BufInv
  <1>9. CASE evdi_cursor_enable
    BY <1>5, <1>6, <1>7, <1>9 DEF evdi_cursor_enable, CursorStates
  <1>10. CASE CheckCursorEvents
    BY <1>6, <1>10 DEF CheckCursorEvents
  <1> QED BY <1>8, <1>9, <1>10 DEF CursorSection

LEMMA BufLeave ==
    ASSUME TypeOK, BufInv, NEW f \in Files, evdi_painter_disconnect(f)
    PROVE  BufInv'
  <1> DEFINE s == scanout_fb
             objects == IF s = None THEN gem ELSE ObjectsLess(fbrefs, gem, s)
  <1>0. TypeOK'
    BY ClientTypes
  <1>1. /\ scanout_fb' = None /\ UNCHANGED <<handles, plane, cursorPlane, commit, grab>>
        /\ fbrefs' = IF s = None THEN fbrefs ELSE RefsLess(fbrefs, s)
        /\ gem' = evdi_cursor_set_gem(objects, None)
    <2>1. objects = IF s # None /\ fbrefs[s] = 1
                    THEN [gem EXCEPT ![s] = drm_gem_object_put(s, @)] ELSE gem
      BY DEF ObjectsLess
    <2> HIDE DEF objects
    <2> QED BY <2>1 DEF evdi_painter_disconnect, planeVars, RefsLess
  <1>2. cursor'.object = None
    BY DEF evdi_painter_disconnect, TypeOK, CursorTypes, CursorStates
  <1>3. s \in Maybe(Fbs) /\ fbrefs \in [Fbs -> Int] /\ gem \in [Objects -> Gems]
    BY DEF TypeOK, PainterTypes, BufInv, BufferTypes
  <1>4. s # None => fbrefs[s] > 0
    BY <1>3, HeldIsAlive DEF HeldFb, Maybe
  <1>5. /\ Passes(fbrefs, gem, fbrefs', objects)
        /\ \A g \in Fbs : fbrefs'[g] = fbrefs[g] - Holds(s, g)
    <2>1. CASE s = None
      BY <1>1, <1>3, <2>1, FbsAreObjects DEF Passes, Holds
    <2>2. CASE s # None
      <3>1. s \in Fbs /\ fbrefs[s] > 0
        BY <1>3, <1>4, <2>2 DEF Maybe
      <3> QED BY <1>1, <1>3, <2>2, <3>1, PutFb
    <2> QED BY <2>1, <2>2
  <1>6. objects \in [Objects -> Gems]
    BY <1>5 DEF Passes
  <1> HIDE DEF objects
  <1>7. /\ \A p \in Objects : Kept(p)
        /\ gem' = [p \in Objects |-> gem'[p]] /\ fbrefs' \in [Fbs -> Int]
    BY <1>1, <1>2, <1>5, <1>6, CursorKeeps DEF Maybe, SamePlanes, OldPicture
  <1>8. FbInv'
    <2>1. OldFb' = OldFb
      BY <1>1 DEF OldFb
    <2>2. ASSUME NEW g \in Fbs PROVE fbrefs'[g] = FbHolders(g)'
      <3>1. /\ fbrefs[g] = FbHolders(g) /\ Holds(OldFb, g)' = Holds(OldFb, g)
            /\ Holds(scanout_fb, g)' = 0
        BY <1>1, <2>1, FbsAreObjects DEF BufInv, FbInv, Holds
      <3> QED BY <1>1, <1>5, <3>1 DEF FbHolders, Holds
    <2> QED BY <2>2 DEF FbInv
  <1>9. UseInv'
    BY <1>1 DEF UseInv, BufInv
  <1> QED BY <1>0, <1>1, <1>2, <1>7, <1>8, <1>9, BuffersKept DEF BufInv

(* What a grab does.                                                        *)
LEMMA BufTake ==
    ASSUME TypeOK, BufInv, NEW size \in [w : Nat, h : Nat], NEW limit \in Nat,
           evdi_painter_grabpix_ioctl(size, limit)
    PROVE  BufInv'
  <1>0. TypeOK'
    BY GrabpixTypes
  <1>1. /\ grab.pc = "granted"
        /\ UNCHANGED <<scanout_fb, cursor, handles, plane, cursorPlane, gem, commit>>
    BY DEF evdi_painter_grabpix_ioctl, cursorVars, planeVars
  <1>2. OldFb' = OldFb /\ SamePlanes
    BY <1>1 DEF OldFb, SamePlanes, OldPicture
  <1>3. CASE scanout_fb = None
    <2>1. UNCHANGED <<fbrefs, grab>>
      BY <1>3 DEF evdi_painter_grabpix_ioctl
    <2>2. UseInv'
      BY <1>1, <2>1 DEF BufInv, UseInv
    <2> QED BY <1>0, <1>1, <1>2, <2>1, <2>2, NoBufferStep
  <1>4. CASE scanout_fb # None
    <2>1. fbrefs' = FbGet(fbrefs, scanout_fb) /\ grab'.pc = "map" /\ grab'.fb = scanout_fb
      BY <1>4 DEF evdi_painter_grabpix_ioctl
    <2>2. /\ scanout_fb \in Maybe(Fbs) /\ fbrefs[scanout_fb] > 0
          /\ fbrefs \in [Fbs -> Int] /\ gem \in [Objects -> Gems]
      BY <1>4, HeldIsAlive DEF TypeOK, PainterTypes, HeldFb, Maybe, BufInv, BufferTypes
    <2>3. /\ Passes(fbrefs, gem, fbrefs', gem')
          /\ \A g \in Fbs : fbrefs'[g] = fbrefs[g] + Holds(scanout_fb, g)
      BY <1>1, <2>1, <2>2, TakeFb
    <2>4. FbInv'
      <3>1. ASSUME NEW g \in Fbs PROVE fbrefs'[g] = FbHolders(g)'
        <4>1. /\ fbrefs[g] = FbHolders(g) /\ Holds(OldFb, g)' = Holds(OldFb, g)
              /\ Holds(grab.fb, g) = 0
          BY <1>1, <1>2, FbsAreObjects DEF BufInv, UseInv, FbInv, Holds
        <4> QED BY <1>1, <2>1, <2>3, <4>1 DEF FbHolders, Holds
      <3> QED BY <3>1 DEF FbInv
    <2>5. \A o \in Objects : Kept(o)
      BY <1>1, <1>2, <2>3, SameOpenings, PassesKeep
    <2>6. gem' = [o \in Objects |-> gem'[o]] /\ fbrefs' \in [Fbs -> Int]
      BY <2>3 DEF Passes
    <2>7. UseInv'
      BY <1>1, <2>1 DEF BufInv, UseInv
    <2> QED BY <1>0, <1>1, <2>1, <2>4, <2>5, <2>6, <2>7, BuffersKept DEF BufInv
  <1> QED BY <1>3, <1>4

LEMMA BufGrab ==
    ASSUME TypeOK, BufInv,
           \/ evdi_painter_request_update_ioctl \/ GrabMaps \/ GrabCopies \/ GrabPaintsCursor
           \/ GrabEnds
    PROVE  BufInv'
  <1>0. TypeOK' /\ grab \in Grabs
    BY GrabTypes, AskTypes DEF TypeOK
  <1>1. UNCHANGED <<scanout_fb, cursor, handles, plane, cursorPlane, commit>>
    BY DEF evdi_painter_request_update_ioctl, GrabMaps, GrabCopies, GrabPaintsCursor, GrabEnds,
       GrabUnchanged, cursorVars, planeVars, painterVars
  <1>2. OldFb' = OldFb /\ SamePlanes
    BY <1>1 DEF OldFb, SamePlanes, OldPicture
  <1>3. CASE evdi_painter_request_update_ioctl
    <2>1. UNCHANGED <<fbrefs, gem>> /\ grab.pc = "idle"
      BY <1>3 DEF evdi_painter_request_update_ioctl, bufferVars
    <2>2. grab'.pc \in {"idle", "granted"} /\ grab'.fb = grab.fb
      BY <1>0, <1>3 DEF evdi_painter_request_update_ioctl, Grabs
    <2>3. UseInv'
      BY <1>1, <2>1, <2>2 DEF BufInv, UseInv
    <2> QED BY <1>0, <1>1, <1>2, <2>1, <2>2, <2>3, NoBufferStep
  <1>4. CASE GrabCopies \/ GrabPaintsCursor
    <2>1. UNCHANGED <<fbrefs, gem>> /\ grab.pc \in {"copy", "paint"}
      BY <1>4 DEF GrabCopies, GrabPaintsCursor, bufferVars
    <2>2. GrabKept
      BY <1>4, GrabTypes
    <2>3. UseInv'
      BY <1>1, <2>2 DEF BufInv, UseInv, GrabKept
    <2> QED BY <1>0, <1>1, <1>2, <2>1, <2>2, <2>3, NoBufferStep DEF GrabKept
  <1>5. CASE GrabMaps
    <2>1. GrabKept /\ grab.pc = "map" /\ UNCHANGED fbrefs
      BY <1>5, GrabTypes DEF GrabMaps
    <2>2. PICK r \in IF gem[grab.fb].vmapping THEN {Done(gem[grab.fb])}
                     ELSE Outcomes(evdi_gem_vmap(grab.fb, gem[grab.fb])) :
             /\ gem' = [gem EXCEPT ![grab.fb] = r.object]
             /\ grab' = [grab EXCEPT !.pc = IF r.ok THEN "copy" ELSE "end"]
      BY <1>5 DEF GrabMaps
    <2>3. grab.fb \in Fbs /\ grab.fb \in Objects
      BY <1>0, <2>1, FbsAreObjects DEF TypeOK, GrabHasFb, Grabs, Maybe
    <2>4. gem[grab.fb].references > 0
      BY <2>3, HeldIsAlive DEF HeldFb, HeldObject
    <2>5. /\ Passes(fbrefs, gem, fbrefs', gem') /\ (r.ok => r.object.vmapping)
      BY <2>1, <2>2, <2>3, <2>4, MapPasses
    <2>6. FbInv'
      BY <1>1, <1>2, <2>1 DEF GrabKept, BufInv, FbInv, FbHolders
    <2>7. \A o \in Objects : Kept(o)
      BY <1>1, <1>2, <2>5, SameOpenings, PassesKeep
    <2>8. gem' = [o \in Objects |-> gem'[o]] /\ fbrefs' \in [Fbs -> Int]
      BY <2>5 DEF Passes
    <2>9. UseInv'
      BY <1>1, <2>1 DEF BufInv, UseInv, GrabKept
    <2>10. grab'.pc \in {"copy", "paint"} => gem'[grab'.fb].vmapping
      <3>1. grab'.fb = grab.fb /\ (grab'.pc \in {"copy", "paint"} => r.ok)
        BY <1>0, <2>2 DEF Grabs
      <3>2. gem'[grab.fb] = r.object
        BY <2>2, <2>3 DEF BufInv, BufferTypes
      <3> QED BY <2>5, <3>1, <3>2
    <2> QED BY <1>0, <1>1, <2>6, <2>7, <2>8, <2>9, <2>10, BuffersKept DEF BufInv
  <1>6. CASE GrabEnds
    <2>1. grab.pc = "end" /\ drm_framebuffer_put(grab.fb) /\ grab' = NoGrab
      BY <1>6 DEF GrabEnds
    <2>2. grab.fb \in Fbs /\ grab.fb \in Maybe(Fbs) /\ fbrefs[grab.fb] > 0
      BY <1>0, <2>1, HeldIsAlive DEF TypeOK, GrabHasFb, Grabs, Maybe, HeldFb
    <2>3. /\ Passes(fbrefs, gem, fbrefs', gem')
          /\ \A g \in Fbs : fbrefs'[g] = fbrefs[g] - Holds(grab.fb, g)
      BY <2>1, <2>2, DropFb DEF BufInv
    <2>4. FbInv'
      <3>1. ASSUME NEW g \in Fbs PROVE fbrefs'[g] = FbHolders(g)'
        <4>1. /\ fbrefs[g] = FbHolders(g) /\ Holds(OldFb, g)' = Holds(OldFb, g)
              /\ Holds(grab.fb, g)' = 0
          BY <1>2, <2>1, NoGrabTypes, FbsAreObjects DEF BufInv, FbInv, Holds
        <4> QED BY <1>1, <2>3, <4>1 DEF FbHolders, Holds
      <3> QED BY <3>1 DEF FbInv
    <2>5. \A o \in Objects : Kept(o)
      BY <1>1, <1>2, <2>3, SameOpenings, PassesKeep
    <2>6. gem' = [o \in Objects |-> gem'[o]] /\ fbrefs' \in [Fbs -> Int]
      BY <2>3 DEF Passes
    <2>7. UseInv'
      BY <1>1, <2>1, NoGrabTypes DEF BufInv, UseInv
    <2> QED BY <1>0, <1>1, <2>1, <2>4, <2>5, <2>6, <2>7, NoGrabTypes, BuffersKept DEF BufInv
  <1> QED BY <1>3, <1>4, <1>5, <1>6

(* What user space does with its handles.  One object changes, and those who
   opened it.                                                               *)
LEMMA BufObject ==
    ASSUME TypeOK, TypeOK', BufInv, BufferUnchanged, UNCHANGED fbrefs, NEW c \in Objects,
           \A g \in Fbs : <<g, "id">> \in handles' <=> <<g, "id">> \in handles,
           \A o \in Objects \ {c} : gem'[o] = gem[o] /\ Openers(o)' = Openers(o),
           gem' = [o \in Objects |-> gem'[o]], Kept(c)
    PROVE  BufInv'
  <1>1. UNCHANGED <<plane, scanout_fb, cursor, cursorPlane, commit, grab>>
    BY DEF BufferUnchanged, painterVars, cursorVars
  <1>2. OldFb' = OldFb /\ UseInv'
    BY <1>1 DEF OldFb, BufInv, UseInv
  <1>3. FbInv'
    BY <1>1, <1>2 DEF BufInv, FbInv, FbHolders, Holds
  <1>4. ASSUME NEW o \in Objects PROVE Kept(o)
    <2>1. Alive(o, gem[o], Openings(o) + Live(fbrefs, o))
      BY DEF BufInv, GemInv
    <2>2. CASE o # c
      <3>1. gem'[o] = gem[o] /\ Openings(o)' = Openings(o) /\ Live(fbrefs', o) = Live(fbrefs, o)
        BY <1>1, <2>2 DEF Openings, Live, Planes, OldPicture
      <3> QED BY <2>1, <3>1 DEF Kept
    <2> QED BY <2>2
  <1>5. fbrefs' \in [Fbs -> Int]
    BY DEF BufInv, BufferTypes
  <1> QED BY <1>1, <1>2, <1>3, <1>4, <1>5, BuffersKept DEF BufInv

(* An object loses one who opened it.                                       *)
LEMMA CloseKeeps ==
    ASSUME TypeOK, BufInv, NEW o \in Objects, NEW x \in Files \cup {"compositor"},
           <<o, x>> \in handles, UNCHANGED <<fbrefs, cursor>>, SamePlanes,
           Openers(o)' = Openers(o) \ {x}, gem'[o] = drm_gem_object_put(o, gem[o])
    PROVE  Kept(o)
  <1>1. x \in Openers(o)
    BY DEF Openers
  <1>2. IsFiniteSet(Openers(o)) /\ Cardinality(Openers(o)) \in Nat /\ Openings(o)' \in Nat
    BY Opened
  <1>3. Cardinality(Openers(o)') = Cardinality(Openers(o)) - 1
    BY <1>1, <1>2, FS_RemoveElement
  <1>4. Openings(o) = Openings(o)' + 1
    <2>1. Holds(cursor.object, o) \in Nat /\ Planes(o) \in Nat /\ Planes(o)' = Planes(o)
      BY Opened DEF Holds, Planes, SamePlanes
    <2> QED BY <1>2, <1>3, <2>1 DEF Openings
  <1> DEFINE k == Live(fbrefs, o)
             n == Openings(o)'
  <1>5. k \in Nat /\ Live(fbrefs', o) = k /\ n \in Nat
    BY <1>2 DEF Live
  <1>6. Alive(o, gem[o], Openings(o) + k)
    BY DEF BufInv, GemInv
  <1> HIDE DEF k, n
  <1>7. Openings(o) + k = (n + k) + 1 /\ n + k \in Nat
    BY <1>4, <1>5 DEF n
  <1>8. Alive(o, gem'[o], n + k) /\ (n + k > 0 => gem'[o].vmapping = gem[o].vmapping)
    BY <1>6, <1>7, PutAlive
  <1> QED BY <1>5, <1>7, <1>8 DEF Kept, n

LEMMA BufHandle ==
    ASSUME TypeOK, BufInv, NEW o \in Objects,
           MapDumb(o) \/ PrimeExport(o) \/ PrimeRelease(o) \/ CloseHandle(o)
    PROVE  BufInv'
  <1> DEFINE b == gem[o]
             n == Openings(o) + Live(fbrefs, o)
  <1>0. TypeOK'
    BY HandleTypes
  <1>1. BufferUnchanged /\ UNCHANGED fbrefs /\ gem \in [Objects -> Gems] /\ cursor' = cursor
        /\ SamePlanes
    BY DEF MapDumb, PrimeExport, PrimeRelease, CloseHandle, BufferUnchanged, cursorVars, BufInv,
       BufferTypes, SamePlanes, OldPicture
  <1>2. Alive(o, b, n) /\ b \in Gems /\ Sound(o, b) /\ n \in Nat
    BY Opened DEF BufInv, GemInv, Alive, Live
  <1>3. Live(fbrefs', o) = Live(fbrefs, o)
    BY <1>1
  <1>4. ASSUME UNCHANGED handles
        PROVE  /\ \A g \in Fbs : <<g, "id">> \in handles' <=> <<g, "id">> \in handles
               /\ \A p \in Objects : Openers(p)' = Openers(p)
               /\ Openings(o)' + Live(fbrefs', o) = n
    BY <1>1, <1>3, <1>4 DEF Openers, Openings, Planes, SamePlanes
  <1>5. CASE MapDumb(o)
    <2>1. PICK r \in evdi_gem_mmap(o, b) : gem' = [gem EXCEPT ![o] = r.object]
      BY <1>5 DEF MapDumb
    <2>2. UNCHANGED handles /\ <<o, "compositor">> \in handles
      BY <1>5 DEF MapDumb
    <2>3. b.references > 0
      BY <2>2, HeldIsAlive DEF HeldObject
    <2>4. PICK c \in Gems : /\ r.object = c /\ Sound(o, c) /\ c.references = b.references
                            /\ c.exported = b.exported /\ c.vmapping = b.vmapping
      BY <1>2, <2>1, <2>3, MmapObject
    <2>5. gem' = [gem EXCEPT ![o] = c] /\ gem'[o] = c
      BY <1>1, <2>1, <2>4
    <2>6. Kept(o)
      BY <1>2, <1>4, <2>2, <2>4, <2>5 DEF Kept, Alive
    <2>7. gem' = [p \in Objects |-> gem'[p]] /\ \A p \in Objects \ {o} : gem'[p] = gem[p]
      BY <1>1, <2>5
    <2> QED BY <1>0, <1>1, <1>4, <2>2, <2>6, <2>7, BufObject
  <1>6. CASE PrimeExport(o)
    <2>1. PICK r \in evdi_prime_pin(o, b) :
             gem' = [gem EXCEPT ![o] = IF r.ok THEN drm_gem_object_get(r.object) ELSE r.object]
      BY <1>6 DEF PrimeExport
    <2>2. UNCHANGED handles /\ <<o, "compositor">> \in handles
      BY <1>6 DEF PrimeExport
    <2>3. b.references > 0
      BY <2>2, HeldIsAlive DEF HeldObject
    <2>4. Kept(o)
      <3>1. CASE r = Failed(b)
        <4>1. gem'[o] = b
          BY <1>1, <2>1, <3>1 DEF Failed
        <4> QED BY <1>2, <1>4, <2>2, <4>1 DEF Kept
      <3>2. ASSUME NEW c \in Gems, r = Done(c), Sound(o, c), c.references = b.references,
                   c.exported = b.exported + 1, c.vmapping = b.vmapping
            PROVE  Kept(o)
        <4> DEFINE d == drm_gem_object_get(c)
        <4>1. gem'[o] = d
          BY <1>1, <2>1, <3>2 DEF Done
        <4>2. /\ d \in Gems /\ Sound(o, d) /\ d.references = c.references + 1
              /\ d.vmapping = c.vmapping /\ d.exported = c.exported
          BY <2>3, <3>2, GetObject
        <4> HIDE DEF d, n
        <4>3. b.references \in Int /\ b.exported \in Int /\ b.references >= n + b.exported
          BY <1>2, GemFields DEF Alive
        <4>4. Alive(o, d, n)
          BY <1>2, <3>2, <4>2, <4>3 DEF Alive
        <4> QED BY <1>4, <2>2, <3>2, <4>1, <4>2, <4>4 DEF Kept
      <3> QED BY <1>2, <2>1, <2>3, <3>1, <3>2, ExportObject
    <2>5. gem' = [p \in Objects |-> gem'[p]] /\ \A p \in Objects \ {o} : gem'[p] = gem[p]
      BY <1>1, <2>1
    <2> QED BY <1>0, <1>1, <1>4, <2>2, <2>4, <2>5, BufObject
  <1>7. CASE PrimeRelease(o)
    <2> DEFINE c == evdi_prime_unpin(b)
               d == drm_gem_object_put(o, c)
    <2>1. /\ gem' = [gem EXCEPT ![o] = d] /\ UNCHANGED handles /\ b.exported > 0
      BY <1>7 DEF PrimeRelease
    <2>2. b.references > 0
      BY <2>1, HeldIsAlive DEF HeldObject
    <2>3. /\ c \in Gems /\ Sound(o, c) /\ c.references = b.references
          /\ c.exported = b.exported - 1 /\ c.vmapping = b.vmapping
      BY <1>2, <2>1, <2>2, UnexportObject
    <2>4. b.references \in Int /\ b.exported \in Int /\ b.references >= n + b.exported
      BY <1>2, GemFields DEF Alive
    <2> HIDE DEF c, n
    <2>5. Alive(o, c, n + 1)
      BY <1>2, <2>3, <2>4 DEF Alive
    <2>6. Alive(o, d, n) /\ (n > 0 => d.vmapping = c.vmapping)
      BY <1>2, <2>5, PutAlive
    <2> HIDE DEF d
    <2>7. gem'[o] = d
      BY <1>1, <2>1
    <2>8. Kept(o)
      BY <1>4, <2>1, <2>3, <2>6, <2>7 DEF Kept
    <2>9. gem' = [p \in Objects |-> gem'[p]] /\ \A p \in Objects \ {o} : gem'[p] = gem[p]
      BY <1>1, <2>1
    <2> QED BY <1>0, <1>1, <1>4, <2>1, <2>8, <2>9, BufObject
  <1>8. CASE CloseHandle(o)
    <2>1. /\ <<o, "compositor">> \in handles /\ handles' = handles \ {<<o, "compositor">>}
          /\ gem' = [gem EXCEPT ![o] = drm_gem_object_put(o, @)]
      BY <1>8 DEF CloseHandle
    <2>2. /\ \A g \in Fbs : <<g, "id">> \in handles' <=> <<g, "id">> \in handles
          /\ Openers(o)' = Openers(o) \ {"compositor"}
          /\ \A p \in Objects \ {o} : Openers(p)' = Openers(p)
      BY <2>1, FbsAreObjects DEF Openers
    <2>3. gem'[o] = drm_gem_object_put(o, gem[o])
      BY <1>1, <2>1
    <2>4. Kept(o)
      BY <1>1, <2>1, <2>2, <2>3, CloseKeeps
    <2>5. gem' = [p \in Objects |-> gem'[p]] /\ \A p \in Objects \ {o} : gem'[p] = gem[p]
      BY <1>1, <2>1
    <2> QED BY <1>0, <1>1, <2>2, <2>4, <2>5, BufObject
  <1> QED BY <1>5, <1>6, <1>7, <1>8

LEMMA BufRemove ==
    ASSUME TypeOK, BufInv, NEW f \in Fbs, RemoveFb(f)
    PROVE  BufInv'
  <1>0. TypeOK'
    BY HandleTypes
  <1>1. /\ drm_framebuffer_put(f) /\ handles' = handles \ {<<f, "id">>} /\ <<f, "id">> \in handles
        /\ UNCHANGED <<plane, scanout_fb, cursor, cursorPlane, commit, grab>>
    BY DEF RemoveFb, BufferUnchanged, painterVars, cursorVars
  <1>2. f \in Maybe(Fbs) /\ fbrefs[f] > 0
    BY <1>1, HeldIsAlive DEF HeldFb, Maybe
  <1>3. /\ Passes(fbrefs, gem, fbrefs', gem')
        /\ \A g \in Fbs : fbrefs'[g] = fbrefs[g] - Holds(f, g)
    BY <1>1, <1>2, DropFb DEF BufInv
  <1>4. OldFb' = OldFb /\ UseInv' /\ SamePlanes
    BY <1>1 DEF OldFb, SamePlanes, OldPicture, BufInv, UseInv
  <1>5. FbInv'
    <2>1. ASSUME NEW g \in Fbs PROVE fbrefs'[g] = FbHolders(g)'
      <3>1. /\ fbrefs[g] = FbHolders(g) /\ Holds(OldFb, g)' = Holds(OldFb, g)
            /\ <<g, "id">> \in handles' <=> (<<g, "id">> \in handles /\ f # g)
        BY <1>1, <1>4 DEF BufInv, FbInv, Holds
      <3>2. f = g => <<g, "id">> \in handles
        BY <1>1
      <3> QED BY <1>1, <1>3, <3>1, <3>2 DEF FbHolders, Holds
    <2> QED BY <2>1 DEF FbInv
  <1>6. \A o \in Objects : Kept(o)
    BY <1>1, <1>3, <1>4, SameOpenings, PassesKeep
  <1>7. gem' = [o \in Objects |-> gem'[o]] /\ fbrefs' \in [Fbs -> Int]
    BY <1>3 DEF Passes
  <1> QED BY <1>0, <1>1, <1>4, <1>5, <1>6, <1>7, BuffersKept DEF BufInv

LEMMA BufClose ==
    ASSUME TypeOK, BufInv, NEW f \in Files, CloseFile(f)
    PROVE  BufInv'
  <1>0. TypeOK'
    BY ClientTypes
  <1>1. /\ handles' = handles \ (Objects \X {f})
        /\ gem' = [o \in Objects |-> IF <<o, f>> \in handles THEN drm_gem_object_put(o, gem[o])
                                                             ELSE gem[o]]
        /\ UNCHANGED <<fbrefs, plane, scanout_fb, cursor, cursorPlane, commit, grab>>
    BY DEF CloseFile, BufferUnchanged, painterVars, cursorVars
  <1>2. OldFb' = OldFb /\ UseInv' /\ SamePlanes
    BY <1>1 DEF OldFb, SamePlanes, OldPicture, BufInv, UseInv
  <1>3. FbInv'
    <2>1. \A g \in Fbs : <<g, "id">> \in handles' <=> <<g, "id">> \in handles
      BY <1>1, FbsAreObjects
    <2> QED BY <1>1, <1>2, <2>1 DEF BufInv, FbInv, FbHolders, Holds
  <1>4. ASSUME NEW o \in Objects PROVE Kept(o)
    <2>1. Openers(o)' = Openers(o) \ {f}
      BY <1>1 DEF Openers
    <2>2. CASE <<o, f>> \in handles
      <3>1. gem'[o] = drm_gem_object_put(o, gem[o])
        BY <1>1, <2>2
      <3> QED BY <1>1, <1>2, <2>1, <2>2, <3>1, CloseKeeps
    <2>3. CASE <<o, f>> \notin handles
      <3>1. gem'[o] = gem[o]
        BY <1>1, <2>3
      <3>2. Openers(o)' = Openers(o)
        BY <2>1, <2>3 DEF Openers
      <3>3. Openings(o)' = Openings(o) /\ Live(fbrefs', o) = Live(fbrefs, o)
        BY <1>1, <1>2, <3>2 DEF Openings, Planes, SamePlanes
      <3> QED BY <3>1, <3>3 DEF BufInv, GemInv, Kept
    <2> QED BY <2>2, <2>3
  <1>5. gem' = [o \in Objects |-> gem'[o]] /\ fbrefs' \in [Fbs -> Int]
    BY <1>1 DEF BufInv, BufferTypes
  <1> QED BY <1>0, <1>1, <1>2, <1>3, <1>4, <1>5, BuffersKept DEF BufInv

LEMMA BufStep ==
    ASSUME TypeOK, BufInv, [Next]_vars
    PROVE  BufInv'
  <1>0. TypeOK'
    BY NextTypes
  <1>1. CASE CommitStep
    BY <1>0, <1>1, BufShow, BufEnd, BufNotify, BufAnnounce, BufSection
       DEF CommitStep, CursorSection
  <1>2. CASE Quiet
    <2>1. UNCHANGED <<scanout_fb, plane, cursor, cursorPlane, commit, grab>>
      BY <1>2, QuietSteps
    <2>2. OldFb' = OldFb /\ UseInv' /\ SamePlanes
      BY <2>1 DEF OldFb, SamePlanes, OldPicture, BufInv, UseInv
    <2>3. CASE UNCHANGED <<handles, fbrefs, gem>>
      BY <1>0, <2>1, <2>2, <2>3, NoBufferStep
    <2>4. CASE \/ evdi_painter_enable_cursor_events_ioctl \/ evdi_painter_vt_notifier_call
               \/ evdi_painter_force_full_modeset \/ VtSends \/ evdi_send_events_work
      BY <2>3, <2>4 DEF evdi_painter_enable_cursor_events_ioctl, evdi_painter_vt_notifier_call,
         evdi_painter_force_full_modeset, VtSends, evdi_send_events_work, planeVars, bufferVars
    <2>5. CASE \/ evdi_painter_i2c_data_notify \/ evdi_painter_ddcci_data \/ DdcSends
               \/ \E m \in 1 .. 2 : evdi_painter_ddcci_response_ioctl(m)
      <3>1. DdcUnchanged
        BY <2>5 DEF evdi_painter_i2c_data_notify, evdi_painter_ddcci_data, DdcSends,
           evdi_painter_ddcci_response_ioctl
      <3> QED BY <2>3, <3>1 DEF DdcUnchanged, planeVars, bufferVars
    <2>6. CASE \E f \in Files : evdi_painter_connect(f) \/ ClientReads(f)
      BY <2>3, <2>6 DEF evdi_painter_connect, ClientReads, planeVars, bufferVars
    <2>7. CASE UNCHANGED vars
      BY <2>3, <2>7 DEF vars, planeVars, bufferVars
    <2> QED BY <1>2, <2>4, <2>5, <2>6, <2>7, BufHandle, BufRemove, BufClose DEF Quiet
  <1> QED BY <1>1, <1>2, NextCases, BufBegin, BufCursor, BufTake, BufGrab, BufLeave

LEMMA AlwaysBuffers == Spec => []BufInv
  <1>1. Init => BufInv
    <2> SUFFICES ASSUME Init PROVE BufInv
      OBVIOUS
    <2>0. /\ plane = None /\ cursorPlane = None /\ scanout_fb = None /\ grab = NoGrab /\ commit = NoCommit
          /\ cursor = NoCursor /\ fbrefs = [f \in Fbs |-> 1]
          /\ handles = (Objects \X {"compositor"}) \cup (Fbs \X {"id"})
          /\ gem = [o \in Objects |-> IF o \in Fbs THEN drm_gem_object_get(evdi_gem_alloc_object(o))
                                                   ELSE evdi_gem_alloc_object(o)]
      BY DEF Init
    <2>1. UseInv /\ OldFb = None /\ OldPicture = None /\ grab.pc = "idle" /\ grab.fb = None /\ cursor.object = None
      BY <2>0, NoCommitTypes, NoGrabTypes DEF UseInv, OldFb, OldPicture, NoCursor
    <2>2. FbInv
      <3>1. ASSUME NEW f \in Fbs PROVE fbrefs[f] = FbHolders(f)
        <4>1. <<f, "id">> \in handles /\ f # None
          BY <2>0, FbsAreObjects
        <4> QED BY <2>0, <2>1, <4>1 DEF FbHolders, Holds
      <3> QED BY <3>1 DEF FbInv
    <2>3. ASSUME NEW o \in Objects PROVE Alive(o, gem[o], Openings(o) + Live(fbrefs, o))
      <3> DEFINE b == evdi_gem_alloc_object(o)
      <3>1. b \in Gems /\ Sound(o, b) /\ b.references = 1 /\ b.exported = 0
        BY DEF evdi_gem_alloc_object, Gems, Sound, Pins, IsImported
      <3>2. Openings(o) = 1
        <4>1. Openers(o) = {"compositor"}
          BY <2>0, FbsAreObjects DEF Openers
        <4>2. Cardinality(Openers(o)) = 1
          BY <4>1, FS_Singleton
        <4>3. Holds(cursor.object, o) = 0 /\ Planes(o) = 0
          BY <2>0, <2>1, FbsAreObjects DEF Holds, Planes
        <4> QED BY <4>2, <4>3 DEF Openings
      <3> HIDE DEF b
      <3>3. Alive(o, b, 1)
        BY <3>1 DEF Alive
      <3>4. CASE o \in Fbs
        <4>1. gem[o] = drm_gem_object_get(b) /\ Live(fbrefs, o) = 1
          BY <2>0, <3>4 DEF Live, b
        <4> QED BY <3>1, <3>2, <3>3, <4>1, GetAlive
      <3>5. CASE o \notin Fbs
        <4>1. gem[o] = b /\ Live(fbrefs, o) = 0
          BY <2>0, <3>5 DEF Live, b
        <4> QED BY <3>2, <3>3, <4>1
      <3> QED BY <3>4, <3>5
    <2>4. BufferTypes
      <3>1. \A o \in Objects : gem[o] \in Gems
        BY <2>3 DEF Alive
      <3> QED BY <2>0, <3>1 DEF BufferTypes
    <2> QED BY <2>1, <2>2, <2>3, <2>4 DEF BufInv, GemInv
  <1>2. TypeOK /\ BufInv /\ [Next]_vars => BufInv'
    BY BufStep
  <1> QED BY <1>1, <1>2, PainterTypeCorrect, PTL DEF Spec

(* evdi_framebuffer, the cursor, the handles and the importers count their
   references so that no buffer goes while somebody uses it: the framebuffer
   the painter shows, the one a grab copies and the picture of the cursor are
   alive, what is copied is mapped, and what is mapped has its pages; for any
   number of framebuffers, files and cursors and any failure of a mapping.  *)
THEOREM BuffersOutlive == Spec => []BuffersOutliveUsers
  <1>1. TypeOK /\ BufInv => BuffersOutliveUsers
    <2> SUFFICES ASSUME TypeOK, BufInv PROVE BuffersOutliveUsers
      OBVIOUS
    <2>1. ASSUME NEW f \in {scanout_fb, grab.fb, plane} \ {None}
          PROVE  fbrefs[f] > 0 /\ gem[f].references > 0
      <3>1. f \in Fbs /\ HeldFb(f)
        BY DEF TypeOK, PainterTypes, PlaneTypes, Grabs, Maybe, HeldFb
      <3>2. fbrefs[f] > 0 /\ f \in Objects
        BY <3>1, HeldIsAlive, FbsAreObjects
      <3> QED BY <3>1, <3>2, HeldIsAlive DEF HeldObject
    <2>2. cursor.object # None => gem[cursor.object].references > 0
      BY HeldIsAlive DEF TypeOK, CursorTypes, CursorStates, Maybe, HeldObject
    <2>3. ASSUME NEW o \in Objects, gem[o].references > 0,
                 \/ gem[o].maps > 0 /\ ~evdi_drm_gem_object_use_import_attach(o)
                 \/ gem[o].mmapped > 0 \/ gem[o].exported > 0
          PROVE  gem[o].pages
      <3> DEFINE b == gem[o]
      <3>1. b \in Gems /\ Sound(o, b)
        BY DEF BufInv, GemInv, Alive
      <3>2. /\ b.maps \in Int /\ b.mmapped \in Int /\ b.exported \in Int /\ b.pages_pin_count \in Int
            /\ b.mmapped >= 0 /\ b.exported >= 0 /\ b.maps >= 0
            /\ b.pages_pin_count >= Pins(o, b) /\ (b.pages_pin_count > 0 => b.pages)
        BY <2>3, <3>1, GemFields DEF Sound
      <3>3. Pins(o, b) > 0
        BY <2>3, <3>2 DEF Pins, evdi_drm_gem_object_use_import_attach
      <3>4. Pins(o, b) \in Int
        BY <3>2 DEF Pins
      <3> QED BY <3>2, <3>3, <3>4
    <2> QED BY <2>1, <2>2, <2>3 DEF BuffersOutliveUsers, BufInv
  <1> QED BY <1>1, AlwaysBuffers, PainterTypeCorrect, PTL

-----------------------------------------------------------------------------
(* The trail of the cursor.                                                 *)

(* What a cursor covers, and the rectangle that is marked for it.           *)
DrawnBy(c) ==
    IF ~c.enabled \/ c.object = None THEN {}
    ELSE Pixels(Rect(c.x, c.y, c.x + 2 * (Size[c.object].w \div 2),
                               c.y + 2 * (Size[c.object].h \div 2)))
CursorRect(c, o) ==
    evdi_cursor_atomic_get_rect(c.x, c.y, IF o = None THEN [w |-> 0, h |-> 0] ELSE Size[o])

(* Why a pixel may still show the cursor in the buffer of the client: it is
   under it, a grab is on its way to copy it, or it is damaged, or will be
   before the commit ends.  Between evdi_cursor_move and evdi_cursor_set it
   is the picture before that is at the new place, so being under it excuses
   nothing: the commit damages the place it had and the one it gets.        *)
Sections == {"picture", "enable", "events"}
Dirty(p) == \E i \in 1 .. Len(dirty_rects) : p \in Pixels(dirty_rects[i])
Grabbed(p) ==
    grab.pc \in {"map", "copy"} /\ \E i \in 1 .. Len(grab.rects) : p \in Pixels(grab.rects[i])
Ahead(p) ==
    \/ commit.pc = "damage" /\ \E i \in 1 .. Len(commit.damage) : p \in Pixels(commit.damage[i])
    \/ /\ commit.pc \in Sections \cup {"oldrect", "newrect"} /\ commit.fb # None
       /\ \/ commit.fb \notin RectUpdates
          \/ p \in Pixels(CursorRect(cursor, commit.fb))
          \/ commit.pc # "newrect" /\ p \in Pixels(CursorRect(commit.cursor, commit.old))
Excused(p) ==
    \/ commit.pc # "picture" /\ p \in DrawnBy(cursor)
    \/ Dirty(p) \/ Grabbed(p) \/ Ahead(p)

(* The painter shows the framebuffer of the plane, until a commit is at work
   that has not shown its own; one that shows another size damages all of it. *)
Unshown == commit.pc \in {"plane", "scanout"} \/ (commit.pc = "send" /\ commit.then = "scanout")
ScanoutInv ==
    IF Unshown
    THEN /\ scanout_fb # None /\ commit.old # None => scanout_fb = commit.old
         /\ commit.fb # None /\ (commit.old = None \/ Size[commit.old] # Size[commit.fb])
            => commit.damage = <<FullRect(Size[commit.fb])>>
    ELSE scanout_fb # None /\ plane # None => scanout_fb = plane

(* The pixels of the cursor in the buffer of the client, on a framebuffer.  *)
TrailInv ==
    ~spoiled =>
        /\ cursor_events_enabled => painted = {} /\ grab.pc # "paint"
        /\ scanout_fb = None => painted = {} /\ grab.pc \in {"idle", "granted"}
        /\ scanout_fb # None =>
              \A p \in painted : p \in Pixels(FullRect(Size[scanout_fb])) => Excused(p)

(* The cursor shows the picture of its plane, or none, but while a commit has
   given the plane another and not yet the cursor.                          *)
PictureInv ==
    \/ commit.pc = "picture" \/ (commit.pc = "enable" /\ commit.fb = None)
    \/ cursor.object \in {None, cursorPlane}

CursorInv == PictureInv /\ ScanoutInv /\ TrailInv

(* The rectangle of a cursor contains what it covers of a framebuffer: its
   far corner, kept in 16 bits, overflows only where it covers nothing.     *)
LEMMA CursorRectCovers ==
    ASSUME NEW f \in Fbs, NEW c \in CursorStates,
           NEW p \in DrawnBy(c), p \in Pixels(FullRect(Size[f]))
    PROVE  p \in Pixels(CursorRect(c, c.object))
  <1> DEFINE s == Size[c.object]
             full == FullRect(Size[f])
             drawn == Rect(c.x, c.y, c.x + 2 * (s.w \div 2), c.y + 2 * (s.h \div 2))
             r == CursorRect(c, c.object)
  <1>1. c.object # None /\ c.object \in Objects /\ f \in Objects /\ p \in Pixels(drawn)
    BY FbsAreObjects DEF DrawnBy, CursorStates, Maybe
  <1>2. s \in [w : Nat, h : Nat] /\ Size[f] \in [w : Nat, h : Nat] /\ full \in Rects
    BY <1>1, RectTypes
  <1>3. PICK a, b \in Int : a = c.x /\ b = c.y
    BY DEF CursorStates
  <1>4. PICK w, h \in Nat : w = s.w /\ h = s.h
    BY <1>2
  <1>5. PICK m, n \in Nat : m = Size[f].w /\ n = Size[f].h
    BY <1>2
  <1>6. m + w <= 65536 /\ n + h <= 65536
    <2>1. m <= 7680 /\ w <= 7680 /\ n <= 4320 /\ h <= 4320
      BY <1>1, <1>4, <1>5, SizesAssumption DEF max_width, max_height
    <2> QED BY <2>1
  <1>7. /\ 2 * (w \div 2) \in Nat /\ 2 * (w \div 2) <= w
        /\ 2 * (h \div 2) \in Nat /\ 2 * (h \div 2) <= h
    OBVIOUS
  <1>8. drawn = Rect(a, b, a + 2 * (w \div 2), b + 2 * (h \div 2)) /\ drawn \in Rects
    BY <1>3, <1>4, <1>7 DEF Rect, Rects
  <1>9. r = Rect(Greater(a, 0), Greater(b, 0), U16(a + w), U16(b + h)) /\ r \in Rects
    BY <1>1, <1>2, <1>3, <1>4, RectTypes DEF CursorRect, evdi_cursor_atomic_get_rect
  <1>10. full = Rect(0, 0, m, n)
    BY <1>5 DEF FullRect
  <1> HIDE DEF s, full, drawn, r
  <1>11. /\ drawn.x1 = a /\ drawn.y1 = b /\ drawn.x2 <= a + w /\ drawn.y2 <= b + h
         /\ drawn.x2 \in Int /\ drawn.y2 \in Int
    BY <1>7, <1>8 DEF Rect
  <1>12. full.x1 = 0 /\ full.y1 = 0 /\ full.x2 = m /\ full.y2 = n
    BY <1>10 DEF Rect
  <1>13. p \in Points
    BY <1>1, <1>8, PixelIn
  <1>14. PICK x, y \in Int : x = p[1] /\ y = p[2]
    BY <1>13 DEF Points
  <1>15. a <= x /\ x < a + w /\ b <= y /\ y < b + h
    BY <1>1, <1>8, <1>11, <1>14, PixelIn
  <1>16. 0 <= x /\ x < m /\ 0 <= y /\ y < n
    BY <1>2, <1>12, <1>14, PixelIn DEF full
  <1>17. U16(a + w) = a + w /\ U16(b + h) = b + h
    <2>1. \A v \in Int : 0 <= v /\ v < 65536 => v % 65536 = v
      OBVIOUS
    <2>2. /\ a + w \in Int /\ 0 <= a + w /\ a + w < 65536
          /\ b + h \in Int /\ 0 <= b + h /\ b + h < 65536
      BY <1>6, <1>15, <1>16
    <2> QED BY <2>1, <2>2 DEF U16
  <1>18. r.x1 = Greater(a, 0) /\ r.y1 = Greater(b, 0) /\ r.x2 = a + w /\ r.y2 = b + h
    BY <1>9, <1>17 DEF Rect
  <1>19. r.x1 <= x /\ x < r.x2 /\ r.y1 <= y /\ y < r.y2
    BY <1>15, <1>16, <1>18 DEF Greater
  <1> QED BY <1>9, <1>13, <1>14, <1>19, PixelIn DEF r

(* What a grab paints is what the cursor covers of the framebuffer.         *)
LEMMA PaintsDrawn ==
    ASSUME BufInv, NEW size
    PROVE  evdi_cursor_compose_and_copy(size) = DrawnBy(cursor) \cap Pixels(FullRect(size))
  BY DEF BufInv, evdi_cursor_compose_and_copy, DrawnBy

(* What is marked is dirty, and what was dirty stays it.                    *)
LEMMA Marks ==
    ASSUME PainterTypes, NEW r \in Rects, evdi_painter_mark_dirty(r), scanout_fb # None, NEW p,
           Dirty(p) \/ (p \in Pixels(r) /\ p \in Pixels(FullRect(Size[scanout_fb])))
    PROVE  Dirty(p)'
  <1>1. Size[scanout_fb] \in [w : Nat, h : Nat]
    <2>1. scanout_fb \in Objects
      BY FbsAreObjects DEF PainterTypes, Maybe
    <2> QED BY <2>1, RectTypes
  <1> DEFINE cut == evdi_framebuffer_sanitize_rect(Size[scanout_fb], r)
             new == AddDirt(dirty_rects, cut)
  <1>2. /\ cut \in Rects
        /\ p \in Pixels(r) /\ p \in Pixels(FullRect(Size[scanout_fb])) => p \in Pixels(cut)
    BY <1>1, Sanitized
  <1>3. dirty_rects' = new /\ dirty_rects \in Seq(Rects)
    BY DEF evdi_painter_mark_dirty, PainterTypes
  <1> HIDE DEF cut
  <1>4. new \in Seq(Rects) /\ Covers(new, dirty_rects) /\ Covers(new, <<cut>>)
    BY <1>2, <1>3, AddCovers
  <1> HIDE DEF new
  <1>5. CASE Dirty(p)
    <2>1. PICK i \in 1 .. Len(dirty_rects) : p \in Pixels(dirty_rects[i])
      BY <1>5 DEF Dirty
    <2> QED BY <1>3, <1>4, <2>1 DEF Covers, Dirty
  <1>6. CASE p \in Pixels(cut)
    <2>1. 1 \in 1 .. Len(<<cut>>) /\ <<cut>>[1] = cut
      OBVIOUS
    <2> QED BY <1>3, <1>4, <1>6, <2>1 DEF Covers, Dirty
  <1> QED BY <1>2, <1>5, <1>6

(* A commit that begins, and one that is sent on its way.                   *)
LEMMA BeginDamage ==
    ASSUME NEW f \in Maybe(Fbs), NEW clips \in Seq(Rects), NEW m \in BOOLEAN,
           BeginCommit(f, clips, m)
    PROVE  /\ commit'.pc = "plane" /\ commit'.fb = f /\ commit'.old = plane
           /\ f # None /\ (plane = None \/ Size[plane] # Size[f])
              => commit'.damage = <<FullRect(Size[f])>>
  <1> DEFINE d == IF f = None THEN <<>>
                  ELSE IF plane = None \/ clips = <<>> \/ Size[plane] # Size[f]
                  THEN <<FullRect(Size[f])>> ELSE clips
  <1>1. commit' = [NoCommit EXCEPT !.pc = "plane", !.fb = f, !.old = plane, !.event = flips + 1,
                                   !.damage = d, !.mode = m]
    BY DEF BeginCommit
  <1>2. f # None /\ (plane = None \/ Size[plane] # Size[f]) => d = <<FullRect(Size[f])>>
    OBVIOUS
  <1> HIDE DEF d
  <1>3. commit'.pc = "plane" /\ commit'.fb = f /\ commit'.old = plane /\ commit'.damage = d
    BY <1>1 DEF NoCommit
  <1> QED BY <1>2, <1>3

LEMMA SameDamage ==
    ASSUME commit \in Commits, (\E q : Goto(q)) \/ (\E e, q : Sending(e, q))
    PROVE  commit'.damage = commit.damage
  <1>1. ASSUME NEW q, Goto(q) PROVE commit'.damage = commit.damage
    BY <1>1 DEF Goto, Commits
  <1>2. ASSUME NEW e, NEW q, Sending(e, q) PROVE commit'.damage = commit.damage
    BY <1>2 DEF Sending, Commits
  <1> QED BY <1>1, <1>2

(* What the step that shows a framebuffer does.                             *)
LEMMA ShowSteps ==
    ASSUME TypeOK, SetScanout
    PROVE  /\ commit.pc = "scanout" /\ SameCommit /\ commit'.damage = commit.damage
           /\ \/ commit.fb = None /\ commit'.pc = "flush" /\ scanout_fb' = scanout_fb
              \/ commit.fb # None /\ commit'.pc = "damage" /\ scanout_fb' = commit.fb
              \/ /\ commit.fb # None /\ commit'.pc = "check" /\ scanout_fb' = scanout_fb
                 /\ commit.fb = commit.old
           /\ UNCHANGED <<plane, dirty_rects, grab, cursor, cursor_events_enabled, painted, spoiled>>
  <1>0. commit \in Commits
    BY DEF TypeOK, CommitTypes
  <1>1. \/ commit.fb = None /\ Goto("flush") /\ scanout_fb' = scanout_fb
        \/ commit.fb # None /\ Goto("damage") /\ scanout_fb' = commit.fb
        \/ /\ commit.fb # None /\ Goto("check") /\ scanout_fb' = scanout_fb
           /\ commit.fb = commit.old
    BY DEF SetScanout, evdi_painter_set_scanout_buffer
  <1>2. /\ commit.pc = "scanout"
        /\ UNCHANGED <<plane, dirty_rects, grab, cursor, cursor_events_enabled, painted, spoiled>>
    BY DEF SetScanout, planeVars, cursorVars, ghostVars, pictureVars
  <1>3. \A q \in CommitPlaces : Goto(q) => commit'.pc = q /\ SameCommit
    BY <1>0, CommitGoes
  <1>4. (\E q : Goto(q)) => commit'.damage = commit.damage
    BY <1>0, SameDamage
  <1> QED BY <1>1, <1>2, <1>3, <1>4 DEF CommitPlaces

(* The steps of a commit that neither show nor mark.                        *)
PlainSteps ==
    \/ CheckDirts \/ evdi_crtc_atomic_flush \/ evdi_painter_mode_changed_notify \/ NotifyDpms
    \/ evdi_painter_set_vblank \/ evdi_painter_send_update_ready_if_needed \/ EndCommit
    \/ SendCursorSet \/ SendCursorMove

PictureSame == UNCHANGED <<scanout_fb, plane, cursorPlane, grab, cursor, cursor_events_enabled,
                           painted, spoiled>>

LEMMA PlainCommit ==
    ASSUME TypeOK, PlainSteps
    PROVE  /\ PictureSame /\ UNCHANGED dirty_rects /\ ~Unshown /\ ~Unshown'
           /\ commit.pc \notin Sections \cup {"damage", "oldrect", "newrect"}
           /\ commit'.pc # "picture"
  <1>0. commit \in Commits /\ CursorTypes /\ PainterTypes
    BY DEF TypeOK, CommitTypes
  <1>1. PictureSame /\ UNCHANGED dirty_rects
    <2>1. CASE CheckDirts
      BY <2>1 DEF CheckDirts, MarkUnchanged, planeVars, cursorVars, pictureVars, PictureSame
    <2>2. CASE \/ evdi_crtc_atomic_flush \/ evdi_painter_mode_changed_notify \/ NotifyDpms
               \/ evdi_painter_set_vblank \/ evdi_painter_send_update_ready_if_needed \/ EndCommit
      BY <2>2 DEF evdi_crtc_atomic_flush, evdi_painter_mode_changed_notify, NotifyDpms,
         evdi_painter_set_vblank, evdi_painter_send_update_ready_if_needed, EndCommit,
         FlushUnchanged, planeVars, cursorVars, pictureVars, PictureSame
    <2>3. CASE SendCursorSet \/ SendCursorMove
      BY <2>3 DEF SendCursorSet, SendCursorMove, painterVars, planeVars, cursorVars, ghostVars,
         pictureVars, PictureSame
    <2> QED BY <2>1, <2>2, <2>3 DEF PlainSteps
  <1>2. commit.pc \in {"check", "flush", "mode", "dpms", "vblank", "ready", "end", "set", "move"}
    BY DEF PlainSteps, CheckDirts, evdi_crtc_atomic_flush, evdi_painter_mode_changed_notify,
       NotifyDpms, evdi_painter_set_vblank, evdi_painter_send_update_ready_if_needed, EndCommit,
       SendCursorSet, SendCursorMove
  <1>3. ~Unshown' /\ commit'.pc # "picture"
    <2>1. ASSUME NEW q \in ThenPlaces \ {"scanout"}, NEW e \in Events, Sending(e, q)
          PROVE  ~Unshown' /\ commit'.pc # "picture"
      BY <1>0, <2>1, CommitMaySend DEF Unshown, ThenPlaces
    <2>2. ASSUME NEW q \in CommitPlaces \ {"plane", "scanout", "send", "picture"}, Goto(q)
          PROVE  ~Unshown' /\ commit'.pc # "picture"
      BY <1>0, <2>2, CommitGoes DEF Unshown
    <2>3. CASE CheckDirts
      BY <2>2, <2>3 DEF CheckDirts, CommitPlaces
    <2>4. CASE evdi_crtc_atomic_flush
      <3>1. commit'.pc = "mode"
        BY <1>0, <2>4 DEF evdi_crtc_atomic_flush, Commits
      <3> QED BY <3>1 DEF Unshown
    <2>5. CASE evdi_painter_mode_changed_notify
      <3>1. scanout_fb \in Maybe(Objects)
        BY <1>0, PainterAssumption DEF PainterTypes, Maybe
      <3> QED BY <2>1, <2>2, <2>5, <3>1, EventsAreEvents
              DEF evdi_painter_mode_changed_notify, CommitPlaces, ThenPlaces
    <2>6. CASE NotifyDpms
      BY <2>1, <2>2, <2>6, EventsAreEvents
      DEF NotifyDpms, evdi_painter_dpms_notify, CommitPlaces, ThenPlaces
    <2>7. CASE evdi_painter_set_vblank
      <3>1. commit'.pc = "ready"
        BY <1>0, <2>7 DEF evdi_painter_set_vblank, Commits
      <3> QED BY <3>1 DEF Unshown
    <2>8. CASE evdi_painter_send_update_ready_if_needed
      BY <2>2, <2>8 DEF evdi_painter_send_update_ready_if_needed, CommitPlaces
    <2>9. CASE EndCommit
      <3>1. commit'.pc = "idle"
        BY <2>9, NoCommitTypes DEF EndCommit
      <3> QED BY <3>1 DEF Unshown
    <2>10. CASE SendCursorSet
      <3>1. cursor.object \in Maybe(Objects)
        BY <1>0 DEF CursorTypes, CursorStates
      <3>2. UNCHANGED commit \/ \E e \in Events : Sending(e, "move")
        BY <2>10, <3>1, EventsAreEvents DEF SendCursorSet
      <3> QED BY <1>2, <2>1, <3>2 DEF Unshown, ThenPlaces
    <2>11. CASE SendCursorMove
      <3>1. <<cursor.x, cursor.y>> \in Points
        BY <1>0 DEF CursorTypes, CursorStates, Points
      <3> QED BY <2>1, <2>2, <2>11, <3>1, EventsAreEvents
              DEF SendCursorMove, CommitPlaces, ThenPlaces
    <2> QED BY <2>3, <2>4, <2>5, <2>6, <2>7, <2>8, <2>9, <2>10, <2>11 DEF PlainSteps
  <1> QED BY <1>1, <1>2, <1>3 DEF Unshown, Sections

(* The steps on the way to the new framebuffer, and those that send.        *)
LEMMA SendSteps ==
    ASSUME TypeOK, evdi_plane_atomic_update \/ CommitSends
    PROVE  /\ PictureSame /\ UNCHANGED dirty_rects /\ SameCommit
           /\ commit'.damage = commit.damage /\ (Unshown <=> Unshown')
           /\ commit.pc \notin Sections \cup {"damage", "oldrect", "newrect"}
           /\ commit'.pc \notin Sections \cup {"damage", "oldrect", "newrect"}
  <1>0. commit \in Commits
    BY DEF TypeOK, CommitTypes
  <1>1. PictureSame /\ UNCHANGED dirty_rects
    BY DEF evdi_plane_atomic_update, CommitSends, painterVars, planeVars, cursorVars, ghostVars,
       pictureVars, PictureSame
  <1>2. CASE evdi_plane_atomic_update
    <2>1. commit.pc = "plane" /\ (Goto("scanout") \/ \E e \in Events : Sending(e, "scanout"))
      BY <1>2, EventsAreEvents DEF evdi_plane_atomic_update, evdi_painter_dpms_notify
    <2>2. SameCommit /\ Unshown' /\ commit'.pc \in {"scanout", "send"}
      BY <1>0, <2>1, CommitGoes, CommitMaySend DEF Unshown, CommitPlaces, ThenPlaces
    <2>3. commit'.damage = commit.damage
      BY <1>0, <2>1, SameDamage
    <2> QED BY <1>1, <2>1, <2>2, <2>3 DEF Unshown, Sections
  <1>3. CASE CommitSends
    <2>1. commit.pc = "send" /\ commit' = [commit EXCEPT !.pc = commit.then, !.send = None]
      BY <1>3 DEF CommitSends
    <2>2. SameCommit /\ commit'.damage = commit.damage /\ commit'.pc = commit.then
      BY <1>0, <2>1 DEF Commits, SameCommit
    <2>3. commit.then \in ThenPlaces
      BY <1>0 DEF Commits
    <2> QED BY <1>1, <2>1, <2>2, <2>3 DEF Unshown, ThenPlaces, Sections
  <1> QED BY <1>2, <1>3

LEMMA MarkedSteps ==
    ASSUME TypeOK, MarkDamage \/ MarkFull \/ MarkOldCursor \/ MarkNewCursor
    PROVE  /\ PictureSame /\ SameCommit /\ ~Unshown /\ ~Unshown'
           /\ commit.pc \in {"damage", "full", "oldrect", "newrect"} /\ commit'.pc # "picture"
           /\ scanout_fb # None => \A p : Dirty(p) => Dirty(p)'
           /\ scanout_fb # None => \A p : p \in Pixels(FullRect(Size[scanout_fb])) /\ Ahead(p)
                                              => Dirty(p)' \/ Ahead(p)'
  <1>0. PainterTypes /\ CommitTypes /\ commit \in Commits /\ CursorTypes
    BY DEF TypeOK, CommitTypes
  <1>1. PictureSame /\ SameCommit
    <2>1. CommitKept /\ MarkUnchanged /\ UNCHANGED cursorVars
      BY MarkSteps
    <2> QED BY <2>1 DEF CommitKept, MarkUnchanged, planeVars, cursorVars, pictureVars, PictureSame
  <1>2. commit.pc \in {"damage", "full", "oldrect", "newrect"}
    BY DEF MarkDamage, MarkFull, MarkOldCursor, MarkNewCursor
  <1>3. commit'.pc \in {"damage", "check", "flush", "newrect"}
    <2>1. CASE MarkDamage
      <3>1. Goto("check") \/ commit' = [commit EXCEPT !.damage = Tail(commit.damage)]
        BY <2>1 DEF MarkDamage
      <3> QED BY <1>0, <2>1, <3>1 DEF MarkDamage, Goto, Commits
    <2>2. CASE MarkFull \/ MarkOldCursor \/ MarkNewCursor
      <3>1. Goto("flush") \/ Goto("newrect")
        BY <2>2 DEF MarkFull, MarkOldCursor, MarkNewCursor
      <3> QED BY <1>0, <3>1 DEF Goto, Commits
    <2> QED BY <2>1, <2>2
  <1>4. ASSUME scanout_fb # None, NEW p,
               Dirty(p) \/ (p \in Pixels(FullRect(Size[scanout_fb])) /\ Ahead(p))
        PROVE  /\ Dirty(p) => Dirty(p)'
               /\ p \in Pixels(FullRect(Size[scanout_fb])) /\ Ahead(p) => Dirty(p)' \/ Ahead(p)'
    <2> DEFINE full == FullRect(Size[scanout_fb])
    <2>1. ASSUME NEW r \in Rects, evdi_painter_mark_dirty(r)
          PROVE  /\ Dirty(p) => Dirty(p)'
                 /\ p \in Pixels(full) /\ p \in Pixels(r) => Dirty(p)'
      BY <1>0, <1>4, <2>1, Marks
    <2>2. CASE MarkDamage
      <3>1. commit.pc = "damage" /\ commit.damage \in Seq(Rects)
        BY <1>0, <2>2 DEF MarkDamage, Commits
      <3>2. CASE commit.damage = <<>>
        <4>1. UNCHANGED dirty_rects /\ ~Ahead(p)
          BY <2>2, <3>1, <3>2 DEF MarkDamage, Ahead, Sections
        <4> QED BY <4>1 DEF Dirty
      <3>3. CASE commit.damage # <<>>
        <4>1. /\ evdi_painter_mark_dirty(Head(commit.damage))
              /\ commit' = [commit EXCEPT !.damage = Tail(commit.damage)]
              /\ Head(commit.damage) \in Rects /\ Head(commit.damage) = commit.damage[1]
          BY <2>2, <3>1, <3>3 DEF MarkDamage
        <4>2. commit'.pc = "damage" /\ commit'.damage = Tail(commit.damage)
          BY <1>0, <3>1, <4>1 DEF Commits
        <4>3. ASSUME p \in Pixels(full), Ahead(p) PROVE Dirty(p)' \/ Ahead(p)'
          <5>1. PICK i \in 1 .. Len(commit.damage) : p \in Pixels(commit.damage[i])
            BY <3>1, <4>3 DEF Ahead, Sections
          <5>2. CASE i = 1
            BY <2>1, <4>1, <4>3, <5>1, <5>2
          <5>3. CASE i # 1
            <6>1. /\ i - 1 \in 1 .. Len(Tail(commit.damage))
                  /\ Tail(commit.damage)[i - 1] = commit.damage[i]
              BY <3>1, <3>3, <5>1, <5>3
            <6> QED BY <4>2, <5>1, <6>1 DEF Ahead
          <5> QED BY <5>2, <5>3
        <4> QED BY <2>1, <4>1, <4>3
      <3> QED BY <3>2, <3>3
    <2>3. CASE MarkFull
      <3>1. /\ commit.pc = "full" /\ commit.fb \in Objects
            /\ evdi_painter_mark_dirty(FullRect(Size[commit.fb]))
        BY <1>0, <2>3 DEF MarkFull, CommitTypes, Commits, Maybe
      <3> QED BY <2>1, <3>1, RectTypes DEF Ahead, Sections
    <2>4. CASE MarkOldCursor
      <3>1. commit.pc = "oldrect" /\ commit'.pc = "newrect" /\ commit.fb # None
        BY <1>0, <2>4, CommitGoes DEF MarkOldCursor, CommitPlaces, CommitTypes
      <3>2. CASE commit.fb \notin RectUpdates
        <4>1. UNCHANGED dirty_rects /\ Ahead(p)'
          BY <1>1, <2>4, <3>1, <3>2 DEF MarkOldCursor, Ahead, SameCommit
        <4> QED BY <4>1 DEF Dirty
      <3>3. CASE commit.fb \in RectUpdates
        <4> DEFINE r == CursorRect(commit.cursor, commit.old)
        <4>1. evdi_painter_mark_dirty(r)
          BY <2>4, <3>3 DEF MarkOldCursor, CursorRect
        <4>2. r \in Rects
          BY <1>0, RectTypes DEF Commits, Maybe, CursorStates, CursorRect
        <4>3. CASE p \in Pixels(r)
          BY <2>1, <4>1, <4>2, <4>3
        <4>4. CASE p \in Pixels(CursorRect(cursor, commit.fb))
          <5>1. commit'.fb = commit.fb /\ UNCHANGED cursor
            BY <1>1 DEF SameCommit, PictureSame
          <5>2. Ahead(p)'
            BY <3>1, <4>4, <5>1 DEF Ahead, CursorRect
          <5> QED BY <2>1, <4>1, <4>2, <5>2
        <4>5. Ahead(p) => p \in Pixels(r) \/ p \in Pixels(CursorRect(cursor, commit.fb))
          BY <3>1, <3>3 DEF Ahead, Sections
        <4> QED BY <2>1, <4>1, <4>2, <4>3, <4>4, <4>5
      <3> QED BY <3>2, <3>3
    <2>5. CASE MarkNewCursor
      <3>1. commit.pc = "newrect" /\ commit.fb \in Objects
        BY <1>0, <2>5 DEF MarkNewCursor, CommitTypes, Commits, Maybe
      <3>2. CASE commit.fb \notin RectUpdates
        <4>1. evdi_painter_mark_dirty(full)
          BY <1>4, <2>5, <3>2 DEF MarkNewCursor
        <4>2. full \in Rects
          BY <1>0, <1>4, RectTypes, FbsAreObjects DEF PainterTypes, Maybe
        <4> QED BY <2>1, <4>1, <4>2
      <3>3. CASE commit.fb \in RectUpdates
        <4> DEFINE r == evdi_cursor_atomic_get_rect(cursor.x, cursor.y, Size[commit.fb])
        <4>1. evdi_painter_mark_dirty(r) /\ (Ahead(p) => p \in Pixels(r))
          <5>1. commit.fb # None
            BY <1>0, <3>1 DEF CommitTypes
          <5> QED BY <2>5, <3>1, <3>3, <5>1 DEF MarkNewCursor, Ahead, CursorRect, Sections
        <4>2. r \in Rects
          BY <1>0, <3>1, RectTypes DEF CursorTypes, CursorStates
        <4> QED BY <2>1, <4>1, <4>2
      <3> QED BY <3>2, <3>3
    <2> QED BY <2>2, <2>3, <2>4, <2>5
  <1> QED BY <1>1, <1>2, <1>3, <1>4 DEF Unshown

(* The grab, the cursor and the client.                                     *)
LEMMA QuietPicture ==
    ASSUME Quiet
    PROVE  \/ UNCHANGED <<cursor_events_enabled, painted, spoiled>>
           \/ spoiled' = TRUE
           \/ /\ painted' = {} /\ spoiled' = (grab.pc # "idle")
              /\ UNCHANGED cursor_events_enabled
  <1>1. CASE evdi_painter_enable_cursor_events_ioctl
    BY <1>1 DEF evdi_painter_enable_cursor_events_ioctl
  <1>2. CASE \/ evdi_painter_vt_notifier_call \/ VtSends \/ evdi_painter_force_full_modeset
             \/ evdi_send_events_work
    BY <1>2 DEF evdi_painter_vt_notifier_call, VtSends, evdi_painter_force_full_modeset,
       evdi_send_events_work, ghostVars, pictureVars, cursorVars
  <1>3. ASSUME NEW o, \/ MapDumb(o) \/ PrimeExport(o) \/ PrimeRelease(o) \/ CloseHandle(o)
                      \/ RemoveFb(o) \/ CloseFile(o)
        PROVE  UNCHANGED <<cursor_events_enabled, painted, spoiled>>
    <2>1. BufferUnchanged
      BY <1>3 DEF MapDumb, PrimeExport, PrimeRelease, CloseHandle, RemoveFb, CloseFile
    <2> QED BY <2>1 DEF BufferUnchanged, ghostVars, pictureVars, cursorVars
  <1>4. CASE \/ evdi_painter_i2c_data_notify \/ DdcSends \/ evdi_painter_ddcci_data
             \/ \E m \in 1 .. 2 : evdi_painter_ddcci_response_ioctl(m)
    <2>1. DdcUnchanged
      BY <1>4 DEF evdi_painter_i2c_data_notify, DdcSends, evdi_painter_ddcci_data,
         evdi_painter_ddcci_response_ioctl
    <2> QED BY <2>1 DEF DdcUnchanged, ghostVars, pictureVars, cursorVars
  <1>5. CASE \E f \in Files : ClientReads(f)
    BY <1>5 DEF ClientReads, pictureVars, cursorVars
  <1>6. CASE \E f \in Files : evdi_painter_connect(f)
    BY <1>6 DEF evdi_painter_connect, cursorVars
  <1>7. CASE UNCHANGED vars
    BY <1>7 DEF vars, ghostVars, pictureVars, cursorVars
  <1> QED BY <1>1, <1>2, <1>3, <1>4, <1>5, <1>6, <1>7 DEF Quiet

(* The framebuffer that is shown.                                           *)
LEMMA ScanoutStep ==
    ASSUME TypeOK, BufInv, ScanoutInv, [Next]_vars
    PROVE  ScanoutInv'
  <1>0. UNCHANGED <<scanout_fb, commit, plane>> => ScanoutInv'
    BY DEF ScanoutInv, Unshown
  <1>1. ASSUME NEW f \in Maybe(Fbs), NEW clips \in Seq(Rects), NEW m \in BOOLEAN,
               BeginCommit(f, clips, m)
        PROVE  ScanoutInv'
    <2>1. commit.pc = "idle" /\ UNCHANGED scanout_fb
      BY <1>1 DEF BeginCommit, painterVars
    <2>2. scanout_fb # None /\ plane # None => scanout_fb = plane
      BY <2>1 DEF ScanoutInv, Unshown
    <2> QED BY <1>1, <2>1, <2>2, BeginDamage DEF ScanoutInv, Unshown
  <1>2. ASSUME NEW o \in Maybe(Objects), NEW x \in Int, NEW y \in Int,
               evdi_cursor_atomic_update(o, x, y)
        PROVE  ScanoutInv'
    <2>1. commit.pc = "idle" /\ commit'.pc \in {"events", "enable", "picture"}
          /\ UNCHANGED <<scanout_fb, plane>>
      BY <1>2, CursorCommitTypes DEF evdi_cursor_atomic_update, painterVars
    <2> QED BY <2>1 DEF ScanoutInv, Unshown
  <1>3. CASE CommitStep
    <2>1. CASE SetScanout
      <3>1. commit.kind = "frame" /\ commit.fb = plane /\ Unshown
        BY <2>1, ShowSteps DEF TypeOK, CommitTypes, BufInv, UseInv, Unshown
      <3> QED BY <2>1, <3>1, ShowSteps DEF ScanoutInv, Unshown
    <2>2. CASE evdi_plane_atomic_update \/ CommitSends
      BY <2>2, SendSteps DEF ScanoutInv, SameCommit, PictureSame
    <2>3. CASE PlainSteps
      BY <2>3, PlainCommit DEF ScanoutInv, PictureSame
    <2>4. CASE MarkDamage \/ MarkFull \/ MarkOldCursor \/ MarkNewCursor
      BY <2>4, MarkedSteps DEF ScanoutInv, PictureSame
    <2>5. CASE CursorSection
      BY <2>5, SectionTypes DEF ScanoutInv, Unshown, CursorUnchanged, painterVars, planeVars
    <2> QED BY <1>3, <2>1, <2>2, <2>3, <2>4, <2>5 DEF CommitStep, PlainSteps, CursorSection
  <1>4. ASSUME NEW size, NEW limit, evdi_painter_grabpix_ioctl(size, limit) PROVE ScanoutInv'
    BY <1>0, <1>4 DEF evdi_painter_grabpix_ioctl, planeVars
  <1>5. CASE evdi_painter_request_update_ioctl
    BY <1>0, <1>5 DEF evdi_painter_request_update_ioctl, planeVars
  <1>6. CASE GrabMaps \/ GrabCopies \/ GrabPaintsCursor \/ GrabEnds
    <2>1. GrabUnchanged
      BY <1>6 DEF GrabMaps, GrabCopies, GrabPaintsCursor, GrabEnds
    <2> QED BY <1>0, <2>1 DEF GrabUnchanged, painterVars, planeVars
  <1>7. ASSUME NEW f, evdi_painter_disconnect(f) PROVE ScanoutInv'
    BY <1>7 DEF evdi_painter_disconnect, ScanoutInv, Unshown
  <1>8. CASE Quiet
    BY <1>0, <1>8, QuietSteps
  <1> QED BY <1>1, <1>2, <1>3, <1>4, <1>5, <1>6, <1>7, <1>8, NextCases

LEMMA PictureStep ==
    ASSUME TypeOK, BufInv, PictureInv, [Next]_vars
    PROVE  PictureInv'
  <1>0. UNCHANGED <<commit, cursor, cursorPlane>> => PictureInv'
    BY DEF PictureInv
  <1>1. ASSUME NEW f, NEW clips, NEW m, BeginCommit(f, clips, m)
        PROVE  PictureInv'
    BY <1>1 DEF BeginCommit, cursorVars, PictureInv
  <1>2. ASSUME NEW o \in Maybe(Objects), NEW x \in Int, NEW y \in Int,
               evdi_cursor_atomic_update(o, x, y)
        PROVE  PictureInv'
    <2>1. /\ commit.pc = "idle" /\ cursorPlane' = o
          /\ cursor' = [cursor EXCEPT !.x = x, !.y = y]
      BY <1>2 DEF evdi_cursor_atomic_update
    <2>2. cursor'.object = cursor.object /\ cursor.object \in {None, cursorPlane}
      BY <2>1 DEF TypeOK, CursorTypes, CursorStates, PictureInv
    <2> QED BY <1>2, <2>1, <2>2, CursorCommitTypes DEF PictureInv
  <1>3. CASE CommitStep
    <2>1. CASE SetScanout
      BY <2>1 DEF SetScanout, planeVars, cursorVars, PictureInv
    <2>2. CASE \/ evdi_plane_atomic_update \/ CommitSends \/ PlainSteps
               \/ MarkDamage \/ MarkFull \/ MarkOldCursor \/ MarkNewCursor
      BY <2>2, SendSteps, PlainCommit, MarkedSteps DEF PictureSame, PictureInv, Sections
    <2>3. CASE evdi_cursor_set
      <3>1. PICK r \in IF gem[commit.fb].vmapping THEN {Done(gem[commit.fb])}
                        ELSE Outcomes(evdi_gem_vmap(commit.fb, gem[commit.fb])) :
                cursor' = [cursor EXCEPT !.enabled = r.ok,
                                         !.object = IF r.ok THEN commit.fb ELSE None]
        BY <2>3 DEF evdi_cursor_set
      <3>2. commit.fb = cursorPlane /\ cursorPlane' = cursorPlane
        BY <2>3 DEF evdi_cursor_set, CursorUnchanged, planeVars, BufInv, UseInv, TypeOK,
           CommitTypes
      <3>3. cursor'.object = IF r.ok THEN commit.fb ELSE None
        BY <3>1 DEF TypeOK, CursorTypes, CursorStates
      <3> QED BY <3>2, <3>3 DEF PictureInv
    <2>4. CASE evdi_cursor_enable
      <3>1. /\ commit.pc = "enable" /\ cursorPlane' = cursorPlane
            /\ cursor' = [cursor EXCEPT !.enabled = commit.fb # None,
                              !.object = IF commit.fb = None THEN None ELSE cursor.object]
        BY <2>4 DEF evdi_cursor_enable, CursorUnchanged, planeVars
      <3>2. cursor'.object = IF commit.fb = None THEN None ELSE cursor.object
        BY <3>1 DEF TypeOK, CursorTypes, CursorStates
      <3> QED BY <3>1, <3>2 DEF PictureInv
    <2>5. CASE CheckCursorEvents
      BY <2>5 DEF CheckCursorEvents, CursorUnchanged, planeVars, PictureInv
    <2> QED BY <1>3, <2>1, <2>2, <2>3, <2>4, <2>5 DEF CommitStep, PlainSteps
  <1>4. ASSUME NEW size, NEW limit, evdi_painter_grabpix_ioctl(size, limit)
        PROVE  PictureInv'
    BY <1>0, <1>4 DEF evdi_painter_grabpix_ioctl, planeVars, cursorVars
  <1>5. CASE evdi_painter_request_update_ioctl
    BY <1>0, <1>5 DEF evdi_painter_request_update_ioctl, planeVars, cursorVars
  <1>6. CASE GrabMaps \/ GrabCopies \/ GrabPaintsCursor \/ GrabEnds
    <2>1. GrabUnchanged
      BY <1>6 DEF GrabMaps, GrabCopies, GrabPaintsCursor, GrabEnds
    <2> QED BY <1>0, <2>1 DEF GrabUnchanged, planeVars, cursorVars
  <1>7. ASSUME NEW f, evdi_painter_disconnect(f) PROVE PictureInv'
    <2>1. cursor' = [cursor EXCEPT !.enabled = FALSE, !.object = None]
      BY <1>7 DEF evdi_painter_disconnect
    <2> QED BY <2>1 DEF TypeOK, CursorTypes, CursorStates, PictureInv
  <1>8. CASE Quiet
    BY <1>0, <1>8, QuietSteps
  <1> QED BY <1>1, <1>2, <1>3, <1>4, <1>5, <1>6, <1>7, <1>8, NextCases

-----------------------------------------------------------------------------
(* The trail stays excused.                                                 *)

(* A step that paints nothing, while what excuses a pixel stays.            *)
LEMMA TrailStays ==
    ASSUME TrailInv, spoiled' \/ ~spoiled, UNCHANGED <<scanout_fb, cursor_events_enabled>>,
           painted' \subseteq painted,
           \/ scanout_fb # None \/ grab'.pc \in {"idle", "granted"}
           \/ grab.pc \notin {"idle", "granted"},
           grab'.pc = "paint" => grab.pc = "paint" \/ ~cursor_events_enabled,
           scanout_fb # None /\ ~spoiled' =>
              \A p \in painted' :
                 p \in Pixels(FullRect(Size[scanout_fb])) /\ Excused(p) => Excused(p)'
    PROVE  TrailInv'
  <1> SUFFICES ASSUME ~spoiled' PROVE TrailInv'
    BY DEF TrailInv
  <1>1. cursor_events_enabled' => painted' = {} /\ grab'.pc # "paint"
    BY DEF TrailInv
  <1>2. scanout_fb' = None => painted' = {} /\ grab'.pc \in {"idle", "granted"}
    BY DEF TrailInv
  <1>3. ASSUME scanout_fb' # None, NEW p \in painted', p \in Pixels(FullRect(Size[scanout_fb]))
        PROVE  Excused(p)'
    BY <1>3 DEF TrailInv
  <1> QED BY <1>1, <1>2, <1>3 DEF TrailInv

(* A step of a commit that keeps the framebuffer that is shown.             *)
LEMMA TrailKept ==
    ASSUME TrailInv, UNCHANGED <<scanout_fb, grab, cursor, cursor_events_enabled, painted, spoiled>>,
           commit'.pc # "picture" \/ commit.pc = "picture",
           scanout_fb # None =>
              \A p : p \in Pixels(FullRect(Size[scanout_fb])) /\ (Dirty(p) \/ Ahead(p))
                        => Dirty(p)' \/ Ahead(p)'
    PROVE  TrailInv'
  <1>1. ASSUME scanout_fb # None, NEW p \in painted',
               p \in Pixels(FullRect(Size[scanout_fb])), Excused(p)
        PROVE  Excused(p)'
    BY <1>1 DEF Excused, DrawnBy, Grabbed
  <1> QED BY <1>1, TrailStays

(* The framebuffer changes.                                                 *)
LEMMA TrailShow ==
    ASSUME TypeOK, ScanoutInv, TrailInv, SetScanout
    PROVE  TrailInv'
  <1>0. /\ commit.pc = "scanout" /\ SameCommit /\ commit'.damage = commit.damage
        /\ UNCHANGED <<plane, dirty_rects, grab, cursor, cursor_events_enabled, painted, spoiled>>
    BY ShowSteps
  <1>1. \A p : ~Ahead(p) /\ Dirty(p)' = Dirty(p)
    BY <1>0 DEF Ahead, Dirty, Sections
  <1>2. CASE scanout_fb' = scanout_fb
    BY <1>0, <1>1, <1>2, ShowSteps, TrailKept
  <1>3. CASE commit.fb # None /\ commit'.pc = "damage" /\ scanout_fb' = commit.fb
    <2>1. /\ scanout_fb # None /\ commit.old # None => scanout_fb = commit.old
          /\ commit.old = None \/ Size[commit.old] # Size[commit.fb]
             => commit.damage = <<FullRect(Size[commit.fb])>>
      BY <1>0, <1>3 DEF ScanoutInv, Unshown
    <2>2. ASSUME ~spoiled, NEW p \in painted, p \in Pixels(FullRect(Size[commit.fb]))
          PROVE  Excused(p)'
      <3>1. scanout_fb # None
        BY <2>2 DEF TrailInv
      <3>2. CASE commit.old # None /\ Size[commit.old] = Size[commit.fb]
        <4>1. Excused(p)
          BY <2>1, <2>2, <3>1, <3>2 DEF TrailInv
        <4> QED BY <1>0, <1>1, <1>3, <4>1 DEF Excused, DrawnBy, Grabbed
      <3>3. CASE commit.old = None \/ Size[commit.old] # Size[commit.fb]
        <4>1. commit'.damage = <<FullRect(Size[commit.fb])>>
          BY <1>0, <2>1, <3>3
        <4>2. 1 \in 1 .. Len(commit'.damage) /\ commit'.damage[1] = FullRect(Size[commit.fb])
          BY <4>1
        <4>3. Ahead(p)'
          BY <1>3, <2>2, <4>2 DEF Ahead
        <4> QED BY <4>3 DEF Excused
      <3> QED BY <3>2, <3>3
    <2>3. scanout_fb' # None
      BY <1>3
    <2> QED BY <1>0, <1>3, <2>2, <2>3 DEF TrailInv
  <1> QED BY <1>2, <1>3, ShowSteps

(* The cursor changes: where it was is ahead of the commit, or was hidden.  *)
LEMMA TrailCursor ==
    ASSUME TypeOK, PictureInv, TrailInv,
           NEW o \in Maybe(Objects), NEW x \in Int, NEW y \in Int,
           evdi_cursor_atomic_update(o, x, y)
    PROVE  TrailInv'
  <1>0. /\ commit.pc = "idle" /\ spoiled' = (spoiled \/ (o = None /\ cursor.object # None))
        /\ UNCHANGED <<scanout_fb, dirty_rects, grab, cursor_events_enabled, painted>>
    BY DEF evdi_cursor_atomic_update, painterVars
  <1>1. ASSUME scanout_fb # None, ~spoiled', NEW p \in painted',
               p \in Pixels(FullRect(Size[scanout_fb])), Excused(p)
        PROVE  Excused(p)'
    <2>1. ~Ahead(p) /\ (Dirty(p) => Dirty(p)') /\ (Grabbed(p) => Grabbed(p)')
      BY <1>0 DEF Ahead, Dirty, Grabbed, Sections
    <2>2. CASE Dirty(p) \/ Grabbed(p)
      BY <2>1, <2>2 DEF Excused
    <2>3. CASE p \in DrawnBy(cursor)
      <3>1. cursor.object # None /\ cursor.object = cursorPlane
        BY <1>0, <2>3 DEF DrawnBy, PictureInv
      <3>2. o # None
        BY <1>0, <1>1, <3>1
      <3>3. /\ commit'.pc \in Sections /\ commit'.old = cursorPlane /\ commit'.cursor = cursor
            /\ commit'.fb = o
        BY <3>2, CursorCommitTypes DEF Sections
      <3>4. p \in Pixels(CursorRect(cursor, cursor.object))
        <4>1. cursor \in CursorStates /\ scanout_fb \in Fbs
          BY <1>1 DEF TypeOK, CursorTypes, PainterTypes, Maybe
        <4> QED BY <1>1, <2>3, <4>1, CursorRectCovers
      <3>5. Ahead(p)'
        BY <3>1, <3>2, <3>3, <3>4 DEF Ahead, Sections, CursorRect
      <3> QED BY <3>5 DEF Excused
    <2> QED BY <1>1, <2>1, <2>2, <2>3 DEF Excused
  <1> QED BY <1>0, <1>1, TrailStays

(* The sections of the cursor's lock.  After evdi_cursor_set what is under the
   cursor is excused; the damage of both places stays ahead, unless the client
   was to paint the cursor itself or the cursor was hidden.                 *)
LEMMA TrailSection ==
    ASSUME TypeOK, TrailInv, CursorSection
    PROVE  TrailInv'
  <1>0. /\ CursorUnchanged /\ cursor'.x = cursor.x /\ cursor'.y = cursor.y
        /\ commit'.fb = commit.fb /\ commit'.old = commit.old /\ commit'.cursor = commit.cursor
    BY SectionTypes DEF CommitKept, SameCommit
  <1>1. /\ UNCHANGED <<scanout_fb, dirty_rects, grab, cursor_events_enabled, painted>>
        /\ \A p : (Dirty(p) => Dirty(p)') /\ (Grabbed(p) => Grabbed(p)')
    BY <1>0 DEF CursorUnchanged, painterVars, Dirty, Grabbed
  <1>2. ASSUME commit.pc \in Sections, commit'.pc \in Sections \cup {"oldrect"}, NEW p, Ahead(p)
        PROVE  Ahead(p)'
    BY <1>0, <1>2 DEF Ahead, CursorRect, Sections
  <1>3. CASE evdi_cursor_set
    <2>1. commit.pc = "picture" /\ commit'.pc = "enable" /\ UNCHANGED spoiled
      BY <1>3, CommitGoes DEF evdi_cursor_set, CommitPlaces, TypeOK, CommitTypes
    <2>2. \A p : Excused(p) => Excused(p)'
      BY <1>1, <1>2, <2>1 DEF Excused, Sections
    <2> QED BY <1>1, <2>1, <2>2, TrailStays
  <1>4. CASE evdi_cursor_enable
    <2>1. /\ commit.pc = "enable" /\ commit'.pc = "events"
          /\ spoiled' = (spoiled \/ (commit.fb = None /\ cursor.object # None))
          /\ cursor' = [cursor EXCEPT !.enabled = commit.fb # None,
                            !.object = IF commit.fb = None THEN None ELSE cursor.object]
      BY <1>4, CommitGoes DEF evdi_cursor_enable, CommitPlaces, TypeOK, CommitTypes
    <2>2. ASSUME ~spoiled', NEW p \in DrawnBy(cursor) PROVE p \in DrawnBy(cursor')
      <3>1. commit.fb # None /\ cursor.object # None
        BY <2>1, <2>2 DEF DrawnBy
      <3>2. cursor'.enabled /\ cursor'.object = cursor.object
        BY <2>1, <3>1 DEF TypeOK, CursorTypes, CursorStates
      <3> QED BY <1>0, <2>2, <3>2 DEF DrawnBy
    <2>3. ASSUME ~spoiled', NEW p, Excused(p) PROVE Excused(p)'
      BY <1>1, <1>2, <2>1, <2>2, <2>3 DEF Excused, Sections, DrawnBy
    <2> QED BY <1>1, <2>1, <2>3, TrailStays
  <1>5. CASE CheckCursorEvents
    <2>1. /\ commit.pc = "events" /\ UNCHANGED <<cursor, spoiled>>
          /\ commit'.pc \in {"oldrect", "flush", "set", "move"}
          /\ ~cursor_events_enabled /\ commit.fb # None => commit'.pc = "oldrect"
      BY <1>5, CommitGoes DEF CheckCursorEvents, CommitPlaces, TypeOK, CommitTypes
    <2>2. ASSUME ~spoiled, NEW p \in painted, Excused(p) PROVE Excused(p)'
      <3>1. ~cursor_events_enabled
        BY <2>2 DEF TrailInv
      <3>2. Ahead(p) => Ahead(p)'
        BY <1>2, <2>1, <3>1 DEF Ahead, Sections
      <3> QED BY <1>1, <2>1, <2>2, <3>2 DEF Excused, DrawnBy
    <2> QED BY <1>1, <2>1, <2>2, TrailStays
  <1> QED BY <1>3, <1>4, <1>5 DEF CursorSection

(* The grab takes what is dirty, and copies it over the trail.              *)
LEMMA TrailTaken ==
    ASSUME TypeOK, TrailInv, NEW size \in [w : Nat, h : Nat], NEW limit \in Nat,
           evdi_painter_grabpix_ioctl(size, limit)
    PROVE  TrailInv'
  <1> DEFINE rects == GrabDirts(dirty_rects, limit)
  <1>0. /\ grab.pc = "granted" /\ UNCHANGED <<scanout_fb, cursor, cursor_events_enabled, commit,
                                               painted, spoiled>>
        /\ IF scanout_fb = None THEN UNCHANGED grab
           ELSE grab' = [pc |-> "map", rects |-> rects, fb |-> scanout_fb, event |-> vblank,
                         size |-> size]
    BY DEF evdi_painter_grabpix_ioctl, cursorVars, pictureVars
  <1>1. rects \in Seq(Rects) /\ Covers(rects, dirty_rects)
    BY GrabCovers DEF TypeOK, PainterTypes
  <1> HIDE DEF rects
  <1>2. ASSUME scanout_fb # None, NEW p \in painted', Excused(p)
        PROVE  Excused(p)'
    <2>1. ~Grabbed(p) /\ grab'.pc = "map" /\ grab'.rects = rects
      BY <1>0, <1>2 DEF Grabbed
    <2>2. CASE Dirty(p)
      <3>1. PICK i \in 1 .. Len(dirty_rects) : p \in Pixels(dirty_rects[i])
        BY <2>2 DEF Dirty
      <3>2. Grabbed(p)'
        BY <1>1, <2>1, <3>1 DEF Covers, Grabbed
      <3> QED BY <3>2 DEF Excused
    <2>3. CASE (commit.pc # "picture" /\ p \in DrawnBy(cursor)) \/ Ahead(p)
      BY <1>0, <2>3 DEF Excused, DrawnBy, Ahead
    <2> QED BY <1>2, <2>1, <2>2, <2>3 DEF Excused
  <1>3. scanout_fb # None => grab'.pc = "map"
    BY <1>0
  <1> QED BY <1>0, <1>2, <1>3, TrailStays

LEMMA TrailGrab ==
    ASSUME TypeOK, BufInv, TrailInv, GrabMaps \/ GrabCopies \/ GrabPaintsCursor \/ GrabEnds
    PROVE  TrailInv'
  <1>0. UNCHANGED <<scanout_fb, dirty_rects, cursor, cursor_events_enabled, commit>>
    <2>1. GrabUnchanged
      BY DEF GrabMaps, GrabCopies, GrabPaintsCursor, GrabEnds
    <2> QED BY <2>1 DEF GrabUnchanged, painterVars, cursorVars
  <1>1. ASSUME NEW p, Excused(p), ~Grabbed(p) \/ Grabbed(p)' PROVE Excused(p)'
    BY <1>0, <1>1 DEF Excused, DrawnBy, Dirty, Ahead
  <1>2. CASE GrabMaps
    <2>1. PICK ok \in BOOLEAN : /\ grab' = [grab EXCEPT !.pc = IF ok THEN "copy" ELSE "end"]
                                /\ spoiled' = (spoiled \/ ~ok)
      <3>1. PICK r : /\ grab' = [grab EXCEPT !.pc = IF r.ok THEN "copy" ELSE "end"]
                     /\ spoiled' = (spoiled \/ ~r.ok)
        BY <1>2, Zenon DEF GrabMaps
      <3>2. CASE r.ok
        BY <3>1, <3>2
      <3>3. CASE ~r.ok
        BY <3>1, <3>3
      <3> QED BY <3>2, <3>3
    <2>2. grab.pc = "map" /\ UNCHANGED painted
      BY <1>2 DEF GrabMaps
    <2>3. ~spoiled' => grab'.pc = "copy" /\ grab'.rects = grab.rects
      BY <2>1 DEF TypeOK, Grabs
    <2>4. grab'.pc # "paint" /\ (spoiled' \/ ~spoiled)
      BY <2>1 DEF TypeOK, Grabs
    <2>5. \A p : ~spoiled' /\ Grabbed(p) => Grabbed(p)'
      BY <2>3 DEF Grabbed
    <2> QED BY <1>0, <1>1, <2>2, <2>4, <2>5, TrailStays
  <1>3. CASE GrabCopies
    <2> DEFINE fits == grab.size = Size[grab.fb] /\ RectsFit(grab.rects, grab.size)
               copied == UNION {Pixels(grab.rects[i]) : i \in 1 .. Len(grab.rects)}
    <2>1. /\ grab.pc = "copy" /\ spoiled' = (spoiled \/ ~fits)
          /\ grab' = [grab EXCEPT !.pc = IF ~fits THEN "end"
                                         ELSE IF cursor_events_enabled THEN "end" ELSE "paint"]
          /\ painted' = IF fits THEN painted \ copied ELSE painted
      BY <1>3 DEF GrabCopies
    <2> HIDE DEF fits
    <2>2. grab'.pc \in {"end", "paint"} /\ (grab'.pc = "paint" => ~cursor_events_enabled)
      BY <2>1 DEF TypeOK, Grabs
    <2>3. ASSUME ~spoiled', NEW p \in painted' PROVE ~Grabbed(p)
      BY <2>1, <2>3 DEF Grabbed
    <2> QED BY <1>0, <1>1, <2>1, <2>2, <2>3, TrailStays
  <1>4. CASE GrabPaintsCursor
    <2> DEFINE new == evdi_cursor_compose_and_copy(Size[grab.fb])
    <2>1. /\ grab.pc = "paint" /\ painted' = painted \cup new
          /\ spoiled' = (spoiled \/ HalfChanged)
          /\ grab' = [grab EXCEPT !.pc = "end"]
      BY <1>4 DEF GrabPaintsCursor
    <2>2. new \subseteq DrawnBy(cursor)
      BY PaintsDrawn
    <2> HIDE DEF new
    <2>3. \A p : ~Grabbed(p)
      BY <2>1 DEF Grabbed
    <2>4. ASSUME ~spoiled PROVE scanout_fb # None /\ ~cursor_events_enabled
      BY <2>1, <2>4 DEF TrailInv
    <2>5. ASSUME ~spoiled', NEW p \in painted', p \in Pixels(FullRect(Size[scanout_fb]))
          PROVE  Excused(p)'
      <3>1. ~spoiled /\ ~HalfChanged /\ scanout_fb # None
        BY <2>1, <2>4, <2>5, Zenon
      <3>2. ASSUME p \in painted PROVE Excused(p)
        BY <2>5, <3>1, <3>2 DEF TrailInv
      <3>3. ASSUME p \in new, commit.pc # "picture" PROVE Excused(p)
        BY <2>2, <3>3 DEF Excused
      <3>4. ASSUME p \in new, commit.pc = "picture" PROVE Excused(p)
        <4>1. p \in DrawnBy(cursor) /\ cursor.object # None /\ commit.fb # None
          <5>1. p \in DrawnBy(cursor)
            BY <2>2, <3>4
          <5>2. commit.fb # None
            BY <3>4 DEF TypeOK, CommitTypes
          <5> QED BY <5>1, <5>2 DEF DrawnBy
        <4>2. CASE commit.fb \notin RectUpdates
          BY <3>4, <4>1, <4>2 DEF Excused, Ahead, Sections
        <4>3. CASE Size[cursor.object] = Size[commit.fb]
          <5>1. cursor \in CursorStates /\ scanout_fb \in Fbs
            BY <3>1 DEF TypeOK, CursorTypes, PainterTypes, Maybe
          <5>2. p \in Pixels(CursorRect(cursor, cursor.object))
            BY <2>5, <4>1, <5>1, CursorRectCovers
          <5>3. p \in Pixels(CursorRect(cursor, commit.fb))
            BY <4>1, <4>3, <5>2 DEF CursorRect
          <5> QED BY <3>4, <4>1, <5>3 DEF Excused, Ahead, Sections
        <4> QED BY <3>1, <3>4, <4>1, <4>2, <4>3 DEF HalfChanged
      <3>5. Excused(p)
        BY <2>1, <2>5, <3>2, <3>3, <3>4, Zenon
      <3> QED BY <1>1, <2>3, <3>5
    <2>6. ~spoiled' => ~spoiled /\ scanout_fb # None /\ ~cursor_events_enabled
      BY <2>1, <2>4
    <2>7. grab'.pc = "end"
      BY <2>1 DEF TypeOK, Grabs
    <2> QED BY <1>0, <2>5, <2>6, <2>7 DEF TrailInv
  <1>5. CASE GrabEnds
    <2>1. grab.pc = "end" /\ grab'.pc = "idle" /\ UNCHANGED <<painted, spoiled>>
      BY <1>5, NoGrabTypes DEF GrabEnds, pictureVars
    <2>2. \A p : ~Grabbed(p)
      BY <2>1 DEF Grabbed
    <2> QED BY <1>0, <1>1, <2>1, <2>2, TrailStays
  <1> QED BY <1>2, <1>3, <1>4, <1>5

LEMMA TrailStep ==
    ASSUME TypeOK, BufInv, CursorInv, [Next]_vars
    PROVE  TrailInv'
  <1>0. PictureInv /\ ScanoutInv /\ TrailInv
    BY DEF CursorInv
  <1>1. ASSUME NEW f \in Maybe(Fbs), NEW clips \in Seq(Rects), NEW m \in BOOLEAN,
               BeginCommit(f, clips, m)
        PROVE  TrailInv'
    <2>1. /\ UNCHANGED <<scanout_fb, grab, cursor, cursor_events_enabled, painted, spoiled,
                         dirty_rects>>
          /\ commit.pc = "idle" /\ commit'.pc = "plane"
      BY <1>1, BeginDamage DEF BeginCommit, painterVars, cursorVars, pictureVars
    <2>2. \A p : ~Ahead(p) /\ Dirty(p)' = Dirty(p)
      BY <2>1 DEF Ahead, Dirty, Sections
    <2> QED BY <1>0, <2>1, <2>2, TrailKept
  <1>2. CASE CommitStep
    <2>1. CASE SetScanout
      BY <1>0, <2>1, TrailShow
    <2>2. CASE evdi_plane_atomic_update \/ CommitSends \/ PlainSteps
      <3>1. /\ PictureSame /\ UNCHANGED dirty_rects
            /\ commit.pc \notin Sections \cup {"damage", "oldrect", "newrect"}
            /\ commit'.pc # "picture"
        BY <2>2, SendSteps, PlainCommit DEF Sections
      <3>2. \A p : ~Ahead(p) /\ Dirty(p)' = Dirty(p)
        BY <3>1 DEF Ahead, Dirty
      <3> QED BY <1>0, <3>1, <3>2, TrailKept DEF PictureSame
    <2>3. CASE MarkDamage \/ MarkFull \/ MarkOldCursor \/ MarkNewCursor
      BY <1>0, <2>3, MarkedSteps, TrailKept DEF PictureSame
    <2>4. CASE CursorSection
      BY <1>0, <2>4, TrailSection
    <2> QED BY <1>2, <2>1, <2>2, <2>3, <2>4 DEF CommitStep, PlainSteps, CursorSection
  <1>3. CASE evdi_painter_request_update_ioctl
    <2>1. /\ UNCHANGED <<scanout_fb, cursor, cursor_events_enabled, painted, spoiled, dirty_rects,
                         commit>>
          /\ grab.pc = "idle" /\ grab'.pc \in {"idle", "granted"}
      <3>1. grab' = grab \/ grab' = [grab EXCEPT !.pc = "granted"]
        BY <1>3 DEF evdi_painter_request_update_ioctl
      <3> QED BY <1>3, <3>1
              DEF evdi_painter_request_update_ioctl, cursorVars, ghostVars, pictureVars, TypeOK, Grabs
    <2>2. \A p : Excused(p) => Excused(p)'
      BY <2>1 DEF Excused, Dirty, DrawnBy, Ahead, Grabbed
    <2> QED BY <1>0, <2>1, <2>2, TrailStays
  <1>4. ASSUME NEW f, evdi_painter_disconnect(f) PROVE TrailInv'
    BY <1>4 DEF evdi_painter_disconnect, TrailInv
  <1>5. CASE Quiet
    <2>1. UNCHANGED <<scanout_fb, dirty_rects, commit, grab, cursor>>
      BY <1>5, QuietSteps
    <2>2. CASE UNCHANGED <<cursor_events_enabled, painted, spoiled>>
      <3>1. \A p : (Dirty(p) => Dirty(p)') /\ (Ahead(p) => Ahead(p)')
        BY <2>1 DEF Ahead, Dirty
      <3> QED BY <1>0, <2>1, <2>2, <3>1, TrailKept
    <2>3. CASE spoiled' = TRUE
      BY <2>3 DEF TrailInv
    <2>4. CASE painted' = {} /\ spoiled' = (grab.pc # "idle") /\ UNCHANGED cursor_events_enabled
      BY <2>1, <2>4 DEF TrailInv
    <2> QED BY <1>5, <2>2, <2>3, <2>4, QuietPicture
  <1> QED BY <1>0, <1>1, <1>2, <1>3, <1>4, <1>5, NextCases, TrailCursor, TrailTaken, TrailGrab

(* A cursor that is painted into the frames leaves no trail: MarkOldCursor
   damages every pixel it covered of the framebuffer, a new framebuffer of
   another size is damaged whole, and a grab copies what was damaged before
   it paints; whatever the framebuffers, pictures and positions, although
   the far corner of a cursor is kept in 16 bits.                           *)
THEOREM CursorsLeaveNoTrail == Spec => []NoCursorTrail
  <1>1. Init => CursorInv
    <2> SUFFICES ASSUME Init PROVE CursorInv
      OBVIOUS
    <2>1. /\ cursor.object = None /\ scanout_fb = None /\ painted = {} /\ grab.pc = "idle"
          /\ commit.pc = "idle"
      BY NoGrabTypes, NoCommitTypes DEF Init, NoCursor
    <2> QED BY <2>1 DEF CursorInv, PictureInv, ScanoutInv, TrailInv, Unshown
  <1>2. TypeOK /\ BufInv /\ CursorInv /\ [Next]_vars => CursorInv'
    BY PictureStep, ScanoutStep, TrailStep DEF CursorInv
  <1>3. BufInv /\ CursorInv => NoCursorTrail
    <2> SUFFICES ASSUME BufInv, CursorInv, commit.pc = "idle", grab.pc = "idle", ~spoiled,
                        scanout_fb # None,
                        NEW p \in painted \cap Pixels(FullRect(Size[scanout_fb]))
                 PROVE  p \in evdi_cursor_compose_and_copy(Size[scanout_fb]) \cup
                              UNION {Pixels(dirty_rects[i]) : i \in 1 .. Len(dirty_rects)}
      BY DEF NoCursorTrail
    <2>1. Excused(p) /\ ~Ahead(p) /\ ~Grabbed(p)
      BY DEF CursorInv, TrailInv, Ahead, Grabbed, Sections
    <2>2. CASE p \in DrawnBy(cursor)
      BY <2>2, PaintsDrawn
    <2>3. CASE Dirty(p)
      BY <2>3 DEF Dirty
    <2> QED BY <2>1, <2>2, <2>3 DEF Excused
  <1> QED BY <1>1, <1>2, <1>3, PainterTypeCorrect, AlwaysBuffers, PTL DEF Spec

=============================================================================
