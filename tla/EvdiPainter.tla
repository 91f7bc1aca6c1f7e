----------------------------- MODULE EvdiPainter -----------------------------
(***************************************************************************)
(* The evdi kernel module at work: the painter (evdi_painter.c) between a  *)
(* compositor that commits frames and cursors (evdi_modeset.c), the client *)
(* that grabs them, the console that is switched away, and a DDC/CI        *)
(* request; with the framebuffers, cursor and buffer objects they share    *)
(* (evdi_fb.c, evdi_cursor.c, evdi_gem.c).                                 *)
(*                                                                         *)
(* What runs under painter->lock is one step.  An event that is sent       *)
(* without the lock (mode, power, cursor, DDC/CI) takes two: the checks of *)
(* evdi_painter_send_event, then the list.  The commits of a CRTC are      *)
(* ordered by the DRM core, so there is one commit at a time.              *)
(***************************************************************************)
EXTENDS EvdiRects, EvdiGem, FiniteSets, SequencesExt

CONSTANTS
    Fbs,            \* framebuffers, each backed by the object of its name
    Cursors,        \* objects that are only cursor pictures
    Size,           \* width and height of each of these
    Format,         \* pixel format of each framebuffer
    Files,          \* open files of clients
    Positions,      \* where a cursor may be put
    RectUpdates,    \* allow_sw_cursor_rect_updates of the cursor objects
    EventSpace,     \* events that fit in the space of a file
    Workloads,      \* how often each actor may act, and with which inputs:
                    \* one of these is chosen at the start
    None

(* No framebuffer is larger; the picture of a cursor is one to the DRM core. *)
max_width  == 7680
max_height == 4320

ASSUME SizesAssumption == \A o \in Objects : Size[o].w <= max_width /\ Size[o].h <= max_height

ASSUME PainterAssumption ==
    /\ Fbs \cup Cursors = Objects /\ IsFiniteSet(Files)
    /\ None \notin Objects \cup Files \cup Nat \cup Positions
    /\ {"compositor", "id"} \cap Files = {} /\ "compositor" # "id"
    /\ Size \in [Objects -> [w : Nat, h : Nat]] /\ Positions \subseteq Int \X Int
    /\ EventSpace \in Nat \ {0}

(* How often each thing may still be done, and the inputs to choose from.   *)
Budgets == [commits : Nat, cursors : Nat, switches : Nat, connects : Nat, leaves : Nat,
            enables : Nat, reads : Nat, buffers : Nat, messages : Nat,
            events : BOOLEAN, faults : BOOLEAN, files : SUBSET Files,
            fbs : SUBSET (Fbs \cup {None}), pictures : SUBSET (Objects \cup {None}),
            clips : SUBSET Seq(Rects), modes : SUBSET BOOLEAN, limits : SUBSET Nat]

ASSUME WorkloadsAssumption == Workloads \subseteq Budgets

VARIABLES
    is_connected, drm_filp, dirty_rects, scanout_fb, was_update_requested,
    needs_full_modeset, vblank,             \* struct evdi_painter
    pending_events, send_events_work,       \* its list, and whether work is queued
    painter_fg, fg_console,                 \* console at the last power on, and now
    cursor, cursor_events_enabled,          \* struct evdi_cursor
    ddcci,                                  \* buffer, completion and the waiting caller
    plane, cursorPlane,                     \* what the compositor shows on each plane
    handles,                                \* open handles, and framebuffer ids
    fbrefs,                                 \* references on each framebuffer
    gem,                                    \* the objects
    inbox,                                  \* events a file has not read
    commit, grab, vt,                       \* where these threads are
    budget,                                 \* what is left of the workload
    oops,                                   \* a null file was dereferenced
    (* What the properties speak of. *)
    owed,                                   \* damaged pixels that no grab was given
    flips, answered,                        \* events of commits; how often each was sent
    told, seen,                             \* cursor position last sent to a client, and read
    painted, spoiled                        \* cursor pixels in the buffer of the client; a grab
                                            \* failed or is of an earlier client, or the cursor
                                            \* was hidden, half changed or turned into events

painterVars == <<is_connected, drm_filp, dirty_rects, scanout_fb, was_update_requested,
                 needs_full_modeset, vblank>>
eventVars   == <<pending_events, send_events_work, inbox, oops>>
vtVars      == <<painter_fg, fg_console, vt>>
cursorVars  == <<cursor, cursor_events_enabled>>
bufferVars  == <<fbrefs, gem>>
pictureVars == <<painted, spoiled>>
ghostVars   == <<owed, flips, answered, told, seen, pictureVars>>
planeVars   == <<plane, cursorPlane, handles>>
vars == <<painterVars, eventVars, vtVars, cursorVars, ddcci, planeVars, bufferVars, commit,
          grab, budget, ghostVars>>

NoCursor == [enabled |-> FALSE, object |-> None, x |-> 0, y |-> 0]
NoCommit == [pc |-> "idle", kind |-> "frame", fb |-> None, old |-> None, damage |-> <<>>,
             mode |-> FALSE, notifyMode |-> FALSE, notifyDpms |-> FALSE, event |-> None,
             cursor |-> NoCursor, moved |-> FALSE, send |-> None, then |-> "idle"]
NoGrab   == [pc |-> "idle", rects |-> <<>>, fb |-> None, event |-> None, size |-> None]
NoDdc    == [pc |-> "idle", buffer |-> None, done |-> FALSE, asked |-> 0, got |-> None]

Event(type, value) == [type |-> type, value |-> value]

Init ==
    /\ budget \in Workloads
    /\ is_connected = FALSE /\ drm_filp = None /\ dirty_rects = <<>>
    /\ scanout_fb = None /\ was_update_requested = FALSE
    /\ needs_full_modeset = TRUE /\ vblank = None
    /\ pending_events = <<>> /\ send_events_work = FALSE
    /\ painter_fg = 0 /\ fg_console = 0 /\ vt = "idle"
    /\ cursor = NoCursor /\ cursor_events_enabled = budget.events
    /\ ddcci = NoDdc /\ plane = None /\ cursorPlane = None
    /\ handles = (Objects \X {"compositor"}) \cup (Fbs \X {"id"})
    /\ fbrefs = [f \in Fbs |-> 1]
    /\ gem = [o \in Objects |->                 \* a handle, and the framebuffer
                 IF o \in Fbs THEN drm_gem_object_get(evdi_gem_alloc_object(o))
                              ELSE evdi_gem_alloc_object(o)]
    /\ inbox = [f \in Files |-> <<>>]
    /\ commit = NoCommit /\ grab = NoGrab
    /\ oops = FALSE
    /\ owed = {} /\ flips = 0 /\ answered = <<>>
    /\ told = None /\ seen = None /\ painted = {} /\ spoiled = FALSE

Spend(what) == /\ budget[what] > 0 /\ ~oops
               /\ budget' = [budget EXCEPT ![what] = @ - 1]

(* The outcomes of a call; without faults in the workload, success.         *)
Outcomes(set) == {r \in set : r.ok \/ budget.faults}

-----------------------------------------------------------------------------
(* References on framebuffers; the last one puts the object.                *)

FbGet(refs, f) == IF f = None THEN refs ELSE [refs EXCEPT ![f] = @ + 1]

drm_framebuffer_put(f) ==
    IF f = None THEN UNCHANGED bufferVars
    ELSE /\ fbrefs' = [fbrefs EXCEPT ![f] = @ - 1]
         /\ gem' = IF fbrefs[f] = 1 THEN [gem EXCEPT ![f] = drm_gem_object_put(f, @)] ELSE gem

(* get one framebuffer and put another, in this order.                      *)
FbReplace(new, old) ==
    LET refs == FbGet(fbrefs, new)
    IN  IF old = None THEN fbrefs' = refs /\ gem' = gem
        ELSE /\ fbrefs' = [refs EXCEPT ![old] = @ - 1]
             /\ gem' = IF refs[old] = 1 THEN [gem EXCEPT ![old] = drm_gem_object_put(old, @)]
                                        ELSE gem

-----------------------------------------------------------------------------
(* Events for the client.                                                   *)

is_evdi_event_squashable(e) == e.type \in {"cursor_set", "cursor_move"}

(* A mutant: a newer event of the same type is dropped instead of the older. *)
KeepOlder(list, e) ==
    IF list # <<>> /\ Last(list).type = e.type /\ is_evdi_event_squashable(e)
    THEN list ELSE Append(list, e)

evdi_painter_add_event_to_pending_list(list, e) ==
    IF list # <<>> /\ Last(list).type = e.type /\ is_evdi_event_squashable(e)
    THEN [list EXCEPT ![Len(list)] = e]
    ELSE Append(list, e)

(* Events move to the file while it has space; what is left is tried again
   by the delayed work.                                                     *)
evdi_painter_flush_pending_events(list) ==
    IF list # <<>> /\ drm_filp = None
    THEN /\ oops' = TRUE /\ pending_events' = list
         /\ UNCHANGED <<send_events_work, inbox>>
    ELSE LET fit == IF list = <<>> THEN 0
                    ELSE Lesser(Len(list), EventSpace - Len(inbox[drm_filp]))
         IN  /\ pending_events' = SubSeq(list, fit + 1, Len(list))
             /\ inbox' = IF fit = 0 THEN inbox
                         ELSE [inbox EXCEPT ![drm_filp] = @ \o SubSeq(list, 1, fit)]
             /\ send_events_work' = (fit < Len(list))
             /\ UNCHANGED oops

(* The checks of evdi_painter_send_event, and what follows them.            *)
MaySend == drm_filp # None /\ is_connected

PostEvent(e) ==
    LET list == evdi_painter_add_event_to_pending_list(pending_events, e)
    IN  IF send_events_work
        THEN pending_events' = list /\ UNCHANGED <<send_events_work, inbox, oops>>
        ELSE evdi_painter_flush_pending_events(list)

evdi_send_events_work ==
    /\ send_events_work /\ ~oops
    /\ evdi_painter_flush_pending_events(pending_events)
    /\ UNCHANGED <<painterVars, vtVars, cursorVars, ddcci, planeVars, bufferVars, commit, grab,
                   budget, ghostVars>>

(* The cursor position after the events of a list.                          *)
LastMove(position, list) ==
    LET moves == {i \in DOMAIN list : list[i].type = "cursor_move"}
    IN  IF moves = {} THEN position
        ELSE list[CHOOSE i \in moves : \A j \in moves : j <= i].value

(* The client reads what is there.                                          *)
ClientReads(f) ==
    /\ inbox[f] # <<>> /\ Spend("reads")
    /\ inbox' = [inbox EXCEPT ![f] = <<>>]
    /\ seen' = IF f = drm_filp THEN LastMove(seen, inbox[f]) ELSE seen
    /\ UNCHANGED <<painterVars, pending_events, send_events_work, oops, vtVars, cursorVars,
                   ddcci, planeVars, bufferVars, commit, grab, owed, flips, answered, told,
                   pictureVars>>

-----------------------------------------------------------------------------
(* Flip events.                                                             *)

(* A mutant: nothing is sent.                                               *)
NotSent(sent, e) == sent

evdi_send_vblank(sent, e) == IF e = None THEN sent ELSE [sent EXCEPT ![e] = @ + 1]

-----------------------------------------------------------------------------
(* A commit of the primary plane: evdi_plane_atomic_update, then
   evdi_crtc_atomic_flush.  The core holds a reference on the framebuffer of
   the plane and, until the commit ends, on the one it replaces.            *)

Goto(pc) == commit' = [commit EXCEPT !.pc = pc]

(* Send e if the painter may, and go on at pc; otherwise go on at once.     *)
Sending(e, pc) ==
    commit' = IF MaySend THEN [commit EXCEPT !.pc = "send", !.send = e, !.then = pc]
                         ELSE [commit EXCEPT !.pc = pc]

(* The damage the core reports: the whole framebuffer if the compositor named
   no clips, if nothing was shown before, or if the size is another.        *)
BeginCommit(f, clips, modeChanged) ==
    /\ commit.pc = "idle" /\ Spend("commits")
    /\ f # None => <<f, "id">> \in handles
    /\ modeChanged => f # None
    /\ flips' = flips + 1 /\ answered' = Append(answered, 0)
    /\ commit' = [NoCommit EXCEPT !.pc = "plane", !.fb = f, !.old = plane, !.event = flips + 1,
                                  !.damage = IF f = None THEN <<>>
                                             ELSE IF \/ plane = None \/ clips = <<>>
                                                     \/ Size[plane] # Size[f]
                                             THEN <<FullRect(Size[f])>> ELSE clips,
                                  !.mode = modeChanged]
    /\ plane' = f /\ fbrefs' = FbGet(fbrefs, f)
    /\ UNCHANGED <<painterVars, eventVars, vtVars, cursorVars, ddcci, cursorPlane, handles,
                   gem, grab, owed, told, seen, pictureVars>>

(* evdi_painter_dpms_notify checks the connection, then sends.              *)
evdi_painter_dpms_notify(mode, pc) ==
    /\ painter_fg' = IF is_connected /\ mode = "on" THEN fg_console ELSE painter_fg
    /\ Sending(Event("dpms", mode), pc)

evdi_plane_atomic_update ==
    /\ commit.pc = "plane" /\ ~oops
    /\ IF (commit.old = None) # (commit.fb = None)
       THEN evdi_painter_dpms_notify(IF commit.fb = None THEN "off" ELSE "on", "scanout")
       ELSE Goto("scanout") /\ UNCHANGED painter_fg
    /\ UNCHANGED <<painterVars, eventVars, fg_console, vt, cursorVars, ddcci, planeVars,
                   bufferVars, grab, budget, ghostVars>>

(* A mutant: the painter takes no reference on the framebuffer it shows.    *)
ScanoutWithoutReference ==
    /\ scanout_fb' = commit.fb /\ drm_framebuffer_put(scanout_fb)

evdi_painter_set_scanout_buffer ==
    /\ scanout_fb' = commit.fb /\ FbReplace(commit.fb, scanout_fb)

SetScanout ==
    /\ commit.pc = "scanout" /\ ~oops
    /\ IF commit.fb = None
       THEN Goto("flush") /\ UNCHANGED <<needs_full_modeset, scanout_fb, bufferVars>>
       ELSE /\ needs_full_modeset' = (\/ needs_full_modeset \/ commit.old = None
                                      \/ Format[commit.old] # Format[commit.fb])
            /\ IF commit.fb # commit.old \/ needs_full_modeset'
               THEN evdi_painter_set_scanout_buffer /\ Goto("damage")
               ELSE Goto("check") /\ UNCHANGED <<scanout_fb, bufferVars>>
    /\ UNCHANGED <<is_connected, drm_filp, dirty_rects, was_update_requested, vblank,
                   eventVars, vtVars, cursorVars, ddcci, planeVars, grab, budget, ghostVars>>

(* Without a scanout buffer the rectangle is skipped.                       *)
evdi_painter_mark_dirty(r) ==
    IF scanout_fb = None THEN UNCHANGED <<dirty_rects, owed>>
    ELSE /\ dirty_rects' = AddDirt(dirty_rects,
                               evdi_framebuffer_sanitize_rect(Size[scanout_fb], r))
         /\ owed' = owed \cup (Pixels(r) \cap Pixels(FullRect(Size[scanout_fb])))

MarkUnchanged == UNCHANGED <<is_connected, drm_filp, scanout_fb, was_update_requested,
                             needs_full_modeset, vblank, eventVars, vtVars, ddcci,
                             planeVars, bufferVars, grab, budget, flips, answered, told, seen, pictureVars>>

MarkDamage ==
    /\ commit.pc = "damage" /\ ~oops
    /\ IF commit.damage = <<>> THEN Goto("check") /\ UNCHANGED <<dirty_rects, owed>>
       ELSE /\ evdi_painter_mark_dirty(Head(commit.damage))
            /\ commit' = [commit EXCEPT !.damage = Tail(@)]
    /\ MarkUnchanged /\ UNCHANGED cursorVars

(* The number of rectangles is read in a lock of its own.                   *)
CheckDirts ==
    /\ commit.pc = "check" /\ ~oops
    /\ Goto(IF dirty_rects = <<>> THEN "full" ELSE "flush")
    /\ UNCHANGED <<dirty_rects, owed>> /\ MarkUnchanged /\ UNCHANGED cursorVars

MarkFull ==
    /\ commit.pc = "full" /\ ~oops
    /\ evdi_painter_mark_dirty(FullRect(Size[commit.fb])) /\ Goto("flush")
    /\ MarkUnchanged /\ UNCHANGED cursorVars

FlushUnchanged == UNCHANGED <<is_connected, drm_filp, dirty_rects, scanout_fb, cursorVars,
                              ddcci, planeVars, grab, budget, owed, flips, told, seen,
                              pictureVars>>

(* What evdi_crtc_atomic_flush reads before it notifies; the CRTC is active
   while its plane has a framebuffer.                                       *)
evdi_crtc_atomic_flush ==
    /\ commit.pc = "flush" /\ ~oops
    /\ commit' = [commit EXCEPT !.pc = "mode",
           !.notifyMode = plane # None /\ (commit.mode \/ needs_full_modeset),
           !.notifyDpms = \/ commit.kind = "frame" /\ (commit.old = None) # (plane = None)
                          \/ needs_full_modeset]
    /\ UNCHANGED <<was_update_requested, needs_full_modeset, vblank, eventVars, vtVars,
                   bufferVars, answered>> /\ FlushUnchanged

(* The request for a full modeset ends when the mode was sent, or could not
   be; it stays while there is no scanout buffer.                           *)
evdi_painter_mode_changed_notify ==
    /\ commit.pc = "mode" /\ ~oops
    /\ IF commit.notifyMode /\ scanout_fb # None
       THEN /\ Sending(Event("mode", scanout_fb), "dpms")
            /\ needs_full_modeset' = (MaySend /\ needs_full_modeset)
       ELSE Goto("dpms") /\ UNCHANGED needs_full_modeset
    /\ UNCHANGED <<was_update_requested, vblank, eventVars, vtVars, bufferVars, answered>>
    /\ FlushUnchanged

NotifyDpms ==
    /\ commit.pc = "dpms" /\ ~oops
    /\ IF commit.notifyDpms
       THEN evdi_painter_dpms_notify(IF plane = None THEN "off" ELSE "on", "vblank")
       ELSE Goto("vblank") /\ UNCHANGED painter_fg
    /\ UNCHANGED <<was_update_requested, needs_full_modeset, vblank, eventVars, fg_console, vt,
                   bufferVars, answered>> /\ FlushUnchanged

(* The list takes an event whose checks passed.                             *)
CommitSends ==
    /\ commit.pc = "send" /\ ~oops
    /\ PostEvent(commit.send)
    /\ needs_full_modeset' = (needs_full_modeset /\ commit.send.type # "mode")
    /\ told' = IF commit.send.type = "cursor_move" THEN commit.send.value ELSE told
    /\ commit' = [commit EXCEPT !.pc = commit.then, !.send = None]
    /\ UNCHANGED <<is_connected, drm_filp, dirty_rects, scanout_fb, was_update_requested, vblank,
                   vtVars, cursorVars, ddcci, planeVars, bufferVars, grab, budget, owed, flips,
                   answered, seen, pictureVars>>

(* A mutant: the stored event is overwritten.                               *)
SetVblankOverwrites ==
    /\ commit.pc = "vblank" /\ ~oops
    /\ LET keep == dirty_rects # <<>> /\ is_connected
       IN  /\ vblank'   = IF keep THEN commit.event ELSE None
           /\ answered' = IF keep THEN answered ELSE evdi_send_vblank(answered, commit.event)
    /\ commit' = [commit EXCEPT !.pc = "ready", !.event = None]
    /\ UNCHANGED <<was_update_requested, needs_full_modeset, eventVars, vtVars, bufferVars>>
    /\ FlushUnchanged

(* A stored event is sent first.  The new one is kept for the next grab only
   if there is something to grab and a client.                              *)
evdi_painter_set_vblank ==
    /\ commit.pc = "vblank" /\ ~oops
    /\ LET keep == dirty_rects # <<>> /\ is_connected
           sent == evdi_send_vblank(answered, vblank)
       IN  /\ vblank'   = IF keep THEN commit.event ELSE None
           /\ answered' = IF keep THEN sent ELSE evdi_send_vblank(sent, commit.event)
    /\ commit' = [commit EXCEPT !.pc = "ready", !.event = None]
    /\ UNCHANGED <<was_update_requested, needs_full_modeset, eventVars, vtVars, bufferVars>>
    /\ FlushUnchanged

evdi_painter_send_update_ready_if_needed ==
    /\ commit.pc = "ready" /\ ~oops
    /\ IF was_update_requested /\ dirty_rects # <<>>
       THEN /\ was_update_requested' = FALSE
            /\ IF MaySend THEN PostEvent(Event("update_ready", None)) ELSE UNCHANGED eventVars
       ELSE UNCHANGED <<was_update_requested, eventVars>>
    /\ Goto("end")
    /\ UNCHANGED <<needs_full_modeset, vblank, vtVars, bufferVars, answered>> /\ FlushUnchanged

(* The core drops the framebuffer the commit replaced; that of a cursor is
   only a reference on the object of its picture.                           *)
EndCommit ==
    /\ commit.pc = "end" /\ ~oops
    /\ IF commit.kind = "frame" THEN drm_framebuffer_put(commit.old)
       ELSE /\ gem' = IF commit.old = None THEN gem
                      ELSE [gem EXCEPT ![commit.old] = drm_gem_object_put(commit.old, @)]
            /\ UNCHANGED fbrefs
    /\ commit' = NoCommit
    /\ UNCHANGED <<was_update_requested, needs_full_modeset, vblank, eventVars, vtVars, answered>>
    /\ FlushUnchanged

-----------------------------------------------------------------------------
(* A commit of the cursor plane: evdi_cursor_atomic_update, then the flush.  *)

(* evdi_cursor_set_gem gets the new object and puts the old one.            *)
evdi_cursor_set_gem(objects, new) ==
    LET got == IF new = None THEN objects ELSE [objects EXCEPT ![new] = drm_gem_object_get(@)]
        old == cursor.object
    IN  IF old = None THEN got ELSE [got EXCEPT ![old] = drm_gem_object_put(old, @)]

(* evdi_cursor_atomic_update takes the lock of the cursor for each of its
   calls.  First the cursor moves (evdi_cursor_move); the position it had is
   that of the old state of the plane.  The core holds a reference on the
   picture of the plane and, until the commit ends, on the one it replaces.  *)
evdi_cursor_atomic_update(o, x, y) ==
    /\ commit.pc = "idle" /\ Spend("cursors")
    /\ o \in {None, cursorPlane} \/ <<o, "compositor">> \in handles
    /\ cursor' = [cursor EXCEPT !.x = x, !.y = y]
    /\ cursorPlane' = o
    /\ gem' = IF o = None THEN gem ELSE [gem EXCEPT ![o] = drm_gem_object_get(@)]
    /\ commit' = [NoCommit EXCEPT !.kind = "cursor", !.fb = o, !.old = cursorPlane,
                       !.cursor = cursor, !.moved = <<x, y>> # <<cursor.x, cursor.y>>,
                       !.pc = IF o = cursorPlane THEN "events"
                              ELSE IF o = None THEN "enable" ELSE "picture"]
    /\ spoiled' = (spoiled \/ (o = None /\ cursor.object # None))
    /\ UNCHANGED <<painterVars, eventVars, vtVars, cursor_events_enabled, ddcci, plane, handles,
                   fbrefs, grab, owed, flips, answered, told, seen, painted>>

CursorUnchanged == UNCHANGED <<painterVars, eventVars, vtVars, cursor_events_enabled, ddcci,
                               planeVars, fbrefs, grab, budget, owed, flips, answered, told, seen,
                               painted>>

(* Then it shows the new picture.  One that cannot be mapped leaves it
   without a picture, and disabled.                                         *)
evdi_cursor_set ==
    /\ commit.pc = "picture" /\ ~oops
    /\ \E r \in IF gem[commit.fb].vmapping THEN {Done(gem[commit.fb])}
                ELSE Outcomes(evdi_gem_vmap(commit.fb, gem[commit.fb])) :
          LET shown == IF r.ok THEN commit.fb ELSE None
          IN  /\ gem' = evdi_cursor_set_gem([gem EXCEPT ![commit.fb] = r.object], shown)
              /\ cursor' = [cursor EXCEPT !.enabled = r.ok, !.object = shown]
    /\ Goto("enable") /\ UNCHANGED spoiled /\ CursorUnchanged

(* The plane enables it even then, and hides it when it has no picture.     *)
evdi_cursor_enable ==
    /\ commit.pc = "enable" /\ ~oops
    /\ cursor' = [cursor EXCEPT !.enabled = commit.fb # None,
                                !.object = IF commit.fb = None THEN None ELSE @]
    /\ gem' = IF commit.fb = None THEN evdi_cursor_set_gem(gem, None) ELSE gem
    /\ spoiled' = (spoiled \/ (commit.fb = None /\ cursor.object # None))
    /\ Goto("events") /\ CursorUnchanged

(* Whether the client paints the cursor itself is looked at without a lock. *)
CheckCursorEvents ==
    /\ commit.pc = "events" /\ ~oops
    /\ Goto(IF ~cursor_events_enabled THEN IF commit.fb = None THEN "flush" ELSE "oldrect"
            ELSE IF commit.fb # commit.old THEN "set" ELSE "move")
    /\ UNCHANGED <<cursor, gem, spoiled>> /\ CursorUnchanged

(* A mutant: where the cursor was is not damaged.                           *)
ForgetOldCursor ==
    /\ commit.pc = "oldrect" /\ ~oops
    /\ Goto("newrect") /\ UNCHANGED <<dirty_rects, owed>> /\ MarkUnchanged /\ UNCHANGED cursorVars

(* Without cursor events the picture is painted into the frames, so where it
   was and where it is are damaged; for objects of some compositors the whole
   framebuffer is.                                                          *)
MarkOldCursor ==
    /\ commit.pc = "oldrect" /\ ~oops
    /\ IF commit.fb \in RectUpdates
       THEN evdi_painter_mark_dirty(
                evdi_cursor_atomic_get_rect(commit.cursor.x, commit.cursor.y,
                    IF commit.old = None THEN [w |-> 0, h |-> 0] ELSE Size[commit.old]))
       ELSE UNCHANGED <<dirty_rects, owed>>
    /\ Goto("newrect") /\ MarkUnchanged /\ UNCHANGED cursorVars

MarkNewCursor ==
    /\ commit.pc = "newrect" /\ ~oops
    /\ evdi_painter_mark_dirty(
           IF commit.fb \in RectUpdates
           THEN evdi_cursor_atomic_get_rect(cursor.x, cursor.y, Size[commit.fb])
           ELSE IF scanout_fb = None THEN Rect(0, 0, 0, 0) ELSE FullRect(Size[scanout_fb]))
    /\ Goto("flush") /\ MarkUnchanged /\ UNCHANGED cursorVars

(* The event of a new picture needs a handle of the object in the file of
   the client, and looks for it before it checks that there is a file.      *)
SendCursorSet ==
    /\ commit.pc = "set" /\ ~oops
    /\ IF cursor.object # None /\ drm_filp = None
       THEN oops' = TRUE /\ UNCHANGED commit
       ELSE /\ Sending(Event("cursor_set", cursor.object), "move")
            /\ UNCHANGED oops
    /\ IF cursor.object # None /\ drm_filp # None /\ <<cursor.object, drm_filp>> \notin handles
       THEN /\ handles' = handles \cup {<<cursor.object, drm_filp>>}
            /\ gem' = [gem EXCEPT ![cursor.object] = drm_gem_object_get(@)]
       ELSE UNCHANGED <<handles, gem>>
    /\ UNCHANGED <<painterVars, pending_events, send_events_work, inbox, vtVars, cursorVars,
                   ddcci, plane, cursorPlane, fbrefs, grab, budget, ghostVars>>

SendCursorMove ==
    /\ commit.pc = "move" /\ ~oops
    /\ IF commit.moved THEN Sending(Event("cursor_move", <<cursor.x, cursor.y>>), "flush")
                       ELSE Goto("flush")
    /\ UNCHANGED <<painterVars, eventVars, vtVars, cursorVars, ddcci, planeVars, bufferVars, grab,
                   budget, ghostVars>>

-----------------------------------------------------------------------------
(* The console is switched: the notifier turns the display off and asks for
   a full modeset.                                                          *)
evdi_painter_vt_notifier_call ==
    /\ vt = "idle" /\ Spend("switches")
    /\ fg_console' = 1 - fg_console
    /\ vt' = IF is_connected /\ fg_console' # painter_fg /\ ~needs_full_modeset
             THEN IF MaySend THEN "send" ELSE "force" ELSE "idle"
    /\ UNCHANGED <<painterVars, eventVars, painter_fg, cursorVars, ddcci, planeVars, bufferVars,
                   commit, grab, ghostVars>>

VtSends ==
    /\ vt = "send" /\ ~oops
    /\ PostEvent(Event("dpms", "off")) /\ vt' = "force"
    /\ UNCHANGED <<painterVars, painter_fg, fg_console, cursorVars, ddcci, planeVars, bufferVars,
                   commit, grab, budget, ghostVars>>

evdi_painter_force_full_modeset ==
    /\ vt = "force" /\ ~oops
    /\ needs_full_modeset' = TRUE /\ vt' = "idle"
    /\ UNCHANGED <<is_connected, drm_filp, dirty_rects, scanout_fb, was_update_requested, vblank,
                   eventVars, painter_fg, fg_console, cursorVars, ddcci, planeVars, bufferVars,
                   commit, grab, budget, ghostVars>>

-----------------------------------------------------------------------------
(* The client: connect, ask for an update, grab, disconnect or close.       *)

(* A second connect replaces the file of the first.                         *)
evdi_painter_connect(f) ==
    /\ Spend("connects")
    /\ drm_filp' = f /\ is_connected' = TRUE /\ needs_full_modeset' = TRUE
    /\ told' = None /\ seen' = None /\ painted' = {} /\ spoiled' = (grab.pc # "idle")
    /\ UNCHANGED <<dirty_rects, scanout_fb, was_update_requested, vblank, eventVars, vtVars,
                   cursorVars, ddcci, planeVars, bufferVars, commit, grab, owed, flips, answered>>

(* The rectangles and the wish for a full modeset are kept.                 *)
evdi_painter_disconnect(f) ==
    /\ drm_filp = f /\ Spend("leaves")
    /\ scanout_fb' = None /\ is_connected' = FALSE /\ drm_filp' = None
    /\ was_update_requested' = FALSE
    /\ vblank' = None /\ answered' = evdi_send_vblank(answered, vblank)
    /\ pending_events' = <<>> /\ send_events_work' = FALSE
    /\ cursor' = [cursor EXCEPT !.enabled = FALSE, !.object = None]
    /\ cursor_events_enabled' = FALSE
    /\ fbrefs' = IF scanout_fb = None THEN fbrefs ELSE [fbrefs EXCEPT ![scanout_fb] = @ - 1]
    /\ gem' = evdi_cursor_set_gem(IF scanout_fb # None /\ fbrefs[scanout_fb] = 1
                                  THEN [gem EXCEPT ![scanout_fb] = drm_gem_object_put(scanout_fb, @)]
                                  ELSE gem, None)
    /\ ddcci' = [ddcci EXCEPT !.buffer = None, !.done = TRUE]
    /\ told' = None /\ seen' = None /\ painted' = {} /\ spoiled' = (grab.pc # "idle")
    /\ UNCHANGED <<dirty_rects, needs_full_modeset, inbox, oops, vtVars, planeVars, commit, grab,
                   owed, flips>>

evdi_painter_enable_cursor_events_ioctl ==
    /\ Spend("enables")
    /\ cursor_events_enabled' = ~cursor_events_enabled /\ spoiled' = TRUE
    /\ UNCHANGED <<painterVars, eventVars, vtVars, cursor, ddcci, planeVars, bufferVars, commit, grab,
                   owed, flips, answered, told, seen, painted>>

(* A mutant: a request that is granted is remembered too.                   *)
RequestRemembered ==
    /\ ~oops /\ grab.pc = "idle" /\ is_connected
    /\ grab' = IF ~was_update_requested /\ dirty_rects # <<>> THEN [grab EXCEPT !.pc = "granted"]
                                                              ELSE grab
    /\ was_update_requested' = TRUE
    /\ UNCHANGED <<is_connected, drm_filp, dirty_rects, scanout_fb, needs_full_modeset, vblank,
                   eventVars, vtVars, cursorVars, ddcci, planeVars, bufferVars, commit, budget,
                   ghostVars>>

(* A request is remembered only while there is nothing to grab.             *)
evdi_painter_request_update_ioctl ==
    /\ ~oops /\ grab.pc = "idle" /\ is_connected
    /\ IF ~was_update_requested /\ dirty_rects # <<>>
       THEN grab' = [grab EXCEPT !.pc = "granted"] /\ UNCHANGED was_update_requested
       ELSE was_update_requested' = TRUE /\ UNCHANGED grab
    /\ UNCHANGED <<is_connected, drm_filp, dirty_rects, scanout_fb, needs_full_modeset, vblank,
                   eventVars, vtVars, cursorVars, ddcci, planeVars, bufferVars, commit, budget,
                   ghostVars>>

(* The first half of the grab, under the lock: the rectangles, a reference
   on the framebuffer and the stored event go to the caller.  Without a
   scanout buffer it fails with EAGAIN, and the library calls again.         *)
evdi_painter_grabpix_ioctl(size, limit) ==
    /\ grab.pc = "granted" /\ ~oops
    /\ LET rects == GrabDirts(dirty_rects, limit)
       IN  IF scanout_fb = None
           THEN dirty_rects' = rects /\ UNCHANGED <<vblank, fbrefs, grab, owed>>
           ELSE /\ dirty_rects' = <<>> /\ vblank' = None
                /\ fbrefs' = FbGet(fbrefs, scanout_fb)
                /\ grab' = [pc |-> "map", rects |-> rects, fb |-> scanout_fb,
                            event |-> vblank, size |-> size]
                /\ owed' = owed \ UNION {Pixels(rects[i]) : i \in 1 .. Len(rects)}
    /\ UNCHANGED <<is_connected, drm_filp, scanout_fb, was_update_requested, needs_full_modeset,
                   eventVars, vtVars, cursorVars, ddcci, planeVars, gem, commit, budget, flips,
                   answered, told, seen, pictureVars>>

GrabUnchanged == UNCHANGED <<painterVars, eventVars, vtVars, cursorVars, ddcci, planeVars, commit,
                             budget, owed, flips, told, seen>>

(* The framebuffer is mapped if it is not yet.                              *)
GrabMaps ==
    /\ grab.pc = "map" /\ ~oops
    /\ \E r \in IF gem[grab.fb].vmapping THEN {Done(gem[grab.fb])}
                                         ELSE Outcomes(evdi_gem_vmap(grab.fb, gem[grab.fb])) :
          /\ gem' = [gem EXCEPT ![grab.fb] = r.object]
          /\ grab' = [grab EXCEPT !.pc = IF r.ok THEN "copy" ELSE "end"]
          /\ spoiled' = (spoiled \/ ~r.ok)
    /\ UNCHANGED <<fbrefs, answered, painted>> /\ GrabUnchanged

(* copy_primary_pixels: refused unless the buffer of the client has the size
   of the framebuffer and every rectangle is in it.                         *)
GrabCopies ==
    /\ grab.pc = "copy" /\ ~oops
    /\ LET fits == grab.size = Size[grab.fb] /\ RectsFit(grab.rects, grab.size)
           copied == UNION {Pixels(grab.rects[i]) : i \in 1 .. Len(grab.rects)}
       IN  /\ grab' = [grab EXCEPT !.pc = IF ~fits THEN "end"
                                         ELSE IF cursor_events_enabled THEN "end" ELSE "paint"]
           /\ painted' = IF fits THEN painted \ copied ELSE painted
           /\ spoiled' = (spoiled \/ ~fits)
    /\ UNCHANGED <<bufferVars, answered>> /\ GrabUnchanged

(* The pixels evdi_cursor_compose_and_copy writes: all of the cursor that is
   on a framebuffer of this size, whatever was damaged.                     *)
evdi_cursor_compose_and_copy(size) ==
    IF ~cursor.enabled \/ cursor.object = None THEN {}
    ELSE IF ~gem[cursor.object].vmapping THEN {}
    ELSE LET c == Size[cursor.object]
         IN  Pixels(Rect(cursor.x, cursor.y, cursor.x + 2 * (c.w \div 2),
                         cursor.y + 2 * (c.h \div 2)))
             \cap Pixels(FullRect(size))

(* Whether the cursor has moved but still shows the picture before, and what
   the commit will damage is the place of another size.                     *)
HalfChanged ==
    /\ commit.pc = "picture" /\ commit.fb \in RectUpdates /\ cursor.object # None
    /\ Size[cursor.object] # Size[commit.fb]

GrabPaintsCursor ==
    /\ grab.pc = "paint" /\ ~oops
    /\ painted' = painted \cup evdi_cursor_compose_and_copy(Size[grab.fb])
    /\ spoiled' = (spoiled \/ HalfChanged)
    /\ grab' = [grab EXCEPT !.pc = "end"]
    /\ UNCHANGED <<bufferVars, answered>> /\ GrabUnchanged

(* On every way out the event is sent and the framebuffer is put.           *)
GrabEnds ==
    /\ grab.pc = "end" /\ ~oops
    /\ answered' = evdi_send_vblank(answered, grab.event)
    /\ drm_framebuffer_put(grab.fb) /\ grab' = NoGrab
    /\ UNCHANGED pictureVars /\ GrabUnchanged

-----------------------------------------------------------------------------
(* Buffers: user space maps, exports and closes them while they are shown.  *)

BufferUnchanged == UNCHANGED <<painterVars, vtVars, cursorVars, ddcci, plane, cursorPlane,
                               commit, grab, ghostVars, pending_events, send_events_work, oops>>

MapDumb(o) ==
    /\ Spend("buffers") /\ <<o, "compositor">> \in handles
    /\ \E r \in evdi_gem_mmap(o, gem[o]) : gem' = [gem EXCEPT ![o] = r.object]
    /\ UNCHANGED <<fbrefs, handles, inbox>> /\ BufferUnchanged

(* An importer holds a reference and a pin.                                 *)
PrimeExport(o) ==
    /\ Spend("buffers") /\ <<o, "compositor">> \in handles /\ ~IsImported(o)
    /\ \E r \in evdi_prime_pin(o, gem[o]) :
          gem' = [gem EXCEPT ![o] = IF r.ok THEN drm_gem_object_get(r.object) ELSE r.object]
    /\ UNCHANGED <<fbrefs, handles, inbox>> /\ BufferUnchanged

PrimeRelease(o) ==
    /\ gem[o].exported > 0 /\ ~oops
    /\ gem' = [gem EXCEPT ![o] = drm_gem_object_put(o, evdi_prime_unpin(@))]
    /\ UNCHANGED <<fbrefs, handles, inbox, budget>> /\ BufferUnchanged

CloseHandle(o) ==
    /\ Spend("buffers") /\ <<o, "compositor">> \in handles
    /\ handles' = handles \ {<<o, "compositor">>}
    /\ gem' = [gem EXCEPT ![o] = drm_gem_object_put(o, @)]
    /\ UNCHANGED <<fbrefs, inbox>> /\ BufferUnchanged

(* The compositor removes a framebuffer it no longer shows.                 *)
RemoveFb(f) ==
    /\ Spend("buffers") /\ plane # f /\ commit.pc = "idle" /\ <<f, "id">> \in handles
    /\ drm_framebuffer_put(f) /\ handles' = handles \ {<<f, "id">>}
    /\ UNCHANGED inbox /\ BufferUnchanged

(* The rest of closing a file that is not, or no longer, connected.         *)
CloseFile(f) ==
    /\ drm_filp # f /\ ~oops
    /\ inbox[f] # <<>> \/ \E o \in Objects : <<o, f>> \in handles
    /\ inbox' = [inbox EXCEPT ![f] = <<>>]
    /\ handles' = handles \ (Objects \X {f})
    /\ gem' = [o \in Objects |-> IF <<o, f>> \in handles THEN drm_gem_object_put(o, gem[o])
                                                         ELSE gem[o]]
    /\ UNCHANGED <<fbrefs, budget>> /\ BufferUnchanged

-----------------------------------------------------------------------------
(* A DDC/CI message on the i2c adapter waits for the answer of the client.  *)

DdcUnchanged == UNCHANGED <<painterVars, vtVars, cursorVars, planeVars, bufferVars, commit, grab,
                            ghostVars>>

evdi_painter_i2c_data_notify ==
    /\ ddcci.pc = "idle" /\ is_connected /\ Spend("messages")
    /\ ddcci' = [ddcci EXCEPT !.done = FALSE, !.asked = @ + 1, !.got = None,
                              !.pc = IF MaySend THEN "send" ELSE "wait"]
    /\ UNCHANGED eventVars /\ DdcUnchanged

DdcSends ==
    /\ ddcci.pc = "send" /\ ~oops
    /\ PostEvent(Event("ddcci", ddcci.asked)) /\ ddcci' = [ddcci EXCEPT !.pc = "wait"]
    /\ UNCHANGED budget /\ DdcUnchanged

(* The answer to any message the client has read replaces the buffer.       *)
evdi_painter_ddcci_response_ioctl(m) ==
    /\ m \in 1 .. ddcci.asked /\ ~oops
    /\ ddcci.buffer # m \/ ~ddcci.done
    /\ ddcci' = [ddcci EXCEPT !.buffer = m, !.done = TRUE]
    /\ UNCHANGED <<eventVars, budget>> /\ DdcUnchanged

(* The caller takes what is in the buffer, or gives up after a time.        *)
evdi_painter_ddcci_data ==
    /\ ddcci.pc = "wait" /\ ~oops
    /\ \/ ddcci.done /\ ddcci' = [ddcci EXCEPT !.pc = "idle", !.got = ddcci.buffer, !.done = FALSE]
       \/ ddcci' = [ddcci EXCEPT !.pc = "idle"]
    /\ UNCHANGED <<eventVars, budget>> /\ DdcUnchanged

-----------------------------------------------------------------------------
CommitStep ==
    \/ evdi_plane_atomic_update \/ SetScanout \/ MarkDamage \/ CheckDirts \/ MarkFull
    \/ evdi_crtc_atomic_flush \/ evdi_painter_mode_changed_notify \/ NotifyDpms \/ CommitSends
    \/ evdi_painter_set_vblank \/ evdi_painter_send_update_ready_if_needed \/ EndCommit
    \/ evdi_cursor_set \/ evdi_cursor_enable \/ CheckCursorEvents
    \/ MarkOldCursor \/ MarkNewCursor \/ SendCursorSet \/ SendCursorMove

(* The buffer of the client has the size of some mode it was told.          *)
ClientStep ==
    \/ evdi_painter_request_update_ioctl
    \/ \E f \in budget.fbs \ {None}, limit \in budget.limits :
          evdi_painter_grabpix_ioctl(Size[f], limit)
    \/ GrabMaps \/ GrabCopies \/ GrabPaintsCursor \/ GrabEnds

Next ==
    \/ \E f \in budget.fbs, clips \in budget.clips, m \in budget.modes :
          BeginCommit(f, clips, m)
    \/ \E o \in budget.pictures, p \in Positions : evdi_cursor_atomic_update(o, p[1], p[2])
    \/ CommitStep \/ ClientStep \/ evdi_send_events_work
    \/ \E f \in budget.files : \/ evdi_painter_connect(f) \/ evdi_painter_disconnect(f)
                         \/ ClientReads(f) \/ CloseFile(f)
    \/ evdi_painter_enable_cursor_events_ioctl
    \/ evdi_painter_vt_notifier_call \/ VtSends \/ evdi_painter_force_full_modeset
    \/ \E o \in (budget.fbs \cup budget.pictures) \ {None} :
          MapDumb(o) \/ PrimeExport(o) \/ PrimeRelease(o) \/ CloseHandle(o)
    \/ \E f \in budget.fbs \ {None} : RemoveFb(f)
    \/ evdi_painter_i2c_data_notify \/ DdcSends \/ evdi_painter_ddcci_data
    \/ \E m \in 1 .. 2 : evdi_painter_ddcci_response_ioctl(m)

Spec == Init /\ [][Next]_vars

(* A commit that has begun runs to its end; a connected client keeps asking
   and grabbing, as the loop of evdi_process does.                          *)
FairSpec == Spec /\ WF_vars(CommitStep) /\ WF_vars(ClientStep)

-----------------------------------------------------------------------------
(* Damage is never lost by keeping the list of rectangles short: every pixel
   evdi_painter_mark_dirty was told of and no grab was given is in one of the
   rectangles, however they were merged and collapsed.                      *)
DirtCoversDamage ==
    owed \subseteq UNION {Pixels(dirty_rects[i]) : i \in 1 .. Len(dirty_rects)}

(* The event of a flip is in one place: with the commit, with the painter,
   with the grab that took it, or sent, once; whatever the order of commits,
   grabs that fail, disconnects and reconnects.                             *)
FlipHeldOnce ==
    \A e \in 1 .. flips :
        answered[e] + Cardinality({h \in {<<"commit", commit.event>>, <<"painter", vblank>>,
                                          <<"grab", grab.event>>} : h[2] = e}) = 1

(* Whoever uses a buffer finds it: the framebuffer the painter shows, the one
   a grab reads and the picture of the cursor are alive, what is being copied
   is mapped, and the pages of an object that the kernel, a process or an
   importer has mapped are there.                                           *)
BuffersOutliveUsers ==
    /\ \A f \in {scanout_fb, grab.fb, plane} \ {None} : fbrefs[f] > 0 /\ gem[f].references > 0
    /\ cursor.object # None => gem[cursor.object].references > 0
    /\ grab.pc \in {"copy", "paint"} => gem[grab.fb].vmapping
    /\ \A o \in Objects :
          /\ gem[o].references > 0
          /\ \/ gem[o].maps > 0 /\ ~evdi_drm_gem_object_use_import_attach(o)
             \/ gem[o].mmapped > 0 \/ gem[o].exported > 0
          => gem[o].pages

(* A client that asked for an update and was told to wait is woken: while its
   request stands and there is something to grab, a commit is on its way to
   evdi_painter_send_update_ready_if_needed.                                *)
NoLostWakeup ==
    was_update_requested /\ dirty_rects # <<>> => commit.pc \notin {"idle", "end"}

(* Squashing and a full file never lose the newest position of the cursor: it
   is the last the client has read, will read, or the painter has pending.  *)
LatestMoveSurvives ==
    told # None /\ drm_filp # None /\ ~oops =>
        LastMove(LastMove(seen, inbox[drm_filp]), pending_events) = told

(* A cursor that is painted into the frames leaves no trail: a pixel of the
   buffer of the client that shows it, and is no longer under it, is damaged.
   (Not after a failed grab, which drops its rectangles, nor after the cursor
   was hidden or turned into events, which damages nothing; nor after a grab
   that came between evdi_cursor_move and evdi_cursor_set and so painted the
   picture before, of another size, where the new one will be: the commit
   damages the place of each, not what the two make together.)              *)
NoCursorTrail ==
    /\ commit.pc = "idle" /\ grab.pc = "idle" /\ ~spoiled /\ ~cursor_events_enabled
    /\ scanout_fb # None
    => painted \cap Pixels(FullRect(Size[scanout_fb]))
         \subseteq evdi_cursor_compose_and_copy(Size[scanout_fb]) \cup
                   UNION {Pixels(dirty_rects[i]) : i \in 1 .. Len(dirty_rects)}

(* The event of every flip is sent in the end: by a grab, by the next commit
   or by the disconnect; unless a client left in the middle of the commit and
   another came, who finds rectangles and no framebuffer to grab.           *)
FlipIsAnswered ==
    flips > 0 ~> \/ oops \/ (scanout_fb = None /\ dirty_rects # <<>>)
                 \/ \A e \in 1 .. flips : answered[e] = 1
==============================================================================
