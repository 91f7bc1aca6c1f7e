----------------------------- MODULE Type7Sender -----------------------------
(***************************************************************************)
(* What one captured frame does to the sender and to the display: the      *)
(* frame-sending half of t6-virtual-display.rs (send_frame,                *)
(* send_full_jpeg_frame, send_jpeg_type7_frame, send_raw_nv12_frame).      *)
(*                                                                         *)
(* A frame is the set of screen cells that changed since the previous      *)
(* frame the capture delivered.  The sender either sends a full picture to *)
(* the next buffer and flips to it, or patches a tile of the buffer on     *)
(* display, or drops the frame because it is late.  The device, external   *)
(* to the repository, is the set of cells in which each of its buffers     *)
(* differs from the captured screen.                                       *)
(***************************************************************************)
EXTENDS CommandRing, Sequences

CONSTANTS
    Options,        \* the command lines considered; the fields are those of the
                    \* code's Options, as far as they steer the sender
    CmdRing,        \* <<type7_cmd_addr, type7_cmd_wrap_addr>>
    SlotBases,      \* TYPE7_MODE6_ALLOCATED_BASES
    FbSpan,         \* bytes of a framebuffer of the layout
    SlotSpan,       \* bytes of a type 7 slot
    Cells,          \* the cells of the screen
    Frames,         \* the changes a frame may bring: subsets of Cells
    Tile(_),        \* rotate_bbox and type7_update_rect: the cells of the tile
    Fullish(_),     \* dirty_bbox_ratio >= 0.70
    FallsBack(_, _),\* tile too large or too small for the options
    FullLens,       \* lengths of encoded full pictures, for each transport
    TileLens        \* lengths of encoded tiles

RawTransports == {"nv12", "rgb24"}       \* nv12 also for yv12, rgb24 for yuv444
Transports == {"jpeg", "jpeg-type7"} \cup RawTransports

ASSUME OptionAssumption ==
    /\ Options \subseteq
          [transport : Transports, unsafe_generated_type7 : BOOLEAN,
           type7_setup_mode : {"legacy-full-jpeg", "synthetic-type4", "paired-type4-type7"},
           type7_setup_only : BOOLEAN, legacy_ring : BOOLEAN, drop_late_frames : BOOLEAN,
           type7_refresh_frames : Nat, type7_max_tile : Nat]
    /\ CmdRing \in Nat \X Nat
    /\ FullLens \in [Transports -> SUBSET Nat] /\ TileLens \subseteq Nat

ASSUME BufferAssumption ==
    /\ SlotBases \in [0..2 -> Nat \ {0}]
    /\ \A i, j \in 0..2 : i # j => SlotBases[i] # SlotBases[j]
    /\ \A i \in 0..2 : Layout.fb_addrs[i] > 0
    /\ \A i, j \in 0..2 : i # j => Layout.fb_addrs[i] # Layout.fb_addrs[j]

(* What the geometry module shows of the tile: it covers the change.       *)
ASSUME TileAssumption ==
    /\ Frames \subseteq SUBSET Cells
    /\ \A S \in SUBSET Cells : S \subseteq Tile(S) /\ Tile(S) \subseteq Cells

VARIABLES
    options,                        \* state.options, never changed
    sched,                          \* state.scheduler
    current_display_fb_addr,        \* NoFb for None
    current_type7_slot,
    current_type7_allocated_base,
    last_type7_dirty_bbox,          \* {} for None
    sent_frames,
    type7_full_reason,              \* of the frame just handled
    out,                            \* the packets the frame just handled sent
    shown,                          \* device: the buffer on display
    stale,                          \* device: cells of a buffer that are not
                                    \* those of the captured screen
    lossy                           \* history: a lost change may be untracked

sender == <<sched, current_display_fb_addr, current_type7_slot,
            current_type7_allocated_base, last_type7_dirty_bbox, sent_frames>>
vars == <<options, sender, type7_full_reason, out, shown, stale, lossy>>

NoFb == 0
TYPE7_SETUP_SLOT_ORDER == <<2, 0, 1>>
FbAddrs == {Layout.fb_addrs[i] : i \in 0..2}
Slots == {SlotBases[i] : i \in 0..2}
Buffers == FbAddrs \cup Slots

Type7On ==
    /\ options.transport = "jpeg-type7" /\ options.unsafe_generated_type7
    /\ options.type7_setup_mode # "legacy-full-jpeg"

-----------------------------------------------------------------------------
(* build_sender_state: the transport jpeg-type7 replaces the ring.         *)
Init ==
    /\ options \in Options
    /\ sched = IF options.transport = "jpeg-type7"
               THEN set_cmd_ring(new, CmdRing[1], CmdRing[2]) ELSE new
    /\ current_display_fb_addr = NoFb
    /\ current_type7_slot = 0
    /\ current_type7_allocated_base = SlotBases[0]
    /\ last_type7_dirty_bbox = {}
    /\ sent_frames = 0
    /\ type7_full_reason = "none"
    /\ out = <<>>
    /\ shown = NoFb
    /\ stale = [b \in Buffers |-> Cells]
    /\ lossy = FALSE

(* sent_frames is used only to ask whether it is zero or a multiple of the
   refresh period, so it is kept modulo that period, or capped at one.     *)
Counted == IF options.type7_refresh_frames > 0
           THEN (sent_frames + 1) % options.type7_refresh_frames ELSE 1

Packet(kind, at, len, buffer) ==
    [kind |-> kind, addr |-> at, len |-> len, buffer |-> buffer]

(* The device's side: a change makes every buffer older, a full picture
   makes one buffer equal to the screen, a tile makes its cells equal.     *)
Changed(D) == [b \in Buffers |-> stale[b] \cup D]
Painted(D, buffer, cells) ==
    [b \in Buffers |-> IF b = buffer THEN (stale[b] \cup D) \ cells ELSE stale[b] \cup D]

(* The next slot in the setup order, and what the sender remembers of the
   slot it has set up.                                                     *)
SetupBase == SlotBases[TYPE7_SETUP_SLOT_ORDER[current_type7_slot + 1]]

SlotKept == current_type7_slot

NextSlot == (current_type7_slot + 1) % 3

MovedTo(base) ==
    /\ current_display_fb_addr' = base
    /\ current_type7_allocated_base' = base
    /\ current_type7_slot' = NextSlot

(* send_full_jpeg_frame without a type 4 setup, from scheduler s.          *)
SendFlip(s, D, n) ==
    LET next == NextFb(s)
        off  == jpeg_cmd_offset(n + Padding + Header)
        a    == Addresses(next, off, Layout.fb_addrs[next.fb_index])
    IN  /\ sched' = Advanced(next, off)
        /\ current_display_fb_addr' = a.fb_addr
        /\ UNCHANGED <<current_type7_slot, current_type7_allocated_base>>
        /\ out' = <<Packet("flip", a.cmd_addr, JpegPacketLen(n), a.fb_addr)>>
        /\ shown' = a.fb_addr
        /\ stale' = Painted(D, a.fb_addr, Cells)

(* send_full_jpeg_frame with a type 4 setup, from scheduler s: the setup
   goes to the next slot in the setup order; in paired mode a tile of the
   same picture follows it.  Neither looks at reset_jpeg.                  *)
SendSetup(s, D, n, m) ==
    LET base == SetupBase
        off1 == type7_mode6_cmd_offset(n)
        s1   == Advanced(s, off1)
        off2 == type7_mode6_cmd_offset(m)
        setup == Packet("type4", Addresses(s, off1, base).cmd_addr, off1, base)
        tile  == Packet("type7", Addresses(s1, off2, base).cmd_addr, off2, base)
        paired == options.type7_setup_mode = "paired-type4-type7"
    IN  /\ sched' = IF paired THEN Advanced(s1, off2) ELSE s1
        /\ MovedTo(base)
        /\ out' = IF paired THEN <<setup, tile>> ELSE <<setup>>
        /\ shown' = base
        /\ stale' = Painted(D, base, Cells)

(* drop_late_frame, from scheduler s: nothing is sent.                     *)
Dropped(s, D) ==
    /\ options.drop_late_frames
    /\ sched' = s
    /\ out' = <<>>
    /\ stale' = Changed(D)
    /\ UNCHANGED <<current_display_fb_addr, current_type7_slot,
                   current_type7_allocated_base, sent_frames, shown>>

(* send_full_jpeg_frame: late before or after the encoder, or sent.        *)
send_full_jpeg_frame(s, D) ==
    \/ /\ Dropped(s, D)
       /\ lossy' = TRUE
    \/ /\ \E n \in FullLens[options.transport], m \in TileLens :
             IF Type7On THEN SendSetup(s, D, n, m) ELSE SendFlip(s, D, n)
       /\ sent_frames' = Counted
       /\ lossy' = FALSE

-----------------------------------------------------------------------------
RefreshNever == FALSE

RefreshFrame ==
    \/ sent_frames = 0
    \/ /\ options.type7_refresh_frames > 0
       /\ sent_frames % options.type7_refresh_frames = 0

(* The tile covers this change and the one before it.                      *)
TileOfChange(D) == Tile(D)

TileOf(D) == Tile(D \cup last_type7_dirty_bbox)

FullReason(D) ==
    IF current_display_fb_addr = NoFb THEN "no-current-fb"
    ELSE IF D = {} THEN "no-dirty-bbox"
    ELSE IF Fullish(D) THEN "fullish"
    ELSE IF RefreshFrame THEN "refresh"
    ELSE IF FallsBack(options, TileOf(D)) THEN "tile-ratio"
    ELSE "none"

(* Transports jpeg, and jpeg-type7 with type 7 off: every frame is full.   *)
FullFrame(D) ==
    /\ options.transport \notin RawTransports /\ ~Type7On
    /\ send_full_jpeg_frame(sched, D)
    /\ type7_full_reason' = "none"
    /\ UNCHANGED last_type7_dirty_bbox

(* send_jpeg_type7_frame when the tile is not wanted.                      *)
Type7Full(D) ==
    /\ Type7On
    /\ FullReason(D) # "none"
    /\ last_type7_dirty_bbox' = {}
    /\ send_full_jpeg_frame(sched, D)
    /\ type7_full_reason' = FullReason(D)

(* send_jpeg_type7_frame when the tile is late: the change of this frame is
   remembered, that of the frame before it no longer.                      *)
Type7Late(D) ==
    /\ Type7On
    /\ FullReason(D) = "none"
    /\ Dropped(sched, D)
    /\ last_type7_dirty_bbox' = D
    /\ lossy' = (lossy \/ out = <<>>)
    /\ type7_full_reason' = "none"

TileOffset(n) == IF options.legacy_ring THEN jpeg_cmd_offset(Header + n + Padding + Header)
                                       ELSE type7_mode6_cmd_offset(n)

(* send_jpeg_type7_frame when the tile is sent to the buffer on display.   *)
Type7Tile(D) ==
    /\ Type7On /\ ~options.type7_setup_only
    /\ FullReason(D) = "none"
    /\ \E n \in TileLens :
          LET off == TileOffset(n)
              a   == Addresses(sched, off, current_display_fb_addr)
          IN  /\ ~a.reset_jpeg
              /\ sched' = Advanced(sched, off)
              /\ out' = <<Packet("type7", a.cmd_addr,
                                 type7_mode6_cmd_offset(n), current_type7_allocated_base)>>
    /\ stale' = Painted(D, current_type7_allocated_base, TileOf(D))
    /\ last_type7_dirty_bbox' = D
    /\ sent_frames' = Counted
    /\ type7_full_reason' = "none"
    /\ UNCHANGED <<current_display_fb_addr, current_type7_slot,
                   current_type7_allocated_base, shown, lossy>>

(* send_jpeg_type7_frame when the scheduler asks for a reset: the tile's
   slot is given up and a full frame is sent from where it left the ring.  *)
Type7Wrap(D) ==
    /\ Type7On /\ ~options.type7_setup_only
    /\ FullReason(D) = "none"
    /\ \E n \in TileLens :
          /\ Addresses(sched, TileOffset(n), current_display_fb_addr).reset_jpeg
          /\ send_full_jpeg_frame(Advanced(sched, TileOffset(n)), D)
    /\ last_type7_dirty_bbox' = {}
    /\ type7_full_reason' = "cmd-wrap"

(* send_jpeg_type7_frame with --type7-setup-only: a setup of the whole
   picture is sent; a slot for the tile is taken and not used.             *)
Type7SetupOnly(D) ==
    /\ Type7On /\ options.type7_setup_only
    /\ FullReason(D) = "none"
    /\ \E n \in FullLens[options.transport], m \in TileLens :
          LET base == SetupBase
              off  == type7_mode6_cmd_offset(n)
              s1   == Advanced(sched, off)
          IN  /\ sched' = Advanced(s1, type7_mode6_cmd_offset(m))
              /\ out' = <<Packet("type4", Addresses(sched, off, base).cmd_addr, off, base)>>
              /\ MovedTo(base)
              /\ shown' = base
              /\ stale' = Painted(D, base, Cells)
    /\ last_type7_dirty_bbox' = D
    /\ sent_frames' = Counted
    /\ type7_full_reason' = "none"
    /\ lossy' = FALSE

(* RawFramePacket: the planar pictures are padded, the packed ones are not. *)
RawPacketLen(n) == Header + n + (IF options.transport = "nv12" THEN Padding ELSE 0)

(* The raw transports: the packet itself is written to the next framebuffer;
   the scheduler's cursor moves but its slot is not used.                  *)
RawFrame(D) ==
    /\ options.transport \in RawTransports
    /\ \E n \in FullLens[options.transport] :
          LET next == NextFb(sched)
              off  == jpeg_cmd_offset(n + Padding + Header)
              fb   == Layout.fb_addrs[next.fb_index]
          IN  /\ sched' = Advanced(next, off)
              /\ out' = <<Packet("raw", fb, RawPacketLen(n), fb)>>
              /\ shown' = fb
              /\ stale' = Painted(D, fb, Cells)
    /\ sent_frames' = Counted
    /\ lossy' = FALSE
    /\ UNCHANGED <<current_display_fb_addr, current_type7_slot, type7_full_reason,
                   current_type7_allocated_base, last_type7_dirty_bbox>>

(* frame_callback and async_frame_callback return without a call of
   send_frame (throttled, busy, a frame still pending): the change the frame
   brought is known to nobody.                                             *)
Skip(D) ==
    /\ stale' = Changed(D)
    /\ lossy' = TRUE
    /\ out' = <<>>
    /\ type7_full_reason' = "none"
    /\ UNCHANGED <<sender, shown>>

Next ==
    /\ \E D \in Frames :
          \/ FullFrame(D) \/ RawFrame(D)
          \/ Type7Full(D) \/ Type7Late(D) \/ Type7Tile(D) \/ Type7Wrap(D)
          \/ Type7SetupOnly(D) \/ Skip(D)
    /\ UNCHANGED options

Spec == Init /\ [][Next]_vars

-----------------------------------------------------------------------------
Packets ==
    [kind : {"flip", "type4", "type7", "raw"}, addr : Nat, len : Nat,
     buffer : Buffers]

Reasons == {"none", "no-current-fb", "no-dirty-bbox", "fullish", "refresh",
            "tile-ratio", "cmd-wrap"}

SenderTypes ==
    /\ options \in Options
    /\ sched \in Scheduler
    /\ current_display_fb_addr \in Buffers \cup {NoFb}
    /\ current_type7_slot \in 0..2
    /\ current_type7_allocated_base \in Slots
    /\ last_type7_dirty_bbox \in SUBSET Cells
    /\ sent_frames \in Nat
    /\ type7_full_reason \in Reasons

DeviceTypes ==
    /\ shown \in Buffers \cup {NoFb}
    /\ stale \in [Buffers -> SUBSET Cells]
    /\ lossy \in BOOLEAN

TypeOK == SenderTypes /\ DeviceTypes /\ out \in Seq(Packets)

(* What the display shows is right, or the sender knows where it is wrong.
   As long as no frame was skipped, no full frame dropped late and no two
   frames in a row, each cell of the picture on display that differs from
   the screen lies in last_type7_dirty_bbox, which the next tile covers;
   and after a frame that was sent there is no such cell.                  *)
StaleIsTracked ==
    shown # NoFb /\ ~lossy =>
        /\ stale[shown] \subseteq last_type7_dirty_bbox
        /\ out # <<>> => stale[shown] = {}

(* A tile is patched into the buffer that is on display: the sender's idea
   of the current buffer never parts from the device's.                    *)
TileHitsShown ==
    \A i \in DOMAIN out : out[i].kind = "type7" => out[i].buffer = shown

Meets(a, alen, b, blen) == a < b + blen /\ b < a + alen
Span(b) == IF b \in Slots THEN SlotSpan ELSE FbSpan

(* The bytes the display reads while b is shown: a raw picture is the packet
   that was written, whatever room the layout leaves it.                   *)
ShownSpans(b) == IF options.transport \in RawTransports
                 THEN {RawPacketLen(n) : n \in FullLens[options.transport]} ELSE {Span(b)}

(* The picture on display is not torn: no packet is written over the buffer
   that is being shown, and no full picture is decoded into it.            *)
ShownIsUntouched ==
    [][ shown # NoFb =>
          \A i \in DOMAIN out' :
              /\ \A span \in ShownSpans(shown) :
                    ~Meets(out'[i].addr, out'[i].len, shown, span)
              /\ out'[i].kind # "type7" => out'[i].buffer # shown ]_vars

(* The periodic refresh repairs the display: if frames go on being sent, the
   picture on display equals the screen again and again, however many
   frames were dropped in between.  Without type 7 each frame does.        *)
RefreshHeals ==
    (~Type7On \/ options.type7_refresh_frames > 0) /\ []<><<out' # <<>>>>_vars => []<>(shown # NoFb /\ stale[shown] = {})

(* The command memory of a packet lies in no framebuffer that the transport
   in use decodes into (docs/linux-driver-gap-analysis.md:213-214).        *)
CommandsMissFramebuffers ==
    \A i \in {j \in DOMAIN out : out[j].kind # "raw"} :
        \A b \in (IF Type7On THEN Slots ELSE FbAddrs) :
            ~Meets(out[i].addr, out[i].len, b, Span(b))

(* What the last two properties ask of an instance.  The options do not mix
   the ring of type 7 with full pictures in the framebuffers, which lie in it;
   the packets fit the ring, and raw pictures the room of a framebuffer, which
   those of three bytes a pixel do not.                                    *)
Type7Options ==
    \A o \in Options : o.transport = "jpeg-type7" =>
        o.unsafe_generated_type7 /\ o.type7_setup_mode # "legacy-full-jpeg"

RingsApart ==
    /\ SlotSpan \in Nat /\ FbSpan \in Nat
    /\ 3 * Unit <= CmdRing[2] - CmdRing[1] /\ 3 * Unit <= Layout.fb_addrs[0] - Layout.cmd_addr
    /\ \A i \in 0..2 : SlotBases[i] + SlotSpan <= CmdRing[1] \/ CmdRing[2] <= SlotBases[i]
    /\ \A i \in 0..2 : Layout.fb_addrs[0] <= Layout.fb_addrs[i]
    /\ \A i, j \in 0..2 : i # j => \/ Layout.fb_addrs[i] + FbSpan <= Layout.fb_addrs[j]
                                   \/ Layout.fb_addrs[j] + FbSpan <= Layout.fb_addrs[i]

PacketsFit ==
    /\ Unit % Grain = 0 /\ Slack <= Header + Padding + Header
    /\ \A n \in FullLens["jpeg"] : JpegPacketLen(n) < 3 * Unit
    /\ \A n \in FullLens["jpeg-type7"] \cup TileLens : Header + n + Padding + Header < 3 * Unit
    /\ \A o \in Options : o.transport \in RawTransports =>
          \A n \in FullLens[o.transport] : Header + n + Padding <= FbSpan

=============================================================================
