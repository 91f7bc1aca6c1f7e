-------------------------- MODULE Type7SenderProofs --------------------------
(***************************************************************************)
(* Proofs about the frame sender, for every screen, every tile function    *)
(* that covers its argument, every set of image lengths, every ring and    *)
(* layout and all options.                                                 *)
(*                                                                         *)
(* The argument: in type 7 mode the sender's two ideas of the current      *)
(* buffer are those of the device (Agree).  From it a tile lands on the    *)
(* buffer on display and, since a tile covers this change and the one      *)
(* before it, leaves nothing stale there that the sender does not know of. *)
(***************************************************************************)
EXTENDS Type7Sender, FrameScheduler, TLAPS

-----------------------------------------------------------------------------
(* The operators of the command ring, for every unit, grain, slack and layout
   the assumptions allow.                                                   *)

(* jpeg_cmd_offset gives a slot of at least one unit.                      *)
LEMMA JpegOffsetType ==
    ASSUME NEW n \in Nat PROVE jpeg_cmd_offset(n) \in Nat /\ jpeg_cmd_offset(n) > 0
  BY SizeAssumption DEF jpeg_cmd_offset

(* A JPEG packet shorter than three units fits the slot it is given.       *)
LEMMA JpegPacketFits ==
    ASSUME NEW n \in Nat, n < 3 * Unit PROVE n <= jpeg_cmd_offset(n)
  BY SizeAssumption DEF jpeg_cmd_offset

(* Rounding up loses less than one grain.                                  *)
LEMMA DivCeilBounds ==
    ASSUME NEW a \in Nat, NEW b \in Nat, b > 0
    PROVE  /\ div_ceil(a, b) \in Nat
           /\ a <= div_ceil(a, b) * b
           /\ div_ceil(a, b) * b < a + b
  <1> DEFINE q == (a + b - 1) \div b
             r == (a + b - 1) % b
  <1>1. q \in Int /\ r \in 0..(b - 1) /\ a + b - 1 = b * q + r
    OBVIOUS
  <1>2. b * q = q * b
    BY <1>1
  <1>3. q >= 0
    <2>1. SUFFICES ASSUME q <= -1 PROVE FALSE
      BY <1>1
    <2>2. b * q <= b * (-1)
      BY <2>1, <1>1
    <2> QED BY <2>2, <1>1
  <1> QED BY <1>1, <1>2, <1>3 DEF div_ceil

(* A type 4 or type 7 packet has room for its header and its image, and its
   slot is never empty.                                                    *)
LEMMA Type7PacketFits ==
    ASSUME NEW n \in Nat
    PROVE  /\ type7_mode6_cmd_offset(n) \in Nat
           /\ type7_mode6_cmd_offset(n) >= n + Header
  <1>1. n + Slack \in Nat /\ Grain \in Nat /\ Grain > 0
    BY SizeAssumption
  <1>2. /\ div_ceil(n + Slack, Grain) * Grain >= n + Slack
        /\ div_ceil(n + Slack, Grain) \in Nat
    BY <1>1, DivCeilBounds
  <1>3. div_ceil(n + Slack, Grain) * Grain \in Nat
    BY <1>1, <1>2
  <1> QED BY <1>2, <1>3, SizeAssumption DEF type7_mode6_cmd_offset

(* Moving the cursor or the framebuffer index, or replacing the ring, gives
   a scheduler again.                                                      *)
LEMMA SchedulerClosed ==
    ASSUME NEW s \in Scheduler
    PROVE  /\ \A off \in Nat : Advanced(s, off) \in Scheduler
           /\ NextFb(s) \in Scheduler
           /\ \A lo, hi \in Nat : set_cmd_ring(s, lo, hi) \in Scheduler
  BY SizeAssumption DEF Scheduler, Advanced, NextFb, set_cmd_ring, Wraps

(* A new scheduler is one.                                                 *)
LEMMA NewScheduler == new \in Scheduler
  BY SizeAssumption, LayoutAssumption DEF new, Scheduler

(* The address handed out is a natural number and the flag is Boolean.     *)
LEMMA AddressType ==
    ASSUME NEW s \in Scheduler, NEW off \in Nat, NEW fb
    PROVE  /\ Addresses(s, off, fb).cmd_addr \in Nat
           /\ Addresses(s, off, fb).fb_addr = fb
           /\ Wraps(s, off) \in BOOLEAN
  BY DEF Scheduler, Addresses, Wraps

-----------------------------------------------------------------------------
(* The allocator: every ring, every set of image lengths and every sequence of
   calls.                                                                   *)

(* What the three invariants rest on: the cursor is where the last slot of
   the lap ends, and every slot of the lap lies between the ring's start
   and the cursor.                                                         *)
CursorBounds ==
    /\ scheduler.initial_cmd_addr <= scheduler.cmd_wrap_addr
    /\ scheduler.initial_cmd_addr <= scheduler.cmd_addr
    /\ \A s \in lap : scheduler.initial_cmd_addr <= s.cmd_addr /\ EndOf(s) <= scheduler.cmd_addr
    /\ lap # {} => EndOf(issued) = scheduler.cmd_addr
    /\ lap = {} => issued = NoSlot

SchedulerIInv == SchedulerTypes /\ CursorBounds /\ SlotInRing /\ LapDisjoint

-----------------------------------------------------------------------------
(* One allocation, by any of the four calls, keeps the invariant: s is the
   scheduler with at most its framebuffer index moved.                     *)
LEMMA AllocateKeepsIInv ==
    ASSUME SchedulerIInv, NEW s \in Scheduler,
           s.initial_cmd_addr = scheduler.initial_cmd_addr,
           s.cmd_addr = scheduler.cmd_addr, s.cmd_wrap_addr = scheduler.cmd_wrap_addr,
           NEW off \in Nat, NEW fb \in Nat,
           Allocate(s, off, fb)
    PROVE  SchedulerIInv'
  <1> DEFINE at == IF Wraps(s, off) THEN s.initial_cmd_addr ELSE s.cmd_addr
             slot == Addresses(s, off, fb)
  <1>1. /\ slot \in FrameAddresses
        /\ slot.cmd_addr = at /\ slot.cmd_offset = off /\ at \in Nat
        /\ EndOf(slot) = at + off
    BY DEF Scheduler, FrameAddresses, Addresses, Wraps, EndOf
  <1>2. /\ scheduler' \in Scheduler
        /\ scheduler'.initial_cmd_addr = scheduler.initial_cmd_addr
        /\ scheduler'.cmd_wrap_addr = scheduler.cmd_wrap_addr
        /\ scheduler'.cmd_addr = at + off
    BY <1>1, SizeAssumption DEF Allocate, Advanced, Scheduler
  <1>3. issued' = slot
    BY DEF Allocate
  <1>4. lap' = (IF Wraps(s, off) THEN {} ELSE lap) \cup {slot}
    BY DEF Allocate
  <1>5. SchedulerTypes'
    BY <1>1, <1>2, <1>3, <1>4 DEF SchedulerIInv, SchedulerTypes
  <1>6. \A t \in lap : t \in FrameAddresses /\ EndOf(t) \in Nat
    BY DEF SchedulerIInv, SchedulerTypes, FrameAddresses, EndOf
  <1>7. CursorBounds'
    BY <1>1, <1>2, <1>3, <1>4, <1>6 DEF SchedulerIInv, CursorBounds, Scheduler, SchedulerTypes
  <1>8. SlotInRing'
    BY <1>1, <1>2, <1>4, <1>6
       DEF SchedulerIInv, CursorBounds, SlotInRing, Wraps, Scheduler, SchedulerTypes
  <1>9. LapDisjoint'
    BY <1>1, <1>2, <1>4, <1>6
       DEF SchedulerIInv, CursorBounds, LapDisjoint, Wraps, Scheduler, SchedulerTypes
  <1> QED BY <1>5, <1>7, <1>8, <1>9 DEF SchedulerIInv

(* One allocation reports a move backward.                                 *)
LEMMA AllocateFlags ==
    ASSUME SchedulerIInv, NEW s \in Scheduler, s.cmd_addr = scheduler.cmd_addr,
           NEW off \in Nat, NEW fb \in Nat, Allocate(s, off, fb),
           issued # NoSlot
    PROVE  issued'.reset_jpeg \/ issued'.cmd_addr = EndOf(issued)
  <1>1. EndOf(issued) = scheduler.cmd_addr
    BY DEF SchedulerIInv, CursorBounds
  <1> QED BY <1>1 DEF Allocate, Addresses

(* Every step is a replacement of the ring before the first slot, or one
   allocation with natural sizes.                                          *)
LEMMA SchedulerSteps ==
    ASSUME SchedulerTypes, SchedulerNext
    PROVE  \/ \E r \in Rings : SetCmdRing(r)
           \/ \E s \in Scheduler, off \in Nat, fb \in Nat :
                 /\ s.initial_cmd_addr = scheduler.initial_cmd_addr
                 /\ s.cmd_addr = scheduler.cmd_addr
                 /\ s.cmd_wrap_addr = scheduler.cmd_wrap_addr
                 /\ Allocate(s, off, fb)
  <1>1. issued.fb_addr \in Nat
    BY DEF SchedulerTypes, FrameAddresses
  <1>2. ASSUME NEW n \in Nat, next_jpeg_frame(n)
        PROVE  \E s \in Scheduler, off \in Nat, fb \in Nat :
                 /\ s.initial_cmd_addr = scheduler.initial_cmd_addr
                 /\ s.cmd_addr = scheduler.cmd_addr
                 /\ s.cmd_wrap_addr = scheduler.cmd_wrap_addr
                 /\ Allocate(s, off, fb)
    <2>1. /\ NextFb(scheduler) \in Scheduler
          /\ NextFb(scheduler).initial_cmd_addr = scheduler.initial_cmd_addr
          /\ NextFb(scheduler).cmd_addr = scheduler.cmd_addr
          /\ NextFb(scheduler).cmd_wrap_addr = scheduler.cmd_wrap_addr
      BY DEF SchedulerTypes, Scheduler, NextFb
    <2>2. Layout.fb_addrs[NextFb(scheduler).fb_index] \in Nat
      BY <2>1, LayoutAssumption DEF Scheduler
    <2>3. jpeg_cmd_offset(n + Padding + Header) \in Nat
      BY JpegOffsetType, SizeAssumption
    <2> QED BY <1>2, <2>1, <2>2, <2>3 DEF next_jpeg_frame
  <1>3. ASSUME NEW n \in Nat
        PROVE  /\ jpeg_cmd_offset(Header + n + Padding + Header) \in Nat
               /\ type7_mode6_cmd_offset(n) \in Nat
    BY JpegOffsetType, Type7PacketFits, SizeAssumption
  <1> QED
    BY <1>1, <1>2, <1>3
       DEF SchedulerNext, SchedulerTypes, next_jpeg_payload, next_type7_mode6_payload,
           next_video_payload_exact

LEMMA SchedulerInitIInv == SchedulerInit => SchedulerIInv
  BY SizeAssumption, LayoutAssumption
     DEF SchedulerInit, SchedulerIInv, SchedulerTypes, CursorBounds, SlotInRing, LapDisjoint, new, NoSlot,
         Scheduler, FrameAddresses

LEMMA SchedulerNextIInv == SchedulerIInv /\ [SchedulerNext]_schedulerVars => SchedulerIInv'
  <1> SUFFICES ASSUME SchedulerIInv, [SchedulerNext]_schedulerVars PROVE SchedulerIInv'
    OBVIOUS
  <1>1. ASSUME NEW r \in Rings, SetCmdRing(r) PROVE SchedulerIInv'
    BY <1>1
       DEF Rings, SchedulerIInv, SchedulerTypes, CursorBounds, SlotInRing, LapDisjoint, SetCmdRing,
           set_cmd_ring, Scheduler
  <1>2. CASE UNCHANGED schedulerVars
    BY <1>2 DEF schedulerVars, SchedulerIInv, SchedulerTypes, CursorBounds, SlotInRing, LapDisjoint
  <1>3. CASE SchedulerNext
    BY <1>1, <1>3, SchedulerSteps, AllocateKeepsIInv DEF SchedulerIInv
  <1> QED BY <1>2, <1>3

(* The sender's addresses always have their types.                         *)
THEOREM SchedulerTypeCorrect == SchedulerSpec => []SchedulerTypes
  BY SchedulerInitIInv, SchedulerNextIInv, PTL DEF SchedulerSpec, SchedulerIInv

(* Packets stay inside the command ring, for every ring and call sequence. *)
THEOREM RingIsBounded == SchedulerSpec => []SlotInRing
  BY SchedulerInitIInv, SchedulerNextIInv, PTL DEF SchedulerSpec, SchedulerIInv

(* No byte of the ring is handed out twice within a lap.                   *)
THEOREM LapIsDisjoint == SchedulerSpec => []LapDisjoint
  BY SchedulerInitIInv, SchedulerNextIInv, PTL DEF SchedulerSpec, SchedulerIInv

(* The scheduler reports every move of the cursor back to the start.       *)
THEOREM WrapsAreFlagged == SchedulerSpec => WrapIsFlagged
  <1>1. ASSUME SchedulerIInv, SchedulerNext, issued # NoSlot, issued' # issued
        PROVE  issued'.reset_jpeg \/ issued'.cmd_addr = EndOf(issued)
    <2>1. ASSUME NEW r \in Rings, SetCmdRing(r) PROVE FALSE
      BY <2>1, <1>1 DEF SetCmdRing
    <2> QED BY <1>1, <2>1, SchedulerSteps, AllocateFlags DEF SchedulerIInv
  <1>2. SchedulerIInv /\ [SchedulerNext]_schedulerVars =>
          [issued # NoSlot /\ issued' # issued =>
             issued'.reset_jpeg \/ issued'.cmd_addr = EndOf(issued)]_schedulerVars
    BY <1>1
  <1> QED BY <1>2, SchedulerInitIInv, SchedulerNextIInv, PTL DEF SchedulerSpec, WrapIsFlagged

-----------------------------------------------------------------------------
(* The frame sender.                                                        *)

Agree ==
    Type7On =>
        /\ current_display_fb_addr = shown
        /\ shown # NoFb => current_type7_allocated_base = shown

IInv == TypeOK /\ Agree /\ StaleIsTracked /\ TileHitsShown

(* No buffer has the address that stands for None.                         *)
LEMMA BufferAddresses ==
    /\ Slots \subseteq Buffers /\ FbAddrs \subseteq Buffers
    /\ \A b \in Buffers : b \in Nat /\ b # NoFb
    /\ \A i \in 0..2 : SlotBases[i] \in Slots /\ Layout.fb_addrs[i] \in FbAddrs
  BY BufferAssumption, LayoutAssumption DEF Slots, FbAddrs, Buffers, NoFb

(* A packet built from an address, a length and a buffer is one.           *)
LEMMA PacketType ==
    ASSUME NEW at \in Nat, NEW len \in Nat,
           NEW b \in Buffers, NEW k \in {"flip", "type4", "type7", "raw"}
    PROVE  /\ Packet(k, at, len, b) \in Packets
           /\ Packet(k, at, len, b).kind = k
           /\ Packet(k, at, len, b).buffer = b
  BY DEF Packet, Packets

(* A change makes cells stale, a picture makes its cells fresh.            *)
LEMMA DeviceType ==
    ASSUME DeviceTypes, NEW D \in SUBSET Cells
    PROVE  /\ Changed(D) \in [Buffers -> SUBSET Cells]
           /\ \A b \in Buffers : Changed(D)[b] = stale[b] \cup D
           /\ \A c, S : Painted(D, c, S) \in [Buffers -> SUBSET Cells]
           /\ \A b \in Buffers : \A S : Painted(D, b, S)[b] = (stale[b] \cup D) \ S
  BY DEF DeviceTypes, Changed, Painted

(* The options have their types, and stay as they are.                     *)
LEMMA OptionTypes ==
    ASSUME options \in Options
    PROVE  /\ options.transport \in Transports
           /\ options.type7_refresh_frames \in Nat
           /\ FullLens[options.transport] \subseteq Nat
  BY OptionAssumption

LEMMA OptionsFixed ==
    ASSUME UNCHANGED options
    PROVE  (Type7On' => Type7On) /\ (Type7On => Type7On')
  BY DEF Type7On

LEMMA CountedType ==
    ASSUME sent_frames \in Nat, options \in Options
    PROVE  Counted \in Nat
  BY OptionTypes DEF Counted

(* send_full_jpeg_frame with a plain flip: one fresh framebuffer on display. *)
LEMMA FlipStep ==
    ASSUME TypeOK, NEW s \in Scheduler, NEW D \in SUBSET Cells, NEW n \in Nat,
           SendFlip(s, D, n)
    PROVE  /\ sched' \in Scheduler
           /\ shown' \in Buffers /\ current_display_fb_addr' = shown'
           /\ UNCHANGED <<current_type7_slot, current_type7_allocated_base>>
           /\ stale' \in [Buffers -> SUBSET Cells] /\ stale'[shown'] = {}
           /\ out' \in Seq(Packets) /\ out' # <<>>
           /\ \A i \in DOMAIN out' : out'[i].kind # "type7"
  <1> DEFINE next == NextFb(s)
             off == jpeg_cmd_offset(n + Padding + Header)
             fb == Layout.fb_addrs[next.fb_index]
             at == Addresses(next, off, fb).cmd_addr
             len == JpegPacketLen(n)
             p == Packet("flip", at, len, fb)
  <1>1. n + Padding + Header \in Nat /\ JpegPacketLen(n) \in Nat
    BY SizeAssumption DEF JpegPacketLen
  <1>2. off \in Nat
    BY <1>1, JpegOffsetType
  <1>3. next \in Scheduler /\ Advanced(next, off) \in Scheduler
    <2>1. next \in Scheduler
      BY SchedulerClosed
    <2> QED BY <2>1, <1>2, SchedulerClosed
  <1>4. fb \in Buffers
    <2>1. next.fb_index \in 0..2
      BY <1>3 DEF Scheduler
    <2> QED BY <2>1, BufferAddresses
  <1>5. Addresses(next, off, fb).cmd_addr \in Nat /\ Addresses(next, off, fb).fb_addr = fb
    BY <1>2, <1>3, AddressType
  <1>6. p \in Packets /\ p.kind = "flip"
    <2>1. next \in Scheduler /\ off \in Nat /\ at \in Nat /\ len \in Nat /\ fb \in Buffers
      BY <1>1, <1>2, <1>3, <1>4, <1>5
    <2> HIDE DEF next, off, at, len, fb
    <2> QED BY <2>1, PacketType
  <1>7. /\ sched' = Advanced(next, off) /\ current_display_fb_addr' = fb
        /\ UNCHANGED <<current_type7_slot, current_type7_allocated_base>>
        /\ out' = <<p>> /\ shown' = fb /\ stale' = Painted(D, fb, Cells)
    BY <1>5 DEF SendFlip
  <1>8. stale' \in [Buffers -> SUBSET Cells] /\ stale'[shown'] = {}
    <2>1. stale'[shown'] = (stale[fb] \cup D) \ Cells /\ stale' \in [Buffers -> SUBSET Cells]
      BY <1>4, <1>7, DeviceType DEF TypeOK
    <2>2. stale[fb] \subseteq Cells
      BY <1>4 DEF TypeOK, DeviceTypes
    <2> QED BY <2>1, <2>2
  <1> HIDE DEF p
  <1>9. out' \in Seq(Packets) /\ out' # <<>> /\ \A i \in DOMAIN out' : out'[i].kind # "type7"
    BY <1>6, <1>7
  <1> QED BY <1>3, <1>4, <1>7, <1>8, <1>9

(* send_full_jpeg_frame with a type 4 setup: one fresh slot on display, the
   sender's idea of it agrees, and a paired tile goes to the same slot.    *)
LEMMA SetupStep ==
    ASSUME TypeOK, NEW s \in Scheduler, NEW D \in SUBSET Cells, NEW n \in Nat, NEW k \in Nat,
           SendSetup(s, D, n, k)
    PROVE  /\ sched' \in Scheduler
           /\ shown' \in Slots /\ current_display_fb_addr' = shown'
           /\ current_type7_slot' \in 0..2 /\ current_type7_allocated_base' = shown'
           /\ stale' \in [Buffers -> SUBSET Cells] /\ stale'[shown'] = {}
           /\ out' \in Seq(Packets) /\ out' # <<>>
           /\ \A i \in DOMAIN out' : out'[i].buffer = shown'
  <1> DEFINE base == SetupBase
             off1 == type7_mode6_cmd_offset(n)
             s1 == Advanced(s, off1)
             off2 == type7_mode6_cmd_offset(k)
             at1 == Addresses(s, off1, base).cmd_addr
             at2 == Addresses(s1, off2, base).cmd_addr
             p1 == Packet("type4", at1, off1, base)
             p2 == Packet("type7", at2, off2, base)
  <1>1. off1 \in Nat /\ off2 \in Nat
    BY Type7PacketFits
  <1>2. s1 \in Scheduler /\ Advanced(s1, off2) \in Scheduler
    <2>1. s1 \in Scheduler
      BY <1>1, SchedulerClosed
    <2> QED BY <2>1, <1>1, SchedulerClosed
  <1>3. base \in Slots /\ base \in Buffers
    <2>1. TYPE7_SETUP_SLOT_ORDER[current_type7_slot + 1] \in 0..2
      BY DEF TypeOK, SenderTypes, TYPE7_SETUP_SLOT_ORDER
    <2> QED BY <2>1, BufferAddresses DEF SetupBase
  <1>4. p1 \in Packets /\ p1.buffer = base
    <2>1. at1 \in Nat /\ off1 \in Nat /\ base \in Buffers
      BY <1>1, <1>3, AddressType
    <2> HIDE DEF at1, off1, base
    <2> QED BY <2>1, PacketType
  <1>5. p2 \in Packets /\ p2.buffer = base
    <2>1. at2 \in Nat /\ off2 \in Nat /\ s1 \in Scheduler /\ base \in Buffers
      BY <1>1, <1>2, <1>3, AddressType
    <2> HIDE DEF at2, off2, s1, base
    <2> QED BY <2>1, PacketType
  <1>6. /\ sched' \in {s1, Advanced(s1, off2)} /\ MovedTo(base)
        /\ out' \in {<<p1>>, <<p1, p2>>} /\ shown' = base /\ stale' = Painted(D, base, Cells)
    BY DEF SendSetup
  <1>7. /\ current_display_fb_addr' = base /\ current_type7_allocated_base' = base
        /\ current_type7_slot' \in 0..2
    BY <1>6 DEF MovedTo, NextSlot, TypeOK, SenderTypes
  <1>8. stale' \in [Buffers -> SUBSET Cells] /\ stale'[shown'] = {}
    <2>1. stale'[shown'] = (stale[base] \cup D) \ Cells /\ stale' \in [Buffers -> SUBSET Cells]
      BY <1>3, <1>6, DeviceType DEF TypeOK
    <2>2. stale[base] \subseteq Cells
      BY <1>3 DEF TypeOK, DeviceTypes
    <2> QED BY <2>1, <2>2
  <1> HIDE DEF p1, p2, base
  <1>9. out' \in Seq(Packets) /\ out' # <<>> /\ \A i \in DOMAIN out' : out'[i].buffer = base
    <2>1. CASE out' = <<p1>>
      BY <2>1, <1>4
    <2>2. CASE out' = <<p1, p2>>
      BY <2>2, <1>4, <1>5
    <2> QED BY <2>1, <2>2, <1>6
  <1> QED BY <1>2, <1>3, <1>6, <1>7, <1>8, <1>9

-----------------------------------------------------------------------------
(* A full frame, dropped or sent, keeps the invariant.                     *)
LEMMA FullStep ==
    ASSUME IInv, NEW s \in Scheduler, NEW D \in SUBSET Cells,
           send_full_jpeg_frame(s, D), UNCHANGED options,
           last_type7_dirty_bbox' \in SUBSET Cells, type7_full_reason' \in Reasons
    PROVE  IInv'
  <1>1. CASE Dropped(s, D) /\ lossy' = TRUE
    <2>1. stale' \in [Buffers -> SUBSET Cells]
      BY <1>1, DeviceType DEF Dropped, IInv, TypeOK
    <2>2. SenderTypes' /\ Agree'
      BY <1>1, OptionsFixed DEF Dropped, IInv, TypeOK, SenderTypes, Agree
    <2>3. DeviceTypes' /\ out' \in Seq(Packets) /\ StaleIsTracked' /\ TileHitsShown'
      BY <1>1, <2>1 DEF Dropped, IInv, TypeOK, DeviceTypes, StaleIsTracked, TileHitsShown
    <2> QED BY <2>2, <2>3 DEF IInv, TypeOK
  <1>2. ASSUME NEW n \in FullLens[options.transport], NEW k \in TileLens, sent_frames' = Counted, lossy' = FALSE,
               IF Type7On THEN SendSetup(s, D, n, k) ELSE SendFlip(s, D, n)
        PROVE  IInv'
    <2>1. n \in Nat /\ k \in Nat /\ sent_frames' \in Nat /\ TypeOK
      BY <1>2, CountedType, OptionTypes, OptionAssumption DEF IInv, TypeOK, SenderTypes
    <2>2. CASE Type7On
      <3>1. SendSetup(s, D, n, k)
        BY <1>2, <2>2
      <3>2. /\ sched' \in Scheduler
            /\ shown' \in Slots /\ current_display_fb_addr' = shown'
            /\ current_type7_slot' \in 0..2 /\ current_type7_allocated_base' = shown'
            /\ stale' \in [Buffers -> SUBSET Cells] /\ stale'[shown'] = {}
            /\ out' \in Seq(Packets) /\ out' # <<>>
            /\ \A i \in DOMAIN out' : out'[i].buffer = shown'
        BY <2>1, <3>1, SetupStep
      <3>3. SenderTypes' /\ DeviceTypes' /\ Agree'
        BY <1>2, <2>1, <3>2, BufferAddresses DEF TypeOK, SenderTypes, DeviceTypes, Agree
      <3>4. StaleIsTracked' /\ TileHitsShown'
        BY <3>2 DEF StaleIsTracked, TileHitsShown
      <3> QED BY <3>2, <3>3, <3>4 DEF IInv, TypeOK
    <2>3. CASE ~Type7On
      <3>1. SendFlip(s, D, n)
        BY <1>2, <2>3
      <3>2. /\ sched' \in Scheduler
            /\ shown' \in Buffers /\ current_display_fb_addr' = shown'
            /\ UNCHANGED <<current_type7_slot, current_type7_allocated_base>>
            /\ stale' \in [Buffers -> SUBSET Cells] /\ stale'[shown'] = {}
            /\ out' \in Seq(Packets) /\ out' # <<>>
            /\ \A i \in DOMAIN out' : out'[i].kind # "type7"
        BY <2>1, <3>1, FlipStep
      <3>3. SenderTypes' /\ DeviceTypes' /\ Agree'
        BY <1>2, <2>1, <2>3, <3>2, BufferAddresses, OptionsFixed
        DEF IInv, TypeOK, SenderTypes, DeviceTypes, Agree
      <3>4. StaleIsTracked' /\ TileHitsShown'
        BY <3>2 DEF StaleIsTracked, TileHitsShown
      <3> QED BY <3>2, <3>3, <3>4 DEF IInv, TypeOK
    <2> QED BY <2>2, <2>3
  <1> QED BY <1>1, <1>2 DEF send_full_jpeg_frame

(* A late tile keeps the invariant: what was right before this frame is
   wrong only where this frame changed it.                                 *)
LEMMA LateStep ==
    ASSUME IInv, NEW D \in SUBSET Cells, Type7Late(D), UNCHANGED options
    PROVE  IInv'
  <1>1. /\ shown # NoFb /\ shown \in Buffers
    BY DEF Type7Late, FullReason, IInv, Agree, TypeOK, DeviceTypes
  <1>2. stale' \in [Buffers -> SUBSET Cells] /\ stale'[shown] = stale[shown] \cup D
    BY <1>1, DeviceType DEF Type7Late, Dropped, IInv, TypeOK
  <1>3. SenderTypes' /\ Agree'
    BY OptionsFixed DEF Type7Late, Dropped, IInv, TypeOK, SenderTypes, Agree, Reasons
  <1>4. lossy' \in BOOLEAN
    BY Zenon DEF Type7Late, IInv, TypeOK, DeviceTypes
  <1>5. DeviceTypes' /\ out' \in Seq(Packets) /\ TileHitsShown'
    BY <1>2, <1>4 DEF Type7Late, Dropped, IInv, TypeOK, DeviceTypes, TileHitsShown
  <1>6. StaleIsTracked'
    <2> SUFFICES ASSUME ~lossy' PROVE stale'[shown'] \subseteq last_type7_dirty_bbox' /\ out' = <<>>
      BY DEF StaleIsTracked
    <2>1. ~lossy /\ out # <<>>
      BY Zenon DEF Type7Late
    <2>2. stale[shown] = {}
      BY <1>1, <2>1 DEF IInv, StaleIsTracked
    <2> QED BY <1>2, <2>2 DEF Type7Late, Dropped
  <1> QED BY <1>3, <1>5, <1>6 DEF IInv, TypeOK

(* A tile keeps the invariant: it covers all that is stale on display.     *)
LEMMA TileStep ==
    ASSUME IInv, NEW D \in SUBSET Cells, Type7Tile(D), UNCHANGED options
    PROVE  IInv'
  <1>1. /\ shown # NoFb /\ shown \in Buffers /\ current_type7_allocated_base = shown
        /\ current_display_fb_addr = shown
    BY DEF Type7Tile, FullReason, IInv, Agree, TypeOK, DeviceTypes
  <1>2. PICK n \in TileLens :
           /\ sched' = Advanced(sched, TileOffset(n))
           /\ out' = <<Packet("type7", Addresses(sched, TileOffset(n), current_display_fb_addr).cmd_addr,
                              type7_mode6_cmd_offset(n), current_type7_allocated_base)>>
    BY DEF Type7Tile
  <1> DEFINE off == TileOffset(n)
             at == Addresses(sched, off, current_display_fb_addr).cmd_addr
             len == type7_mode6_cmd_offset(n)
             p == Packet("type7", at, len, shown)
  <1>3. n \in Nat /\ off \in Nat /\ len \in Nat /\ sched \in Scheduler
    <2>1. n \in Nat /\ Header + n + Padding + Header \in Nat
      BY OptionAssumption, SizeAssumption
    <2> QED BY <2>1, JpegOffsetType, Type7PacketFits DEF TileOffset, IInv, TypeOK, SenderTypes
  <1>4. at \in Nat /\ sched' \in Scheduler
    BY <1>2, <1>3, AddressType, SchedulerClosed
  <1>5. p \in Packets /\ p.buffer = shown /\ out' = <<p>>
    <2>1. out' = <<p>>
      BY <1>1, <1>2
    <2>2. sched \in Scheduler /\ off \in Nat /\ at \in Nat /\ len \in Nat /\ shown \in Buffers
      BY <1>1, <1>3, <1>4
    <2> HIDE DEF off, at, len
    <2>3. p \in Packets /\ p.buffer = shown
      BY <2>2, PacketType
    <2> QED BY <2>1, <2>3
  <1> HIDE DEF p, off, at, len
  <1>6. /\ UNCHANGED <<shown, lossy>> /\ last_type7_dirty_bbox' = D
        /\ stale' = Painted(D, shown, TileOf(D))
    BY <1>1 DEF Type7Tile
  <1>7. /\ stale' \in [Buffers -> SUBSET Cells]
        /\ stale'[shown] = (stale[shown] \cup D) \ TileOf(D)
    BY <1>1, <1>6, DeviceType DEF IInv, TypeOK
  <1>8. SenderTypes' /\ Agree'
    BY <1>4, CountedType, OptionsFixed DEF Type7Tile, IInv, TypeOK, SenderTypes, Agree, Reasons
  <1>9. DeviceTypes' /\ out' \in Seq(Packets) /\ TileHitsShown'
    BY <1>5, <1>6, <1>7 DEF IInv, TypeOK, DeviceTypes, TileHitsShown
  <1>10. StaleIsTracked'
    <2> SUFFICES ASSUME ~lossy PROVE stale'[shown] = {}
      BY <1>6 DEF StaleIsTracked
    <2>1. stale[shown] \subseteq last_type7_dirty_bbox /\ last_type7_dirty_bbox \in SUBSET Cells
      BY <1>1 DEF IInv, StaleIsTracked, TypeOK, SenderTypes
    <2>2. D \cup last_type7_dirty_bbox \subseteq TileOf(D)
      BY <2>1, TileAssumption DEF TileOf
    <2> QED BY <1>7, <2>1, <2>2
  <1> QED BY <1>8, <1>9, <1>10 DEF IInv, TypeOK

(* A setup without its tile keeps the invariant.                           *)
LEMMA SetupOnlyStep ==
    ASSUME IInv, NEW D \in SUBSET Cells, Type7SetupOnly(D), UNCHANGED options
    PROVE  IInv'
  <1> DEFINE base == SetupBase
  <1>1. PICK n \in FullLens[options.transport], k \in TileLens :
           /\ sched' = Advanced(Advanced(sched, type7_mode6_cmd_offset(n)),
                                type7_mode6_cmd_offset(k))
           /\ out' = <<Packet("type4", Addresses(sched, type7_mode6_cmd_offset(n), base).cmd_addr,
                              type7_mode6_cmd_offset(n), base)>>
    BY DEF Type7SetupOnly
  <1>2. MovedTo(base) /\ shown' = base /\ stale' = Painted(D, base, Cells)
    BY DEF Type7SetupOnly
  <1> DEFINE off == type7_mode6_cmd_offset(n)
             s1 == Advanced(sched, off)
             at == Addresses(sched, off, base).cmd_addr
             p == Packet("type4", at, off, base)
  <1>3. off \in Nat /\ type7_mode6_cmd_offset(k) \in Nat /\ sched \in Scheduler
    BY OptionTypes, OptionAssumption, Type7PacketFits DEF IInv, TypeOK, SenderTypes
  <1>4. s1 \in Scheduler /\ at \in Nat
    BY <1>3, SchedulerClosed, AddressType
  <1>5. sched' \in Scheduler
    BY <1>1, <1>3, <1>4, SchedulerClosed
  <1>6. base \in Slots /\ base \in Buffers
    <2>1. TYPE7_SETUP_SLOT_ORDER[current_type7_slot + 1] \in 0..2
      BY DEF IInv, TypeOK, SenderTypes, TYPE7_SETUP_SLOT_ORDER
    <2> QED BY <2>1, BufferAddresses DEF SetupBase
  <1>7. p \in Packets /\ p.buffer = base /\ out' = <<p>>
    <2>1. out' = <<p>>
      BY <1>1
    <2>2. sched \in Scheduler /\ off \in Nat /\ at \in Nat /\ base \in Buffers
      BY <1>3, <1>4, <1>6
    <2> HIDE DEF off, at, base
    <2>3. p \in Packets /\ p.buffer = base
      BY <2>2, PacketType
    <2> QED BY <2>1, <2>3
  <1> HIDE DEF p, off, at, s1, base
  <1>8. stale' \in [Buffers -> SUBSET Cells] /\ stale'[shown'] = {}
    <2>1. stale'[shown'] = (stale[base] \cup D) \ Cells /\ stale' \in [Buffers -> SUBSET Cells]
      BY <1>2, <1>6, DeviceType DEF IInv, TypeOK
    <2>2. stale[base] \subseteq Cells
      BY <1>6 DEF IInv, TypeOK, DeviceTypes
    <2> QED BY <2>1, <2>2
  <1>9. SenderTypes' /\ Agree'
    BY <1>2, <1>5, <1>6, CountedType
    DEF Type7SetupOnly, MovedTo, NextSlot, IInv, TypeOK, SenderTypes, Agree, Reasons
  <1>10. lossy' = FALSE
    BY DEF Type7SetupOnly
  <1>11. DeviceTypes' /\ StaleIsTracked'
    BY <1>2, <1>6, <1>8, <1>10 DEF DeviceTypes, StaleIsTracked
  <1>12. out' \in Seq(Packets) /\ TileHitsShown'
    BY <1>2, <1>7 DEF TileHitsShown
  <1> QED BY <1>9, <1>11, <1>12 DEF IInv, TypeOK

(* A raw picture keeps the invariant.                                      *)
LEMMA RawStep ==
    ASSUME IInv, NEW D \in SUBSET Cells, RawFrame(D), UNCHANGED options
    PROVE  IInv'
  <1> DEFINE next == NextFb(sched)
             fb == Layout.fb_addrs[next.fb_index]
  <1>1. PICK n \in FullLens[options.transport] :
           /\ sched' = Advanced(next, jpeg_cmd_offset(n + Padding + Header))
           /\ out' = <<Packet("raw", fb, RawPacketLen(n), fb)>>
    BY DEF RawFrame
  <1>2. shown' = fb /\ stale' = Painted(D, fb, Cells)
    BY DEF RawFrame
  <1> DEFINE off == jpeg_cmd_offset(n + Padding + Header)
             len == RawPacketLen(n)
             p == Packet("raw", fb, len, fb)
  <1>3. off \in Nat /\ len \in Nat
    <2>1. n + Padding + Header \in Nat /\ len \in Nat
      BY OptionTypes, SizeAssumption DEF IInv, TypeOK, SenderTypes, RawPacketLen
    <2> QED BY <2>1, JpegOffsetType
  <1>4. next \in Scheduler
    BY SchedulerClosed DEF IInv, TypeOK, SenderTypes
  <1>5. sched' \in Scheduler
    BY <1>1, <1>3, <1>4, SchedulerClosed
  <1>6. fb \in Buffers /\ fb \in Nat
    <2>1. next.fb_index \in 0..2
      BY <1>4 DEF Scheduler
    <2> QED BY <2>1, BufferAddresses
  <1>7. p \in Packets /\ p.kind = "raw" /\ out' = <<p>>
    <2>1. out' = <<p>>
      BY <1>1
    <2>2. next \in Scheduler /\ off \in Nat /\ len \in Nat /\ fb \in Nat /\ fb \in Buffers
      BY <1>3, <1>4, <1>6
    <2> HIDE DEF next, off, len, fb
    <2>3. p \in Packets /\ p.kind = "raw"
      BY <2>2, PacketType
    <2> QED BY <2>1, <2>3
  <1> HIDE DEF p, off, len, fb, next
  <1>8. stale' \in [Buffers -> SUBSET Cells] /\ stale'[shown'] = {}
    <2>1. stale'[shown'] = (stale[fb] \cup D) \ Cells /\ stale' \in [Buffers -> SUBSET Cells]
      BY <1>2, <1>6, DeviceType DEF IInv, TypeOK
    <2>2. stale[fb] \subseteq Cells
      BY <1>6 DEF IInv, TypeOK, DeviceTypes
    <2> QED BY <2>1, <2>2
  <1>9. SenderTypes' /\ Agree'
    <2>1. ~Type7On
      BY DEF RawFrame, RawTransports, Type7On
    <2> QED BY <1>5, <2>1, CountedType, OptionsFixed DEF RawFrame, IInv, TypeOK, SenderTypes, Agree
  <1>10. lossy' = FALSE
    BY DEF RawFrame
  <1>11. DeviceTypes' /\ StaleIsTracked'
    BY <1>2, <1>6, <1>8, <1>10 DEF DeviceTypes, StaleIsTracked
  <1>12. out' \in Seq(Packets) /\ TileHitsShown'
    BY <1>7 DEF TileHitsShown
  <1> QED BY <1>9, <1>11, <1>12 DEF IInv, TypeOK

(* A skipped frame keeps the invariant: it is recorded as lossy.           *)
LEMMA SkipStep ==
    ASSUME IInv, NEW D \in SUBSET Cells, Skip(D), UNCHANGED options
    PROVE  IInv'
  <1>1. stale' \in [Buffers -> SUBSET Cells]
    BY DeviceType DEF Skip, IInv, TypeOK
  <1>2. SenderTypes' /\ Agree'
    BY OptionsFixed DEF Skip, sender, IInv, TypeOK, SenderTypes, Agree, Reasons
  <1>3. DeviceTypes' /\ out' \in Seq(Packets) /\ TileHitsShown' /\ StaleIsTracked'
    BY <1>1 DEF Skip, IInv, TypeOK, DeviceTypes, TileHitsShown, StaleIsTracked
  <1> QED BY <1>2, <1>3 DEF IInv, TypeOK

-----------------------------------------------------------------------------
LEMMA InitIInv == Init => IInv
  <1> SUFFICES ASSUME Init PROVE IInv
    OBVIOUS
  <1>1. sched \in Scheduler
    BY NewScheduler, SchedulerClosed, OptionAssumption DEF Init
  <1>2. SenderTypes
    BY <1>1, BufferAddresses DEF Init, SenderTypes, Reasons
  <1>3. out \in Seq(Packets) /\ Agree /\ StaleIsTracked /\ TileHitsShown
    BY DEF Init, Agree, StaleIsTracked, TileHitsShown
  <1>4. DeviceTypes
    BY DEF Init, DeviceTypes
  <1> QED BY <1>2, <1>3, <1>4 DEF IInv, TypeOK

LEMMA NextIInv == IInv /\ [Next]_vars => IInv'
  <1> SUFFICES ASSUME IInv, [Next]_vars PROVE IInv'
    OBVIOUS
  <1>1. CASE UNCHANGED vars
    BY <1>1, OptionsFixed DEF vars, sender, IInv, TypeOK, SenderTypes, DeviceTypes, Agree, StaleIsTracked,
                TileHitsShown
  <1>2. ASSUME NEW D \in Frames,
               \/ FullFrame(D) \/ RawFrame(D) \/ Type7Full(D) \/ Type7Late(D)
               \/ Type7Tile(D) \/ Type7Wrap(D) \/ Type7SetupOnly(D) \/ Skip(D),
               UNCHANGED options
        PROVE  IInv'
    <2>1. D \in SUBSET Cells
      BY TileAssumption
    <2>2. sched \in Scheduler /\ last_type7_dirty_bbox \in SUBSET Cells
      BY DEF IInv, TypeOK, SenderTypes
    <2>3. CASE FullFrame(D)
      BY <1>2, <2>1, <2>2, <2>3, FullStep DEF FullFrame, Reasons
    <2>4. CASE Type7Full(D)
      <3>1. FullReason(D) \in Reasons
        BY DEF FullReason, Reasons
      <3> QED BY <1>2, <2>1, <2>2, <2>4, <3>1, FullStep DEF Type7Full, Type7On
    <2>5. CASE Type7Wrap(D)
      <3>1. PICK n \in TileLens : send_full_jpeg_frame(Advanced(sched, TileOffset(n)), D)
        BY <2>5 DEF Type7Wrap
      <3>2. TileOffset(n) \in Nat
        <4>1. n \in Nat /\ Header + n + Padding + Header \in Nat
          BY OptionAssumption, SizeAssumption
        <4> QED BY <4>1, JpegOffsetType, Type7PacketFits DEF TileOffset
      <3>3. Advanced(sched, TileOffset(n)) \in Scheduler
        BY <2>2, <3>2, SchedulerClosed
      <3> QED BY <1>2, <2>1, <2>5, <3>1, <3>3, FullStep DEF Type7Wrap, Type7On, Reasons
    <2> QED BY <1>2, <2>1, <2>3, <2>4, <2>5, RawStep, LateStep, TileStep, SetupOnlyStep, SkipStep
  <1> QED BY <1>1, <1>2 DEF Next

LEMMA AlwaysIInv == Spec => []IInv
  BY InitIInv, NextIInv, PTL DEF Spec

(* The sender's state, its packets and the device's buffers keep their types
   on every path of send_frame.                                            *)
THEOREM SenderTypeCorrect == Spec => []TypeOK
  <1>1. IInv => TypeOK
    BY DEF IInv
  <1> QED BY <1>1, AlwaysIInv, PTL

(* Unless a frame was lost outright, every stale cell on display lies in
   last_type7_dirty_bbox, and there is none after a frame that was sent.   *)
THEOREM DisplayIsTracked == Spec => []StaleIsTracked
  <1>1. IInv => StaleIsTracked
    BY DEF IInv
  <1> QED BY <1>1, AlwaysIInv, PTL

(* Every type 7 tile is patched into the buffer on display.                *)
THEOREM TilesHitTheDisplay == Spec => []TileHitsShown
  <1>1. IInv => TileHitsShown
    BY DEF IInv
  <1> QED BY <1>1, AlwaysIInv, PTL

-----------------------------------------------------------------------------
(* Where the packets go.  The scheduler keeps the ring of its transport, the
   picture on display is the last that was set up, and every packet that is
   not raw lies in the ring.                                               *)
RingLo == IF options.transport = "jpeg-type7" THEN CmdRing[1] ELSE Layout.cmd_addr
RingHi == IF options.transport = "jpeg-type7" THEN CmdRing[2] ELSE Layout.fb_addrs[0]

InRing(s) ==
    /\ s \in Scheduler /\ s.initial_cmd_addr = RingLo /\ s.cmd_wrap_addr = RingHi
    /\ RingLo <= s.cmd_addr

LastSetup == SlotBases[TYPE7_SETUP_SLOT_ORDER[((current_type7_slot + 2) % 3) + 1]]

ShownIsLast ==
    shown # NoFb => shown = IF Type7On THEN LastSetup ELSE Layout.fb_addrs[sched.fb_index]

CommandInRing(x) ==
    /\ x.addr \in Nat /\ x.len \in Nat
    /\ x.kind # "raw" => RingLo <= x.addr /\ x.addr + x.len <= RingHi

Ringed ==
    /\ InRing(sched) /\ ShownIsLast
    /\ \A i \in DOMAIN out : /\ CommandInRing(out[i])
                             /\ out[i].kind = "raw" => options.transport \in RawTransports

(* What a packet must not do to the picture on display.                    *)
Spares(x) ==
    shown # NoFb =>
        /\ \A span \in ShownSpans(shown) : ~Meets(x.addr, x.len, shown, span)
        /\ x.kind # "type7" => x.buffer # shown

Room == Type7Options /\ RingsApart /\ PacketsFit

(* The ring of a transport has room for three units, and no buffer that it
   decodes into.                                                           *)
LEMMA RingBounds ==
    ASSUME Room, options \in Options
    PROVE  /\ RingLo \in Nat /\ RingHi \in Nat /\ 3 * Unit <= RingHi - RingLo
           /\ options.transport = "jpeg-type7" <=> Type7On
           /\ Type7On => \A b \in Slots : b + SlotSpan <= RingLo \/ RingHi <= b
           /\ ~Type7On => \A b \in FbAddrs : RingHi <= b
<1>1. options.transport = "jpeg-type7" <=> Type7On
  BY DEF Room, Type7Options, Type7On
<1>2. /\ CmdRing[1] \in Nat /\ CmdRing[2] \in Nat
      /\ Layout.cmd_addr \in Nat /\ Layout.fb_addrs[0] \in Nat /\ Unit \in Nat
  BY OptionAssumption, LayoutAssumption, SizeAssumption
<1>3. /\ RingLo \in Nat /\ RingHi \in Nat /\ 3 * Unit <= RingHi - RingLo
  BY <1>2 DEF Room, RingsApart, RingLo, RingHi
<1>4. Type7On => \A b \in Slots : b + SlotSpan <= RingLo \/ RingHi <= b
  BY <1>1 DEF Room, RingsApart, RingLo, RingHi, Slots
<1>5. ~Type7On => \A b \in FbAddrs : RingHi <= b
  BY <1>1 DEF Room, RingsApart, RingHi, FbAddrs
<1> QED
  BY <1>1, <1>3, <1>4, <1>5

(* One slot of up to three units is handed out inside the ring.            *)
LEMMA SlotIsInRing ==
    ASSUME Room, options \in Options, NEW s, InRing(s), NEW off \in Nat, off <= 3 * Unit, NEW fb
    PROVE  /\ Addresses(s, off, fb).cmd_addr \in Nat
           /\ RingLo <= Addresses(s, off, fb).cmd_addr
           /\ Addresses(s, off, fb).cmd_addr + off <= RingHi
           /\ InRing(Advanced(s, off)) /\ Advanced(s, off).fb_index = s.fb_index
<1>1. RingLo \in Nat /\ RingHi \in Nat /\ 3 * Unit <= RingHi - RingLo /\ Unit \in Nat
  BY RingBounds, SizeAssumption
<1>2. Advanced(s, off) \in Scheduler /\ s \in Scheduler
  BY SchedulerClosed DEF InRing
<1>3. /\ s.cmd_addr \in Nat /\ s.initial_cmd_addr = RingLo /\ s.cmd_wrap_addr = RingHi
      /\ RingLo <= s.cmd_addr
  BY DEF InRing, Scheduler
<1> DEFINE at == Addresses(s, off, fb).cmd_addr
<1>4. at = IF s.cmd_addr + off > RingHi THEN RingLo ELSE s.cmd_addr
  BY <1>3 DEF Addresses, Wraps
<1>5. /\ Advanced(s, off).initial_cmd_addr = RingLo /\ Advanced(s, off).cmd_wrap_addr = RingHi
      /\ Advanced(s, off).cmd_addr = at + off /\ Advanced(s, off).fb_index = s.fb_index
  BY <1>3 DEF Advanced, Addresses
<1> HIDE DEF at
<1>6. at \in Nat /\ RingLo <= at /\ at + off <= RingHi /\ RingLo <= at + off
  BY <1>1, <1>3, <1>4
<1> QED
  BY <1>2, <1>5, <1>6 DEF InRing, at

(* A packet of type 4 or 7 is no longer than three units, nor than the slot it
   has on the legacy ring.                                                 *)
LEMMA RoundedFits ==
    ASSUME Room, NEW n \in Nat, Header + n + Padding + Header < 3 * Unit
    PROVE  /\ type7_mode6_cmd_offset(n) \in Nat
           /\ type7_mode6_cmd_offset(n) <= jpeg_cmd_offset(Header + n + Padding + Header)
           /\ jpeg_cmd_offset(Header + n + Padding + Header) \in Nat
           /\ jpeg_cmd_offset(Header + n + Padding + Header) <= 3 * Unit
<1> DEFINE m == Header + n + Padding + Header
           slot == jpeg_cmd_offset(m)
           q == div_ceil(n + Slack, Grain)
<1>1. /\ m \in Nat /\ n + Slack \in Nat /\ n + Slack <= m /\ Grain \in Nat /\ Grain > 0
      /\ Unit \in Nat /\ Unit > 0 /\ m < 3 * Unit /\ Trim \in Nat
  BY SizeAssumption DEF Room, PacketsFit
<1>2. q \in Nat /\ q * Grain < n + Slack + Grain
  BY <1>1, DivCeilBounds
<1> DEFINE u == Unit \div Grain
<1>3. u \in Nat /\ Unit = u * Grain
  BY <1>1 DEF Room, PacketsFit
<1>4. PICK k \in {1, 2, 3} : slot = k * Unit /\ m < k * Unit
  BY <1>1 DEF jpeg_cmd_offset
<1>5. type7_mode6_cmd_offset(n) = q * Grain - Trim
  BY DEF type7_mode6_cmd_offset
<1> HIDE DEF m, q, u, slot
<1>6. q <= k * u
  <2> SUFFICES ASSUME q >= k * u + 1 PROVE FALSE
    BY <1>2, <1>3
  <2>1. q * Grain >= (k * u + 1) * Grain
    <3>1. q = (k * u + 1) + (q - (k * u + 1)) /\ q - (k * u + 1) \in Nat
      BY <1>2, <1>3
    <3> DEFINE d == q - (k * u + 1)  e == k * u + 1
    <3>2. d * Grain >= 0 /\ e \in Nat /\ d \in Nat
      BY <1>1, <1>3, <3>1
    <3>3. q = e + d
      BY <3>1
    <3> HIDE DEF d, e
    <3>4. q * Grain = e * Grain + d * Grain
      BY <1>1, <3>2, <3>3
    <3>5. q * Grain >= e * Grain
      BY <1>1, <3>2, <3>4
    <3> QED
      BY <3>5 DEF e
  <2>2. (k * u + 1) * Grain = k * Unit + Grain
    <3>1. CASE k = 1
      BY <1>1, <1>3, <3>1
    <3>2. CASE k = 2
      BY <1>1, <1>3, <3>2
    <3>3. CASE k = 3
      BY <1>1, <1>3, <3>3
    <3> QED
      BY <3>1, <3>2, <3>3
  <2>3. k * Unit \in Nat /\ q * Grain \in Nat
    BY <1>1, <1>2
  <2> QED
    BY <1>1, <1>2, <1>4, <2>1, <2>2, <2>3
<1>7. q * Grain <= k * Unit
  <2>1. PICK d \in Nat : k * u = q + d
    <3>1. k * u - q \in Nat /\ k * u = q + (k * u - q)
      BY <1>2, <1>3, <1>6
    <3> QED
      BY <3>1
  <2>2. (k * u) * Grain = q * Grain + d * Grain /\ d * Grain >= 0 /\ q * Grain \in Nat
    BY <1>1, <1>2, <2>1
  <2>3. (k * u) * Grain = k * Unit
    <3>1. CASE k = 1
      BY <1>1, <1>3, <3>1
    <3>2. CASE k = 2
      BY <1>1, <1>3, <3>2
    <3>3. CASE k = 3
      BY <1>1, <1>3, <3>3
    <3> QED
      BY <3>1, <3>2, <3>3
  <2> QED
    BY <1>1, <2>2, <2>3
<1>8. slot \in Nat /\ slot <= 3 * Unit
  BY <1>1, <1>4
<1>9. type7_mode6_cmd_offset(n) \in Nat
  BY Type7PacketFits
<1>10. type7_mode6_cmd_offset(n) <= slot
  BY <1>1, <1>2, <1>4, <1>5, <1>7, <1>8
<1> QED
  BY <1>8, <1>9, <1>10 DEF slot, m

(* A packet in the ring leaves the picture on display alone.               *)
LEMMA ClearOfShown ==
    ASSUME Room, TypeOK, ShownIsLast, shown # NoFb, options.transport \notin RawTransports,
           NEW x, CommandInRing(x), x.kind # "raw"
    PROVE  \A span \in ShownSpans(shown) : ~Meets(x.addr, x.len, shown, span)
<1>1. options \in Options /\ current_type7_slot \in 0..2 /\ sched \in Scheduler
  BY DEF TypeOK, SenderTypes
<1>2. /\ RingLo \in Nat /\ RingHi \in Nat
      /\ Type7On => \A b \in Slots : b + SlotSpan <= RingLo \/ RingHi <= b
      /\ ~Type7On => \A b \in FbAddrs : RingHi <= b
  BY <1>1, RingBounds
<1>3. x.addr \in Nat /\ x.len \in Nat /\ RingLo <= x.addr /\ x.addr + x.len <= RingHi
  BY DEF CommandInRing
<1>4. ShownSpans(shown) = {Span(shown)}
  BY DEF ShownSpans
<1>5. shown \in Nat /\ SlotSpan \in Nat /\ FbSpan \in Nat
  BY BufferAddresses DEF TypeOK, DeviceTypes, Room, RingsApart
<1>6. CASE Type7On
  <2>1. shown \in Slots
    <3>1. TYPE7_SETUP_SLOT_ORDER[((current_type7_slot + 2) % 3) + 1] \in 0..2
      BY <1>1 DEF TYPE7_SETUP_SLOT_ORDER
    <3> QED
      BY <1>6, <3>1, BufferAddresses DEF ShownIsLast, LastSetup
  <2>2. Span(shown) = SlotSpan
    BY <2>1 DEF Span
  <2> QED
    BY <1>2, <1>3, <1>4, <1>5, <1>6, <2>1, <2>2 DEF Meets
<1>7. CASE ~Type7On
  <2>1. shown \in FbAddrs
    <3>1. sched.fb_index \in 0..2
      BY <1>1 DEF Scheduler
    <3> QED
      BY <1>7, <3>1, BufferAddresses DEF ShownIsLast
  <2> QED
    BY <1>2, <1>3, <1>4, <1>5, <1>7, <2>1 DEF Meets
<1> QED
  BY <1>6, <1>7

LEMMA FlipRings ==
    ASSUME Room, TypeOK, ShownIsLast, NEW s, InRing(s), s.fb_index = sched.fb_index,
           options.transport = "jpeg", NEW D, NEW n \in FullLens[options.transport], SendFlip(s, D, n)
    PROVE  /\ InRing(sched') /\ shown' = Layout.fb_addrs[sched'.fb_index]
           /\ \A i \in DOMAIN out' :
                 CommandInRing(out'[i]) /\ out'[i].kind # "raw" /\ Spares(out'[i])
<1> DEFINE next == NextFb(s)
           off == jpeg_cmd_offset(n + Padding + Header)
           fb == Layout.fb_addrs[next.fb_index]
           at == Addresses(next, off, fb).cmd_addr
           x == Packet("flip", at, JpegPacketLen(n), fb)
<1>1. n \in Nat /\ JpegPacketLen(n) = n + Padding + Header /\ n + Padding + Header < 3 * Unit
      /\ n + Padding + Header \in Nat /\ Unit \in Nat /\ options \in Options
  BY OptionTypes, SizeAssumption DEF JpegPacketLen, Room, PacketsFit, TypeOK, SenderTypes
<1>2. off \in Nat /\ off <= 3 * Unit /\ JpegPacketLen(n) <= off
  BY <1>1, JpegOffsetType, JpegPacketFits DEF jpeg_cmd_offset
<1>3. InRing(next) /\ next.fb_index = (sched.fb_index + 1) % 3
  <2>1. next \in Scheduler
    BY SchedulerClosed DEF InRing
  <2> QED
    BY <2>1 DEF InRing, NextFb
<1>4. sched.fb_index \in 0..2 /\ next.fb_index \in 0..2 /\ next.fb_index # sched.fb_index
  <2>1. sched.fb_index \in 0..2
    BY DEF TypeOK, SenderTypes, Scheduler
  <2>2. \A i \in 0..2 : (i + 1) % 3 \in 0..2 /\ (i + 1) % 3 # i
    OBVIOUS
  <2> QED
    BY <1>3, <2>1, <2>2
<1>5. Addresses(next, off, fb).fb_addr = fb
  BY DEF Addresses
<1>6. sched' = Advanced(next, off) /\ out' = <<x>> /\ shown' = fb
  BY <1>5 DEF SendFlip
<1> HIDE DEF next, off
<1>7. /\ at \in Nat /\ RingLo <= at /\ at + off <= RingHi
      /\ InRing(Advanced(next, off)) /\ Advanced(next, off).fb_index = next.fb_index
  BY <1>1, <1>2, <1>3, SlotIsInRing
<1>8. RingHi \in Nat /\ RingLo \in Nat
  BY <1>1, RingBounds
<1> HIDE DEF at
<1>9. x.addr = at /\ x.len = JpegPacketLen(n) /\ x.kind = "flip" /\ x.buffer = fb
  BY DEF Packet
<1>10. CommandInRing(x)
  BY <1>1, <1>2, <1>7, <1>8, <1>9 DEF CommandInRing
<1>11. Spares(x)
  <2> SUFFICES ASSUME shown # NoFb
               PROVE  /\ \A span \in ShownSpans(shown) : ~Meets(x.addr, x.len, shown, span)
                      /\ x.buffer # shown
    BY DEF Spares
  <2>1. ~Type7On
    BY DEF Type7On
  <2>2. shown = Layout.fb_addrs[sched.fb_index]
    BY <2>1 DEF ShownIsLast
  <2>3. fb # shown
    BY <1>4, <2>2, BufferAssumption
  <2>4. options.transport \notin RawTransports
    BY DEF RawTransports
  <2> HIDE DEF x
  <2> QED
    BY <1>9, <1>10, <2>3, <2>4, ClearOfShown
<1> HIDE DEF x
<1>12. \A i \in DOMAIN out' : out'[i] = x
  BY <1>6
<1> QED
  BY <1>6, <1>7, <1>9, <1>10, <1>11, <1>12

(* The slot after the one on display is another one, and the next to last.  *)
LEMMA SetupOrder ==
    ASSUME TypeOK
    PROVE  /\ SetupBase \in Slots /\ LastSetup \in Slots /\ SetupBase # LastSetup
           /\ current_type7_slot' = NextSlot => LastSetup' = SetupBase
<1>1. current_type7_slot \in {0, 1, 2}
  BY DEF TypeOK, SenderTypes
<1>2. /\ TYPE7_SETUP_SLOT_ORDER[1] = 2 /\ TYPE7_SETUP_SLOT_ORDER[2] = 0
      /\ TYPE7_SETUP_SLOT_ORDER[3] = 1
  BY DEF TYPE7_SETUP_SLOT_ORDER
<1>3. SlotBases[0] # SlotBases[1] /\ SlotBases[0] # SlotBases[2] /\ SlotBases[1] # SlotBases[2]
      /\ SlotBases[0] \in Slots /\ SlotBases[1] \in Slots /\ SlotBases[2] \in Slots
  BY BufferAssumption, BufferAddresses
<1>4. CASE current_type7_slot = 0
  BY <1>2, <1>3, <1>4 DEF SetupBase, LastSetup, NextSlot
<1>5. CASE current_type7_slot = 1
  BY <1>2, <1>3, <1>5 DEF SetupBase, LastSetup, NextSlot
<1>6. CASE current_type7_slot = 2
  BY <1>2, <1>3, <1>6 DEF SetupBase, LastSetup, NextSlot
<1> QED
  BY <1>1, <1>4, <1>5, <1>6

(* A type 4 or type 7 packet in a slot of the ring.                        *)
LEMMA RoundedInRing ==
    ASSUME Room, TypeOK, ShownIsLast, Type7On, NEW s, InRing(s),
           NEW n \in FullLens["jpeg-type7"] \cup TileLens, NEW b, NEW k \in {"type4", "type7"},
           NEW off \in {type7_mode6_cmd_offset(n), jpeg_cmd_offset(Header + n + Padding + Header)},
           NEW fb, k = "type4" => b # LastSetup
    PROVE  /\ InRing(Advanced(s, off))
           /\ LET x == Packet(k, Addresses(s, off, fb).cmd_addr, type7_mode6_cmd_offset(n), b)
              IN  CommandInRing(x) /\ x.kind # "raw" /\ Spares(x)
<1> DEFINE at == Addresses(s, off, fb).cmd_addr
           len == type7_mode6_cmd_offset(n)
           x == Packet(k, at, len, b)
<1>1. options \in Options /\ options.transport = "jpeg-type7" /\ options.transport \notin RawTransports
  BY DEF TypeOK, SenderTypes, Type7On, RawTransports
<1>2. n \in Nat /\ Header + n + Padding + Header < 3 * Unit
  BY OptionAssumption DEF Room, PacketsFit, Transports
<1>3. off \in Nat /\ off <= 3 * Unit /\ len \in Nat /\ len <= off
  <2>1. /\ len \in Nat /\ len <= jpeg_cmd_offset(Header + n + Padding + Header)
        /\ jpeg_cmd_offset(Header + n + Padding + Header) \in Nat
        /\ jpeg_cmd_offset(Header + n + Padding + Header) <= 3 * Unit
    BY <1>2, RoundedFits
  <2>2. Unit \in Nat
    BY SizeAssumption
  <2> HIDE DEF len
  <2>3. off = len \/ off = jpeg_cmd_offset(Header + n + Padding + Header)
    BY DEF len
  <2> QED
    BY <2>1, <2>2, <2>3
<1>4. at \in Nat /\ RingLo <= at /\ at + off <= RingHi /\ InRing(Advanced(s, off))
  BY <1>1, <1>3, SlotIsInRing
<1>5. RingHi \in Nat /\ RingLo \in Nat
  BY <1>1, RingBounds
<1> HIDE DEF at, len
<1>6. x.addr = at /\ x.len = len /\ x.kind = k /\ x.buffer = b
  BY DEF Packet
<1> HIDE DEF x
<1>7. CommandInRing(x)
  BY <1>3, <1>4, <1>5, <1>6 DEF CommandInRing
<1>8. Spares(x)
  <2>1. x.kind # "raw"
    BY <1>6
  <2>2. shown # NoFb => \A span \in ShownSpans(shown) : ~Meets(x.addr, x.len, shown, span)
    BY <1>1, <1>7, <2>1, ClearOfShown
  <2>3. shown # NoFb /\ x.kind # "type7" => x.buffer # shown
    BY <1>6 DEF ShownIsLast
  <2> QED
    BY <2>2, <2>3 DEF Spares
<1> QED
  BY <1>4, <1>6, <1>7, <1>8 DEF x, at, len

LEMMA SetupRings ==
    ASSUME Room, TypeOK, ShownIsLast, Type7On, NEW s, InRing(s), NEW D,
           NEW n \in FullLens["jpeg-type7"], NEW m \in TileLens, SendSetup(s, D, n, m)
    PROVE  /\ InRing(sched') /\ shown' = LastSetup'
           /\ \A i \in DOMAIN out' :
                 CommandInRing(out'[i]) /\ out'[i].kind # "raw" /\ Spares(out'[i])
<1> DEFINE base == SetupBase
           off1 == type7_mode6_cmd_offset(n)
           s1 == Advanced(s, off1)
           off2 == type7_mode6_cmd_offset(m)
           p1 == Packet("type4", Addresses(s, off1, base).cmd_addr, off1, base)
           p2 == Packet("type7", Addresses(s1, off2, base).cmd_addr, off2, base)
<1>1. base # LastSetup /\ shown' = base /\ LastSetup' = base
  <2>1. current_type7_slot' = NextSlot /\ shown' = base
    BY DEF SendSetup, MovedTo
  <2> QED
    BY <2>1, SetupOrder
<1>2. sched' \in {s1, Advanced(s1, off2)} /\ out' \in {<<p1>>, <<p1, p2>>}
  BY DEF SendSetup
<1>3. InRing(s1) /\ CommandInRing(p1) /\ p1.kind # "raw" /\ Spares(p1)
  BY <1>1, RoundedInRing
<1>4. InRing(Advanced(s1, off2)) /\ CommandInRing(p2) /\ p2.kind # "raw" /\ Spares(p2)
  <2> HIDE DEF s1
  <2> QED
    BY <1>3, RoundedInRing
<1> HIDE DEF p1, p2, s1, off2
<1>5. \A i \in DOMAIN out' : out'[i] \in {p1, p2}
  <2>1. CASE out' = <<p1>>
    BY <2>1
  <2>2. CASE out' = <<p1, p2>>
    BY <2>2
  <2> QED
    BY <1>2, <2>1, <2>2
<1> QED
  BY <1>1, <1>2, <1>3, <1>4, <1>5

(* What a step leaves: the scheduler in its ring, the last picture on display,
   the packets in the ring and the picture that was on display untouched.  *)
StepRings ==
    /\ InRing(sched')
    /\ shown' # NoFb => shown' = IF Type7On THEN LastSetup' ELSE Layout.fb_addrs[sched'.fb_index]
    /\ \A i \in DOMAIN out' : /\ CommandInRing(out'[i]) /\ Spares(out'[i])
                              /\ out'[i].kind = "raw" => options.transport \in RawTransports

(* A step that sends nothing and leaves the display as it is.              *)
LEMMA SilentRings ==
    ASSUME Room, TypeOK, ShownIsLast, NEW s, InRing(s), s.fb_index = sched.fb_index,
           sched' = s, out' = <<>>, UNCHANGED <<current_type7_slot, shown>>
    PROVE  StepRings
<1>1. LastSetup' = LastSetup
  BY DEF LastSetup
<1> QED
  BY <1>1 DEF StepRings, ShownIsLast

LEMMA FullRings ==
    ASSUME Room, TypeOK, ShownIsLast, NEW s, InRing(s), s.fb_index = sched.fb_index,
           options.transport \notin RawTransports, NEW D, send_full_jpeg_frame(s, D)
    PROVE  StepRings
<1>1. CASE Dropped(s, D)
  BY <1>1, SilentRings DEF Dropped
<1>2. ASSUME NEW n \in FullLens[options.transport], NEW m \in TileLens,
             IF Type7On THEN SendSetup(s, D, n, m) ELSE SendFlip(s, D, n)
      PROVE  StepRings
  <2>1. options \in Options /\ options.transport \in Transports
    BY OptionTypes DEF TypeOK, SenderTypes
  <2>2. CASE Type7On
    <3>1. options.transport = "jpeg-type7"
      BY <2>2 DEF Type7On
    <3>2. /\ InRing(sched') /\ shown' = LastSetup'
          /\ \A i \in DOMAIN out' :
                CommandInRing(out'[i]) /\ out'[i].kind # "raw" /\ Spares(out'[i])
      BY <1>2, <2>2, <3>1, SetupRings
    <3> QED
      BY <2>2, <3>2 DEF StepRings
  <2>3. CASE ~Type7On
    <3>1. options.transport = "jpeg"
      BY <2>1, <2>3, RingBounds DEF Transports, RawTransports
    <3>2. /\ InRing(sched') /\ shown' = Layout.fb_addrs[sched'.fb_index]
          /\ \A i \in DOMAIN out' :
                CommandInRing(out'[i]) /\ out'[i].kind # "raw" /\ Spares(out'[i])
      BY <1>2, <2>3, <3>1, FlipRings
    <3> QED
      BY <2>3, <3>2 DEF StepRings
  <2> QED
    BY <2>2, <2>3
<1> QED
  BY <1>1, <1>2 DEF send_full_jpeg_frame

(* The slot of a tile, on either ring.                                     *)
LEMMA TileSlot ==
    ASSUME Room, TypeOK, ShownIsLast, Type7On, InRing(sched), NEW n \in TileLens
    PROVE  /\ InRing(Advanced(sched, TileOffset(n)))
           /\ Advanced(sched, TileOffset(n)).fb_index = sched.fb_index
           /\ \A b, fb : LET x == Packet("type7", Addresses(sched, TileOffset(n), fb).cmd_addr,
                                         type7_mode6_cmd_offset(n), b)
                         IN  CommandInRing(x) /\ x.kind # "raw" /\ Spares(x)
<1> DEFINE off == TileOffset(n)
<1>1. off \in {type7_mode6_cmd_offset(n), jpeg_cmd_offset(Header + n + Padding + Header)}
  BY DEF TileOffset
<1>2. n \in FullLens["jpeg-type7"] \cup TileLens
  OBVIOUS
<1>3. Advanced(sched, off).fb_index = sched.fb_index
  BY DEF Advanced
<1> HIDE DEF off
<1>4. ASSUME NEW b, NEW fb
      PROVE  /\ InRing(Advanced(sched, off))
             /\ LET x == Packet("type7", Addresses(sched, off, fb).cmd_addr,
                                type7_mode6_cmd_offset(n), b)
                IN  CommandInRing(x) /\ x.kind # "raw" /\ Spares(x)
  BY <1>1, <1>2, RoundedInRing
<1>5. InRing(Advanced(sched, off))
  BY <1>4
<1> QED
  BY <1>3, <1>4, <1>5 DEF off

LEMMA TileRings ==
    ASSUME Room, TypeOK, ShownIsLast, InRing(sched), NEW D, Type7Tile(D)
    PROVE  StepRings
<1>1. Type7On
  BY DEF Type7Tile
<1>2. PICK n \in TileLens :
         /\ sched' = Advanced(sched, TileOffset(n))
         /\ out' = <<Packet("type7", Addresses(sched, TileOffset(n), current_display_fb_addr).cmd_addr,
                            type7_mode6_cmd_offset(n), current_type7_allocated_base)>>
  BY DEF Type7Tile
<1> DEFINE x == Packet("type7", Addresses(sched, TileOffset(n), current_display_fb_addr).cmd_addr,
                       type7_mode6_cmd_offset(n), current_type7_allocated_base)
<1>3. /\ InRing(sched') /\ sched'.fb_index = sched.fb_index
      /\ CommandInRing(x) /\ x.kind # "raw" /\ Spares(x)
  BY <1>1, <1>2, TileSlot
<1>4. out' = <<x>> /\ UNCHANGED <<current_type7_slot, shown>>
  BY <1>2 DEF Type7Tile
<1> HIDE DEF x
<1>5. \A i \in DOMAIN out' : out'[i] = x
  BY <1>4
<1>6. LastSetup' = LastSetup
  BY <1>4 DEF LastSetup
<1> QED
  BY <1>1, <1>3, <1>4, <1>5, <1>6 DEF StepRings, ShownIsLast

LEMMA WrapRings ==
    ASSUME Room, TypeOK, ShownIsLast, InRing(sched), NEW D, Type7Wrap(D)
    PROVE  StepRings
<1>1. Type7On /\ options.transport \notin RawTransports
  BY DEF Type7Wrap, Type7On, RawTransports
<1>2. PICK n \in TileLens : send_full_jpeg_frame(Advanced(sched, TileOffset(n)), D)
  BY DEF Type7Wrap
<1>3. /\ InRing(Advanced(sched, TileOffset(n)))
      /\ Advanced(sched, TileOffset(n)).fb_index = sched.fb_index
  BY <1>1, TileSlot
<1> QED
  BY <1>1, <1>2, <1>3, FullRings

LEMMA SetupOnlyRings ==
    ASSUME Room, TypeOK, ShownIsLast, InRing(sched), NEW D, Type7SetupOnly(D)
    PROVE  StepRings
<1>1. Type7On /\ options.transport = "jpeg-type7"
  BY DEF Type7SetupOnly, Type7On
<1> DEFINE base == SetupBase
           off(n) == type7_mode6_cmd_offset(n)
           s1(n) == Advanced(sched, off(n))
           p(n) == Packet("type4", Addresses(sched, off(n), base).cmd_addr, off(n), base)
<1>2. PICK n \in FullLens["jpeg-type7"], m \in TileLens :
         sched' = Advanced(s1(n), off(m)) /\ out' = <<p(n)>>
  BY <1>1 DEF Type7SetupOnly
<1>3. base # LastSetup /\ shown' = base /\ LastSetup' = base
  <2>1. current_type7_slot' = NextSlot /\ shown' = base
    BY DEF Type7SetupOnly, MovedTo
  <2> QED
    BY <2>1, SetupOrder
<1>4. InRing(s1(n)) /\ CommandInRing(p(n)) /\ p(n).kind # "raw" /\ Spares(p(n))
  BY <1>1, <1>3, RoundedInRing
<1> HIDE DEF s1, p
<1>5. InRing(Advanced(s1(n), off(m)))
  BY <1>1, <1>4, RoundedInRing
<1>6. \A i \in DOMAIN out' : out'[i] = p(n)
  BY <1>2
<1> QED
  BY <1>1, <1>2, <1>3, <1>4, <1>5, <1>6 DEF StepRings

LEMMA RawRings ==
    ASSUME Room, TypeOK, ShownIsLast, InRing(sched), NEW D, RawFrame(D)
    PROVE  StepRings
<1>1. /\ options \in Options /\ options.transport \in RawTransports /\ ~Type7On
      /\ FullLens[options.transport] \subseteq Nat
  BY OptionTypes DEF RawFrame, TypeOK, SenderTypes, Type7On, RawTransports
<1> DEFINE next == NextFb(sched)
           fb == Layout.fb_addrs[next.fb_index]
<1>2. PICK n \in FullLens[options.transport] :
         /\ sched' = Advanced(next, jpeg_cmd_offset(n + Padding + Header))
         /\ out' = <<Packet("raw", fb, RawPacketLen(n), fb)>>
  BY DEF RawFrame
<1>3. shown' = fb
  BY DEF RawFrame
<1> DEFINE off == jpeg_cmd_offset(n + Padding + Header)
           x == Packet("raw", fb, RawPacketLen(n), fb)
<1>4. \A k \in FullLens[options.transport] : RawPacketLen(k) \in Nat /\ RawPacketLen(k) <= FbSpan
  BY <1>1, SizeAssumption DEF RawPacketLen, Room, PacketsFit, RingsApart
<1>5. off \in Nat /\ off <= 3 * Unit
  <2>1. n + Padding + Header \in Nat /\ Unit \in Nat
    BY <1>1, SizeAssumption
  <2> QED
    BY <2>1, JpegOffsetType DEF jpeg_cmd_offset
<1>6. InRing(next) /\ next.fb_index = (sched.fb_index + 1) % 3
  <2>1. next \in Scheduler
    BY SchedulerClosed DEF InRing
  <2> QED
    BY <2>1 DEF InRing, NextFb
<1>7. sched.fb_index \in 0..2 /\ next.fb_index \in 0..2 /\ next.fb_index # sched.fb_index
  <2>1. sched.fb_index \in 0..2
    BY DEF TypeOK, SenderTypes, Scheduler
  <2>2. \A i \in 0..2 : (i + 1) % 3 \in 0..2 /\ (i + 1) % 3 # i
    OBVIOUS
  <2> QED
    BY <1>6, <2>1, <2>2
<1>8. fb \in Nat
  BY <1>7, BufferAddresses
<1> HIDE DEF next, off
<1>9. InRing(Advanced(next, off)) /\ Advanced(next, off).fb_index = next.fb_index
  BY <1>1, <1>5, <1>6, SlotIsInRing
<1>10. x.addr = fb /\ x.len = RawPacketLen(n) /\ x.kind = "raw" /\ x.buffer = fb
  BY DEF Packet
<1>11. CommandInRing(x)
  BY <1>4, <1>8, <1>10 DEF CommandInRing
<1>12. Spares(x)
  <2> SUFFICES ASSUME shown # NoFb
               PROVE  /\ \A span \in ShownSpans(shown) : ~Meets(x.addr, x.len, shown, span)
                      /\ x.buffer # shown
    BY DEF Spares
  <2>1. shown = Layout.fb_addrs[sched.fb_index] /\ shown \in Nat
    BY <1>1, <1>7, BufferAddresses DEF ShownIsLast
  <2>2. fb + FbSpan <= shown \/ shown + FbSpan <= fb
    BY <1>7, <2>1 DEF Room, RingsApart
  <2>3. fb # shown
    BY <1>7, <2>1, BufferAssumption
  <2>4. \A span \in ShownSpans(shown) : span \in Nat /\ span <= FbSpan
    BY <1>1, <1>4 DEF ShownSpans
  <2>5. FbSpan \in Nat /\ x.len \in Nat /\ x.len <= FbSpan
    BY <1>4, <1>10 DEF Room, RingsApart
  <2> HIDE DEF x, fb
  <2>6. \A span \in ShownSpans(shown) : ~Meets(x.addr, x.len, shown, span)
    BY <1>8, <1>10, <2>1, <2>2, <2>4, <2>5 DEF Meets
  <2> QED
    BY <1>10, <2>3, <2>6
<1>13. out' = <<x>> /\ sched' = Advanced(next, off)
  BY <1>2 DEF next, off
<1> HIDE DEF x
<1>14. \A i \in DOMAIN out' : out'[i] = x
  BY <1>13
<1> QED
  BY <1>1, <1>3, <1>9, <1>11, <1>12, <1>13, <1>14 DEF StepRings


-----------------------------------------------------------------------------
LEMMA InitRinged == Room /\ Init => Ringed
<1> SUFFICES ASSUME Room, Init PROVE Ringed
  OBVIOUS
<1>1. new \in Scheduler /\ CmdRing[1] \in Nat /\ CmdRing[2] \in Nat
  BY NewScheduler, OptionAssumption
<1>2. sched \in Scheduler
  BY <1>1, SchedulerClosed DEF Init
<1>3. InRing(sched)
  <2>1. CASE options.transport = "jpeg-type7"
    BY <1>1, <1>2, <2>1 DEF Init, InRing, set_cmd_ring, RingLo, RingHi
  <2>2. CASE options.transport # "jpeg-type7"
    BY <1>2, <2>2, LayoutAssumption DEF Init, InRing, new, RingLo, RingHi
  <2> QED
    BY <2>1, <2>2
<1> QED
  BY <1>3 DEF Init, Ringed, ShownIsLast

(* Every step of the sender, from where the packets lie to where they lie.  *)
LEMMA ActionRings ==
    ASSUME Room, TypeOK, Ringed, Next
    PROVE  StepRings
<1>1. InRing(sched) /\ ShownIsLast
  BY DEF Ringed
<1>2. PICK D \in Frames :
         \/ FullFrame(D) \/ RawFrame(D) \/ Type7Full(D) \/ Type7Late(D)
         \/ Type7Tile(D) \/ Type7Wrap(D) \/ Type7SetupOnly(D) \/ Skip(D)
  BY DEF Next
<1>3. CASE FullFrame(D)
  BY <1>1, <1>3, FullRings DEF FullFrame
<1>4. CASE Type7Full(D)
  <2>1. options.transport \notin RawTransports
    BY <1>4 DEF Type7Full, Type7On, RawTransports
  <2> QED
    BY <1>1, <1>4, <2>1, FullRings DEF Type7Full
<1>5. CASE Type7Late(D)
  BY <1>1, <1>5, SilentRings DEF Type7Late, Dropped
<1>6. CASE Skip(D)
  BY <1>1, <1>6, SilentRings DEF Skip, sender
<1> QED
  BY <1>1, <1>2, <1>3, <1>4, <1>5, <1>6, RawRings, TileRings, WrapRings, SetupOnlyRings

LEMMA NextRinged == Room /\ TypeOK /\ Ringed /\ [Next]_vars => Ringed'
<1> SUFFICES ASSUME Room, TypeOK, Ringed, [Next]_vars PROVE Ringed'
  OBVIOUS
<1>1. CASE Next
  <2>1. StepRings /\ UNCHANGED options
    BY <1>1, ActionRings DEF Next
  <2>2. RingLo' = RingLo /\ RingHi' = RingHi /\ (Type7On' <=> Type7On)
    BY <2>1 DEF RingLo, RingHi, Type7On
  <2>3. InRing(sched)' /\ ShownIsLast'
    BY <2>1, <2>2 DEF StepRings, InRing, ShownIsLast
  <2>4. \A i \in DOMAIN out' : /\ CommandInRing(out[i])'
                               /\ out'[i].kind = "raw" => options'.transport \in RawTransports
    BY <2>1, <2>2 DEF StepRings, CommandInRing
  <2> QED
    BY <2>3, <2>4 DEF Ringed
<1>2. CASE UNCHANGED vars
  BY <1>2 DEF vars, sender, Ringed, InRing, RingLo, RingHi, ShownIsLast, LastSetup, Type7On,
              CommandInRing
<1> QED
  BY <1>1, <1>2

(* In every instance with room for its packets, no packet is put into memory
   that the transport in use decodes into, on either ring and from any lap. *)
THEOREM CommandsMissTheBuffers == Room => (Spec => []CommandsMissFramebuffers)
<1> SUFFICES ASSUME Room PROVE Spec => []CommandsMissFramebuffers
  OBVIOUS
<1>1. Init => Ringed
  BY InitRinged
<1>2. TypeOK /\ Ringed /\ [Next]_vars => Ringed'
  BY NextRinged
<1>3. TypeOK /\ Ringed => CommandsMissFramebuffers
  <2> SUFFICES ASSUME TypeOK, Ringed,
                      NEW i \in DOMAIN out, out[i].kind # "raw",
                      NEW b \in IF Type7On THEN Slots ELSE FbAddrs
               PROVE  ~Meets(out[i].addr, out[i].len, b, Span(b))
    BY DEF CommandsMissFramebuffers
  <2>1. /\ RingLo \in Nat /\ RingHi \in Nat
        /\ Type7On => \A c \in Slots : c + SlotSpan <= RingLo \/ RingHi <= c
        /\ ~Type7On => \A c \in FbAddrs : RingHi <= c
    BY RingBounds DEF TypeOK, SenderTypes
  <2>2. /\ out[i].addr \in Nat /\ out[i].len \in Nat
        /\ RingLo <= out[i].addr /\ out[i].addr + out[i].len <= RingHi
    BY DEF Ringed, CommandInRing
  <2>3. b \in Nat /\ SlotSpan \in Nat /\ FbSpan \in Nat
    BY BufferAddresses DEF Room, RingsApart
  <2>4. CASE Type7On
    BY <2>1, <2>2, <2>3, <2>4 DEF Meets, Span
  <2>5. CASE ~Type7On
    BY <2>1, <2>2, <2>3, <2>5 DEF Meets, Span
  <2> QED
    BY <2>4, <2>5
<1> QED
  BY <1>1, <1>2, <1>3, SenderTypeCorrect, PTL DEF Spec

(* In every such instance no step writes into the picture on display: not a
   packet over its bytes, nor a full picture decoded into its buffer.      *)
THEOREM DisplayIsNotTorn == Room => (Spec => ShownIsUntouched)
<1> SUFFICES ASSUME Room PROVE Spec => ShownIsUntouched
  OBVIOUS
<1>1. Init => Ringed
  BY InitRinged
<1>2. TypeOK /\ Ringed /\ [Next]_vars => Ringed'
  BY NextRinged
<1>3. TypeOK /\ Ringed /\ [Next]_vars =>
         [ shown # NoFb =>
             \A i \in DOMAIN out' :
                 /\ \A span \in ShownSpans(shown) :
                       ~Meets(out'[i].addr, out'[i].len, shown, span)
                 /\ out'[i].kind # "type7" => out'[i].buffer # shown ]_vars
  BY ActionRings DEF StepRings, Spares
<1> QED
  BY <1>1, <1>2, <1>3, SenderTypeCorrect, PTL DEF Spec, ShownIsUntouched

=============================================================================
