----------------------------- MODULE CommandRing -----------------------------
(***************************************************************************)
(* The command-ring allocator of the Rust sender as values and operators:  *)
(* VramLayout, FrameScheduler and the slot-size functions of               *)
(* mac/t6proto-rs/src/lib.rs.  Every packet the sender builds is placed at *)
(* an address this allocator hands out.  The cursor cmd_addr moves up      *)
(* through the ring; a slot that would end above cmd_wrap_addr starts a    *)
(* new lap at initial_cmd_addr and asks for a reset of the JPEG engine.    *)
(***************************************************************************)
EXTENDS Integers

CONSTANTS
    Unit,           \* 0x100000, the step of jpeg_cmd_offset
    Padding,        \* JPEG_PADDING_SIZE, 1024
    Header,         \* VIDEO_FLIP_HEADER_SIZE, 48
    Grain,          \* 0x400, the rounding of type7_mode6_cmd_offset
    Slack,          \* 0x450, added before that rounding
    Trim,           \* 0x20, taken off after it
    ResetFrames,    \* 10, the packets after start that ask for a reset
    Layout          \* the VramLayout: [cmd_addr, fb_addrs]

ASSUME SizeAssumption ==
    /\ Unit \in Nat /\ Padding \in Nat /\ Header \in Nat
    /\ Grain \in Nat /\ Slack \in Nat /\ Trim \in Nat /\ ResetFrames \in Nat
    /\ Unit > 0 /\ Grain > Trim /\ Header + Trim <= Slack

ASSUME LayoutAssumption ==
    /\ Layout \in [cmd_addr : Nat, fb_addrs : [0..2 -> Nat]]
    /\ Layout.cmd_addr <= Layout.fb_addrs[0]

(* VramLayout::two_port_1080p_secondary and one_port_1080p for a RAM of ram
   megabytes of mb bytes: three framebuffers of 4 MB at the top of the RAM,
   the command area below them.                                            *)
two_port_1080p_secondary(ram, mb) ==
    [cmd_addr |-> (ram - 18) * mb,
     fb_addrs |-> [i \in 0..2 |-> (ram - 12 + 4 * i) * mb]]

one_port_1080p(ram, mb) ==
    [cmd_addr |-> 0,
     fb_addrs |-> [i \in 0..2 |-> (ram - 12 + 4 * i) * mb]]

-----------------------------------------------------------------------------
(* The size of the slot a full JPEG frame is given: one, two or three units,
   three also for a payload that is longer than that.                      *)
jpeg_cmd_offset(payload_len) ==
    IF payload_len < Unit THEN Unit
    ELSE IF payload_len < 2 * Unit THEN 2 * Unit
    ELSE 3 * Unit

div_ceil(a, b) == (a + b - 1) \div b

(* The size of the slot, and of the packet, of a type 4 or type 7 image.   *)
type7_mode6_cmd_offset(data_len) ==
    div_ceil(data_len + Slack, Grain) * Grain - Trim

(* The bytes a full JPEG frame puts on the wire: header, image, padding.   *)
JpegPacketLen(jpeg_len) == Header + jpeg_len + Padding

-----------------------------------------------------------------------------
Scheduler ==
    [initial_cmd_addr : Nat, cmd_addr : Nat, cmd_wrap_addr : Nat,
     fb_index : 0..2, reset_frames_remaining : 0..ResetFrames]

FrameAddresses ==
    [cmd_addr : Nat, fb_addr : Nat, reset_jpeg : BOOLEAN, cmd_offset : Nat]

new == [initial_cmd_addr       |-> Layout.cmd_addr,
        cmd_addr               |-> Layout.cmd_addr,
        cmd_wrap_addr          |-> Layout.fb_addrs[0],
        fb_index               |-> 1,
        reset_frames_remaining |-> ResetFrames]

set_cmd_ring(s, addr, wrap_addr) ==
    [initial_cmd_addr       |-> addr,
     cmd_addr               |-> addr,
     cmd_wrap_addr          |-> wrap_addr,
     fb_index               |-> s.fb_index,
     reset_frames_remaining |-> s.reset_frames_remaining]

(* next_jpeg_payload, next_type7_mode6_payload and next_video_payload_exact
   share one body: Wraps is its test, Addresses what it returns, Advanced
   the scheduler it leaves.                                                *)
WrapsPastEnd(s, cmd_offset) == s.cmd_addr > s.cmd_wrap_addr

Wraps(s, cmd_offset) == s.cmd_addr + cmd_offset > s.cmd_wrap_addr

Addresses(s, cmd_offset, fb_addr) ==
    [cmd_addr   |-> IF Wraps(s, cmd_offset) THEN s.initial_cmd_addr ELSE s.cmd_addr,
     fb_addr    |-> fb_addr,
     reset_jpeg |-> Wraps(s, cmd_offset) \/ s.reset_frames_remaining > 0,
     cmd_offset |-> cmd_offset]

Advanced(s, cmd_offset) ==
    [initial_cmd_addr |-> s.initial_cmd_addr,
     cmd_addr         |-> (IF Wraps(s, cmd_offset) THEN s.initial_cmd_addr
                                                   ELSE s.cmd_addr) + cmd_offset,
     cmd_wrap_addr    |-> s.cmd_wrap_addr,
     fb_index         |-> s.fb_index,
     reset_frames_remaining |->
         IF s.reset_frames_remaining > 0 THEN s.reset_frames_remaining - 1 ELSE 0]

(* next_jpeg_frame moves to the next of the three framebuffers first.      *)
NextFb(s) ==
    [initial_cmd_addr       |-> s.initial_cmd_addr,
     cmd_addr               |-> s.cmd_addr,
     cmd_wrap_addr          |-> s.cmd_wrap_addr,
     fb_index               |-> (s.fb_index + 1) % 3,
     reset_frames_remaining |-> s.reset_frames_remaining]

EndOf(slot) == slot.cmd_addr + slot.cmd_offset

=============================================================================
