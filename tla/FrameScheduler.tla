--------------------------- MODULE FrameScheduler ---------------------------
(***************************************************************************)
(* The command-ring allocator as a state machine: any sequence of the      *)
(* calls the senders make, of any lengths and after any choice of a ring,  *)
(* with a record of the slots of the current lap.  What it promises is     *)
(* proved in Type7SenderProofs.                                            *)
(***************************************************************************)
EXTENDS CommandRing

(* The <<cmd_addr, wrap_addr>> choices of set_cmd_ring.                     *)
Rings == {r \in Nat \X Nat : r[1] < r[2]}

VARIABLES
    scheduler,  \* the FrameScheduler
    issued,     \* the FrameAddresses the last call returned, or NoSlot
    lap         \* the slots handed out since the cursor was last at the start

schedulerVars == <<scheduler, issued, lap>>

NoSlot == [cmd_addr |-> 0, fb_addr |-> 0, reset_jpeg |-> FALSE, cmd_offset |-> 0]

SchedulerInit == scheduler = new /\ issued = NoSlot /\ lap = {}

Allocate(s, cmd_offset, fb_addr) ==
    /\ scheduler' = Advanced(s, cmd_offset)
    /\ issued' = Addresses(s, cmd_offset, fb_addr)
    /\ lap' = (IF Wraps(s, cmd_offset) THEN {} ELSE lap)
                 \cup {Addresses(s, cmd_offset, fb_addr)}

(* build_sender_state replaces the ring before the first frame.            *)
SetCmdRing(r) ==
    /\ lap = {}
    /\ scheduler' = set_cmd_ring(scheduler, r[1], r[2])
    /\ UNCHANGED <<issued, lap>>

next_jpeg_payload(jpeg_len, fb_addr) ==
    Allocate(scheduler, jpeg_cmd_offset(jpeg_len + Padding + Header), fb_addr)

next_jpeg_frame(jpeg_len) ==
    Allocate(NextFb(scheduler), jpeg_cmd_offset(jpeg_len + Padding + Header),
             Layout.fb_addrs[NextFb(scheduler).fb_index])

next_type7_mode6_payload(data_len, fb_addr) ==
    Allocate(scheduler, type7_mode6_cmd_offset(data_len), fb_addr)

next_video_payload_exact(payload_len, fb_addr) ==
    Allocate(scheduler, payload_len, fb_addr)

(* The calls of the senders: a full frame moves to the next framebuffer,
   type 4 and type 7 packets name the framebuffer in use.                  *)
SchedulerNext ==
    \/ \E r \in Rings : SetCmdRing(r)
    \/ \E n \in Nat : next_jpeg_frame(n)
    \/ \E n \in Nat : next_jpeg_payload(Header + n, issued.fb_addr)
    \/ \E n \in Nat : next_type7_mode6_payload(n, issued.fb_addr)
    \/ \E n \in Nat :
          next_video_payload_exact(type7_mode6_cmd_offset(n), issued.fb_addr)

SchedulerSpec == SchedulerInit /\ [][SchedulerNext]_schedulerVars

-----------------------------------------------------------------------------
SchedulerTypes ==
    /\ scheduler \in Scheduler
    /\ issued \in FrameAddresses
    /\ lap \in SUBSET FrameAddresses

(* A slot never leaves the command ring: whatever mix of calls came before,
   a slot no larger than the ring lies between initial_cmd_addr and
   cmd_wrap_addr, where the first framebuffer (or the type 7 limit) is.    *)
SlotInRing ==
    \A s \in lap :
        /\ scheduler.initial_cmd_addr <= s.cmd_addr
        /\ s.cmd_offset <= scheduler.cmd_wrap_addr - scheduler.initial_cmd_addr
              => EndOf(s) <= scheduler.cmd_wrap_addr

(* Within a lap no byte is handed out twice: the memory of a packet that the
   device may still be decoding is reused only after a wrap.               *)
LapDisjoint ==
    \A s, t \in lap : s # t => EndOf(s) <= t.cmd_addr \/ EndOf(t) <= s.cmd_addr

(* The scheduler reports every move backward: a slot that does not start
   where the previous one ended has reset_jpeg set.                        *)
WrapIsFlagged ==
    [][ issued # NoSlot /\ issued' # issued =>
          issued'.reset_jpeg \/ issued'.cmd_addr = EndOf(issued) ]_schedulerVars

=============================================================================
