----------------------------- MODULE DisplayAcks -----------------------------
(***************************************************************************)
(* The acknowledgements of the display: each packet carries a number       *)
(* (fence_id, sequence), the device answers on the interrupt endpoint when *)
(* it has decoded the packet, and the programs may wait for the answer.    *)
(* t6-virtual-display waits between a setup and its tile and after a       *)
(* frame; t6-replay-video and t6-send-type7 wait after each payload and    *)
(* after a write that failed.                                              *)
(*                                                                         *)
(* A program may be started again on a device that is still at work for    *)
(* the run before.  Numbers start again with each run, so an answer to the *)
(* earlier run may be taken for one of this run.                           *)
(*                                                                         *)
(* The device is external: it decodes the packets in the order in which    *)
(* they came, whenever it likes, and its answers are read in order.        *)
(***************************************************************************)
EXTENDS Integers, Sequences

CONSTANTS
    MaxId,              \* the largest number (2^32 - 1)
    Records,            \* the recorded payloads: <<[sequence, dest, len], ...>>
    PictureLen,         \* length of the payload that t6-send-type7 makes
    PayloadAddrs,       \* values of --payload-addr
    Grain, Trim,        \* 0x400 and 32 of next_ring_addr
    Padding,            \* zero bytes at the end of each payload
    MaxRuns,            \* bounds: runs,
    FramesPerRun,       \* and frames in each
    MaxUndecoded,       \* the device takes no further packet
    MaxUnread           \* interrupts the device keeps; it forgets others

None == [run |-> 0, n |-> 0, id |-> 0, addr |-> 0, len |-> 0]      \* no packet
Foreign == [None EXCEPT !.run = -1]                 \* nothing this model sends
Absent == -1                                                       \* no such option

ASSUME AckAssumption ==
    /\ MaxId \in Nat \ {0} /\ MaxRuns \in Nat /\ FramesPerRun \in Nat
    /\ MaxUndecoded \in Nat \ {0} /\ MaxUnread \in Nat \ {0}
    /\ Grain \in Nat \ {0} /\ Trim \in Nat /\ Padding \in Nat /\ Trim <= Padding
    /\ Records \in Seq([sequence : 0 .. MaxId, dest : Nat, len : Nat])
    /\ \A i \in DOMAIN Records : Padding < Records[i].len
    /\ PictureLen \in Nat /\ Padding < PictureLen
    /\ \A i, j \in DOMAIN Records : i # j => Records[i].sequence # Records[j].sequence
    /\ PayloadAddrs \subseteq Nat

VARIABLES
    options,            \* the program and its options, fixed for a run
    run,                \* history: the number of the run
    line,               \* what the program is at
    next_fence_id,      \* of t6-virtual-display; sequence of the tools
    payload_addr,       \* of the tools
    frame,              \* frames, or records, begun in this run
    todo,               \* packets of the frame still to be sent
    count,              \* history: packets of this run
    target,             \* the packet a wait is for
    acked,              \* history: the packet whose answer ended the wait
    inbox,              \* device: packets not yet decoded
    unread,             \* device: interrupts not yet read
    trusted             \* history: nothing of an earlier run was left

host   == <<options, run, next_fence_id, payload_addr, frame, count, trusted>>
device == <<inbox, unread>>
ackVars == <<options, run, line, next_fence_id, payload_addr, frame, todo, count,
             target, acked, inbox, unread, trusted>>

-----------------------------------------------------------------------------
(* The options: wait_interrupt_ms > 0, type7_wait_setup_ack_ms > 0; the number
   and the address to begin with, or Absent for the recorded ones.          *)
VirtualDisplay ==
    [program : {"virtual-display"}, wait : BOOLEAN, setup_ack : BOOLEAN,
     sequence_start : {Absent}, payload_addr : {Absent}]
ReplayManifest ==
    [program : {"replay-manifest"}, wait : BOOLEAN, setup_ack : {FALSE},
     sequence_start : {Absent, MaxId}, payload_addr : {Absent} \cup PayloadAddrs]
ReplayGroups ==
    [program : {"replay-groups"}, wait : BOOLEAN, setup_ack : {FALSE},
     sequence_start : {Absent}, payload_addr : {Absent}]
SendType7 ==
    [program : {"send-type7"}, wait : BOOLEAN, setup_ack : {FALSE},
     sequence_start : {1}, payload_addr : PayloadAddrs]

Options == VirtualDisplay \cup ReplayManifest \cup ReplayGroups \cup SendType7

IsReplay == options.program # "virtual-display"

(* next_fence_id never hands out 0; the sequence of the tools may be 0.   *)
NumberAfter(id) ==
    IF IsReplay THEN (id + 1) % (MaxId + 1)
    ELSE IF id = MaxId THEN 1 ELSE id + 1

Number(k) ==                                   \* the k-th number from here
    IF k = 0 THEN next_fence_id
    ELSE IF k = 1 THEN NumberAfter(next_fence_id)
    ELSE NumberAfter(NumberAfter(next_fence_id))

(* The ways a frame of t6-virtual-display uses its numbers: how many it takes
   and which of them it sends.  In order: one packet; a setup with its tile;
   a setup only, with the number of the tile unused; a frame dropped late; a
   tile that did not fit, followed by either of the first two or a drop.    *)
Shapes ==
    {[taken |-> 1, sent |-> <<0>>], [taken |-> 2, sent |-> <<0, 1>>],
     [taken |-> 2, sent |-> <<0>>], [taken |-> 1, sent |-> <<>>],
     [taken |-> 2, sent |-> <<1>>], [taken |-> 3, sent |-> <<1, 2>>],
     [taken |-> 2, sent |-> <<>>]}

(* A mutant: the length is rounded down.                                    *)
NextRoundedDown(addr, len) == addr + (len \div Grain) * Grain - Trim

next_ring_addr(addr, len) ==
    LET aligned == ((len + Grain - 1) \div Grain) * Grain
    IN  addr + (IF aligned < Trim THEN 0 ELSE aligned - Trim)

Packet(n, id, addr, len) == [run |-> run, n |-> n, id |-> id, addr |-> addr, len |-> len]
NoSpan == 0

-----------------------------------------------------------------------------
AckInit ==
    /\ options \in Options
    /\ run = 1 /\ line = "start" /\ frame = 0 /\ count = 0
    /\ next_fence_id = 1 /\ payload_addr = Absent
    /\ todo = <<>> /\ target = None /\ acked = None
    /\ inbox = <<>> /\ unread = <<>> /\ trusted = TRUE

(* main, up to the first frame.  Only t6-virtual-display drains the endpoint,
   and only if it will wait after frames.                                   *)
Start ==
    /\ line = "start"
    /\ LET drains == ~IsReplay /\ options.wait
       IN  /\ line' = IF drains THEN "drain" ELSE "idle"
           /\ trusted' = (~drains /\ inbox = <<>> /\ unread = <<>>)
    /\ next_fence_id' = IF IsReplay THEN options.sequence_start ELSE 1
    /\ payload_addr' = options.payload_addr
    /\ UNCHANGED <<options, run, frame, count, todo, target, acked, device>>

(* drain_display_interrupts: reads until nothing comes any more ...         *)
Drain ==
    /\ line = "drain" /\ unread # <<>>
    /\ unread' = Tail(unread)
    /\ UNCHANGED <<host, line, todo, target, acked, inbox>>

(* ... for ten milliseconds.  What the device has still to decode for the
   run before is not seen.                                                  *)
DrainTimeout ==
    /\ line = "drain" /\ unread = <<>>
    /\ line' = "idle"
    /\ trusted' = (inbox = <<>>)
    /\ UNCHANGED <<options, run, next_fence_id, payload_addr, frame, count, todo,
                   target, acked, device>>

(* The deadline passes while answers still come.                            *)
DrainDeadline ==
    /\ line = "drain" /\ unread # <<>>
    /\ line' = "idle"
    /\ trusted' = FALSE
    /\ UNCHANGED <<options, run, next_fence_id, payload_addr, frame, count, todo,
                   target, acked, device>>

-----------------------------------------------------------------------------
(* send_frame takes the numbers of a frame.                                 *)
BeginFrame(s) ==
    /\ line = "idle" /\ ~IsReplay /\ frame < FramesPerRun
    /\ frame' = frame + 1
    /\ todo' = [i \in DOMAIN s.sent |-> Packet(count + i, Number(s.sent[i]), NoSpan, NoSpan)]
    /\ count' = count + Len(s.sent)
    /\ next_fence_id' = NumberAfter(Number(s.taken - 1))
    /\ line' = IF s.sent = <<>> THEN "idle" ELSE "send"
    /\ target' = None /\ acked' = None
    /\ UNCHANGED <<options, run, payload_addr, device, trusted>>

(* What the loops of the replay tools have in common.                       *)
BeginPayload(id, addr, len) ==
    /\ line = "idle" /\ frame < FramesPerRun
    /\ todo' = <<Packet(count + 1, id, addr, len)>>
    /\ frame' = frame + 1 /\ count' = count + 1
    /\ line' = "send"
    /\ target' = None /\ acked' = None
    /\ UNCHANGED <<options, run, device, trusted>>

(* The next record of a manifest: the recorded number and address unless the
   options replace them.  patch_payload_sequence writes the number into the
   payload.                                                                 *)
ReplayRecord ==
    /\ options.program = "replay-manifest" /\ frame < Len(Records)
    /\ LET r    == Records[frame + 1]
           id   == IF next_fence_id = Absent THEN r.sequence ELSE next_fence_id
           addr == IF payload_addr = Absent THEN r.dest ELSE payload_addr
       IN  /\ BeginPayload(id, addr, r.len)
           /\ payload_addr' = IF payload_addr = Absent THEN Absent
                              ELSE next_ring_addr(payload_addr, r.len)
    /\ next_fence_id' = IF next_fence_id = Absent THEN Absent ELSE NumberAfter(next_fence_id)

(* The next tile of a recorded group, as it was recorded.                   *)
ReplayTile ==
    /\ options.program = "replay-groups" /\ frame < Len(Records)
    /\ LET r == Records[frame + 1] IN BeginPayload(r.sequence, r.dest, r.len)
    /\ UNCHANGED <<next_fence_id, payload_addr>>

(* One turn of the loop of t6-send-type7 over the addresses to be tried: the
   same picture with the next number at the next place of the ring.         *)
SendAtAddress ==
    /\ options.program = "send-type7"
    /\ LET len == PictureLen
       IN  /\ BeginPayload(next_fence_id, payload_addr, len)
           /\ payload_addr' = next_ring_addr(payload_addr, len)
    /\ next_fence_id' = NumberAfter(next_fence_id)

(* A packet is written, and waited for if the options say so: the setup of a
   pair with type7_wait_setup_ack_ms, the last packet with wait_interrupt_ms. *)
Sent ==
    /\ line = "send" /\ Len(inbox) < MaxUndecoded
    /\ inbox' = Append(inbox, Head(todo))
    /\ todo' = Tail(todo)
    /\ target' = Head(todo)
    /\ acked' = None
    /\ line' = IF Tail(todo) # <<>> THEN (IF options.setup_ack THEN "wait" ELSE "send")
               ELSE IF options.wait THEN "wait" ELSE "idle"
    /\ UNCHANGED <<host, unread>>

(* A write fails: t6-virtual-display ends, the tools first wait.            *)
WriteFails ==
    /\ line = "send"
    /\ target' = Head(todo)
    /\ acked' = None
    /\ todo' = <<>>
    /\ line' = IF IsReplay /\ options.wait THEN "last_wait" ELSE "ended"
    /\ UNCHANGED <<host, device>>

-----------------------------------------------------------------------------
(* DisplayInterrupt::parse.  A mutant takes the event of any interrupt.     *)
HasFenceOfAny(i) == "fence" \in i.event
has_fence_id(i) == i.display /\ "fence" \in i.event

Waiting == line \in {"wait", "last_wait"}
AfterWait == IF line = "last_wait" THEN "ended" ELSE IF todo # <<>> THEN "send" ELSE "idle"

(* One turn of wait_for_display_interrupts (wait_for_interrupts): an answer
   with the number in question ends the wait, others are passed over.       *)
ReadInterrupt ==
    /\ Waiting /\ unread # <<>>
    /\ LET i == Head(unread)
       IN  IF has_fence_id(i) /\ i.data = target.id
           THEN line' = AfterWait /\ acked' = i.of
           ELSE UNCHANGED <<line, acked>>
    /\ unread' = Tail(unread)
    /\ UNCHANGED <<host, todo, target, inbox>>

(* A silence of ten milliseconds ends the wait, however long it may last.   *)
ReadTimeout ==
    /\ Waiting /\ unread = <<>>
    /\ line' = AfterWait
    /\ UNCHANGED <<host, todo, target, acked, device>>

(* A mutant: the deadline is looked at only when a read has timed out.      *)
DeadlineInSilence ==
    /\ Waiting /\ unread = <<>>
    /\ line' = AfterWait
    /\ UNCHANGED <<host, todo, target, acked, device>>

(* The deadline passes between two reads, or the endpoint fails.            *)
Deadline ==
    /\ Waiting
    /\ line' = AfterWait
    /\ UNCHANGED <<host, todo, target, acked, device>>
ReadFails ==
    /\ Waiting \/ line = "drain"
    /\ line' = "ended"
    /\ todo' = <<>>
    /\ UNCHANGED <<host, target, acked, device>>

(* The program comes to its end, or is ended by the user between two frames. *)
End ==
    /\ line = "idle"
    /\ line' = "ended"
    /\ UNCHANGED <<host, todo, target, acked, device>>

(* The next run, of either program, on the same device.                     *)
Restart ==
    /\ line = "ended" /\ run < MaxRuns
    /\ run' = run + 1
    /\ options' \in Options
    /\ line' = "start"
    /\ frame' = 0 /\ count' = 0 /\ target' = None /\ acked' = None
    /\ next_fence_id' = 1 /\ payload_addr' = Absent
    /\ trusted' = FALSE
    /\ UNCHANGED <<todo, device>>

Host ==
    \/ Start \/ Drain \/ DrainTimeout \/ DrainDeadline
    \/ \E s \in Shapes : BeginFrame(s)
    \/ ReplayRecord \/ ReplayTile \/ SendAtAddress \/ Sent \/ WriteFails
    \/ ReadInterrupt \/ ReadTimeout \/ Deadline \/ ReadFails \/ End \/ Restart

-----------------------------------------------------------------------------
Kept(i) == IF Len(unread) < MaxUnread THEN Append(unread, i) ELSE unread

(* The device decodes a packet, or fails to, and says so.                   *)
Decode ==
    /\ inbox # <<>>
    /\ inbox' = Tail(inbox)
    /\ \E e \in {{"fence"}, {"jpeg_error"}} :
          unread' = Kept([display |-> TRUE, event |-> e, data |-> Head(inbox).id,
                          of |-> Head(inbox)])
    /\ UNCHANGED <<host, line, todo, target, acked>>

(* An interrupt of another function of the device, with any contents.       *)
Other ==
    /\ Waiting /\ unread = <<>>
    /\ unread' = Kept([display |-> FALSE, event |-> {"fence"}, data |-> target.id, of |-> Foreign])
    /\ UNCHANGED <<host, line, todo, target, acked, inbox>>

AckNext == Host \/ Decode \/ Other

AckSpec == AckInit /\ [][AckNext]_ackVars

(* Each turn of the wait looks at the clock, which goes on.  Nothing is asked
   of the device.                                                           *)
FairAckSpec == AckSpec /\ WF_ackVars(Deadline)

-----------------------------------------------------------------------------
(* The answer that ends a wait is the answer to the packet waited for, not
   one to an earlier packet, to another function or to an earlier run, if
   the device had finished the earlier run when this one began to send (and
   its answers were drained, or there were none).  An answer to the last
   packet of a frame also leaves nothing behind: the device has decoded all
   that was sent, and the next wait does not begin with old answers.        *)
AckIsOwn ==
    trusted /\ acked # None =>
        /\ acked = target
        /\ todo = <<>> /\ line = "idle" =>
              inbox = <<>> /\ \A i \in DOMAIN unread : ~unread[i].display

(* A wait ends, if the device never answers as well as if it floods the
   endpoint with other interrupts.                                          *)
WaitEnds == Waiting ~> ~Waiting

(* What the two properties ask of an instance: no number comes again in a run
   (a frame takes three at most), and the recorded payloads do not overwrite
   one another where they were recorded.                                    *)
NumbersSuffice == 3 * FramesPerRun < MaxId
RecordsApart ==
    \A i, j \in DOMAIN Records :
        i < j => Records[i].dest + Records[i].len - Padding <= Records[j].dest

(* A tool never writes a payload over the contents of one that the device
   has still to decode, although next_ring_addr leaves less room than the
   payload takes: only the zeros at its end are overwritten.                *)
UndecodedIsKept ==
    \A i, j \in DOMAIN inbox :
        i < j /\ inbox[i].run = run /\ inbox[j].run = run /\ IsReplay =>
            inbox[i].addr + inbox[i].len - Padding <= inbox[j].addr

=============================================================================
