------------------------- MODULE SyncPipelineProofs -------------------------
(***************************************************************************)
(* The pacing of the synchronous pipeline, for every rate, limit and number *)
(* of frames; and, below, the acknowledgements that it and the tools wait  *)
(* for (DisplayAcks), for every number of runs and frames.                 *)
(***************************************************************************)
EXTENDS SyncPipeline, DisplayAcks, SequenceTheorems, TLAPS

(* Frames of the window whose turn in the plan is over.                     *)
Finished == IF callback = "send" \/ failed THEN begun - 1 ELSE begun

Numbers ==
    /\ now \in Nat /\ next_send_at \in Nat /\ frame_started \in Nat
    /\ begun \in Nat /\ mark \in [at : Nat, divisor : Nat]
    /\ callback = "send" \/ failed => begun # 0

(* The plan is ahead of the window's beginning by an interval for each frame
   finished in it, less the credit; a frame past the throttle has reached its
   turn; and nothing is begun any more after a failure.                     *)
Plan ==
    /\ mark.at + Interval * Finished <= next_send_at + Interval * mark.divisor
    /\ Throttle /\ callback \in {"swap_sending", "check_limit"} => next_send_at <= now
    /\ Throttle /\ callback = "send" => next_send_at <= frame_started
    /\ failed => \/ callback \in {"clear", "stop"}
                 \/ stopped /\ callback \in {"idle", "check_stopped"}

(* The flag is set only between the swap and the clear.                     *)
Flag ==
    /\ callback \in {"idle", "check_stopped", "check_throttle", "swap_sending", "stop"}
         => ~sending
    /\ NeverBusy

SyncInv == Numbers /\ Plan /\ Flag

LEMMA Turn ==
    ASSUME NEW k \in Nat, NEW d \in Nat \ {0}
    PROVE  /\ Interval * (k + 1) = Interval * k + Interval
           /\ Interval <= Interval * d /\ Interval * d \in Nat /\ Interval * k \in Nat
  <1>1. Interval \in Nat \ {0}  BY SyncAssumption
  <1> QED BY <1>1, SMT

(* What the plan becomes after a frame.                                     *)
LEMMA Resynced ==
    ASSUME Numbers, NEW d \in {1, Divisor}
    PROVE  /\ resync_next_send_at(d) \in Nat
           /\ next_send_at + Interval <= resync_next_send_at(d)
           /\ now <= resync_next_send_at(d) + Interval * d
  <1> DEFINE i == Interval * d
  <1>1. d \in Nat \ {0} /\ Interval \in Nat /\ 0 \in Nat  BY SyncAssumption
  <1>2. Interval <= i /\ i \in Nat  BY <1>1, Turn
  <1>3. resync_next_send_at(d) =
          IF now > next_send_at + i + i THEN now ELSE next_send_at + i
    BY DEF resync_next_send_at
  <1>4. next_send_at \in Nat /\ now \in Nat  BY DEF Numbers
  <1> HIDE DEF i
  <1>5. /\ resync_next_send_at(d) \in Nat
        /\ next_send_at + Interval <= resync_next_send_at(d)
        /\ now <= resync_next_send_at(d) + i
    BY <1>1, <1>2, <1>3, <1>4, SMT
  <1> QED BY <1>5 DEF i

(* The end of a frame that was sent or dropped: whether the window goes on or
   begins anew, the plan keeps its lead.                                    *)
LEMMA FrameEnds ==
    ASSUME Numbers, Plan, callback = "send", NEW d \in {1, Divisor}, Resync(d),
           callback' = "clear", UNCHANGED <<now, frame_started, failed>>
    PROVE  Numbers' /\ Plan'
  <1>1. /\ next_send_at' = resync_next_send_at(d) /\ next_send_at' \in Nat
        /\ next_send_at + Interval <= next_send_at'
        /\ now <= next_send_at' + Interval * d
    BY Resynced DEF Resync
  <1>2. d \in Nat \ {0} /\ Interval \in Nat  BY SyncAssumption
  <1>3. ~failed /\ ~failed'  BY DEF Plan
  <1>4. CASE mark' = [at |-> now, divisor |-> d] /\ begun' = 0
    <2>1. Numbers'  BY <1>1, <1>2, <1>3, <1>4 DEF Numbers
    <2>2. Finished' = 0 /\ Interval * 0 = 0  BY <1>2, <1>3, <1>4 DEF Finished
    <2>3. now + Interval * Finished' <= next_send_at' + Interval * d
      BY <1>1, <2>2 DEF Numbers
    <2> QED BY <1>3, <1>4, <2>1, <2>3 DEF Plan
  <1>5. CASE UNCHANGED window
    <2>1. Numbers'  BY <1>1, <1>3, <1>5 DEF Numbers, window
    <2>2. PICK k \in Nat : begun = k + 1  BY DEF Numbers
    <2>3. Finished = k /\ Finished' = k + 1  BY <1>3, <1>5, <2>2 DEF Finished, window
    <2>4. Interval * (k + 1) = Interval * k + Interval /\ Interval * k \in Nat
      BY <1>2, <2>2, Turn
    <2>5. mark.at \in Nat /\ mark.divisor \in Nat /\ next_send_at \in Nat
      BY DEF Numbers
    <2>6. PICK c \in Nat : c = Interval * mark.divisor  BY <1>2, <2>5, SMT
    <2>7. PICK e \in Nat : e = Interval * k  BY <2>4
    <2>8. mark.at + e <= next_send_at + c  BY <2>3, <2>6, <2>7 DEF Plan
    <2>9. mark.at + (e + Interval) <= next_send_at' + c
      BY <1>1, <1>2, <2>5, <2>8
    <2>10. mark'.at + Interval * Finished' <= next_send_at' + Interval * mark'.divisor
      BY <1>5, <2>3, <2>4, <2>6, <2>7, <2>9 DEF window
    <2> QED BY <1>3, <2>1, <2>10 DEF Plan
  <1> QED BY <1>4, <1>5 DEF Resync

LEMMA InitSync == Init => SyncInv
  <1> SUFFICES ASSUME Init PROVE SyncInv
    OBVIOUS
  <1>1. Finished = 0  BY DEF Init, Finished
  <1>2. Interval * 0 = 0  BY SyncAssumption
  <1> QED BY <1>1, <1>2 DEF Init, SyncInv, Numbers, Plan, Flag, NeverBusy

LEMMA NextSync == SyncInv /\ [Next]_vars => SyncInv'
  <1> SUFFICES ASSUME SyncInv, [Next]_vars  PROVE SyncInv'
    OBVIOUS
  <1> USE DEF SyncInv, Numbers, Flag, NeverBusy
  <1>1. CASE UNCHANGED vars
    BY <1>1 DEF vars, state, counts, pace, window, Plan, Finished
  <1>2. CASE Tick
    BY <1>2 DEF Tick, counts, window, Plan, Finished
  <1>3. CASE CallbackEnter
    BY <1>3 DEF CallbackEnter, state, counts, pace, window, Plan, Finished
  <1>4. CASE CheckStopped
    BY <1>4 DEF CheckStopped, state, counts, pace, window, Plan, Finished
  <1>5. CASE CheckThrottle
    BY <1>5 DEF CheckThrottle, pace, window, Plan, Finished
  <1>6. CASE SwapSending
    BY <1>6 DEF SwapSending, pace, window, Plan, Finished
  <1>7. CASE CheckLimit
    <2>1. Interval * Finished = Interval * begun /\ ~failed
      BY <1>7 DEF CheckLimit, Plan, Finished
    <2>2. CASE callback' = "send"
      <3>1. Finished' = begun  BY <1>7, <2>1, <2>2 DEF CheckLimit, Finished
      <3> QED BY <1>7, <2>1, <2>2, <3>1 DEF CheckLimit, counts, Plan
    <2>3. CASE callback' # "send"
      BY <1>7, <2>1, <2>3 DEF CheckLimit, counts, Plan, Finished
    <2> QED BY <2>2, <2>3
  <1>8. CASE ClearAtLimit
    BY <1>8 DEF ClearAtLimit, counts, pace, window, Plan, Finished
  <1>9. CASE SendDone
    <2>1. PICK d \in {1, Divisor} : Resync(d)  BY <1>9 DEF SendDone, FrameSent
    <2>2. Numbers' /\ Plan'
      BY <1>9, <2>1, FrameEnds DEF SendDone, FrameSent
    <2> QED BY <1>9, <2>2 DEF SendDone, FrameSent
  <1>10. CASE drop_late_frame
    <2>1. Numbers' /\ Plan'  BY <1>10, FrameEnds DEF drop_late_frame
    <2> QED BY <1>10, <2>1 DEF drop_late_frame
  <1>11. CASE SendFails
    <2>1. Finished = begun - 1 /\ Finished' = begun - 1
      BY <1>11 DEF SendFails, window, Finished
    <2> QED BY <1>11, <2>1 DEF SendFails, counts, pace, window, Plan
  <1>12. CASE ClearSending
    BY <1>12 DEF ClearSending, counts, pace, window, Plan, Finished
  <1>13. CASE StopAfterError
    BY <1>13 DEF StopAfterError, counts, pace, window, Plan, Finished
  <1>14. CASE MainStep \/ StreamEnds \/ CallbackCrashes
    BY <1>14 DEF MainStep, MainStarts, MainFailsToStart, MainPoll, MainStop, MainFree,
                 MainReturn, StreamEnds, CallbackCrashes, state, counts, pace, window, Plan,
                 Finished
  <1>15. CASE Ended
    BY <1>1, <1>15 DEF Ended
  <1> QED BY <1>1, <1>2, <1>3, <1>4, <1>5, <1>6, <1>7, <1>8, <1>9, <1>10, <1>11,
             <1>12, <1>13, <1>14, <1>15 DEF Next, CallbackStep

LEMMA AlwaysSync == Spec => []SyncInv
  BY InitSync, NextSync, PTL DEF Spec

(* With --frame-throttle, frame_callback begins no frame before its turn, counted
   from the end of any frame before it: resync_next_send_at_with_divisor never
   lets a stall be made up for by more than two plain frames at once.       *)
THEOREM NoBursts == Spec => []NoBurst
  <1>1. SyncInv => NoBurst
    <2> SUFFICES ASSUME SyncInv, Throttle, callback = "send"
                 PROVE  mark.at + Interval * (begun - 1)
                          <= frame_started + Interval * mark.divisor
      BY DEF NoBurst
    <2>1. PICK k \in Nat : begun - 1 = k  BY DEF SyncInv, Numbers
    <2>2. Finished = k  BY <2>1 DEF Finished
    <2>3. /\ mark.at \in Nat /\ mark.divisor \in Nat /\ Interval \in Nat
          /\ next_send_at \in Nat /\ frame_started \in Nat
      BY SyncAssumption DEF SyncInv, Numbers
    <2>4. PICK c \in Nat : c = Interval * mark.divisor  BY <2>3, SMT
    <2>5. PICK e \in Nat : e = Interval * k  BY <2>1, <2>3, SMT
    <2>6. mark.at + e <= next_send_at + c /\ next_send_at <= frame_started
      BY <2>2, <2>4, <2>5 DEF SyncInv, Plan
    <2>7. mark.at + e <= frame_started + c  BY <2>3, <2>6
    <2> QED BY <2>1, <2>4, <2>5, <2>7
  <1> QED BY <1>1, AlwaysSync, PTL

(* The sending flag of frame_callback is always put back: on the serial queue
   no frame is refused as busy.                                             *)
THEOREM FlagIsPutBack == Spec => []NeverBusy
  <1>1. SyncInv => NeverBusy  BY DEF SyncInv, Flag
  <1> QED BY <1>1, AlwaysSync, PTL

-----------------------------------------------------------------------------
(* The acknowledgements (DisplayAcks).                                      *)

Packets    == [run : Int, n : Nat, id : Int, addr : Int, len : Nat]
Interrupts == [display : BOOLEAN, event : SUBSET {"fence", "jpeg_error"}, data : Int, of : Packets]

AckTypes ==
    /\ options \in Options /\ run \in Nat /\ frame \in Nat /\ count \in Nat
    /\ line \in {"start", "drain", "idle", "send", "wait", "last_wait", "ended"}
    /\ next_fence_id \in 0 .. MaxId \cup {Absent} /\ payload_addr \in Nat \cup {Absent}
    /\ todo \in Seq(Packets) /\ inbox \in Seq(Packets) /\ unread \in Seq(Interrupts)
    /\ target \in Packets /\ acked \in Packets /\ trusted \in BOOLEAN

(* What is left to send at each line, and whose packets there are.          *)
Lines ==
    /\ line \in {"start", "drain", "idle", "ended", "last_wait"} => todo = <<>>
    /\ line = "send" => todo # <<>>
    /\ Waiting => acked = None
    /\ \A k \in 1 .. Len(todo) : todo[k].run = run
    /\ \A i \in 1 .. Len(inbox) : inbox[i].run <= run
    /\ line = "start" => \A i \in 1 .. Len(inbox) : inbox[i].run < run
    /\ IsReplay /\ line # "start" =>
          /\ next_fence_id = Absent => options.sequence_start = Absent
          /\ options.program = "send-type7" => next_fence_id # Absent /\ payload_addr # Absent
          /\ options.program = "replay-groups" => payload_addr = Absent /\ next_fence_id = Absent
    /\ ~IsReplay => next_fence_id # Absent

-----------------------------------------------------------------------------
(* Operators.                                                               *)

LEMMA HeadAndTail ==
    ASSUME NEW S, NEW s \in Seq(S), s # <<>>
    PROVE  /\ Len(s) \in Nat \ {0} /\ Head(s) = s[1] /\ Head(s) \in S
           /\ Tail(s) \in Seq(S) /\ Len(Tail(s)) = Len(s) - 1
           /\ \A i \in 1 .. Len(Tail(s)) : Tail(s)[i] = s[i + 1] /\ i + 1 \in 1 .. Len(s)
  OBVIOUS

LEMMA Appended ==
    ASSUME NEW S, NEW s \in Seq(S), NEW e \in S
    PROVE  /\ Append(s, e) \in Seq(S) /\ Len(Append(s, e)) = Len(s) + 1 /\ Len(s) \in Nat
           /\ \A i \in 1 .. Len(s) : Append(s, e)[i] = s[i]
           /\ Append(s, e)[Len(s) + 1] = e
  OBVIOUS

LEMMA One ==
    ASSUME NEW S, NEW e \in S
    PROVE  <<e>> \in Seq(S) /\ Len(<<e>>) = 1 /\ <<e>>[1] = e
  OBVIOUS

LEMMA Nothing ==
    ASSUME NEW S
    PROVE  <<>> \in Seq(S) /\ Len(<<>>) = 0
  OBVIOUS

LEMMA Wrapping ==
    ASSUME NEW a \in 0 .. MaxId
    PROVE  (a + 1) % (MaxId + 1) = IF a = MaxId THEN 0 ELSE a + 1
  <1>1. MaxId \in Nat
    BY AckAssumption
  <1>2. CASE a = MaxId
    BY <1>1, <1>2
  <1>3. CASE a # MaxId
    <2>1. a + 1 \in 0 .. MaxId
      BY <1>1, <1>3
    <2> QED BY <1>1, <1>3, <2>1
  <1> QED BY <1>2, <1>3

(* NumberAfter gives a number.                                              *)
LEMMA NumbersAreNumbers ==
    ASSUME NEW a \in 0 .. MaxId
    PROVE  NumberAfter(a) \in 0 .. MaxId
  BY Wrapping, AckAssumption DEF NumberAfter

LEMMA NumbersOfAFrame ==
    ASSUME next_fence_id \in 0 .. MaxId, NEW k \in 0 .. 2
    PROVE  Number(k) \in 0 .. MaxId
  BY NumbersAreNumbers DEF Number

LEMMA ShapeFacts ==
    ASSUME NEW s \in Shapes
    PROVE  /\ s.taken \in 1 .. 3 /\ s.sent \in Seq(0 .. 2) /\ Len(s.sent) \in 0 .. 2
           /\ \A i \in 1 .. Len(s.sent) : s.sent[i] \in 0 .. 2 /\ s.sent[i] < s.taken
           /\ \A i, j \in 1 .. Len(s.sent) : i < j => s.sent[i] < s.sent[j]
           /\ DOMAIN s.sent = 1 .. Len(s.sent)
  <1>1. /\ <<0>> \in Seq(0 .. 2) /\ <<0, 1>> \in Seq(0 .. 2) /\ <<1>> \in Seq(0 .. 2)
        /\ <<1, 2>> \in Seq(0 .. 2) /\ <<>> \in Seq(0 .. 2)
    OBVIOUS
  <1>2. CASE s = [taken |-> 1, sent |-> <<0>>]
    BY <1>1, <1>2
  <1>3. CASE s = [taken |-> 2, sent |-> <<0, 1>>]
    BY <1>1, <1>3
  <1>4. CASE s = [taken |-> 2, sent |-> <<0>>]
    BY <1>1, <1>4
  <1>5. CASE s = [taken |-> 1, sent |-> <<>>]
    BY <1>1, <1>5
  <1>6. CASE s = [taken |-> 2, sent |-> <<1>>]
    BY <1>1, <1>6
  <1>7. CASE s = [taken |-> 3, sent |-> <<1, 2>>]
    BY <1>1, <1>7
  <1>8. CASE s = [taken |-> 2, sent |-> <<>>]
    BY <1>1, <1>8
  <1> QED BY <1>2, <1>3, <1>4, <1>5, <1>6, <1>7, <1>8 DEF Shapes

(* A length rounded up, less the bytes the tools take back.                 *)
LEMMA RingNext ==
    ASSUME NEW a \in Nat, NEW n \in Nat
    PROVE  /\ next_ring_addr(a, n) \in Nat
           /\ a + n - Padding <= next_ring_addr(a, n)
  <1>1. Grain \in Nat \ {0} /\ Trim \in Nat /\ Padding \in Nat /\ Trim <= Padding
    BY AckAssumption
  <1> DEFINE q == (n + Grain - 1) \div Grain
  <1>2. q \in Nat /\ n <= q * Grain /\ q * Grain \in Nat
    <2>1. n + Grain - 1 \in Nat
      BY <1>1
    <2>2. PICK b \in Nat : b = n + Grain - 1
      BY <2>1
    <2>3. b \div Grain \in Nat /\ b % Grain \in 0 .. Grain - 1
          /\ b = Grain * (b \div Grain) + (b % Grain)
      BY <1>1, <2>2
    <2>4. PICK k \in Nat : k = b \div Grain
      BY <2>3
    <2>5. q = k
      BY <2>2, <2>4
    <2>6. Grain * k \in Nat /\ k * Grain = Grain * k
      BY <1>1, <2>4
    <2>7. n <= Grain * k
      BY <1>1, <2>2, <2>3, <2>4, <2>6
    <2> QED BY <2>4, <2>5, <2>6, <2>7
  <1>3. next_ring_addr(a, n) = a + (IF q * Grain < Trim THEN 0 ELSE q * Grain - Trim)
    BY DEF next_ring_addr
  <1> HIDE DEF q
  <1>4. PICK m \in Nat : m = q * Grain
    BY <1>2
  <1> QED BY <1>1, <1>2, <1>3, <1>4

LEMMA OptionFacts ==
    ASSUME options \in Options
    PROVE  /\ options.program \in {"virtual-display", "replay-manifest", "replay-groups", "send-type7"}
           /\ options.wait \in BOOLEAN /\ options.setup_ack \in BOOLEAN
           /\ options.sequence_start \in 0 .. MaxId \cup {Absent}
           /\ options.payload_addr \in Nat \cup {Absent}
           /\ options.program = "send-type7" => options.sequence_start = 1 /\ options.payload_addr # Absent
           /\ options.program = "replay-groups" => options.sequence_start = Absent /\ options.payload_addr = Absent
           /\ options.program = "replay-manifest" => options.sequence_start \in {Absent, MaxId}
  <1>1. MaxId \in Nat \ {0} /\ PayloadAddrs \subseteq Nat
    BY AckAssumption
  <1>2. CASE options \in VirtualDisplay
    BY <1>1, <1>2 DEF VirtualDisplay, Absent
  <1>3. CASE options \in ReplayManifest
    <2>1. /\ options.program = "replay-manifest" /\ options.wait \in BOOLEAN
          /\ options.setup_ack = FALSE /\ options.sequence_start \in {Absent, MaxId}
          /\ options.payload_addr \in {Absent} \cup PayloadAddrs
      BY <1>3 DEF ReplayManifest
    <2>2. options.payload_addr \in Nat \cup {Absent}
      BY <1>1, <2>1
    <2>3. options.sequence_start \in 0 .. MaxId \cup {Absent}
      BY <1>1, <2>1
    <2> QED BY <2>1, <2>2, <2>3, Zenon
  <1>4. CASE options \in ReplayGroups
    BY <1>1, <1>4 DEF ReplayGroups, Absent
  <1>5. CASE options \in SendType7
    <2>1. /\ options.program = "send-type7" /\ options.wait \in BOOLEAN
          /\ options.setup_ack = FALSE /\ options.sequence_start = 1
          /\ options.payload_addr \in PayloadAddrs
      BY <1>5 DEF SendType7
    <2>2. options.payload_addr \in Nat
      BY <1>1, <2>1, Zenon
    <2>4. options.payload_addr # Absent
      BY <2>2 DEF Absent
    <2>3. 1 \in 0 .. MaxId
      BY <1>1
    <2> QED BY <2>1, <2>2, <2>3, <2>4, Zenon
  <1> QED BY <1>2, <1>3, <1>4, <1>5 DEF Options

LEMMA PacketTypes ==
    /\ None \in Packets /\ Foreign \in Packets /\ None.run = 0
    /\ run \in Nat => \A n \in Nat, id \in Int, a \in Int, l \in Nat : Packet(n, id, a, l) \in Packets
    /\ \A n, id, a, l : LET p == Packet(n, id, a, l)
                        IN  p.run = run /\ p.n = n /\ p.id = id /\ p.addr = a /\ p.len = l
  BY DEF None, Foreign, Packets, Packet

-----------------------------------------------------------------------------
(* The steps that begin a frame, and what they have in common.              *)

(* The steps of t6-virtual-display.                                         *)
LEMMA FrameBegins ==
    ASSUME AckTypes, Lines, NEW s \in Shapes, BeginFrame(s)
    PROVE  /\ todo' \in Seq(Packets) /\ Len(todo') = Len(s.sent)
           /\ \A i \in 1 .. Len(todo') :
                 /\ todo'[i].run = run /\ todo'[i].n = count + i
                 /\ todo'[i].id = Number(s.sent[i])
           /\ next_fence_id' \in 0 .. MaxId
           /\ AckTypes' /\ Lines'
  <1>0. AckTypes /\ ~IsReplay /\ next_fence_id \in 0 .. MaxId /\ line = "idle"
    BY DEF AckTypes, BeginFrame, Lines
  <1>1. \A k \in 0 .. 2 : Number(k) \in 0 .. MaxId /\ Number(k) \in Int
    BY <1>0, NumbersOfAFrame, AckAssumption
  <1> DEFINE t == [i \in 1 .. Len(s.sent) |-> Packet(count + i, Number(s.sent[i]), NoSpan, NoSpan)]
  <1>2. todo' = t
    BY ShapeFacts DEF BeginFrame
  <1>3. Len(s.sent) \in Nat /\ \A i \in 1 .. Len(s.sent) : t[i] \in Packets
    <2>1. Len(s.sent) \in Nat
      BY ShapeFacts
    <2>2. ASSUME NEW i \in 1 .. Len(s.sent) PROVE t[i] \in Packets
      <3>0. s.sent[i] \in 0 .. 2
        BY ShapeFacts
      <3>1. count + i \in Nat /\ NoSpan \in Nat /\ NoSpan \in Int
        BY <1>0, <2>1 DEF AckTypes, NoSpan
      <3>2. Number(s.sent[i]) \in Int
        BY <1>1, <3>0
      <3> QED BY <1>0, <3>1, <3>2, PacketTypes DEF AckTypes
    <2> QED BY <2>1, <2>2
  <1>4. t \in Seq(Packets) /\ Len(t) = Len(s.sent)
    <2>1. t \in [1 .. Len(s.sent) -> Packets]
      BY <1>3
    <2> HIDE DEF t
    <2> QED BY <1>3, <2>1
  <1>5. \A i \in 1 .. Len(s.sent) : /\ t[i].run = run /\ t[i].n = count + i
                                    /\ t[i].id = Number(s.sent[i])
    BY PacketTypes
  <1>6. next_fence_id' \in 0 .. MaxId
    <2>1. s.taken - 1 \in 0 .. 2
      BY ShapeFacts
    <2> QED BY <1>1, <2>1, NumbersAreNumbers DEF BeginFrame
  <1> HIDE DEF t
  <1>7. AckTypes'
    <2>1. count' \in Nat /\ frame' \in Nat
      BY <1>0, <1>3 DEF AckTypes, BeginFrame
    <2> QED BY <1>0, <1>2, <1>4, <1>6, <2>1, PacketTypes DEF AckTypes, BeginFrame, device
  <1>8. Lines'
    <2>1. s.sent = <<>> <=> todo' = <<>>
      BY <1>2, <1>4, ShapeFacts
    <2>2. next_fence_id' # Absent
      BY <1>6, AckAssumption DEF Absent
    <2> QED BY <1>0, <1>2, <1>4, <1>5, <2>1, <2>2 DEF Lines, BeginFrame, Waiting, IsReplay, device
  <1> QED BY <1>2, <1>4, <1>5, <1>6, <1>7, <1>8

(* Those of the tools.                                                      *)
LEMMA PayloadBegins ==
    ASSUME AckTypes, Lines, IsReplay, NEW id \in Int, NEW a \in Int, NEW l \in Nat,
           BeginPayload(id, a, l),
           next_fence_id' \in 0 .. MaxId \cup {Absent}, next_fence_id' = Absent <=> next_fence_id = Absent,
           payload_addr' \in Nat \cup {Absent}, payload_addr' = Absent <=> payload_addr = Absent
    PROVE  /\ todo' = <<Packet(count + 1, id, a, l)>> /\ Packet(count + 1, id, a, l) \in Packets
           /\ Len(todo') = 1 /\ todo'[1] = Packet(count + 1, id, a, l)
           /\ AckTypes' /\ Lines'
  <1>1. Packet(count + 1, id, a, l) \in Packets
    <2>1. count + 1 \in Nat /\ run \in Nat
      BY DEF AckTypes
    <2> QED BY <2>1 DEF Packet, Packets
  <1>2. todo' = <<Packet(count + 1, id, a, l)>>
    BY DEF BeginPayload
  <1>3. /\ todo' \in Seq(Packets) /\ Len(todo') = 1 /\ todo' # <<>>
        /\ todo'[1] = Packet(count + 1, id, a, l)
    <2> DEFINE p == Packet(count + 1, id, a, l)
    <2>1. p \in Packets /\ todo' = <<p>>
      BY <1>1, <1>2
    <2> HIDE DEF p
    <2>2. todo' \in Seq(Packets) /\ Len(todo') = 1 /\ todo' # <<>> /\ todo'[1] = p
      BY <2>1
    <2> QED BY <2>2 DEF p
  <1>4. AckTypes'
    BY <1>3, PacketTypes DEF AckTypes, BeginPayload, device
  <1>5. Lines'
    <2>1. \A k \in 1 .. Len(todo') : todo'[k].run = run
      BY <1>3, PacketTypes
    <2> QED BY <1>3, <2>1 DEF Lines, BeginPayload, Waiting, IsReplay, device
  <1> QED BY <1>1, <1>2, <1>3, <1>4, <1>5

(* The payload of a step of the tools: its number and place, and the next.  *)
ToolStep(id, a, l) ==
    /\ BeginPayload(id, a, l) /\ IsReplay /\ Padding < l
    /\ next_fence_id' \in 0 .. MaxId \cup {Absent}
    /\ next_fence_id' = Absent <=> next_fence_id = Absent
    /\ next_fence_id # Absent => /\ id = next_fence_id
                                 /\ next_fence_id' = NumberAfter(next_fence_id)
    /\ next_fence_id = Absent => /\ frame + 1 \in 1 .. Len(Records)
                                 /\ id = Records[frame + 1].sequence
    /\ payload_addr' \in Nat \cup {Absent}
    /\ payload_addr' = Absent <=> payload_addr = Absent
    /\ payload_addr # Absent => /\ a = payload_addr
                                /\ payload_addr' = next_ring_addr(a, l)
    /\ payload_addr = Absent => /\ frame + 1 \in 1 .. Len(Records)
                                /\ a = Records[frame + 1].dest
                                /\ l = Records[frame + 1].len

LEMMA ToolBegins ==
    ASSUME AckTypes, Lines, ReplayRecord \/ ReplayTile \/ SendAtAddress
    PROVE  \E id \in 0 .. MaxId, a \in Nat, l \in Nat : ToolStep(id, a, l)
  <1>0. /\ IsReplay /\ line = "idle" /\ MaxId \in Nat
        /\ next_fence_id \in 0 .. MaxId \cup {Absent} /\ payload_addr \in Nat \cup {Absent}
        /\ \A x \in 0 .. MaxId \cup Nat : x # Absent
    BY AckAssumption DEF ReplayRecord, ReplayTile, SendAtAddress, IsReplay, BeginPayload, AckTypes, Absent
  <1>1. ASSUME frame < Len(Records)
        PROVE  /\ frame + 1 \in 1 .. Len(Records)
               /\ Records[frame + 1].sequence \in 0 .. MaxId /\ Records[frame + 1].dest \in Nat
               /\ Records[frame + 1].len \in Nat /\ Padding < Records[frame + 1].len
    <2>0. Records \in Seq([sequence : 0 .. MaxId, dest : Nat, len : Nat])
      BY AckAssumption
    <2>1. frame + 1 \in 1 .. Len(Records) /\ frame + 1 \in DOMAIN Records
      BY <1>1, <2>0 DEF AckTypes
    <2>2. Records[frame + 1] \in [sequence : 0 .. MaxId, dest : Nat, len : Nat]
      BY <2>0, <2>1, ElementOfSeq
    <2>3. Padding < Records[frame + 1].len
      <3>1. \A i \in DOMAIN Records : Padding < Records[i].len
        BY AckAssumption, Zenon
      <3> QED BY <2>1, <3>1, Zenon
    <2> QED BY <2>1, <2>2, <2>3
  <1>2. next_fence_id # Absent => NumberAfter(next_fence_id) \in 0 .. MaxId
    BY <1>0, NumbersAreNumbers
  <1>3. CASE ReplayRecord
    <2> DEFINE r  == Records[frame + 1]
               id == IF next_fence_id = Absent THEN r.sequence ELSE next_fence_id
               a  == IF payload_addr = Absent THEN r.dest ELSE payload_addr
    <2>1. /\ frame < Len(Records) /\ BeginPayload(id, a, r.len)
          /\ payload_addr' = IF payload_addr = Absent THEN Absent
                             ELSE next_ring_addr(payload_addr, r.len)
          /\ next_fence_id' = IF next_fence_id = Absent THEN Absent ELSE NumberAfter(next_fence_id)
      BY <1>3 DEF ReplayRecord
    <2>2. id \in 0 .. MaxId /\ a \in Nat /\ r.len \in Nat
      BY <1>0, <1>1, <2>1
    <2>3. payload_addr # Absent => next_ring_addr(payload_addr, r.len) \in Nat
      BY <1>0, <2>2, RingNext
    <2> USE <2>2
    <2> WITNESS id \in 0 .. MaxId, a \in Nat, r.len \in Nat
    <2> QED BY <1>0, <1>1, <1>2, <2>1, <2>2, <2>3 DEF ToolStep
  <1>4. CASE ReplayTile
    <2> DEFINE r == Records[frame + 1]
    <2>1. /\ frame < Len(Records) /\ BeginPayload(r.sequence, r.dest, r.len)
          /\ payload_addr' = payload_addr /\ next_fence_id' = next_fence_id
          /\ options.program = "replay-groups"
      BY <1>4 DEF ReplayTile
    <2>2. payload_addr = Absent /\ next_fence_id = Absent
      BY <1>0, <2>1 DEF Lines
    <2>3. r.sequence \in 0 .. MaxId /\ r.dest \in Nat /\ r.len \in Nat
      BY <1>1, <2>1
    <2> USE <2>3
    <2> WITNESS r.sequence \in 0 .. MaxId, r.dest \in Nat, r.len \in Nat
    <2> QED BY <1>0, <1>1, <2>1, <2>2 DEF ToolStep
  <1>5. CASE SendAtAddress
    <2>1. /\ BeginPayload(next_fence_id, payload_addr, PictureLen)
          /\ payload_addr' = next_ring_addr(payload_addr, PictureLen)
          /\ next_fence_id' = NumberAfter(next_fence_id) /\ options.program = "send-type7"
      BY <1>5 DEF SendAtAddress
    <2>2. payload_addr # Absent /\ next_fence_id # Absent
      BY <1>0, <2>1 DEF Lines
    <2>3. next_fence_id \in 0 .. MaxId /\ payload_addr \in Nat /\ PictureLen \in Nat
          /\ Padding < PictureLen
      BY <1>0, <2>2, AckAssumption
    <2>4. next_ring_addr(payload_addr, PictureLen) \in Nat
      BY <2>3, RingNext
    <2> USE <2>3
    <2> WITNESS next_fence_id \in 0 .. MaxId, payload_addr \in Nat, PictureLen \in Nat
    <2> QED BY <1>0, <1>2, <2>1, <2>2, <2>3, <2>4 DEF ToolStep
  <1> QED BY <1>3, <1>4, <1>5

-----------------------------------------------------------------------------
LEMMA AckTypesInit ==
    ASSUME AckInit PROVE AckTypes /\ Lines
  <1>1. MaxId \in Nat \ {0}
    BY AckAssumption
  <1>2. 1 \in 0 .. MaxId /\ 1 # Absent
    BY <1>1 DEF Absent
  <1>3. AckTypes
    BY <1>2, PacketTypes, Nothing DEF AckInit, AckTypes
  <1> QED BY <1>2, <1>3, Nothing DEF AckInit, Lines, Waiting

(* What is kept for the host to read is an interrupt.                       *)
LEMMA KeptFacts ==
    ASSUME AckTypes, NEW i \in Interrupts
    PROVE  /\ Kept(i) \in Seq(Interrupts)
           /\ \/ Kept(i) = unread
              \/ /\ Kept(i) = Append(unread, i) /\ Len(Kept(i)) = Len(unread) + 1
                 /\ \A k \in 1 .. Len(unread) : Kept(i)[k] = unread[k]
                 /\ Kept(i)[Len(unread) + 1] = i
  BY Appended DEF AckTypes, Kept

LEMMA AckTypesKept ==
    ASSUME AckTypes, Lines, AckNext PROVE AckTypes' /\ Lines'
  <1>0. /\ None \in Packets /\ options \in Options /\ run \in Nat
        /\ todo \in Seq(Packets) /\ inbox \in Seq(Packets) /\ unread \in Seq(Interrupts)
    BY PacketTypes DEF AckTypes
  <1>a. MaxId \in Nat \ {0} /\ 1 \in 0 .. MaxId /\ 1 # Absent
    BY AckAssumption DEF Absent
  <1>1. CASE Start
    <2>1. /\ options' = options /\ todo' = todo /\ inbox' = inbox /\ run' = run
          /\ line' \in {"drain", "idle"} /\ line = "start"
          /\ next_fence_id' = (IF IsReplay THEN options.sequence_start ELSE 1)
          /\ payload_addr' = options.payload_addr /\ IsReplay' = IsReplay
      BY <1>1 DEF Start, device, IsReplay
    <2>2. AckTypes'
      BY <1>1, <1>a, <2>1, OptionFacts DEF AckTypes, Start, device
    <2>3. options.program = "send-type7" => next_fence_id' # Absent /\ payload_addr' # Absent
      BY <1>0, <1>a, <2>1, OptionFacts DEF IsReplay
    <2>4. options.program = "replay-groups" => payload_addr' = Absent /\ next_fence_id' = Absent
      BY <1>0, <2>1, OptionFacts DEF IsReplay
    <2>5. Lines'
      BY <1>a, <2>1, <2>3, <2>4 DEF Lines, Waiting, IsReplay
    <2> QED BY <2>2, <2>5
  <1>2. CASE Drain
    <2>1. unread' \in Seq(Interrupts)
      BY <1>0, <1>2, HeadAndTail DEF Drain
    <2> QED BY <1>2, <2>1 DEF AckTypes, Lines, Drain, host, Waiting, IsReplay
  <1>3. CASE DrainTimeout \/ DrainDeadline
    BY <1>3 DEF AckTypes, Lines, DrainTimeout, DrainDeadline, host, device, Waiting, IsReplay
  <1>4. CASE \E s \in Shapes : BeginFrame(s)
    BY <1>4, FrameBegins
  <1>5. CASE ReplayRecord \/ ReplayTile \/ SendAtAddress
    <2>1. PICK id \in 0 .. MaxId, a \in Nat, l \in Nat : ToolStep(id, a, l)
      BY <1>5, ToolBegins
    <2>2. id \in Int /\ a \in Int
      BY <1>a
    <2> QED BY <2>1, <2>2, PayloadBegins DEF ToolStep
  <1>6. CASE Sent
    <2>1. /\ line = "send" /\ todo # <<>> /\ inbox' = Append(inbox, Head(todo))
          /\ todo' = Tail(todo) /\ target' = Head(todo) /\ acked' = None
          /\ Head(todo) \in Packets /\ Head(todo).run = run
          /\ line' = (IF Tail(todo) # <<>> THEN (IF options.setup_ack THEN "wait" ELSE "send")
                      ELSE IF options.wait THEN "wait" ELSE "idle")
      BY <1>0, <1>6, HeadAndTail DEF Sent, Lines
    <2>2. /\ inbox' \in Seq(Packets) /\ todo' \in Seq(Packets)
          /\ \A i \in 1 .. Len(inbox') : inbox'[i].run <= run
      <3>1. \A i \in 1 .. Len(inbox) : inbox[i].run <= run
        BY DEF Lines
      <3> QED BY <1>0, <2>1, <3>1, HeadAndTail, Appended
    <2>3. \A k \in 1 .. Len(todo') : todo'[k].run = run
      BY <1>0, <2>1, HeadAndTail DEF Lines
    <2>4. AckTypes'
      BY <1>0, <1>6, <2>1, <2>2 DEF AckTypes, Sent, host
    <2>5. Lines'
      BY <1>6, <2>1, <2>2, <2>3 DEF Lines, Sent, host, Waiting, IsReplay
    <2> QED BY <2>4, <2>5
  <1>7. CASE WriteFails
    <2>1. Head(todo) \in Packets /\ line' \in {"last_wait", "ended"}
      BY <1>0, <1>7, HeadAndTail DEF WriteFails, Lines
    <2> QED BY <1>0, <1>7, <2>1, Nothing DEF AckTypes, Lines, WriteFails, host, device, Waiting, IsReplay
  <1>8. CASE ReadInterrupt
    <2>1. /\ Head(unread) \in Interrupts /\ unread' \in Seq(Interrupts)
          /\ Head(unread).of \in Packets
      <3>1. Head(unread) \in Interrupts /\ unread' \in Seq(Interrupts)
        BY <1>0, <1>8, HeadAndTail DEF ReadInterrupt
      <3> QED BY <3>1 DEF Interrupts
    <2>2. /\ \/ line' = line /\ acked' = acked
             \/ line' = AfterWait /\ acked' = Head(unread).of
          /\ line \in {"wait", "last_wait"}
      BY <1>8 DEF ReadInterrupt, Waiting
    <2>3. AckTypes'
      BY <1>8, <2>1, <2>2 DEF AckTypes, ReadInterrupt, host, AfterWait
    <2>4. Lines'
      BY <1>8, <2>2 DEF Lines, ReadInterrupt, host, AfterWait, Waiting, IsReplay
    <2> QED BY <2>3, <2>4
  <1>9. CASE ReadTimeout \/ Deadline \/ ReadFails \/ End
    <2>1. /\ UNCHANGED <<host, target, acked, device>>
          /\ \/ todo' = todo /\ line' = AfterWait
             \/ todo' = todo /\ line' = "ended" /\ line = "idle"
             \/ todo' = <<>> /\ line' = "ended"
          /\ line \in {"wait", "last_wait", "drain", "idle"}
          /\ line' # "ended" => Waiting
      BY <1>9 DEF ReadTimeout, Deadline, ReadFails, End, AfterWait, Waiting
    <2>2. line' \in {"send", "idle", "ended"} /\ todo' \in Seq(Packets)
      BY <1>0, <2>1, Nothing DEF AfterWait
    <2>3. AckTypes'
      BY <2>1, <2>2 DEF AckTypes, host, device
    <2>4. \/ todo' = todo /\ line' = "send" /\ todo # <<>>
          \/ todo' = <<>> /\ line' \in {"idle", "ended"}
      BY <2>1 DEF AfterWait, Lines, Waiting
    <2>5. Lines'
      BY <2>1, <2>4, Nothing DEF Lines, host, device, Waiting, IsReplay
    <2> QED BY <2>3, <2>5
  <1>10. CASE Restart
    <2>1. AckTypes'
      <3>1. /\ options' \in Options /\ trusted' \in BOOLEAN
            /\ line' = "start" /\ target' = None /\ acked' = None
            /\ todo' = todo /\ inbox' = inbox /\ unread' = unread
            /\ run' = run + 1 /\ frame' = 0 /\ count' = 0
            /\ next_fence_id' = 1 /\ payload_addr' = Absent
        BY <1>10, Zenon DEF Restart, device
      <3>2. /\ run' \in Nat /\ frame' \in Nat /\ count' \in Nat
            /\ next_fence_id' \in 0 .. MaxId \cup {Absent} /\ payload_addr' \in Nat \cup {Absent}
        BY <1>0, <1>a, <3>1
      <3> QED BY <1>0, <3>1, <3>2, Zenon DEF AckTypes
    <2>2. \A i \in 1 .. Len(inbox') : inbox'[i].run < run'
      <3>1. \A i \in 1 .. Len(inbox) : inbox[i].run <= run /\ inbox[i].run \in Int
        <4>1. \A i \in 1 .. Len(inbox) : inbox[i] \in Packets
          BY <1>0, ElementOfSeq
        <4> QED BY <4>1 DEF Lines, Packets
      <3> QED BY <1>0, <1>10, <3>1 DEF Restart, device
    <2>3. \A i \in 1 .. Len(inbox') : inbox'[i].run <= run'
      <3>1. \A i \in 1 .. Len(inbox) : inbox[i].run <= run /\ inbox[i].run \in Int
        <4>1. \A i \in 1 .. Len(inbox) : inbox[i] \in Packets
          BY <1>0, ElementOfSeq
        <4> QED BY <4>1 DEF Lines, Packets
      <3> QED BY <1>0, <1>10, <3>1 DEF Restart, device
    <2> QED BY <1>10, <1>a, <2>1, <2>2, <2>3, Nothing DEF Lines, Restart, Waiting
  <1>11. CASE Decode
    <2>1. PICK e \in {{"fence"}, {"jpeg_error"}} :
             unread' = Kept([display |-> TRUE, event |-> e, data |-> Head(inbox).id, of |-> Head(inbox)])
      BY <1>11 DEF Decode
    <2>2. Head(inbox) \in Packets /\ Tail(inbox) \in Seq(Packets)
      BY <1>0, <1>11, HeadAndTail DEF Decode
    <2>3. [display |-> TRUE, event |-> e, data |-> Head(inbox).id, of |-> Head(inbox)] \in Interrupts
      BY <2>2 DEF Packets, Interrupts
    <2>4. unread' \in Seq(Interrupts)
      BY <2>1, <2>3, KeptFacts
    <2>5. AckTypes'
      BY <1>11, <2>2, <2>4 DEF AckTypes, Decode, host
    <2>6. \A i \in 1 .. Len(inbox') : inbox'[i] = inbox[i + 1] /\ i + 1 \in 1 .. Len(inbox)
      BY <1>0, <1>11, HeadAndTail DEF Decode
    <2>7. Lines'
      BY <1>11, <2>6 DEF Lines, Decode, host, Waiting, IsReplay
    <2> QED BY <2>5, <2>7
  <1>12. CASE Other
    <2>1. [display |-> FALSE, event |-> {"fence"}, data |-> target.id, of |-> Foreign] \in Interrupts
      BY <1>0, PacketTypes DEF AckTypes, Packets, Interrupts
    <2>2. unread' \in Seq(Interrupts)
      BY <1>12, <2>1, KeptFacts DEF Other
    <2> QED BY <1>12, <2>2 DEF AckTypes, Lines, Other, host, Waiting, IsReplay
  <1> QED BY <1>1, <1>2, <1>3, <1>4, <1>5, <1>6, <1>7, <1>8, <1>9, <1>10, <1>11, <1>12 DEF AckNext, Host

-----------------------------------------------------------------------------
(* UndecodedIsKept.                                                         *)

EndOf(p) == p.addr + p.len - Padding           \* the end of its contents

(* A place lies behind all that a tool will write from now on, at the address a
   and from the record f + 1.                                               *)
Behind(e, a, f) ==
    IF a = Absent THEN \A k \in f + 1 .. Len(Records) : e <= Records[k].dest ELSE e <= a

(* The packets of a tool that the device has not decoded, that are still to be
   sent and that are still to be made lie one behind the other.             *)
InPlace ==
    IsReplay /\ line # "start" =>
        /\ Len(todo) <= 1
        /\ \A i, j \in 1 .. Len(inbox) :
              i < j /\ inbox[i].run = run /\ inbox[j].run = run => EndOf(inbox[i]) <= inbox[j].addr
        /\ \A i \in 1 .. Len(inbox), k \in 1 .. Len(todo) :
              inbox[i].run = run => EndOf(inbox[i]) <= todo[k].addr
        /\ \A i \in 1 .. Len(inbox) : inbox[i].run = run => Behind(EndOf(inbox[i]), payload_addr, frame)
        /\ \A k \in 1 .. Len(todo) : Behind(EndOf(todo[k]), payload_addr, frame)

LEMMA PlacesAreNumbers ==
    ASSUME NEW p \in Packets
    PROVE  p.addr \in Int /\ p.len \in Int /\ EndOf(p) \in Int /\ p.run \in Int
  BY AckAssumption DEF Packets, EndOf

(* The payload that a tool makes begins where the earlier ones have ended, and
   its end and theirs lie behind the next.                                  *)
LEMMA PlacesGoOn ==
    ASSUME AckTypes, RecordsApart, NEW id \in 0 .. MaxId, NEW a \in Nat, NEW l \in Nat,
           ToolStep(id, a, l)
    PROVE  /\ \A e \in Int : Behind(e, payload_addr, frame) => e <= a /\ Behind(e, payload_addr', frame')
           /\ Behind(a + l - Padding, payload_addr', frame')
  <1>0. /\ Padding \in Nat /\ frame \in Nat /\ frame' = frame + 1 /\ Padding < l
        /\ payload_addr' = Absent <=> payload_addr = Absent
    BY AckAssumption DEF AckTypes, ToolStep, BeginPayload
  <1>1. CASE payload_addr # Absent
    <2>1. a = payload_addr /\ payload_addr' = next_ring_addr(a, l)
      BY <1>1 DEF ToolStep
    <2>2. a + l - Padding <= next_ring_addr(a, l) /\ next_ring_addr(a, l) \in Nat
      BY RingNext
    <2> QED BY <1>0, <1>1, <2>1, <2>2 DEF Behind
  <1>2. CASE payload_addr = Absent
    <2>1. /\ frame + 1 \in 1 .. Len(Records) /\ a = Records[frame + 1].dest
          /\ l = Records[frame + 1].len
      BY <1>2 DEF ToolStep
    <2>2. /\ Records \in Seq([sequence : 0 .. MaxId, dest : Nat, len : Nat])
          /\ Len(Records) \in Nat /\ DOMAIN Records = 1 .. Len(Records)
      <3>1. Records \in Seq([sequence : 0 .. MaxId, dest : Nat, len : Nat])
        BY AckAssumption
      <3> QED BY <3>1, LenProperties
    <2>3. \A k \in frame + 2 .. Len(Records) : a + l - Padding <= Records[k].dest
      <3>1. \A k \in frame + 2 .. Len(Records) : k \in 1 .. Len(Records) /\ frame + 1 < k
        BY <1>0, <2>2
      <3>2. \A k \in frame + 2 .. Len(Records) : /\ k \in DOMAIN Records /\ frame + 1 \in DOMAIN Records
                                                 /\ frame + 1 < k
        BY <2>1, <2>2, <3>1, Zenon
      <3> QED BY <2>1, <3>2, Zenon DEF RecordsApart
    <2>4. ASSUME NEW e \in Int, Behind(e, payload_addr, frame)
          PROVE  e <= a /\ Behind(e, payload_addr', frame')
      <3>1. \A k \in frame + 1 .. Len(Records) : e <= Records[k].dest
        BY <1>2, <2>4 DEF Behind
      <3>2. frame + 1 \in frame + 1 .. Len(Records)
        BY <1>0, <2>1, <2>2
      <3>3. e <= a
        BY <2>1, <3>1, <3>2
      <3>4. \A k \in frame' + 1 .. Len(Records) : k \in frame + 1 .. Len(Records)
        BY <1>0, <2>2
      <3> QED BY <1>0, <1>2, <3>1, <3>3, <3>4 DEF Behind
    <2>5. Behind(a + l - Padding, payload_addr', frame')
      <3>1. frame' + 1 = frame + 2
        BY <1>0
      <3>2. \A k \in frame' + 1 .. Len(Records) : a + l - Padding <= Records[k].dest
        BY <2>3, <3>1
      <3> QED BY <1>0, <1>2, <3>2 DEF Behind
    <2> QED BY <2>4, <2>5
  <1> QED BY <1>1, <1>2

LEMMA InPlaceKept ==
    ASSUME AckTypes, Lines, InPlace, RecordsApart, AckNext
    PROVE  InPlace'
  <1>0. /\ AckTypes' /\ Lines' /\ todo \in Seq(Packets) /\ inbox \in Seq(Packets) /\ run \in Nat
        /\ Len(inbox) \in Nat /\ Len(todo) \in Nat
        /\ \A i \in 1 .. Len(inbox) : inbox[i] \in Packets
        /\ \A k \in 1 .. Len(todo) : todo[k] \in Packets
    BY AckTypesKept, ElementOfSeq, LenProperties DEF AckTypes
  <1>1. CASE Start
    <2>1. /\ inbox' = inbox /\ run' = run /\ todo' = <<>>
          /\ \A i \in 1 .. Len(inbox) : inbox[i].run # run
      <3>1. \A i \in 1 .. Len(inbox) : inbox[i].run \in Int /\ inbox[i].run < run
        BY <1>0, <1>1, PlacesAreNumbers DEF Start, Lines
      <3> QED BY <1>0, <1>1, <3>1 DEF Start, Lines, device
    <2> QED BY <2>1, Nothing DEF InPlace
  <1>2. CASE \E s \in Shapes : BeginFrame(s)
    BY <1>2 DEF BeginFrame, InPlace, IsReplay
  <1>3. CASE ReplayRecord \/ ReplayTile \/ SendAtAddress
    <2>1. PICK id \in 0 .. MaxId, a \in Nat, l \in Nat : ToolStep(id, a, l)
      BY <1>3, ToolBegins
    <2>2. /\ id \in Int /\ a \in Int /\ IsReplay /\ line # "start" /\ inbox' = inbox /\ run' = run
          /\ IsReplay' = IsReplay /\ a + l - Padding \in Int
      BY <2>1, AckAssumption DEF ToolStep, BeginPayload, device, IsReplay
    <2>3. Len(todo') = 1 /\ todo'[1] = Packet(count + 1, id, a, l)
      BY <2>1, <2>2, PayloadBegins DEF ToolStep
    <2>4. \A k \in 1 .. Len(todo') : todo'[k].addr = a /\ EndOf(todo'[k]) = a + l - Padding
      BY <2>3, PacketTypes DEF EndOf
    <2>5. /\ \A e \in Int : Behind(e, payload_addr, frame) => e <= a /\ Behind(e, payload_addr', frame')
          /\ Behind(a + l - Padding, payload_addr', frame')
      BY <2>1, PlacesGoOn
    <2>6. \A i \in 1 .. Len(inbox) : inbox[i].run = run => Behind(EndOf(inbox[i]), payload_addr, frame) /\ EndOf(inbox[i]) \in Int
      BY <1>0, <2>2, PlacesAreNumbers DEF InPlace
    <2>7. \A i \in 1 .. Len(inbox') : inbox'[i].run = run' =>
              EndOf(inbox'[i]) <= a /\ Behind(EndOf(inbox'[i]), payload_addr', frame')
      BY <2>2, <2>5, <2>6
    <2>8. \A k \in 1 .. Len(todo') : Behind(EndOf(todo'[k]), payload_addr', frame')
      BY <2>4, <2>5
    <2> QED BY <2>2, <2>3, <2>4, <2>7, <2>8 DEF InPlace
  <1>4. CASE Sent
    <2>1. SUFFICES ASSUME IsReplay
                   PROVE  InPlace'
      BY <1>4 DEF InPlace, IsReplay, Sent, host
    <2>2. /\ line = "send" /\ todo # <<>> /\ inbox' = Append(inbox, Head(todo)) /\ todo' = Tail(todo)
          /\ run' = run /\ payload_addr' = payload_addr /\ frame' = frame
      BY <1>4 DEF Sent, Lines, host
    <2>3. /\ Len(inbox') = Len(inbox) + 1 /\ Head(todo) = todo[1] /\ todo[1] \in Packets /\ 1 \in 1 .. Len(todo)
          /\ \A i \in 1 .. Len(inbox) : inbox'[i] = inbox[i]
          /\ inbox'[Len(inbox) + 1] = todo[1] /\ Len(todo') = 0
      <3>1. Len(todo) <= 1
        BY <2>1, <2>2 DEF InPlace
      <3>a. todo \in Seq(Packets) /\ todo # <<>>
        BY <1>0, <2>2
      <3>b. /\ Len(todo) \in Nat \ {0} /\ Head(todo) = todo[1] /\ Head(todo) \in Packets
            /\ Len(Tail(todo)) = Len(todo) - 1
        BY <3>a, HeadAndTail
      <3>2. /\ Len(todo) = 1 /\ Head(todo) = todo[1] /\ todo[1] \in Packets
            /\ Len(todo') = 0
        BY <2>2, <3>1, <3>b
      <3>3. PICK e \in Packets : e = Head(todo)
        BY <3>2
      <3>4. /\ Len(inbox') = Len(inbox) + 1 /\ inbox'[Len(inbox) + 1] = e
            /\ \A i \in 1 .. Len(inbox) : inbox'[i] = inbox[i]
        BY <1>0, <2>2, <3>3, Appended
      <3> QED BY <3>2, <3>3, <3>4
    <2>4. payload_addr' = payload_addr /\ frame' = frame
      BY <2>2
    <2>5. \A i \in 1 .. Len(inbox') : i \in 1 .. Len(inbox) \/ i = Len(inbox) + 1
      BY <1>0, <2>3
    <2>6. ASSUME NEW i \in 1 .. Len(inbox'), inbox'[i].run = run
          PROVE  /\ Behind(EndOf(inbox'[i]), payload_addr', frame')
                 /\ \A j \in 1 .. Len(inbox') : i < j /\ inbox'[j].run = run => EndOf(inbox'[i]) <= inbox'[j].addr
      <3>1. Behind(EndOf(inbox'[i]), payload_addr, frame)
        BY <2>1, <2>2, <2>3, <2>5, <2>6 DEF InPlace
      <3>2. ASSUME NEW j \in 1 .. Len(inbox'), i < j, inbox'[j].run = run
            PROVE  EndOf(inbox'[i]) <= inbox'[j].addr
        <4>1. i \in 1 .. Len(inbox)
          BY <1>0, <2>3, <3>2
        <4>2. CASE j \in 1 .. Len(inbox)
          BY <2>1, <2>2, <2>3, <2>6, <3>2, <4>1, <4>2 DEF InPlace
        <4>3. CASE j = Len(inbox) + 1
          BY <2>1, <2>2, <2>3, <2>6, <4>1, <4>3 DEF InPlace
        <4> QED BY <2>5, <4>2, <4>3
      <3> QED BY <2>4, <3>1, <3>2
    <2>7. \A k \in 1 .. Len(todo') : FALSE
      BY <2>3
    <2>8. \A i, j \in 1 .. Len(inbox') :
             i < j /\ inbox'[i].run = run' /\ inbox'[j].run = run' => EndOf(inbox'[i]) <= inbox'[j].addr
      BY <2>2, <2>6
    <2>9. \A i \in 1 .. Len(inbox') : inbox'[i].run = run' => Behind(EndOf(inbox'[i]), payload_addr', frame')
      BY <2>2, <2>6
    <2>10. Len(todo') <= 1
      BY <2>3
    <2> QED BY <2>7, <2>8, <2>9, <2>10 DEF InPlace
  <1>5. CASE Decode
    <2>1. /\ Len(inbox') = Len(inbox) - 1
          /\ \A i \in 1 .. Len(inbox') : inbox'[i] = inbox[i + 1] /\ i + 1 \in 1 .. Len(inbox)
      BY <1>0, <1>5, HeadAndTail DEF Decode
    <2>2. UNCHANGED <<host, line, todo>>
      BY <1>5 DEF Decode
    <2>3. \A i, j \in 1 .. Len(inbox') : i < j => i + 1 < j + 1
      BY <1>0, <2>1
    <2>4. payload_addr' = payload_addr /\ frame' = frame /\ run' = run /\ todo' = todo /\ line' = line /\ IsReplay' = IsReplay
      BY <2>2 DEF host, IsReplay
    <2> QED BY <2>1, <2>3, <2>4 DEF InPlace
  <1>6. CASE Restart
    BY <1>6 DEF Restart, InPlace
  <1>7. CASE \/ Drain \/ DrainTimeout \/ DrainDeadline \/ WriteFails \/ ReadInterrupt \/ ReadTimeout
             \/ Deadline \/ ReadFails \/ End \/ Other
    <2>1. /\ inbox' = inbox /\ line # "start"
          /\ UNCHANGED <<options, run, payload_addr, frame>>
          /\ todo' = todo \/ todo' = <<>>
      BY <1>7 DEF Drain, DrainTimeout, DrainDeadline, WriteFails, ReadInterrupt, ReadTimeout, Deadline,
                  ReadFails, End, Other, host, device, Waiting
    <2>2. payload_addr' = payload_addr /\ frame' = frame /\ run' = run /\ IsReplay' = IsReplay
      BY <2>1 DEF IsReplay
    <2>3. CASE todo' = todo
      BY <2>1, <2>2, <2>3 DEF InPlace
    <2>4. CASE todo' = <<>>
      BY <2>1, <2>2, <2>4, Nothing DEF InPlace
    <2> QED BY <2>1, <2>3, <2>4
  <1> QED BY <1>1, <1>2, <1>3, <1>4, <1>5, <1>6, <1>7 DEF AckNext, Host

LEMMA NoStepKeepsThese ==
    ASSUME UNCHANGED ackVars
    PROVE  (AckTypes <=> AckTypes') /\ (Lines <=> Lines') /\ (InPlace <=> InPlace')
  BY DEF ackVars, AckTypes, Lines, InPlace, Waiting, IsReplay

(* UndecodedIsKept: whatever the options and whatever an earlier run has left
   in the device, a tool writes no payload over the contents of one of its own
   that the device has still to decode, if the recorded ones lie apart.     *)
THEOREM UndecodedIsSafe == RecordsApart => (AckSpec => []UndecodedIsKept)
  <1> SUFFICES ASSUME RecordsApart PROVE AckSpec => []UndecodedIsKept
    OBVIOUS
  <1>1. AckInit => AckTypes /\ Lines /\ InPlace
    BY AckTypesInit DEF AckInit, InPlace
  <1>2. AckTypes /\ Lines /\ InPlace /\ [AckNext]_ackVars => AckTypes' /\ Lines' /\ InPlace'
    BY AckTypesKept, InPlaceKept, NoStepKeepsThese
  <1>3. AckTypes /\ Lines /\ InPlace => UndecodedIsKept
    <2> SUFFICES ASSUME AckTypes, Lines, InPlace PROVE UndecodedIsKept
      OBVIOUS
    <2>1. inbox \in Seq(Packets) /\ run \in Nat
      BY DEF AckTypes
    <2>2. DOMAIN inbox = 1 .. Len(inbox) /\ \A i \in 1 .. Len(inbox) : inbox[i].run \in Int
      BY <2>1, ElementOfSeq, LenProperties, PlacesAreNumbers
    <2>3. line = "start" => \A i \in 1 .. Len(inbox) : inbox[i].run # run
      BY <2>1, <2>2 DEF Lines
    <2> QED BY <2>2, <2>3 DEF InPlace, UndecodedIsKept, EndOf
  <1> QED BY <1>1, <1>2, <1>3, PTL DEF AckSpec

-----------------------------------------------------------------------------
(* AckIsOwn.                                                                *)

(* The packets of this run that the device has not decoded, and those whose
   answers have not been read.                                              *)
Unanswered == {inbox[i] : i \in 1 .. Len(inbox)}
Answered   == {unread[i].of : i \in {k \in 1 .. Len(unread) : unread[k].display}}
InFlight   == Answered \cup Unanswered

(* The numbers that a run of at most FramesPerRun frames has used: those of
   t6-virtual-display lie below the next one, the tools' are a function of the
   packet's place in the run.                                               *)
Used(p, o, next, c) ==
    /\ p.n \in 1 .. c
    /\ o.program = "virtual-display" => p.id < next
    /\ o.program # "virtual-display" /\ next = Absent =>
          p.n <= Len(Records) /\ p.id = Records[p.n].sequence
    /\ o.program # "virtual-display" /\ next # Absent =>
          p.id = (IF o.sequence_start = 1 THEN p.n ELSE IF p.n = 1 THEN MaxId ELSE p.n - 2)

Counting ==
    /\ frame <= FramesPerRun
    /\ line \in {"start", "drain"} => acked = None /\ frame = 0 /\ count = 0
    /\ ~IsReplay => next_fence_id \in 1 .. 3 * frame + 1
    /\ IsReplay => frame = count
    /\ IsReplay /\ line # "start" /\ next_fence_id # Absent =>
          /\ options.sequence_start = 1 => next_fence_id = count + 1
          /\ options.sequence_start # 1 =>
                next_fence_id = IF count = 0 THEN MaxId ELSE count - 1

(* Packets are decoded, and their answers read, in the order in which they
   were sent.                                                               *)
Ordered ==
    /\ \A i, j \in 1 .. Len(inbox) : i < j => inbox[i].n < inbox[j].n
    /\ \A i, j \in 1 .. Len(unread) :
          i < j /\ unread[i].display /\ unread[j].display => unread[i].of.n < unread[j].of.n
    /\ \A p \in Answered, q \in Unanswered : p.n < q.n

(* Nothing in flight has the number of a packet still to be sent, or of the
   packet waited for unless it is that packet.                              *)
Told ==
    /\ \A i \in 1 .. Len(unread) : unread[i].display => unread[i].data = unread[i].of.id
    /\ \A p \in InFlight : Used(p, options, next_fence_id, count)
    /\ \A k \in 1 .. Len(todo) : Used(todo[k], options, next_fence_id, count)
    /\ \A p \in InFlight, k \in 1 .. Len(todo) : p.n < todo[k].n /\ p.id # todo[k].id
    /\ \A k, l \in 1 .. Len(todo) : k < l => todo[k].n < todo[l].n /\ todo[k].id # todo[l].id
    /\ Waiting => \A p \in InFlight :
          \/ p.n < target.n /\ p.id # target.id
          \/ p = target
    /\ acked # None => acked = target /\ InFlight = {}

Own == trusted => Ordered /\ Told

(* Within a run of t6-virtual-display the numbers do not wrap.              *)
LEMMA NumbersGoUp ==
    ASSUME AckTypes, Counting, NumbersSuffice, ~IsReplay, frame < FramesPerRun
    PROVE  \A k \in 0 .. 2 : Number(k) = next_fence_id + k /\ NumberAfter(Number(k)) = next_fence_id + k + 1
  <1>1. /\ MaxId \in Nat /\ FramesPerRun \in Nat /\ frame \in Nat
        /\ next_fence_id \in 1 .. 3 * frame + 1 /\ 3 * FramesPerRun < MaxId
    BY AckAssumption DEF AckTypes, Counting, NumbersSuffice
  <1>2. next_fence_id \in Nat /\ next_fence_id + 2 < MaxId
    BY <1>1
  <1>3. \A a \in Nat : a < MaxId => NumberAfter(a) = a + 1
    BY <1>1 DEF NumberAfter
  <1>4. NumberAfter(next_fence_id) = next_fence_id + 1
    BY <1>1, <1>2, <1>3
  <1>5. NumberAfter(next_fence_id + 1) = next_fence_id + 2
    <2>1. next_fence_id + 1 \in Nat /\ next_fence_id + 1 < MaxId /\ next_fence_id + 1 + 1 = next_fence_id + 2
      BY <1>1, <1>2
    <2> QED BY <1>3, <2>1
  <1>6. NumberAfter(next_fence_id + 2) = next_fence_id + 3
    <2>1. next_fence_id + 2 \in Nat /\ next_fence_id + 2 < MaxId /\ next_fence_id + 2 + 1 = next_fence_id + 3
      BY <1>1, <1>2
    <2> QED BY <1>3, <2>1
  <1>7. Number(0) = next_fence_id /\ Number(1) = next_fence_id + 1 /\ Number(2) = next_fence_id + 2
    BY <1>4, <1>5 DEF Number
  <1>8. ASSUME NEW k \in 0 .. 2
        PROVE  Number(k) = next_fence_id + k /\ NumberAfter(Number(k)) = next_fence_id + k + 1
    <2>1. CASE k = 0
      BY <1>2, <1>4, <1>7, <2>1
    <2>2. CASE k = 1
      BY <1>2, <1>5, <1>7, <2>2
    <2>3. CASE k = 2
      BY <1>2, <1>6, <1>7, <2>3
    <2> QED BY <2>1, <2>2, <2>3
  <1> QED BY <1>8

(* Nor do those of the tools, but for the first one if they begin at the end. *)
LEMMA ToolNumbers ==
    ASSUME AckTypes, Lines, Counting, NumbersSuffice, NEW id \in 0 .. MaxId, NEW a \in Nat, NEW l \in Nat,
           ToolStep(id, a, l), next_fence_id # Absent
    PROVE  /\ id = next_fence_id /\ frame = count /\ frame < FramesPerRun /\ line # "start"
           /\ options.sequence_start = 1 => id = count + 1 /\ next_fence_id' = count + 2
           /\ options.sequence_start # 1 => /\ id = IF count = 0 THEN MaxId ELSE count - 1
                                            /\ next_fence_id' = count
  <1>1. /\ MaxId \in Nat /\ FramesPerRun \in Nat /\ frame \in Nat /\ count \in Nat
        /\ 3 * FramesPerRun < MaxId /\ IsReplay /\ line = "idle" /\ frame < FramesPerRun
        /\ id = next_fence_id /\ next_fence_id' = NumberAfter(id) /\ frame = count
    BY AckAssumption DEF AckTypes, NumbersSuffice, ToolStep, BeginPayload, Counting
  <1>2. next_fence_id' = IF id = MaxId THEN 0 ELSE id + 1
    BY <1>1, Wrapping DEF NumberAfter
  <1>3. CASE options.sequence_start = 1
    <2>1. id = count + 1
      BY <1>1, <1>3 DEF Counting
    <2> QED BY <1>1, <1>2, <1>3, <2>1
  <1>4. CASE options.sequence_start # 1
    <2>1. id = IF count = 0 THEN MaxId ELSE count - 1
      BY <1>1, <1>4 DEF Counting
    <2>2. next_fence_id' = count
      BY <1>1, <1>2, <2>1
    <2> QED BY <1>1, <1>4, <2>1, <2>2
  <1> QED BY <1>3, <1>4

LEMMA CountingInit ==
    ASSUME AckInit PROVE Counting
  BY AckAssumption DEF AckInit, Counting

LEMMA CountingKept ==
    ASSUME AckTypes, Lines, Counting, NumbersSuffice, AckNext
    PROVE  Counting'
  <1>0. /\ FramesPerRun \in Nat /\ frame \in Nat /\ count \in Nat /\ frame <= FramesPerRun
        /\ MaxId \in Nat \ {0} /\ 1 \in 1 .. 3 * 0 + 1
    BY AckAssumption DEF AckTypes, Counting
  <1>1. CASE Start
    <2>1. /\ options' = options /\ line' # "start" /\ acked' = acked /\ frame' = frame /\ count' = count
          /\ line = "start" /\ IsReplay' = IsReplay
          /\ next_fence_id' = IF IsReplay THEN options.sequence_start ELSE 1
      BY <1>1 DEF Start, IsReplay
    <2>2. acked = None /\ frame = 0 /\ count = 0
      BY <2>1 DEF Counting
    <2>3. IsReplay => options.sequence_start \in {1, MaxId, Absent}
      BY OptionFacts DEF AckTypes, IsReplay
    <2> QED BY <1>0, <2>1, <2>2, <2>3 DEF Counting
  <1>2. CASE \E s \in Shapes : BeginFrame(s)
    <2>1. PICK s \in Shapes : BeginFrame(s)
      BY <1>2
    <2>2. /\ frame < FramesPerRun /\ frame' = frame + 1 /\ ~IsReplay /\ ~IsReplay'
          /\ next_fence_id' = NumberAfter(Number(s.taken - 1)) /\ line' \in {"idle", "send"}
      BY <2>1 DEF BeginFrame, IsReplay
    <2>3. s.taken - 1 \in 0 .. 2 /\ s.taken \in 1 .. 3
      BY ShapeFacts
    <2>4. next_fence_id' = next_fence_id + (s.taken - 1) + 1
      BY <2>2, <2>3, NumbersGoUp
    <2>5. next_fence_id \in 1 .. 3 * frame + 1
      BY <2>2 DEF Counting
    <2>6. next_fence_id' \in 1 .. 3 * frame' + 1
      BY <1>0, <2>2, <2>3, <2>4, <2>5
    <2> QED BY <1>0, <2>2, <2>6 DEF Counting
  <1>3. CASE ReplayRecord \/ ReplayTile \/ SendAtAddress
    <2>1. PICK id \in 0 .. MaxId, a \in Nat, l \in Nat : ToolStep(id, a, l)
      BY <1>3, ToolBegins
    <2>2. /\ frame < FramesPerRun /\ frame' = frame + 1 /\ count' = count + 1 /\ line' = "send"
          /\ IsReplay /\ IsReplay' /\ options' = options
          /\ next_fence_id' = Absent <=> next_fence_id = Absent
      BY <2>1 DEF ToolStep, BeginPayload, IsReplay
    <2>3. CASE next_fence_id = Absent
      BY <1>0, <2>2, <2>3 DEF Counting
    <2>4. CASE next_fence_id # Absent
      BY <1>0, <2>1, <2>2, <2>4, ToolNumbers DEF Counting
    <2> QED BY <2>3, <2>4
  <1>4. CASE Restart
    BY <1>0, <1>4 DEF Restart, Counting
  <1>5. CASE Drain \/ Decode \/ Other
    BY <1>5 DEF Drain, Decode, Other, host, Counting, IsReplay
  <1>6. CASE \/ DrainTimeout \/ DrainDeadline \/ Sent \/ WriteFails \/ ReadInterrupt \/ ReadTimeout
             \/ Deadline \/ ReadFails \/ End
    <2>1. /\ UNCHANGED <<options, next_fence_id, frame, count>>
          /\ line # "start" /\ line' \notin {"start", "drain"}
      BY <1>6 DEF DrainTimeout, DrainDeadline, Sent, WriteFails, ReadInterrupt, ReadTimeout, Deadline,
                  ReadFails, End, host, Waiting, AfterWait
    <2> QED BY <2>1 DEF Counting, IsReplay
  <1> QED BY <1>1, <1>2, <1>3, <1>4, <1>5, <1>6 DEF AckNext, Host

(* The number of a new packet is none that the run has used.                *)
LEMMA ToolNumberIsNew ==
    ASSUME AckTypes, Lines, Counting, NumbersSuffice, NEW id \in 0 .. MaxId, NEW a \in Nat, NEW l \in Nat,
           ToolStep(id, a, l)
    PROVE  /\ \A p \in Packets : Used(p, options, next_fence_id, count) =>
                 p.id # id /\ p.n < count + 1 /\ Used(p, options', next_fence_id', count')
           /\ Used(Packet(count + 1, id, a, l), options', next_fence_id', count')
  <1>0. /\ options.program # "virtual-display" /\ options' = options /\ count' = count + 1
        /\ next_fence_id' = Absent <=> next_fence_id = Absent
        /\ count \in Nat /\ frame = count /\ frame < FramesPerRun
        /\ MaxId \in Nat /\ FramesPerRun \in Nat /\ 3 * FramesPerRun < MaxId
    BY AckAssumption DEF ToolStep, BeginPayload, IsReplay, AckTypes, Counting, NumbersSuffice
  <1>1. PICK q : q = Packet(count + 1, id, a, l)
    OBVIOUS
  <1>2. q.n = count + 1 /\ q.id = id
    BY <1>1, PacketTypes
  <1>3. CASE next_fence_id = Absent
    <2>1. /\ count + 1 \in 1 .. Len(Records) /\ id = Records[count + 1].sequence
      BY <1>0, <1>3 DEF ToolStep
    <2>2. Used(q, options', next_fence_id', count')
      BY <1>0, <1>2, <1>3, <2>1 DEF Used
    <2>3. ASSUME NEW p \in Packets, Used(p, options, next_fence_id, count)
          PROVE  p.id # id /\ p.n < count + 1 /\ Used(p, options', next_fence_id', count')
      <3>1. p.n \in 1 .. count /\ p.n <= Len(Records) /\ p.id = Records[p.n].sequence
        BY <1>0, <1>3, <2>3 DEF Used
      <3>2. /\ Records \in Seq([sequence : 0 .. MaxId, dest : Nat, len : Nat])
            /\ \A i, j \in DOMAIN Records : i # j => Records[i].sequence # Records[j].sequence
        BY AckAssumption, Zenon
      <3>3. DOMAIN Records = 1 .. Len(Records) /\ Len(Records) \in Nat
        BY <3>2, LenProperties
      <3>4. p.n \in DOMAIN Records /\ count + 1 \in DOMAIN Records /\ p.n # count + 1
        BY <1>0, <2>1, <3>1, <3>3
      <3>5. p.id # id
        BY <2>1, <3>1, <3>2, <3>4, Zenon
      <3> QED BY <1>0, <1>3, <3>1, <3>5 DEF Used
    <2> QED BY <1>1, <2>2, <2>3
  <1>4. CASE next_fence_id # Absent
    <2>1. /\ options.sequence_start = 1 => id = count + 1
          /\ options.sequence_start # 1 => id = IF count = 0 THEN MaxId ELSE count - 1
      BY <1>4, ToolNumbers
    <2>2. Used(q, options', next_fence_id', count')
      BY <1>0, <1>2, <1>4, <2>1 DEF Used
    <2>3. ASSUME NEW p \in Packets, Used(p, options, next_fence_id, count)
          PROVE  p.id # id /\ p.n < count + 1 /\ Used(p, options', next_fence_id', count')
      <3>1. /\ p.n \in 1 .. count
            /\ p.id = (IF options.sequence_start = 1 THEN p.n ELSE IF p.n = 1 THEN MaxId ELSE p.n - 2)
        BY <1>0, <1>4, <2>3 DEF Used
      <3>2. p.id # id
        BY <1>0, <2>1, <3>1
      <3> QED BY <1>0, <1>4, <3>1, <3>2 DEF Used
    <2> QED BY <1>1, <2>2, <2>3
  <1> QED BY <1>3, <1>4

LEMMA FrameNumbersAreNew ==
    ASSUME AckTypes, Lines, Counting, NumbersSuffice, NEW s \in Shapes, BeginFrame(s)
    PROVE  /\ \A p \in Packets : Used(p, options, next_fence_id, count) =>
                 /\ Used(p, options', next_fence_id', count')
                 /\ \A k \in 1 .. Len(todo') : p.n < todo'[k].n /\ p.id # todo'[k].id
           /\ \A k \in 1 .. Len(todo') : Used(todo'[k], options', next_fence_id', count')
           /\ \A k, l \in 1 .. Len(todo') : k < l => todo'[k].n < todo'[l].n /\ todo'[k].id # todo'[l].id
  <1>0. /\ options.program = "virtual-display" /\ options' = options /\ ~IsReplay
        /\ count \in Nat /\ frame < FramesPerRun /\ next_fence_id \in 0 .. MaxId /\ MaxId \in Nat
        /\ count' = count + Len(s.sent) /\ next_fence_id' = NumberAfter(Number(s.taken - 1))
    BY AckAssumption DEF BeginFrame, IsReplay, AckTypes, Lines, Absent
  <1>1. \A k \in 0 .. 2 : Number(k) = next_fence_id + k /\ NumberAfter(Number(k)) = next_fence_id + k + 1
    BY <1>0, NumbersGoUp
  <1>2. /\ s.taken \in 1 .. 3 /\ Len(s.sent) \in 0 .. 2
        /\ \A i \in 1 .. Len(s.sent) : s.sent[i] \in 0 .. 2 /\ s.sent[i] < s.taken
        /\ \A i, j \in 1 .. Len(s.sent) : i < j => s.sent[i] < s.sent[j]
    BY ShapeFacts
  <1>3. next_fence_id' = next_fence_id + s.taken
    <2>1. s.taken - 1 \in 0 .. 2 /\ next_fence_id + (s.taken - 1) + 1 = next_fence_id + s.taken
      BY <1>0, <1>2
    <2> QED BY <1>0, <1>1, <2>1
  <1>4. /\ Len(todo') = Len(s.sent)
        /\ \A i \in 1 .. Len(todo') : todo'[i].n = count + i /\ todo'[i].id = Number(s.sent[i])
    BY FrameBegins
  <1>5. \A i \in 1 .. Len(todo') : /\ todo'[i].n = count + i /\ todo'[i].id = next_fence_id + s.sent[i]
                                   /\ s.sent[i] \in 0 .. 2 /\ s.sent[i] < s.taken
                                   /\ i \in 1 .. Len(s.sent) /\ i \in Nat
    BY <1>1, <1>2, <1>4
  <1>6. ASSUME NEW p \in Packets, Used(p, options, next_fence_id, count)
        PROVE  /\ Used(p, options', next_fence_id', count')
               /\ \A k \in 1 .. Len(todo') : p.n < todo'[k].n /\ p.id # todo'[k].id
    <2>1. p.n \in 1 .. count /\ p.id < next_fence_id /\ p.id \in Int
      BY <1>0, <1>6 DEF Used, Packets
    <2>2. Used(p, options', next_fence_id', count')
      BY <1>0, <1>2, <1>3, <2>1 DEF Used
    <2>3. \A k \in 1 .. Len(todo') : p.n < todo'[k].n /\ p.id # todo'[k].id
      <3> SUFFICES ASSUME NEW k \in 1 .. Len(todo') PROVE p.n < todo'[k].n /\ p.id # todo'[k].id
        OBVIOUS
      <3>1. /\ todo'[k].n = count + k /\ todo'[k].id = next_fence_id + s.sent[k]
            /\ s.sent[k] \in 0 .. 2 /\ k \in Nat /\ k >= 1
        BY <1>5
      <3> QED BY <1>0, <2>1, <3>1
    <2> QED BY <2>2, <2>3
  <1>7. \A k \in 1 .. Len(todo') : Used(todo'[k], options', next_fence_id', count')
    <2> SUFFICES ASSUME NEW k \in 1 .. Len(todo') PROVE Used(todo'[k], options', next_fence_id', count')
      OBVIOUS
    <2>1. /\ todo'[k].n = count + k /\ todo'[k].id = next_fence_id + s.sent[k]
          /\ s.sent[k] \in 0 .. 2 /\ s.sent[k] < s.taken /\ k \in 1 .. Len(s.sent)
      BY <1>5
    <2>2. PICK x \in Int : x = s.sent[k]
      BY <2>1
    <2>3. k \in Nat /\ 1 <= k /\ k <= Len(s.sent) /\ Len(s.sent) \in Nat /\ s.taken \in Nat
          /\ next_fence_id \in Nat
      BY <1>0, <1>2, <2>1
    <2>4. count + k \in 1 .. count + Len(s.sent) /\ next_fence_id + x < next_fence_id + s.taken
      <3>1. x < s.taken
        BY <2>1, <2>2
      <3>2. next_fence_id + x < next_fence_id + s.taken
        BY <2>2, <2>3, <3>1
      <3>3. count + k \in 1 .. count + Len(s.sent)
        BY <1>0, <2>3
      <3> QED BY <3>2, <3>3
    <2>5. todo'[k].n \in 1 .. count' /\ todo'[k].id < next_fence_id'
      BY <1>0, <1>3, <2>1, <2>2, <2>4
    <2> QED BY <1>0, <2>5 DEF Used
  <1>8. \A k, l \in 1 .. Len(todo') : k < l => todo'[k].n < todo'[l].n /\ todo'[k].id # todo'[l].id
    <2> SUFFICES ASSUME NEW k \in 1 .. Len(todo'), NEW l \in 1 .. Len(todo'), k < l
                 PROVE  todo'[k].n < todo'[l].n /\ todo'[k].id # todo'[l].id
      OBVIOUS
    <2>1. /\ todo'[k].n = count + k /\ todo'[k].id = next_fence_id + s.sent[k]
          /\ s.sent[k] \in 0 .. 2 /\ k \in 1 .. Len(s.sent) /\ k \in Nat
      BY <1>5
    <2>2. /\ todo'[l].n = count + l /\ todo'[l].id = next_fence_id + s.sent[l]
          /\ s.sent[l] \in 0 .. 2 /\ l \in 1 .. Len(s.sent) /\ l \in Nat
      BY <1>5
    <2>3. s.sent[k] < s.sent[l]
      BY <1>2, <2>1, <2>2
    <2>4. /\ next_fence_id \in Int /\ s.sent[k] \in Int /\ s.sent[l] \in Int
          /\ count \in Int /\ k \in Int /\ l \in Int
      BY <1>0, <2>1, <2>2
    <2>5. count + k < count + l /\ next_fence_id + s.sent[k] < next_fence_id + s.sent[l]
      BY <2>3, <2>4
    <2>6. next_fence_id + s.sent[k] # next_fence_id + s.sent[l]
      BY <2>3, <2>4
    <2> QED BY <2>1, <2>2, <2>5, <2>6
  <1> QED BY <1>6, <1>7, <1>8

-----------------------------------------------------------------------------
(* The queues of the device.                                                *)

LEMMA FlightTypes ==
    ASSUME AckTypes
    PROVE  /\ \A p \in InFlight : p \in Packets /\ p.n \in Nat
           /\ \A p \in Answered : p \in Packets /\ p.n \in Nat
           /\ \A p \in Unanswered : p \in Packets /\ p.n \in Nat
           /\ \A i \in 1 .. Len(inbox) : inbox[i] \in Unanswered
           /\ \A i \in 1 .. Len(unread) : unread[i].display => unread[i].of \in Answered
           /\ \A k \in 1 .. Len(todo) : todo[k] \in Packets /\ todo[k].n \in Nat
  <1>1. /\ \A i \in 1 .. Len(inbox) : inbox[i] \in Packets
        /\ \A i \in 1 .. Len(unread) : unread[i] \in Interrupts
        /\ \A k \in 1 .. Len(todo) : todo[k] \in Packets
    BY ElementOfSeq DEF AckTypes
  <1>2. /\ \A i \in 1 .. Len(unread) : unread[i].of \in Packets
        /\ \A p \in Packets : p.n \in Nat
    BY <1>1 DEF Interrupts, Packets
  <1> QED BY <1>1, <1>2 DEF InFlight, Answered, Unanswered

(* An interrupt is read.                                                    *)
LEMMA AnswerRead ==
    ASSUME AckTypes, Ordered, unread # <<>>, unread' = Tail(unread), inbox' = inbox
    PROVE  /\ Ordered' /\ Answered' \subseteq Answered /\ Unanswered' = Unanswered
           /\ InFlight' \subseteq InFlight
           /\ \A i \in 1 .. Len(unread') : \E j \in 1 .. Len(unread) : unread'[i] = unread[j]
           /\ Head(unread).display => /\ Head(unread).of \in Answered
                                      /\ \A p \in InFlight' : Head(unread).of.n < p.n
  <1>1. /\ Len(unread) \in Nat \ {0} /\ Head(unread) = unread[1] /\ Len(unread') = Len(unread) - 1
        /\ \A i \in 1 .. Len(unread') : unread'[i] = unread[i + 1] /\ i + 1 \in 1 .. Len(unread)
    BY HeadAndTail DEF AckTypes
  <1>2. \A i \in 1 .. Len(unread') : \E j \in 1 .. Len(unread) : unread'[i] = unread[j]
    BY <1>1
  <1>3. Answered' \subseteq Answered
    BY <1>2 DEF Answered
  <1>4. Unanswered' = Unanswered
    BY DEF Unanswered
  <1>5. \A i, j \in 1 .. Len(unread') :
           i < j /\ unread'[i].display /\ unread'[j].display => unread'[i].of.n < unread'[j].of.n
    <2> SUFFICES ASSUME NEW i \in 1 .. Len(unread'), NEW j \in 1 .. Len(unread'), i < j,
                        unread'[i].display, unread'[j].display
                 PROVE  unread'[i].of.n < unread'[j].of.n
      OBVIOUS
    <2>1. /\ unread'[i] = unread[i + 1] /\ unread'[j] = unread[j + 1] /\ i + 1 < j + 1
          /\ i + 1 \in 1 .. Len(unread) /\ j + 1 \in 1 .. Len(unread)
      BY <1>1
    <2> QED BY <2>1 DEF Ordered
  <1>6. Ordered'
    BY <1>3, <1>4, <1>5 DEF Ordered
  <1>7. ASSUME Head(unread).display
        PROVE  /\ Head(unread).of \in Answered
               /\ \A p \in InFlight' : Head(unread).of.n < p.n
    <2>1. 1 \in 1 .. Len(unread) /\ unread[1].display
      BY <1>1, <1>7
    <2>2. unread[1].of \in Answered
      BY <2>1 DEF Answered
    <2>3. \A p \in Unanswered' : unread[1].of.n < p.n
      BY <1>4, <2>2 DEF Ordered
    <2>4. ASSUME NEW p \in Answered' PROVE unread[1].of.n < p.n
      <3>1. PICK i \in 1 .. Len(unread') : unread'[i].display /\ p = unread'[i].of
        BY <2>4 DEF Answered
      <3>2. unread'[i] = unread[i + 1] /\ i + 1 \in 1 .. Len(unread) /\ 1 < i + 1
        BY <1>1, <3>1
      <3> QED BY <2>1, <3>1, <3>2 DEF Ordered
    <2> QED BY <1>1, <2>2, <2>3, <2>4 DEF InFlight
  <1>8. InFlight' \subseteq InFlight
    BY <1>3, <1>4 DEF InFlight
  <1> QED BY <1>2, <1>3, <1>4, <1>6, <1>7, <1>8

(* A packet is decoded and its answer kept, or forgotten.                   *)
LEMMA PacketDecoded ==
    ASSUME AckTypes, Ordered, Decode
    PROVE  /\ Ordered' /\ InFlight' \subseteq InFlight
           /\ \A i \in 1 .. Len(unread') : \/ \E j \in 1 .. Len(unread) : unread'[i] = unread[j]
                                           \/ unread'[i].data = unread'[i].of.id
  <1>0. /\ inbox # <<>> /\ inbox' = Tail(inbox) /\ inbox \in Seq(Packets) /\ unread \in Seq(Interrupts)
        /\ Len(unread) \in Nat
    BY LenProperties DEF Decode, AckTypes
  <1>1. /\ Len(inbox) \in Nat \ {0} /\ Head(inbox) = inbox[1] /\ Head(inbox) \in Packets
        /\ Len(inbox') = Len(inbox) - 1
        /\ \A i \in 1 .. Len(inbox') : inbox'[i] = inbox[i + 1] /\ i + 1 \in 1 .. Len(inbox)
    BY <1>0, HeadAndTail
  <1> DEFINE h == Head(inbox)
  <1>2. PICK e \in {{"fence"}, {"jpeg_error"}} :
           unread' = Kept([display |-> TRUE, event |-> e, data |-> h.id, of |-> h])
    BY DEF Decode
  <1>3. PICK x : x = [display |-> TRUE, event |-> e, data |-> h.id, of |-> h]
    OBVIOUS
  <1>4. x \in Interrupts /\ x.display /\ x.data = x.of.id /\ x.of = h
    <2>1. h.id \in Int
      BY <1>1 DEF Packets
    <2> QED BY <1>1, <1>3, <2>1 DEF Interrupts
  <1>5. \/ unread' = unread
        \/ /\ Len(unread') = Len(unread) + 1
           /\ \A k \in 1 .. Len(unread) : unread'[k] = unread[k]
           /\ unread'[Len(unread) + 1] = x
    BY <1>2, <1>3, <1>4, KeptFacts
  <1>6. \A i \in 1 .. Len(unread') :
           \/ i \in 1 .. Len(unread) /\ unread'[i] = unread[i]
           \/ i = Len(unread) + 1 /\ unread'[i] = x
    BY <1>0, <1>5
  <1> HIDE DEF h
  <1>7. h \in Unanswered /\ \A p \in Unanswered' : p \in Unanswered /\ h.n < p.n
    <2>1. 1 \in 1 .. Len(inbox) /\ h = inbox[1]
      BY <1>1 DEF h
    <2>2. ASSUME NEW p \in Unanswered' PROVE p \in Unanswered /\ h.n < p.n
      <3>1. PICK i \in 1 .. Len(inbox') : p = inbox'[i]
        BY <2>2 DEF Unanswered
      <3>2. p = inbox[i + 1] /\ i + 1 \in 1 .. Len(inbox) /\ 1 < i + 1
        BY <1>1, <3>1
      <3> QED BY <2>1, <3>2 DEF Ordered, Unanswered
    <2> QED BY <2>1, <2>2 DEF Unanswered
  <1>8. \A p \in Answered' : p \in Answered \/ p = h
    <2> SUFFICES ASSUME NEW p \in Answered' PROVE p \in Answered \/ p = h
      OBVIOUS
    <2>1. PICK i \in 1 .. Len(unread') : unread'[i].display /\ p = unread'[i].of
      BY DEF Answered
    <2> QED BY <1>4, <1>6, <2>1 DEF Answered
  <1>9. \A p \in Answered : p.n < h.n
    BY <1>7 DEF Ordered
  <1>10. \A p \in Answered', q \in Unanswered' : p.n < q.n
    BY <1>7, <1>8 DEF Ordered
  <1>11. \A i, j \in 1 .. Len(inbox') : i < j => inbox'[i].n < inbox'[j].n
    <2> SUFFICES ASSUME NEW i \in 1 .. Len(inbox'), NEW j \in 1 .. Len(inbox'), i < j
                 PROVE  inbox'[i].n < inbox'[j].n
      OBVIOUS
    <2>1. /\ inbox'[i] = inbox[i + 1] /\ inbox'[j] = inbox[j + 1] /\ i + 1 < j + 1
          /\ i + 1 \in 1 .. Len(inbox) /\ j + 1 \in 1 .. Len(inbox)
      BY <1>1
    <2> QED BY <2>1 DEF Ordered
  <1>12. \A i, j \in 1 .. Len(unread') :
            i < j /\ unread'[i].display /\ unread'[j].display => unread'[i].of.n < unread'[j].of.n
    <2> SUFFICES ASSUME NEW i \in 1 .. Len(unread'), NEW j \in 1 .. Len(unread'), i < j,
                        unread'[i].display, unread'[j].display
                 PROVE  unread'[i].of.n < unread'[j].of.n
      OBVIOUS
    <2>1. i \in 1 .. Len(unread) /\ unread'[i] = unread[i]
      BY <1>0, <1>6
    <2>2. CASE j \in 1 .. Len(unread) /\ unread'[j] = unread[j]
      BY <2>1, <2>2 DEF Ordered
    <2>3. CASE unread'[j] = x
      <3>1. unread[i].of \in Answered
        BY <2>1 DEF Answered
      <3> QED BY <1>4, <1>9, <2>1, <2>3, <3>1
    <2> QED BY <1>6, <2>2, <2>3
  <1>13. InFlight' \subseteq InFlight
    BY <1>7, <1>8 DEF InFlight
  <1>14. \A i \in 1 .. Len(unread') : \/ \E j \in 1 .. Len(unread) : unread'[i] = unread[j]
                                      \/ unread'[i].data = unread'[i].of.id
    BY <1>4, <1>6
  <1> QED BY <1>10, <1>11, <1>12, <1>13, <1>14 DEF Ordered

(* A packet is sent, later than all in flight.                              *)
LEMMA PacketSent ==
    ASSUME AckTypes, Ordered, NEW q \in Packets, \A p \in InFlight : p.n < q.n,
           inbox' = Append(inbox, q), unread' = unread
    PROVE  Ordered' /\ \A p \in InFlight' : p \in InFlight \/ p = q
  <1>1. /\ Len(inbox') = Len(inbox) + 1 /\ Len(inbox) \in Nat
        /\ \A i \in 1 .. Len(inbox) : inbox'[i] = inbox[i]
        /\ inbox'[Len(inbox) + 1] = q
    BY Appended DEF AckTypes
  <1>2. \A i \in 1 .. Len(inbox') : \/ i \in 1 .. Len(inbox) /\ inbox'[i] = inbox[i]
                                    \/ i = Len(inbox) + 1 /\ inbox'[i] = q
    BY <1>1
  <1>3. \A p \in Unanswered' : p \in Unanswered \/ p = q
    BY <1>2 DEF Unanswered
  <1>4. Answered' = Answered
    BY DEF Answered
  <1>5. \A i, j \in 1 .. Len(inbox') : i < j => inbox'[i].n < inbox'[j].n
    <2> SUFFICES ASSUME NEW i \in 1 .. Len(inbox'), NEW j \in 1 .. Len(inbox'), i < j
                 PROVE  inbox'[i].n < inbox'[j].n
      OBVIOUS
    <2>1. i \in 1 .. Len(inbox) /\ inbox'[i] = inbox[i]
      BY <1>1, <1>2
    <2>2. inbox[i] \in InFlight
      BY <2>1 DEF InFlight, Unanswered
    <2> QED BY <1>2, <2>1, <2>2 DEF Ordered
  <1>6. \A p \in Answered', r \in Unanswered' : p.n < r.n
    BY <1>3, <1>4 DEF Ordered, InFlight
  <1> QED BY <1>3, <1>4, <1>5, <1>6 DEF Ordered, InFlight

-----------------------------------------------------------------------------
(* Steps that add nothing to what is in flight and begin no wait.           *)
LEMMA ToldKept ==
    ASSUME AckTypes, Told, InFlight' \subseteq InFlight, todo' = todo \/ todo' = <<>>,
           UNCHANGED <<options, next_fence_id, count, target, acked>>, Waiting' => Waiting,
           \A i \in 1 .. Len(unread') : \/ \E j \in 1 .. Len(unread) : unread'[i] = unread[j]
                                        \/ unread'[i].data = unread'[i].of.id
                                        \/ ~unread'[i].display
    PROVE  Told'
  <1>1. \A i \in 1 .. Len(unread') : unread'[i].display => unread'[i].data = unread'[i].of.id
    BY DEF Told
  <1>2. acked' # None => acked' = target' /\ InFlight' = {}
    BY DEF Told
  <1>3. Waiting' => \A p \in InFlight' :
           \/ p.n < target'.n /\ p.id # target'.id
           \/ p = target'
    BY DEF Told
  <1>4. \A p \in InFlight' : Used(p, options', next_fence_id', count')
    BY DEF Told
  <1>5. CASE todo' = todo
    BY <1>1, <1>2, <1>3, <1>4, <1>5 DEF Told
  <1>6. CASE todo' = <<>>
    <2>1. \A k \in 1 .. Len(todo') : FALSE
      BY <1>6, Nothing
    <2> QED BY <1>1, <1>2, <1>3, <1>4, <2>1 DEF Told
  <1> QED BY <1>5, <1>6

(* An interrupt is read and passed over, or thrown away.                    *)
LEMMA AnswerPassed ==
    ASSUME AckTypes, Ordered, Told, unread # <<>>, unread' = Tail(unread), inbox' = inbox,
           UNCHANGED <<options, next_fence_id, count, target, acked, todo, line>>
    PROVE  Ordered' /\ Told'
  <1>1. /\ Ordered' /\ InFlight' \subseteq InFlight
        /\ \A i \in 1 .. Len(unread') : \E j \in 1 .. Len(unread) : unread'[i] = unread[j]
    BY AnswerRead
  <1>2. (Waiting' => Waiting) /\ todo' = todo
    BY DEF Waiting
  <1> QED BY <1>1, <1>2, ToldKept

LEMMA OwnInit ==
    ASSUME AckInit PROVE Own
  BY Nothing DEF AckInit, Own, Ordered, Told, InFlight, Answered, Unanswered, Waiting

LEMMA OwnKept ==
    ASSUME AckTypes, Lines, Counting, Own, NumbersSuffice, AckNext
    PROVE  Own'
  <1> SUFFICES ASSUME trusted' PROVE Ordered' /\ Told'
    BY DEF Own
  <1>1. CASE Start \/ DrainTimeout
    <2>1. /\ inbox' = <<>> /\ unread' = <<>> /\ todo' = <<>> /\ line' \in {"drain", "idle"} /\ acked' = None
      BY <1>1 DEF Start, DrainTimeout, Lines, Counting, device
    <2>2. InFlight' = {} /\ Answered' = {} /\ Unanswered' = {}
      BY <2>1, Nothing DEF InFlight, Answered, Unanswered
    <2> QED BY <2>1, <2>2, Nothing DEF Ordered, Told, Waiting
  <1>2. CASE DrainDeadline \/ Restart
    BY <1>2 DEF DrainDeadline, Restart
  <1>3. CASE Drain
    <2>1. /\ trusted /\ unread # <<>> /\ unread' = Tail(unread) /\ inbox' = inbox
          /\ UNCHANGED <<options, next_fence_id, count, target, acked, todo, line>>
      BY <1>3 DEF Drain, host
    <2> QED BY <2>1, AnswerPassed DEF Own
  <1>4. CASE \E s \in Shapes : BeginFrame(s)
    <2>1. PICK s \in Shapes : BeginFrame(s)
      BY <1>4
    <2>2. /\ trusted /\ inbox' = inbox /\ unread' = unread /\ acked' = None /\ line' \in {"idle", "send"}
      BY <2>1 DEF BeginFrame, device
    <2>3. Ordered /\ Told
      BY <2>2 DEF Own
    <2>4. InFlight' = InFlight /\ Ordered'
      BY <2>2, <2>3 DEF InFlight, Answered, Unanswered, Ordered
    <2>5. \A p \in InFlight : p \in Packets /\ Used(p, options, next_fence_id, count)
      BY <2>3, FlightTypes DEF Told
    <2>6. /\ \A p \in InFlight' :
                /\ Used(p, options', next_fence_id', count')
                /\ \A k \in 1 .. Len(todo') : p.n < todo'[k].n /\ p.id # todo'[k].id
          /\ \A k \in 1 .. Len(todo') : Used(todo'[k], options', next_fence_id', count')
          /\ \A k, l \in 1 .. Len(todo') : k < l => todo'[k].n < todo'[l].n /\ todo'[k].id # todo'[l].id
      BY <2>1, <2>4, <2>5, FrameNumbersAreNew
    <2> QED BY <2>2, <2>3, <2>4, <2>6 DEF Told, Waiting
  <1>5. CASE ReplayRecord \/ ReplayTile \/ SendAtAddress
    <2>1. PICK id \in 0 .. MaxId, a \in Nat, l \in Nat : ToolStep(id, a, l)
      BY <1>5, ToolBegins
    <2>2. /\ trusted /\ inbox' = inbox /\ unread' = unread /\ acked' = None /\ line' = "send"
          /\ id \in Int /\ a \in Int
      BY <2>1, AckAssumption DEF ToolStep, BeginPayload, device
    <2>3. Ordered /\ Told
      BY <2>2 DEF Own
    <2>4. InFlight' = InFlight /\ Ordered'
      BY <2>2, <2>3 DEF InFlight, Answered, Unanswered, Ordered
    <2>5. \A p \in InFlight : p \in Packets /\ Used(p, options, next_fence_id, count)
      BY <2>3, FlightTypes DEF Told
    <2>6. Len(todo') = 1 /\ todo'[1] = Packet(count + 1, id, a, l)
      BY <2>1, <2>2, PayloadBegins DEF ToolStep
    <2>7. \A k \in 1 .. Len(todo') : k = 1 /\ todo'[k].n = count + 1 /\ todo'[k].id = id
      BY <2>6, PacketTypes
    <2>8. /\ \A p \in InFlight' : /\ Used(p, options', next_fence_id', count')
                                  /\ p.id # id /\ p.n < count + 1
          /\ Used(todo'[1], options', next_fence_id', count')
      BY <2>1, <2>4, <2>5, <2>6, ToolNumberIsNew
    <2>9. /\ \A p \in InFlight', k \in 1 .. Len(todo') : p.n < todo'[k].n /\ p.id # todo'[k].id
          /\ \A k \in 1 .. Len(todo') : Used(todo'[k], options', next_fence_id', count')
          /\ \A k, m \in 1 .. Len(todo') : ~(k < m)
      BY <2>7, <2>8
    <2> QED BY <2>2, <2>3, <2>4, <2>8, <2>9 DEF Told, Waiting
  <1>6. CASE Sent
    <2>1. /\ trusted /\ unread' = unread /\ acked' = None /\ inbox' = Append(inbox, Head(todo))
          /\ todo' = Tail(todo) /\ target' = Head(todo) /\ todo # <<>>
          /\ UNCHANGED <<options, next_fence_id, count>>
      BY <1>6 DEF Sent, host, Lines
    <2>2. Ordered /\ Told
      BY <2>1 DEF Own
    <2>3. PICK q \in Packets : q = Head(todo)
      BY <2>1, HeadAndTail DEF AckTypes
    <2>4. /\ q = todo[1] /\ 1 \in 1 .. Len(todo)
          /\ \A k \in 1 .. Len(todo') : todo'[k] = todo[k + 1] /\ k + 1 \in 1 .. Len(todo) /\ 1 < k + 1 /\ k \in Nat
      <3>1. /\ Len(todo) \in Nat \ {0} /\ Head(todo) = todo[1] /\ Len(todo') = Len(todo) - 1
            /\ \A k \in 1 .. Len(todo') : todo'[k] = todo[k + 1] /\ k + 1 \in 1 .. Len(todo)
        BY <2>1, HeadAndTail DEF AckTypes
      <3> QED BY <2>3, <3>1
    <2>5. \A p \in InFlight : p.n < q.n /\ p.id # q.id
      BY <2>2, <2>4 DEF Told
    <2>6. Ordered' /\ \A p \in InFlight' : p \in InFlight \/ p = q
      BY <2>1, <2>2, <2>3, <2>5, PacketSent
    <2>7. \A k \in 1 .. Len(todo') : /\ q.n < todo'[k].n /\ q.id # todo'[k].id
                                     /\ Used(todo'[k], options', next_fence_id', count')
                                     /\ \A p \in InFlight : p.n < todo'[k].n /\ p.id # todo'[k].id
      BY <2>1, <2>2, <2>4 DEF Told
    <2>8. \A k, l \in 1 .. Len(todo') : k < l => todo'[k].n < todo'[l].n /\ todo'[k].id # todo'[l].id
      <3> SUFFICES ASSUME NEW k \in 1 .. Len(todo'), NEW l \in 1 .. Len(todo'), k < l
                   PROVE  todo'[k].n < todo'[l].n /\ todo'[k].id # todo'[l].id
        OBVIOUS
      <3>1. /\ todo'[k] = todo[k + 1] /\ todo'[l] = todo[l + 1] /\ k + 1 < l + 1
            /\ k + 1 \in 1 .. Len(todo) /\ l + 1 \in 1 .. Len(todo)
        BY <2>4
      <3> QED BY <2>2, <3>1 DEF Told
    <2>9. Used(q, options', next_fence_id', count')
      BY <2>1, <2>2, <2>4 DEF Told
    <2>10. \A p \in InFlight' : Used(p, options', next_fence_id', count')
      BY <2>1, <2>2, <2>6, <2>9 DEF Told
    <2>11. \A p \in InFlight' : (p.n < target'.n /\ p.id # target'.id) \/ p = target'
      BY <2>1, <2>3, <2>5, <2>6
    <2>12. \A i \in 1 .. Len(unread') : unread'[i].display => unread'[i].data = unread'[i].of.id
      BY <2>1, <2>2 DEF Told
    <2>13. \A p \in InFlight', k \in 1 .. Len(todo') : p.n < todo'[k].n /\ p.id # todo'[k].id
      BY <2>6, <2>7
    <2> QED BY <2>1, <2>6, <2>7, <2>8, <2>10, <2>11, <2>12, <2>13 DEF Told
  <1>7. CASE WriteFails
    <2>1. /\ trusted /\ unread' = unread /\ acked' = None /\ inbox' = inbox
          /\ todo' = <<>> /\ target' = Head(todo) /\ todo # <<>>
          /\ UNCHANGED <<options, next_fence_id, count>>
      BY <1>7 DEF WriteFails, host, device, Lines
    <2>2. Ordered /\ Told
      BY <2>1 DEF Own
    <2>3. Head(todo) = todo[1] /\ 1 \in 1 .. Len(todo)
      BY <2>1, HeadAndTail DEF AckTypes
    <2>4. \A p \in InFlight : p.n < target'.n /\ p.id # target'.id
      BY <2>1, <2>2, <2>3 DEF Told
    <2>5. InFlight' = InFlight /\ Ordered'
      BY <2>1, <2>2 DEF InFlight, Answered, Unanswered, Ordered
    <2>6. \A k \in 1 .. Len(todo') : FALSE
      BY <2>1, Nothing
    <2>7. \A p \in InFlight' : (p.n < target'.n /\ p.id # target'.id) \/ p = target'
      BY <2>4, <2>5
    <2>8. /\ \A i \in 1 .. Len(unread') : unread'[i].display => unread'[i].data = unread'[i].of.id
          /\ \A p \in InFlight' : Used(p, options', next_fence_id', count')
      BY <2>1, <2>2, <2>5 DEF Told
    <2> QED BY <2>1, <2>5, <2>6, <2>7, <2>8 DEF Told
  <1>8. CASE ReadInterrupt
    <2>1. /\ trusted /\ Waiting /\ unread # <<>> /\ unread' = Tail(unread) /\ inbox' = inbox
          /\ UNCHANGED <<options, next_fence_id, count, target, todo>>
      BY <1>8 DEF ReadInterrupt, host
    <2>2. Ordered /\ Told
      BY <2>1 DEF Own
    <2>3. CASE ~(has_fence_id(Head(unread)) /\ Head(unread).data = target.id)
      <3>1. UNCHANGED <<line, acked>>
        BY <1>8, <2>3 DEF ReadInterrupt
      <3> QED BY <2>1, <2>2, <3>1, AnswerPassed
    <2>4. CASE has_fence_id(Head(unread)) /\ Head(unread).data = target.id
      <3>1. line' = AfterWait /\ acked' = Head(unread).of /\ Head(unread).display
        BY <1>8, <2>4 DEF ReadInterrupt, has_fence_id
      <3>2. /\ Ordered' /\ InFlight' \subseteq InFlight
            /\ \A i \in 1 .. Len(unread') : \E j \in 1 .. Len(unread) : unread'[i] = unread[j]
            /\ Head(unread).of \in InFlight
            /\ \A p \in InFlight' : Head(unread).of.n < p.n
        BY <2>1, <2>2, <3>1, AnswerRead DEF InFlight
      <3>3. Head(unread).data = Head(unread).of.id
        <4>1. Head(unread) = unread[1] /\ 1 \in 1 .. Len(unread)
          BY <2>1, HeadAndTail DEF AckTypes
        <4> QED BY <2>2, <3>1, <4>1 DEF Told
      <3>4. Head(unread).of = target
        BY <2>1, <2>2, <2>4, <3>2, <3>3 DEF Told
      <3>5. InFlight' = {}
        <4> SUFFICES ASSUME NEW p \in InFlight' PROVE FALSE
          OBVIOUS
        <4>1. target.n < p.n /\ p \in InFlight /\ p.n \in Nat /\ target.n \in Nat
          BY <3>2, <3>4, FlightTypes
        <4>2. p.n < target.n \/ p = target
          BY <2>1, <2>2, <4>1 DEF Told
        <4> QED BY <4>1, <4>2
      <3>6. /\ ~Waiting' /\ acked' = target'
        BY <2>1, <3>1, <3>4 DEF AfterWait, Waiting
      <3>7. /\ \A i \in 1 .. Len(unread') : unread'[i].display => unread'[i].data = unread'[i].of.id
        BY <2>2, <3>2 DEF Told
      <3>8. /\ \A k \in 1 .. Len(todo') : Used(todo'[k], options', next_fence_id', count')
            /\ \A k, l \in 1 .. Len(todo') : k < l => todo'[k].n < todo'[l].n /\ todo'[k].id # todo'[l].id
        BY <2>1, <2>2 DEF Told
      <3> QED BY <3>2, <3>5, <3>6, <3>7, <3>8 DEF Told
    <2> QED BY <2>3, <2>4
  <1>9. CASE ReadTimeout \/ Deadline \/ ReadFails \/ End
    <2>1. /\ UNCHANGED <<options, next_fence_id, count, target, acked, inbox, unread>> /\ trusted
          /\ todo' = todo \/ todo' = <<>>
          /\ ~Waiting'
      BY <1>9 DEF ReadTimeout, Deadline, ReadFails, End, AfterWait, Waiting, host, device
    <2>2. InFlight' = InFlight /\ Ordered' /\ Told
      BY <2>1 DEF InFlight, Answered, Unanswered, Ordered, Own
    <2>3. \A i \in 1 .. Len(unread') : \E j \in 1 .. Len(unread) : unread'[i] = unread[j]
      BY <2>1
    <2> QED BY <2>1, <2>2, <2>3, ToldKept
  <1>10. CASE Decode
    <2>1. /\ UNCHANGED <<options, next_fence_id, count, target, acked, todo, line>> /\ trusted
      BY <1>10 DEF Decode, host
    <2>2. Ordered /\ Told /\ (Waiting' => Waiting)
      BY <2>1 DEF Own, Waiting
    <2> QED BY <1>10, <2>1, <2>2, PacketDecoded, ToldKept
  <1>11. CASE Other
    <2>1. /\ UNCHANGED <<options, next_fence_id, count, target, acked, todo, line>> /\ trusted
          /\ inbox' = inbox /\ unread = <<>>
      BY <1>11 DEF Other, host
    <2>2. Ordered /\ Told /\ (Waiting' => Waiting)
      BY <2>1 DEF Own, Waiting
    <2>3. \A i \in 1 .. Len(unread') : ~unread'[i].display
      <3>1. PICK x : x = [display |-> FALSE, event |-> {"fence"}, data |-> target.id, of |-> Foreign]
        OBVIOUS
      <3>2. x \in Interrupts /\ ~x.display
        BY <3>1, PacketTypes DEF AckTypes, Packets, Interrupts
      <3>3. unread' = Kept(x)
        BY <1>11, <3>1 DEF Other
      <3>4. \/ unread' = unread
            \/ Len(unread') = Len(unread) + 1 /\ unread'[Len(unread) + 1] = x
        BY <3>2, <3>3, KeptFacts
      <3> QED BY <2>1, <3>2, <3>4, Nothing
    <2>4. Answered' = {} /\ Unanswered' = Unanswered
      BY <2>1, <2>3 DEF Answered, Unanswered
    <2>5. InFlight' \subseteq InFlight /\ Ordered'
      BY <2>1, <2>2, <2>3, <2>4 DEF InFlight, Ordered
    <2> QED BY <2>1, <2>2, <2>3, <2>5, ToldKept
  <1> QED BY <1>1, <1>2, <1>3, <1>4, <1>5, <1>6, <1>7, <1>8, <1>9, <1>10, <1>11 DEF AckNext, Host

LEMMA NoStepKeepsOwn ==
    ASSUME UNCHANGED ackVars
    PROVE  (Counting <=> Counting') /\ (Own <=> Own')
  BY DEF ackVars, Counting, Own, Ordered, Told, InFlight, Answered, Unanswered, Waiting, IsReplay

(* AckIsOwn: in a run that found the device idle, with numbers enough for its
   frames, the answer that ends a wait is the answer to the packet waited for,
   and none earlier is left; whatever the device forgets, whatever other
   interrupts come and however the waits end.                               *)
THEOREM AcksAreOwn == NumbersSuffice => (AckSpec => []AckIsOwn)
  <1> SUFFICES ASSUME NumbersSuffice PROVE AckSpec => []AckIsOwn
    OBVIOUS
  <1>1. AckInit => AckTypes /\ Lines /\ Counting /\ Own
    BY AckTypesInit, CountingInit, OwnInit
  <1>2. AckTypes /\ Lines /\ Counting /\ Own /\ [AckNext]_ackVars
            => AckTypes' /\ Lines' /\ Counting' /\ Own'
    BY AckTypesKept, CountingKept, OwnKept, NoStepKeepsThese, NoStepKeepsOwn
  <1>3. AckTypes /\ Own => AckIsOwn
    <2> SUFFICES ASSUME AckTypes, Own, trusted, acked # None
                 PROVE  acked = target /\ inbox = <<>> /\ \A i \in DOMAIN unread : ~unread[i].display
      BY DEF AckIsOwn
    <2>1. acked = target /\ InFlight = {}
      BY DEF Own, Told
    <2>2. inbox \in Seq(Packets) /\ unread \in Seq(Interrupts)
      BY DEF AckTypes
    <2>3. \A i \in 1 .. Len(inbox) : FALSE
      BY <2>1 DEF InFlight, Unanswered
    <2>4. inbox = <<>>
      BY <2>2, <2>3
    <2>5. \A i \in 1 .. Len(unread) : ~unread[i].display
      BY <2>1 DEF InFlight, Answered
    <2> QED BY <2>1, <2>2, <2>4, <2>5, LenProperties
  <1> QED BY <1>1, <1>2, <1>3, PTL DEF AckSpec

=============================================================================
