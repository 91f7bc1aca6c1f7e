---------------------------- MODULE SyncPipeline ----------------------------
(***************************************************************************)
(* The default pipeline of t6-virtual-display.rs: run_sync and             *)
(* frame_callback, with the pacing and the adaptive quality that send_frame *)
(* and drop_late_frame keep.                                               *)
(*                                                                         *)
(* Two threads share the SenderState: the capture's serial dispatch queue  *)
(* runs the callback, which sends the frame itself, and the main thread    *)
(* starts the capture, polls stopped, stops the capture and frees the      *)
(* state.  Time is counted in ticks from the start.  What a send puts on   *)
(* the bus is in Type7Sender; here it takes any time and ends in any way.  *)
(* t6_vd_stop only asks the stream to stop, so a callback may still run, or *)
(* begin, when run_sync has freed the state: it then goes on with what the *)
(* memory holds, or the process crashes.                                   *)
(***************************************************************************)
EXTENDS Integers

CONSTANTS
    Interval,               \* frame_interval, in ticks
    Divisor,                \* type7_large_tile_fps_divisor
    Throttle,               \* --frame-throttle
    DropLate,               \* --drop-late-frames
    Adaptive,               \* --adaptive-quality with a JPEG transport
    MinQuality, Quality,    \* --min-quality, --quality
    Limits,                 \* what --frames may be: numbers and Unlimited
    MaxTime, MaxFrames      \* bounds: the clock, and the frames captured

ASSUME SyncAssumption ==
    /\ Interval \in Nat \ {0} /\ Divisor \in Nat \ {0}
    /\ {Throttle, DropLate, Adaptive} \subseteq BOOLEAN
    /\ MinQuality \in 1 .. 100 /\ Quality \in 1 .. 100 /\ MinQuality <= Quality
    /\ Limits \subseteq Int /\ MaxTime \in Nat /\ MaxFrames \in Nat

(* No --frames was given.                                                   *)
Unlimited == -1

VARIABLES
    frames,             \* options.frames
    now, next_send_at, frame_started,
    sent_frames, throttled_frames, busy_frames, late_frames, dropped_frames,
    current_quality,
    stopped, sending,
    callback,           \* what the callback does next, "idle" outside of it
    failed,             \* send_frame returned an error
    captured,           \* frames delivered so far
    main,               \* what the main thread does next
    streaming,          \* the capture may start a callback
    allocated,          \* the SenderState has not been freed
    mark,               \* history: the end of some frame, and its divisor
    begun               \* history: frames begun since

counts == <<sent_frames, throttled_frames, busy_frames, late_frames, dropped_frames>>
pace   == <<now, next_send_at, frame_started, current_quality>>
thread == <<main, streaming, allocated>>
window == <<mark, begun>>
state  == <<frames, counts, pace, stopped, sending, failed, window>>
vars   == <<state, callback, captured, thread>>

Init ==
    /\ frames \in Limits
    /\ now = 0 /\ next_send_at = 0 /\ frame_started = 0
    /\ sent_frames = 0 /\ throttled_frames = 0 /\ busy_frames = 0
    /\ late_frames = 0 /\ dropped_frames = 0
    /\ current_quality = Quality
    /\ stopped = FALSE /\ sending = FALSE
    /\ callback = "idle" /\ failed = FALSE /\ captured = 0
    /\ main = "start" /\ streaming = FALSE /\ allocated = TRUE
    /\ mark = [at |-> 0, divisor |-> 0] /\ begun = 0

(* The process ends when main returns.                                      *)
Running == main \notin {"exited", "done", "crashed"}

Tick ==
    /\ Running /\ now < MaxTime
    /\ now' = now + 1
    /\ UNCHANGED <<frames, counts, next_send_at, frame_started, current_quality, stopped,
                   sending, callback, failed, captured, thread, window>>

-----------------------------------------------------------------------------
(* A mutant: the plan is never brought up to date.                          *)
ResyncNever(divisor) == next_send_at + Interval * divisor

(* resync_next_send_at_with_divisor: one interval later, or now if even the
   interval after that has passed.                                          *)
resync_next_send_at(divisor) ==
    LET interval == Interval * divisor
        next     == next_send_at + interval
    IN  IF now > next + interval THEN now ELSE next

(* The number of frames asked for has been sent.                            *)
Reached(sent) == frames # Unlimited /\ sent >= frames

Clamp(q) == IF q < MinQuality THEN MinQuality
            ELSE IF q > Quality THEN Quality ELSE q

(* How far the quality falls when a frame took total ticks.                 *)
adapt_jpeg_quality(total) ==
    LET change == IF total > Interval * 8                         THEN -15
                  ELSE IF total > Interval * 4                    THEN -10
                  ELSE IF total > Interval * 2                    THEN -5
                  ELSE IF total > Interval + Interval \div 2      THEN -3
                  ELSE IF total > Interval                        THEN -1
                  ELSE IF total < (Interval * 3) \div 4           THEN 1
                  ELSE 0
    IN  IF Adaptive THEN Clamp(current_quality + change) ELSE current_quality

-----------------------------------------------------------------------------
(* frame_callback, on the serial queue.                                     *)
CallbackEnter ==
    /\ Running /\ streaming /\ callback = "idle" /\ captured < MaxFrames
    /\ captured' = captured + 1
    /\ callback' = "check_stopped"
    /\ UNCHANGED <<state, thread>>

CheckStopped ==
    /\ Running /\ callback = "check_stopped"
    /\ callback' = IF stopped THEN "idle" ELSE "check_throttle"
    /\ UNCHANGED <<state, captured, thread>>

CheckThrottle ==
    /\ Running /\ callback = "check_throttle"
    /\ IF Throttle /\ now < next_send_at
       THEN /\ throttled_frames' = throttled_frames + 1
            /\ dropped_frames' = dropped_frames + 1
            /\ callback' = "idle"
       ELSE /\ callback' = "swap_sending"
            /\ UNCHANGED <<throttled_frames, dropped_frames>>
    /\ UNCHANGED <<frames, sent_frames, busy_frames, late_frames, pace, stopped,
                   sending,
                   failed, captured, thread, window>>

SwapSending ==
    /\ Running /\ callback = "swap_sending"
    /\ sending' = TRUE
    /\ IF sending
       THEN /\ busy_frames' = busy_frames + 1
            /\ dropped_frames' = dropped_frames + 1
            /\ callback' = "idle"
       ELSE /\ callback' = "check_limit"
            /\ UNCHANGED <<busy_frames, dropped_frames>>
    /\ UNCHANGED <<frames, sent_frames, throttled_frames, late_frames, pace, stopped,
                   failed,
                   captured, thread, window>>

CheckLimit ==
    /\ Running /\ callback = "check_limit"
    /\ IF Reached(sent_frames)
       THEN stopped' = TRUE /\ callback' = "clear_at_limit"
            /\ UNCHANGED <<frame_started, begun>>
       ELSE callback' = "send" /\ frame_started' = now /\ begun' = begun + 1
            /\ UNCHANGED stopped
    /\ UNCHANGED <<frames, counts, now, next_send_at, current_quality, sending, failed,
                   captured, thread, mark>>

ClearAtLimit ==
    /\ Running /\ callback = "clear_at_limit"
    /\ sending' = FALSE
    /\ callback' = "idle"
    /\ UNCHANGED <<frames, counts, pace, stopped, failed, captured, thread, window>>

(* A frame's turn is over: the plan goes on, and the window that NoBurst looks
   at may begin here.                                                       *)
Resync(divisor) ==
    /\ next_send_at' = resync_next_send_at(divisor)
    /\ \/ mark' = [at |-> now, divisor |-> divisor] /\ begun' = 0
       \/ UNCHANGED window

(* The end of send_frame, but for the look at the limit.                    *)
FrameSent ==
    /\ Running /\ callback = "send"
    /\ sent_frames' = sent_frames + 1
    /\ current_quality' = adapt_jpeg_quality(now - frame_started)
    /\ \E divisor \in {1, Divisor} : Resync(divisor)
    /\ callback' = "clear"
    /\ UNCHANGED <<frames, throttled_frames, busy_frames, late_frames,
                   dropped_frames, now,
                   frame_started, sending, failed, captured, thread>>

(* A mutant: only the next frame finds the limit reached.                   *)
LimitFoundLater == FrameSent /\ UNCHANGED stopped

SendDone == FrameSent /\ stopped' = (stopped \/ Reached(sent_frames + 1))

(* drop_late_frame, which the encoders call when two intervals have passed. *)
drop_late_frame ==
    /\ Running /\ callback = "send"
    /\ DropLate /\ now - frame_started > Interval * 2
    /\ late_frames' = late_frames + 1
    /\ dropped_frames' = dropped_frames + 1
    /\ current_quality' = adapt_jpeg_quality(now - frame_started)
    /\ Resync(1)
    /\ callback' = "clear"
    /\ UNCHANGED <<frames, sent_frames, throttled_frames, busy_frames, now,
                   frame_started,
                   stopped, sending, failed, captured, thread>>

SendFails ==
    /\ Running /\ callback = "send"
    /\ failed' = TRUE
    /\ callback' = "clear"
    /\ UNCHANGED <<frames, counts, pace, stopped, sending, captured, thread, window>>

ClearSending ==
    /\ Running /\ callback = "clear"
    /\ sending' = FALSE
    /\ callback' = IF failed THEN "stop" ELSE "idle"
    /\ UNCHANGED <<frames, counts, pace, stopped, failed, captured, thread, window>>

StopAfterError ==
    /\ Running /\ callback = "stop"
    /\ stopped' = TRUE
    /\ callback' = "idle"
    /\ UNCHANGED <<frames, counts, pace, sending, failed, captured, thread, window>>

-----------------------------------------------------------------------------
(* The main thread, run_sync.                                               *)
MainStarts ==
    /\ main = "start"
    /\ main' = "poll" /\ streaming' = TRUE
    /\ UNCHANGED <<state, callback, captured, allocated>>

MainFailsToStart ==
    /\ main = "start"
    /\ main' = "exited" /\ allocated' = FALSE
    /\ UNCHANGED <<state, callback, captured, streaming>>

MainPoll ==
    /\ main = "poll"
    /\ main' = IF stopped THEN "stop" ELSE "poll"
    /\ UNCHANGED <<state, callback, captured, streaming, allocated>>

(* t6_vd_stop: the stream is asked to stop, and nothing is waited for.      *)
MainStop ==
    /\ main = "stop"
    /\ main' = "free"
    /\ UNCHANGED <<state, callback, captured, streaming, allocated>>

MainFree ==
    /\ main = "free"
    /\ allocated' = FALSE /\ main' = "return"
    /\ UNCHANGED <<state, callback, captured, streaming>>

MainReturn ==
    /\ main = "return"
    /\ main' = "done"
    /\ UNCHANGED <<state, callback, captured, streaming, allocated>>

(* External: the stream delivers no more frames, some time after the stop.  *)
StreamEnds ==
    /\ main \in {"free", "return"} /\ streaming
    /\ streaming' = FALSE
    /\ UNCHANGED <<state, callback, captured, main, allocated>>

(* A callback runs into memory that is no longer the state's.               *)
CallbackCrashes ==
    /\ Running /\ callback # "idle" /\ ~allocated
    /\ main' = "crashed"
    /\ UNCHANGED <<state, callback, captured, streaming, allocated>>

Ended == ~Running /\ UNCHANGED vars

CallbackStep ==
    \/ CheckStopped \/ CheckThrottle \/ SwapSending \/ CheckLimit \/ ClearAtLimit
    \/ SendDone \/ drop_late_frame \/ SendFails \/ ClearSending \/ StopAfterError

MainStep == MainStarts \/ MainFailsToStart \/ MainPoll \/ MainStop \/ MainFree \/ MainReturn

Next ==
    \/ Tick \/ CallbackEnter \/ CallbackStep \/ CallbackCrashes \/ MainStep \/ StreamEnds
    \/ Ended

Spec == Init /\ [][Next]_vars

(* A callback that has begun goes on, and so does the main thread.  Nothing
   is assumed of the capture: it delivers a frame only when the picture
   changes.                                                                 *)
FairSpec == Spec /\ WF_vars(CallbackStep) /\ WF_vars(MainStep)

-----------------------------------------------------------------------------
(* The sending flag is put back on every way out of the callback, so that no
   frame of the serial queue is ever refused as busy.                       *)
NeverBusy == busy_frames = 0

(* With --frame-throttle the frames keep to the rate however long a send takes.
   After the end of any frame the k-th to follow is begun no earlier than k - 1
   intervals later, less one interval: a stall is made up for by two frames at
   once and no more.  If that frame was a large tile it is the divisor of
   intervals, and one frame more at once.                                   *)
NoBurst ==
    Throttle /\ callback = "send" =>
        mark.at + Interval * (begun - 1) <= frame_started + Interval * mark.divisor

(* Once stopped the program ends, and both a failed send and the last of the
   frames asked for stop it, though no other frame may ever be captured.    *)
StopEnds == (stopped \/ failed \/ (sent_frames > 0 /\ Reached(sent_frames))) ~> ~Running

=============================================================================
