---------------------------- MODULE AsyncPipeline ----------------------------
(***************************************************************************)
(* The --async-send pipeline of t6-virtual-display.rs: run_async,          *)
(* async_frame_callback, async_sender_loop and recycle_async_frame.        *)
(*                                                                         *)
(* Three threads: the capture's serial dispatch queue runs the callback,   *)
(* which copies a frame into a buffer and leaves it in the one-place       *)
(* mailbox latest_frame; the sender thread takes it from there and sends   *)
(* it; the main thread starts the capture, waits for stopped, and takes    *)
(* everything down.  Each action is one atomic operation of one thread: a  *)
(* lock operation with what is done under the lock when no other thread    *)
(* can see the difference, an atomic load or store, or a call.             *)
(* t6_vd_stop only asks the stream to stop, so a callback may still run, or *)
(* begin, when run_async has freed its context: it then finds in the memory *)
(* what was there, or the process crashes.                                 *)
(***************************************************************************)
EXTENDS Integers, FiniteSets

CONSTANTS
    Buffers,        \* identities of OwnedCapturedFrame allocations
    MaxFrames,      \* bound: frames the capture delivers
    Limits,         \* what --frames may be: numbers and Unlimited
    NoBuffer

ASSUME PipelineAssumption ==
    /\ IsFiniteSet(Buffers) /\ NoBuffer \notin Buffers
    /\ MaxFrames \in Nat /\ Limits \subseteq Int

(* No --frames was given.                                                  *)
Unlimited == -1

VARIABLES
    frames,         \* options.frames
    latest_frame,   \* the mailbox: a buffer or NoBuffer
    latest_lock,    \* TRUE while the sender holds the mailbox mutex
    spare_frame,    \* the recycled buffer or NoBuffer
    spare_lock,     \* holder of the spare mutex: "none", "callback", "sender"
    stopped,        \* shared.stopped
    notified,       \* the condition variable has woken the waiting sender
    content,        \* the frame number each buffer holds
    callback,       \* what the callback thread does next
    callback_frame, \* the buffer in the callback's hand
    seen,           \* number of the last frame the capture delivered
    sender,         \* what the sender thread does next
    sender_frame,   \* the buffer in the sender's hand
    taken,          \* number of the frame in the sender's hand, or last there
    sent_frames,    \* state.sent_frames
    sender_stopped, \* state.stopped
    main,           \* what the main thread does next
    streaming,      \* the capture may start a callback
    context         \* the AsyncCallbackContext has not been freed

mailbox == <<latest_frame, latest_lock, notified>>
spares  == <<spare_frame, spare_lock>>
capture == <<callback, callback_frame, seen>>
sending == <<sender, sender_frame, taken, sent_frames, sender_stopped>>
control == <<frames, main, streaming, context>>
vars == <<mailbox, spares, stopped, content, capture, sending, control>>

Init ==
    /\ frames \in Limits
    /\ latest_frame = NoBuffer /\ latest_lock = FALSE
    /\ spare_frame = NoBuffer /\ spare_lock = "none"
    /\ stopped = FALSE /\ notified = FALSE
    /\ content = [b \in Buffers |-> 0]
    /\ callback = "idle" /\ callback_frame = NoBuffer /\ seen = 0
    /\ sender = "lock" /\ sender_frame = NoBuffer /\ taken = 0
    /\ sent_frames = 0 /\ sender_stopped = FALSE
    /\ main = "start" /\ streaming = FALSE /\ context = TRUE

Live == {latest_frame, spare_frame, callback_frame, sender_frame} \ {NoBuffer}
Free == Buffers \ Live

(* The number of frames asked for has been sent.                           *)
Reached(sent) == frames # Unlimited /\ sent >= frames

(* The other threads end with the process, when main returns.              *)
Running == main \notin {"exited", "done", "crashed"}

-----------------------------------------------------------------------------
(* The callback, async_frame_callback, on the capture's serial queue.      *)
CallbackEnter ==
    /\ Running
    /\ callback = "idle" /\ seen < MaxFrames
    /\ streaming
    /\ seen' = seen + 1
    /\ callback' = "check"
    /\ UNCHANGED <<mailbox, spares, stopped, content, callback_frame, sending, control>>

CallbackCheckStopped ==
    /\ Running
    /\ callback = "check"
    /\ callback' = IF stopped THEN "idle" ELSE "try_latest"
    /\ UNCHANGED <<mailbox, spares, stopped, content, callback_frame, seen, sending,
                   control>>

(* latest_frame.try_lock: skip the frame if the mutex is held or a frame is
   still pending.                                                          *)
CallbackTryLatest ==
    /\ Running
    /\ callback = "try_latest"
    /\ callback' = IF latest_lock \/ latest_frame # NoBuffer THEN "idle" ELSE "try_spare"
    /\ UNCHANGED <<mailbox, spares, stopped, content, callback_frame, seen, sending,
                   control>>

(* spare_frame.try_lock: the mutex, or a new buffer if it is held.         *)
CallbackTrySpare ==
    /\ Running
    /\ callback = "try_spare"
    /\ IF spare_lock = "none"
       THEN /\ spare_lock' = "callback"
            /\ callback' = "take_spare"
            /\ UNCHANGED callback_frame
       ELSE /\ \E b \in Free : callback_frame' = b
            /\ callback' = "copy"
            /\ UNCHANGED spare_lock
    /\ UNCHANGED <<mailbox, spare_frame, stopped, content, seen, sending, control>>

CallbackTakeSpare ==
    /\ Running
    /\ callback = "take_spare"
    /\ IF spare_frame # NoBuffer THEN callback_frame' = spare_frame
                                 ELSE \E b \in Free : callback_frame' = b
    /\ spare_frame' = NoBuffer
    /\ spare_lock' = "none"
    /\ callback' = "copy"
    /\ UNCHANGED <<mailbox, stopped, content, seen, sending, control>>

CallbackCopy ==
    /\ Running
    /\ callback = "copy"
    /\ content' = [content EXCEPT ![callback_frame] = seen]
    /\ callback' = "publish"
    /\ UNCHANGED <<mailbox, spares, stopped, callback_frame, seen, sending, control>>

(* latest_frame.lock: publish and notify under the mutex; if a frame is
   pending after all, recycle_async_frame keeps or frees the buffer.       *)
PublishUnnotified ==
    /\ Running
    /\ callback = "publish" /\ ~latest_lock
    /\ IF latest_frame = NoBuffer
       THEN /\ latest_frame' = callback_frame
            /\ UNCHANGED <<notified, spare_frame>>
       ELSE /\ spare_frame' = IF spare_lock = "none" /\ spare_frame = NoBuffer
                              THEN callback_frame ELSE spare_frame
            /\ UNCHANGED <<latest_frame, notified>>
    /\ callback_frame' = NoBuffer
    /\ callback' = "idle"
    /\ UNCHANGED <<latest_lock, spare_lock, stopped, content, seen, sending, control>>

CallbackPublish ==
    /\ Running
    /\ callback = "publish" /\ ~latest_lock
    /\ IF latest_frame = NoBuffer
       THEN /\ latest_frame' = callback_frame
            /\ notified' = (notified \/ sender = "waiting")
            /\ UNCHANGED spare_frame
       ELSE /\ spare_frame' = IF spare_lock = "none" /\ spare_frame = NoBuffer
                              THEN callback_frame ELSE spare_frame
            /\ UNCHANGED <<latest_frame, notified>>
    /\ callback_frame' = NoBuffer
    /\ callback' = "idle"
    /\ UNCHANGED <<latest_lock, spare_lock, stopped, content, seen, sending, control>>

-----------------------------------------------------------------------------
(* The sender thread, async_sender_loop.                                   *)
SenderLock ==
    /\ Running
    /\ sender = "lock" /\ ~latest_lock
    /\ latest_lock' = TRUE
    /\ sender' = "decide"
    /\ UNCHANGED <<latest_frame, notified, spares, stopped, content, capture,
                   sender_frame, taken, sent_frames, sender_stopped, control>>

(* Under the mutex: wait for a frame, stop, or take the frame.             *)
SenderWait ==
    /\ Running
    /\ sender = "decide" /\ latest_frame = NoBuffer /\ ~stopped
    /\ sender' = "waiting"
    /\ latest_lock' = FALSE
    /\ notified' = FALSE
    /\ UNCHANGED <<latest_frame, spares, stopped, content, capture, sender_frame,
                   taken, sent_frames, sender_stopped, control>>

SenderBreak ==
    /\ Running
    /\ sender = "decide" /\ latest_frame = NoBuffer /\ stopped
    /\ sender' = "done"
    /\ latest_lock' = FALSE
    /\ UNCHANGED <<latest_frame, notified, spares, stopped, content, capture,
                   sender_frame, taken, sent_frames, sender_stopped, control>>

TakeRecycles ==
    /\ Running
    /\ sender = "decide" /\ latest_frame # NoBuffer
    /\ sender_frame' = latest_frame
    /\ taken' = content[latest_frame]
    /\ latest_frame' = NoBuffer
    /\ spare_frame' = latest_frame
    /\ latest_lock' = FALSE
    /\ sender' = "limit"
    /\ UNCHANGED <<notified, spare_lock, stopped, content, capture, sent_frames,
                   sender_stopped, control>>

TakeKeepsPending ==
    /\ Running
    /\ sender = "decide" /\ latest_frame # NoBuffer
    /\ sender_frame' = latest_frame
    /\ taken' = content[latest_frame]
    /\ latest_lock' = FALSE
    /\ sender' = "limit"
    /\ UNCHANGED <<latest_frame, notified, spares, stopped, content, capture, sent_frames,
                   sender_stopped, control>>

SenderTake ==
    /\ Running
    /\ sender = "decide" /\ latest_frame # NoBuffer
    /\ sender_frame' = latest_frame
    /\ taken' = content[latest_frame]
    /\ latest_frame' = NoBuffer
    /\ latest_lock' = FALSE
    /\ sender' = "limit"
    /\ UNCHANGED <<notified, spares, stopped, content, capture, sent_frames,
                   sender_stopped, control>>

(* The wait ends when it was notified, or for no reason; the mutex is taken
   again and the condition looked at again.                                *)
SenderWake ==
    /\ Running
    /\ sender = "waiting" /\ notified
    /\ sender' = "lock"
    /\ notified' = FALSE
    /\ UNCHANGED <<latest_frame, latest_lock, spares, stopped, content, capture,
                   sender_frame, taken, sent_frames, sender_stopped, control>>

SenderWakeSpuriously ==
    /\ Running
    /\ sender = "waiting"
    /\ sender' = "lock"
    /\ UNCHANGED <<mailbox, spares, stopped, content, capture, sender_frame, taken,
                   sent_frames, sender_stopped, control>>

SenderCheckLimit ==
    /\ Running
    /\ sender = "limit"
    /\ IF Reached(sent_frames)
       THEN /\ sender_stopped' = TRUE
            /\ stopped' = TRUE
            /\ sender' = "recycle"
       ELSE /\ sender' = "send"
            /\ UNCHANGED <<sender_stopped, stopped>>
    /\ UNCHANGED <<mailbox, spares, content, capture, sender_frame, taken, sent_frames,
                   control>>

(* send_frame returns: sent, dropped late, or failed.                      *)
SenderSent ==
    /\ Running
    /\ sender = "send"
    /\ sent_frames' = sent_frames + 1
    /\ sender_stopped' = (sender_stopped \/ Reached(sent_frames + 1))
    /\ sender' = "recycle"
    /\ UNCHANGED <<mailbox, spares, stopped, content, capture, sender_frame, taken, control>>

SenderDropsLate ==
    /\ Running
    /\ sender = "send"
    /\ sender' = "recycle"
    /\ UNCHANGED <<mailbox, spares, stopped, content, capture, sender_frame, taken,
                   sent_frames, sender_stopped, control>>

SenderFails ==
    /\ Running
    /\ sender = "send"
    /\ sender_stopped' = TRUE
    /\ stopped' = TRUE
    /\ sender_frame' = NoBuffer
    /\ sender' = "failed"
    /\ UNCHANGED <<mailbox, spares, content, capture, taken, sent_frames, control>>

(* recycle_async_frame: keep the buffer if the spare mutex is free and there
   is no spare, free it otherwise.                                         *)
SenderRecycle ==
    /\ Running
    /\ sender = "recycle"
    /\ IF spare_lock = "none"
       THEN /\ spare_lock' = "sender"
            /\ sender' = "put_spare"
            /\ UNCHANGED sender_frame
       ELSE /\ sender_frame' = NoBuffer
            /\ sender' = "check"
            /\ UNCHANGED spare_lock
    /\ UNCHANGED <<mailbox, spare_frame, stopped, content, capture, taken, sent_frames,
                   sender_stopped, control>>

SenderPutSpare ==
    /\ Running
    /\ sender = "put_spare"
    /\ spare_frame' = IF spare_frame = NoBuffer THEN sender_frame ELSE spare_frame
    /\ spare_lock' = "none"
    /\ sender_frame' = NoBuffer
    /\ sender' = "check"
    /\ UNCHANGED <<mailbox, stopped, content, capture, taken, sent_frames,
                   sender_stopped, control>>

StopUnshared ==
    /\ Running
    /\ sender = "check"
    /\ sender' = IF sender_stopped THEN "done" ELSE "lock"
    /\ UNCHANGED <<mailbox, spares, stopped, content, capture, sender_frame, taken, sent_frames,
                   sender_stopped, control>>

SenderCheckStopped ==
    /\ Running
    /\ sender = "check"
    /\ stopped' = (stopped \/ sender_stopped)
    /\ sender' = IF sender_stopped THEN "done" ELSE "lock"
    /\ UNCHANGED <<mailbox, spares, content, capture, sender_frame, taken, sent_frames,
                   sender_stopped, control>>

-----------------------------------------------------------------------------
(* The main thread, run_async.                                             *)
MainStarts ==
    /\ main = "start"
    /\ streaming' = TRUE
    /\ main' = "poll"
    /\ UNCHANGED <<frames, mailbox, spares, stopped, content, capture, sending,
                   context>>

(* t6_vd_start returned 0: stop, wake the sender, free, return an error
   without a join.                                                         *)
MainFailsToStart ==
    /\ main = "start"
    /\ stopped' = TRUE
    /\ main' = "fail_notify"
    /\ UNCHANGED <<frames, mailbox, spares, content, capture, sending, streaming,
                   context>>

MainFailNotify ==
    /\ main = "fail_notify"
    /\ notified' = (notified \/ sender = "waiting")
    /\ context' = FALSE
    /\ main' = "exited"
    /\ UNCHANGED <<frames, latest_frame, latest_lock, spares, stopped, content, capture,
                   sending, streaming>>

MainPoll ==
    /\ main = "poll"
    /\ main' = IF stopped THEN "stop" ELSE "poll"
    /\ UNCHANGED <<frames, mailbox, spares, stopped, content, capture, sending,
                   streaming, context>>

(* t6_vd_stop: the stream is asked to stop, and nothing is waited for.     *)
MainStop ==
    /\ main = "stop"
    /\ main' = "notify"
    /\ UNCHANGED <<frames, mailbox, spares, stopped, content, capture, sending,
                   streaming, context>>

(* External: the stream delivers no more frames, some time after the stop. *)
StreamEnds ==
    /\ main \in {"notify", "free", "join"} /\ streaming
    /\ streaming' = FALSE
    /\ UNCHANGED <<frames, mailbox, spares, stopped, content, capture, sending, main,
                   context>>

(* A callback runs into memory that is no longer the context's.            *)
CallbackCrashes ==
    /\ Running /\ callback # "idle" /\ ~context
    /\ main' = "crashed"
    /\ UNCHANGED <<frames, mailbox, spares, stopped, content, capture, sending,
                   streaming, context>>

MainNotify ==
    /\ main = "notify"
    /\ notified' = (notified \/ sender = "waiting")
    /\ main' = "free"
    /\ UNCHANGED <<frames, latest_frame, latest_lock, spares, stopped, content, capture,
                   sending, streaming, context>>

MainFree ==
    /\ main = "free"
    /\ context' = FALSE
    /\ main' = "join"
    /\ UNCHANGED <<frames, mailbox, spares, stopped, content, capture, sending,
                   streaming>>

MainJoin ==
    /\ main = "join" /\ sender \in {"done", "failed"}
    /\ main' = "done"
    /\ UNCHANGED <<frames, mailbox, spares, stopped, content, capture, sending,
                   streaming, context>>

Ended == ~Running /\ UNCHANGED vars

-----------------------------------------------------------------------------
CallbackSteps ==
    \/ CallbackCheckStopped \/ CallbackTryLatest \/ CallbackTrySpare
    \/ CallbackTakeSpare \/ CallbackCopy \/ CallbackPublish

SenderSteps ==
    \/ SenderLock \/ SenderWait \/ SenderBreak \/ SenderTake \/ SenderWake
    \/ SenderCheckLimit \/ SenderSent \/ SenderDropsLate \/ SenderFails
    \/ SenderRecycle \/ SenderPutSpare \/ SenderCheckStopped

MainSteps ==
    \/ MainStarts \/ MainFailsToStart \/ MainFailNotify \/ MainPoll \/ MainStop
    \/ MainNotify \/ MainFree \/ MainJoin

Next ==
    \/ CallbackEnter \/ CallbackSteps \/ CallbackCrashes \/ SenderSteps
    \/ SenderWakeSpuriously \/ MainSteps \/ StreamEnds \/ Ended

Spec == Init /\ [][Next]_vars

(* The operating system runs every thread that can run.  Nothing is assumed
   of the capture, of spurious wake-ups or of the outcome of send_frame.   *)
FairSpec ==
    /\ Spec
    /\ WF_vars(CallbackSteps) /\ WF_vars(SenderSteps) /\ WF_vars(MainSteps)

-----------------------------------------------------------------------------
CallbackLines == {"idle", "check", "try_latest", "try_spare", "take_spare", "copy", "publish"}
SenderLines == {"lock", "decide", "waiting", "limit", "send", "recycle", "put_spare",
                "check", "done", "failed"}
MainLines == {"start", "fail_notify", "poll", "stop", "notify", "free", "join",
              "done", "exited", "crashed"}
Places == Buffers \cup {NoBuffer}

Flags ==
    /\ latest_lock \in BOOLEAN /\ notified \in BOOLEAN /\ stopped \in BOOLEAN
    /\ sender_stopped \in BOOLEAN /\ streaming \in BOOLEAN /\ context \in BOOLEAN

Lines ==
    /\ callback \in CallbackLines /\ sender \in SenderLines /\ main \in MainLines
    /\ spare_lock \in {"none", "callback", "sender"}

(* A thread holds a buffer exactly between the steps that take and give it. *)
Frames ==
    /\ latest_frame \in Places /\ spare_frame \in Places
    /\ callback_frame \in Places /\ sender_frame \in Places
    /\ callback \in {"copy", "publish"} <=> callback_frame # NoBuffer
    /\ sender \in {"limit", "send", "recycle", "put_spare"} <=> sender_frame # NoBuffer

Numbers ==
    /\ content \in [Buffers -> 0..MaxFrames]
    /\ seen \in 0..MaxFrames /\ taken \in 0..MaxFrames /\ sent_frames \in Nat

TypeOK == Flags /\ Lines /\ Frames /\ Numbers

(* The frame the sender is encoding is not overwritten under it: its buffer
   still holds the picture that was taken from the mailbox, although the
   callback keeps copying into recycled buffers.                           *)
SenderFrameIsStable == sender_frame # NoBuffer => content[sender_frame] = taken

(* The callback looks into the mailbox, lets go of its mutex, copies the
   frame and only then publishes it: what it saw still holds then, so no
   copy is made in vain and no pending frame is replaced.                  *)
PublishFindsRoom == callback = "publish" => latest_frame = NoBuffer

(* Recycling bounds the memory: no more than three copies of a frame are
   alive at once, however the threads interleave.                          *)
ThreeCopiesSuffice == Cardinality(Live) <= 3

(* Between the threads the pipeline is a one-place mailbox: frames leave it
   in the order of capture, each at most once, none that was not put in.   *)
Mailbox ==
    INSTANCE FrameMailbox WITH
        newest  <- seen,
        pending <- IF latest_frame = NoBuffer THEN 0 ELSE content[latest_frame],
        taken   <- taken

MailboxSpec == Mailbox!Spec

(* No wake-up is lost: a frame left in the mailbox is taken from it, unless
   the sender or the program has ended.                                    *)
PendingIsTaken ==
    latest_frame # NoBuffer ~>
        (latest_frame = NoBuffer \/ sender \in {"done", "failed"} \/ ~Running)

(* Once the sender has reached its limit or failed, or the start has failed,
   the program ends: nobody waits for a thread that waits.                 *)
StopEnds == (stopped \/ sender_stopped) ~> ~Running

=============================================================================
