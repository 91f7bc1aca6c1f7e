------------------------- MODULE AsyncPipelineProofs -------------------------
(***************************************************************************)
(* Proofs about the asynchronous pipeline, for every number of buffers,    *)
(* frames and every limit, whatever callbacks come after t6_vd_stop.       *)
(*                                                                         *)
(* The argument: a buffer is in one place at a time (Owners), between its  *)
(* look into the mailbox and its publication the callback finds it empty   *)
(* (Room), and the frame numbers grow along the path taken - pending -     *)
(* captured (Order).  None of the three is inductive without the others.   *)
(***************************************************************************)
EXTENDS AsyncPipeline, FiniteSetTheorems, TLAPS

Owners ==
    /\ latest_frame # NoBuffer => latest_frame \notin {spare_frame, callback_frame, sender_frame}
    /\ spare_frame # NoBuffer => spare_frame \notin {callback_frame, sender_frame}
    /\ callback_frame # NoBuffer => callback_frame # sender_frame

Room == callback \in {"try_spare", "take_spare", "copy", "publish"} => latest_frame = NoBuffer

Order ==
    /\ callback = "publish" => content[callback_frame] = seen
    /\ taken <= seen
    /\ latest_frame # NoBuffer => taken < content[latest_frame] /\ content[latest_frame] <= seen
    /\ callback # "idle" =>
          taken < seen /\ (latest_frame # NoBuffer => content[latest_frame] < seen)

IInv == Lines /\ Frames /\ Numbers /\ Owners /\ Room /\ Order /\ SenderFrameIsStable

(* build of the shared state: nothing is in flight. *)
LEMMA InitIInv == Init => IInv
  <1> SUFFICES ASSUME Init PROVE IInv
      OBVIOUS
  <1>1. Lines /\ Frames
      BY DEF Init, Lines, Frames, Places, CallbackLines, SenderLines, MainLines
  <1>2. Numbers
      BY PipelineAssumption DEF Init, Numbers
  <1>3. Owners /\ Room
      BY DEF Init, Owners, Room
  <1>4. Order /\ SenderFrameIsStable
      BY DEF Init, Order, SenderFrameIsStable
  <1> QED
      BY <1>1, <1>2, <1>3, <1>4 DEF IInv

(* Each step of async_frame_callback keeps the invariant. *)
LEMMA CallbackIInv == IInv /\ (CallbackEnter \/ CallbackSteps) => IInv'
  <1> SUFFICES ASSUME IInv, CallbackEnter \/ CallbackSteps PROVE IInv'
      OBVIOUS
  <1> USE PipelineAssumption
      DEF IInv, Lines, Frames, Numbers, Owners, Room, Order, SenderFrameIsStable,
          Places, CallbackLines, SenderLines, MainLines, mailbox, spares, capture,
          sending, control
  <1>1. CASE CallbackEnter
      BY <1>1 DEF CallbackEnter
  <1>2. CASE CallbackCheckStopped
      BY <1>2 DEF CallbackCheckStopped
  <1>3. CASE CallbackTryLatest
      BY <1>3 DEF CallbackTryLatest
  <1>4. CASE CallbackTrySpare
      BY <1>4 DEF CallbackTrySpare, Free, Live
  <1>5. CASE CallbackTakeSpare
      BY <1>5 DEF CallbackTakeSpare, Free, Live
  <1>6. CASE CallbackCopy
      BY <1>6 DEF CallbackCopy
  <1>7. CASE CallbackPublish
      BY <1>7 DEF CallbackPublish
  <1> QED
      BY <1>1, <1>2, <1>3, <1>4, <1>5, <1>6, <1>7 DEF CallbackSteps

(* Each step of async_sender_loop keeps the invariant. *)
LEMMA SenderIInv == IInv /\ (SenderSteps \/ SenderWakeSpuriously) => IInv'
  <1> SUFFICES ASSUME IInv, SenderSteps \/ SenderWakeSpuriously PROVE IInv'
      OBVIOUS
  <1> USE PipelineAssumption
      DEF IInv, Lines, Frames, Numbers, Owners, Room, Order, SenderFrameIsStable,
          Places, CallbackLines, SenderLines, MainLines, mailbox, spares, capture,
          sending, control
  <1>1. CASE SenderLock
      BY <1>1 DEF SenderLock
  <1>2. CASE SenderWait
      BY <1>2 DEF SenderWait
  <1>3. CASE SenderBreak
      BY <1>3 DEF SenderBreak
  <1>4. CASE SenderTake
      BY <1>4 DEF SenderTake
  <1>5. CASE SenderWake
      BY <1>5 DEF SenderWake
  <1>6. CASE SenderWakeSpuriously
      BY <1>6 DEF SenderWakeSpuriously
  <1>7. CASE SenderCheckLimit
      BY <1>7 DEF SenderCheckLimit
  <1>8. CASE SenderSent
      BY <1>8 DEF SenderSent
  <1>9. CASE SenderDropsLate
      BY <1>9 DEF SenderDropsLate
  <1>10. CASE SenderFails
      BY <1>10 DEF SenderFails
  <1>11. CASE SenderRecycle
      BY <1>11 DEF SenderRecycle
  <1>12. CASE SenderPutSpare
      BY <1>12 DEF SenderPutSpare
  <1>13. CASE SenderCheckStopped
      BY <1>13 DEF SenderCheckStopped
  <1> QED
      BY <1>1, <1>2, <1>3, <1>4, <1>5, <1>6, <1>7, <1>8, <1>9, <1>10, <1>11,
         <1>12, <1>13 DEF SenderSteps

(* No step of run_async, and no end of the stream or crash, touches a buffer. *)
LEMMA MainIInv == IInv /\ (MainSteps \/ StreamEnds \/ CallbackCrashes) => IInv'
  <1> SUFFICES ASSUME IInv, MainSteps \/ StreamEnds \/ CallbackCrashes PROVE IInv'
      OBVIOUS
  <1>1. UNCHANGED <<latest_frame, spares, content, capture, sending>>
      BY DEF MainSteps, MainStarts, MainFailsToStart, MainFailNotify, MainPoll, MainStop,
             MainNotify, MainFree, MainJoin, StreamEnds, CallbackCrashes, mailbox
  <1>2. main' \in MainLines
      BY DEF MainSteps, MainStarts, MainFailsToStart, MainFailNotify, MainPoll, MainStop,
             MainNotify, MainFree, MainJoin, StreamEnds, CallbackCrashes, MainLines
  <1> QED
      BY <1>1, <1>2 DEF IInv, Lines, Frames, Numbers, Owners, Room, Order,
                        SenderFrameIsStable, spares, capture, sending

LEMMA NextIInv == IInv /\ [Next]_vars => IInv'
  <1> SUFFICES ASSUME IInv, [Next]_vars PROVE IInv'
      OBVIOUS
  <1>1. CASE UNCHANGED vars
      BY <1>1 DEF vars, mailbox, spares, capture, sending, control, IInv, Lines, Frames,
                  Numbers, Owners, Room, Order, SenderFrameIsStable
  <1> QED
      BY <1>1, CallbackIInv, SenderIInv, MainIInv DEF Next, Ended

LEMMA AlwaysIInv == Spec => []IInv
  BY InitIInv, NextIInv, PTL DEF Spec

(* The flags and locks stay Boolean. *)
LEMMA FlagsInv == Flags /\ [Next]_vars => Flags'
  <1> SUFFICES ASSUME Flags, [Next]_vars PROVE Flags'
      OBVIOUS
  <1> USE DEF Flags, mailbox, spares, capture,
          sending, control
  <1>1. CASE CallbackEnter
      BY <1>1 DEF CallbackEnter
  <1>2. CASE CallbackCheckStopped
      BY <1>2 DEF CallbackCheckStopped
  <1>3. CASE CallbackTryLatest
      BY <1>3 DEF CallbackTryLatest
  <1>4. CASE CallbackTrySpare
      BY <1>4 DEF CallbackTrySpare
  <1>5. CASE CallbackTakeSpare
      BY <1>5 DEF CallbackTakeSpare
  <1>6. CASE CallbackCopy
      BY <1>6 DEF CallbackCopy
  <1>7. CASE CallbackPublish
      BY <1>7 DEF CallbackPublish
  <1>8. CASE SenderLock
      BY <1>8 DEF SenderLock
  <1>9. CASE SenderWait
      BY <1>9 DEF SenderWait
  <1>10. CASE SenderBreak
      BY <1>10 DEF SenderBreak
  <1>11. CASE SenderTake
      BY <1>11 DEF SenderTake
  <1>12. CASE SenderWake
      BY <1>12 DEF SenderWake
  <1>13. CASE SenderWakeSpuriously
      BY <1>13 DEF SenderWakeSpuriously
  <1>14. CASE SenderCheckLimit
      BY <1>14 DEF SenderCheckLimit
  <1>15. CASE SenderSent
      BY <1>15 DEF SenderSent, Reached
  <1>16. CASE SenderDropsLate
      BY <1>16 DEF SenderDropsLate
  <1>17. CASE SenderFails
      BY <1>17 DEF SenderFails
  <1>18. CASE SenderRecycle
      BY <1>18 DEF SenderRecycle
  <1>19. CASE SenderPutSpare
      BY <1>19 DEF SenderPutSpare
  <1>20. CASE SenderCheckStopped
      BY <1>20 DEF SenderCheckStopped
  <1>21. CASE MainStarts
      BY <1>21 DEF MainStarts
  <1>22. CASE MainFailsToStart
      BY <1>22 DEF MainFailsToStart
  <1>23. CASE MainFailNotify
      BY <1>23 DEF MainFailNotify
  <1>24. CASE MainPoll
      BY <1>24 DEF MainPoll
  <1>25. CASE MainStop
      BY <1>25 DEF MainStop
  <1>26. CASE StreamEnds \/ CallbackCrashes
      BY <1>26 DEF StreamEnds, CallbackCrashes
  <1>27. CASE MainNotify
      BY <1>27 DEF MainNotify
  <1>28. CASE MainFree
      BY <1>28 DEF MainFree
  <1>29. CASE MainJoin
      BY <1>29 DEF MainJoin
  <1>30. CASE UNCHANGED vars
      BY <1>30 DEF vars
  <1> QED
      BY <1>1, <1>2, <1>3, <1>4, <1>5, <1>6, <1>7, <1>8, <1>9, <1>10, <1>11,
         <1>12, <1>13, <1>14, <1>15, <1>16, <1>17, <1>18, <1>19, <1>20, <1>21,
         <1>22, <1>23, <1>24, <1>25, <1>26, <1>27, <1>28, <1>29, <1>30
      DEF Next, CallbackSteps, SenderSteps, MainSteps, Ended

(* The types of the shared and local state, and which lines hold a buffer. *)
THEOREM PipelineTypeCorrect == Spec => []TypeOK
  <1>1. Init => Flags
      BY DEF Init, Flags
  <1>2. IInv /\ Flags => TypeOK
      BY DEF IInv, TypeOK
  <1> QED
      BY <1>1, <1>2, FlagsInv, AlwaysIInv, PTL DEF Spec

(* The frame being encoded by async_sender_loop is never overwritten. *)
THEOREM SenderFrameNeverOverwritten == Spec => []SenderFrameIsStable
  <1>1. IInv => SenderFrameIsStable
      BY DEF IInv
  <1> QED
      BY <1>1, AlwaysIInv, PTL

(* The second look of async_frame_callback into the mailbox finds it empty. *)
THEOREM PublishAlwaysFindsRoom == Spec => []PublishFindsRoom
  <1>1. IInv => PublishFindsRoom
      BY DEF IInv, Room, PublishFindsRoom
  <1> QED
      BY <1>1, AlwaysIInv, PTL

(* Whatever the scheduling, three OwnedCapturedFrames are enough. *)
THEOREM ThreeCopiesAlwaysSuffice == Spec => []ThreeCopiesSuffice
  <1>1. ASSUME NEW a, NEW b, NEW c
        PROVE  IsFiniteSet({a, b, c}) /\ Cardinality({a, b, c}) <= 3
    <2>1. IsFiniteSet({a}) /\ Cardinality({a}) = 1
        BY FS_Singleton
    <2>2. /\ IsFiniteSet({a} \cup {b})
          /\ Cardinality({a} \cup {b}) = IF b \in {a} THEN Cardinality({a}) ELSE Cardinality({a}) + 1
        BY <2>1, FS_AddElement
    <2>3. /\ IsFiniteSet(({a} \cup {b}) \cup {c})
          /\ Cardinality(({a} \cup {b}) \cup {c})
                = IF c \in {a} \cup {b} THEN Cardinality({a} \cup {b})
                                        ELSE Cardinality({a} \cup {b}) + 1
        BY <2>2, FS_AddElement
    <2>4. ({a} \cup {b}) \cup {c} = {a, b, c}
        OBVIOUS
    <2>5. Cardinality({a} \cup {b}) \in {1, 2}
        BY <2>1, <2>2
    <2> QED
        BY <2>3, <2>4, <2>5
  <1>2. IInv => ThreeCopiesSuffice
    <2> SUFFICES ASSUME IInv PROVE ThreeCopiesSuffice
        OBVIOUS
    <2>1. latest_frame = NoBuffer \/ callback_frame = NoBuffer
        BY DEF IInv, Frames, Room
    <2>2. PICK x : Live \subseteq {spare_frame, sender_frame, x}
        BY <2>1 DEF Live
    <2>3. /\ IsFiniteSet({spare_frame, sender_frame, x})
          /\ Cardinality({spare_frame, sender_frame, x}) <= 3
        BY <1>1
    <2>4. /\ Cardinality(Live) <= Cardinality({spare_frame, sender_frame, x})
          /\ IsFiniteSet(Live)
        BY <2>2, <2>3, FS_Subset
    <2>5. Cardinality(Live) \in Nat /\ Cardinality({spare_frame, sender_frame, x}) \in Nat
        BY <2>3, <2>4, FS_CardinalityType
    <2> QED
        BY <2>3, <2>4, <2>5 DEF ThreeCopiesSuffice
  <1> QED
      BY <1>2, AlwaysIInv, PTL

(* The three threads implement the one-place mailbox: frames come out in the
   order of capture, each at most once. *)
THEOREM PipelineIsMailbox == Spec => MailboxSpec
  <1> DEFINE pend == IF latest_frame = NoBuffer THEN 0 ELSE content[latest_frame]
  <1>1. Init => Mailbox!Init
      BY DEF Init, Mailbox!Init
  <1>2. IInv /\ IInv' /\ [Next]_vars => [Mailbox!Next]_(Mailbox!vars)
    <2> SUFFICES ASSUME IInv, IInv', [Next]_vars
                 PROVE  [Mailbox!Next]_(Mailbox!vars)
        OBVIOUS
    <2> USE DEF mailbox, spares, capture, sending, control
    <2>1. CASE CallbackEnter
      <3>1. Mailbox!Capture
          BY <2>1 DEF CallbackEnter, Mailbox!Capture
      <3> QED
          BY <3>1 DEF Mailbox!Next
    <2>2. CASE CallbackPublish
      <3>1. /\ latest_frame = NoBuffer /\ latest_frame' = callback_frame
            /\ callback_frame # NoBuffer /\ UNCHANGED <<content, seen, taken>>
            /\ content[callback_frame] = seen /\ taken < seen
          BY <2>2 DEF CallbackPublish, IInv, Room, Order, Frames
      <3>2. Mailbox!Put
          BY <3>1 DEF Mailbox!Put
      <3> QED
          BY <3>2 DEF Mailbox!Next
    <2>3. CASE SenderTake
      <3>1. /\ latest_frame # NoBuffer /\ latest_frame' = NoBuffer
            /\ taken' = content[latest_frame] /\ UNCHANGED seen
            /\ content[latest_frame] # 0
          BY <2>3 DEF SenderTake, IInv, Order, Numbers, Frames, Places
      <3>2. Mailbox!Take
          BY <3>1 DEF Mailbox!Take
      <3> QED
          BY <3>2 DEF Mailbox!Next
    <2>4. CASE CallbackCopy
      <3>1. pend' = pend /\ UNCHANGED <<seen, taken>>
          BY <2>4 DEF CallbackCopy, IInv, Room
      <3> QED
          BY <3>1 DEF Mailbox!vars
    <2>5. CASE \/ CallbackCheckStopped \/ CallbackTryLatest \/ CallbackTrySpare
               \/ CallbackTakeSpare
      <3>1. UNCHANGED <<latest_frame, content, seen, taken>>
          BY <2>5 DEF CallbackCheckStopped, CallbackTryLatest, CallbackTrySpare,
                      CallbackTakeSpare
      <3> QED
          BY <3>1 DEF Mailbox!vars
    <2>6. CASE \/ SenderLock \/ SenderWait \/ SenderBreak \/ SenderWake
               \/ SenderCheckLimit \/ SenderSent \/ SenderDropsLate \/ SenderFails
               \/ SenderRecycle \/ SenderPutSpare \/ SenderCheckStopped
               \/ SenderWakeSpuriously
      <3>1. UNCHANGED <<latest_frame, content, seen, taken>>
          BY <2>6 DEF SenderLock, SenderWait, SenderBreak, SenderWake, SenderCheckLimit,
                      SenderSent, SenderDropsLate, SenderFails, SenderRecycle,
                      SenderPutSpare, SenderCheckStopped, SenderWakeSpuriously
      <3> QED
          BY <3>1 DEF Mailbox!vars
    <2>7. CASE MainSteps \/ StreamEnds \/ CallbackCrashes
      <3>1. UNCHANGED <<latest_frame, content, seen, taken>>
          BY <2>7 DEF MainSteps, MainStarts, MainFailsToStart, MainFailNotify, MainPoll,
                      MainStop, MainNotify, MainFree, MainJoin, StreamEnds, CallbackCrashes
      <3> QED
          BY <3>1 DEF Mailbox!vars
    <2>8. CASE UNCHANGED vars
        BY <2>8 DEF vars, Mailbox!vars
    <2> QED
        BY <2>1, <2>2, <2>3, <2>4, <2>5, <2>6, <2>7, <2>8
        DEF Next, CallbackSteps, SenderSteps, Ended
  <1> QED
      BY <1>1, <1>2, AlwaysIInv, PTL DEF Spec, MailboxSpec, Mailbox!Spec

=============================================================================
