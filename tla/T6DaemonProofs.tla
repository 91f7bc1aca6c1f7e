---------------------------- MODULE T6DaemonProofs ----------------------------
(***************************************************************************)
(* The buffers that the daemon registers with the library (T6Daemon), for  *)
(* any number of displays, modes, cards and workloads, with sleeps that    *)
(* wait for nothing.                                                       *)
(*                                                                         *)
(* The argument: only the thread that handles events registers and         *)
(* withdraws a buffer.  As long as the sending thread has not ended, which *)
(* clears disp_set_mode behind its back, the two agree where that thread   *)
(* looks (Buffered): a mode that is set has a buffer, one that is not has  *)
(* none, and none is registered while a mode is being handled.             *)
(*                                                                         *)
(* The second part is about the devices the daemon opens (EvdiDevices):    *)
(* the table of the kernel module, the notifier of USB that walks over it, *)
(* and the cards that the library opens in each process.                   *)
(***************************************************************************)
EXTENDS T6Daemon, EvdiDevices, WellFoundedInduction, TLAPS

Flags == [event : BOOLEAN, image : BOOLEAN, usb : BOOLEAN]

TypeOK ==
    /\ flags \in [Displays -> Flags] /\ disp_set_mode \in [Displays -> BOOLEAN]
    /\ modeEvents \in [Displays -> Seq(Modes)]
    /\ DOMAIN size = Displays /\ DOMAIN mode = Displays /\ DOMAIN registered = Displays
    /\ DOMAIN evdi = Displays /\ DOMAIN event = Displays

Before == {"poll", "claim", "claimed", "open", "event"}
Handling == {"nap", "set", "alloc", "register"}

(* The registered buffer, as the handler of modes takes it to be.           *)
Buffered(d) ==
    /\ evdi[d] \in Before => event[d] = "done"
    /\ evdi[d] = "event" => ~disp_set_mode[d] /\ registered[d] = None
    /\ event[d] \in {"nap", "set", "alloc"} => ~disp_set_mode[d] /\ mode[d] \in Modes
    /\ event[d] = "register" => size[d] \in Modes /\ (flags[d].usb => disp_set_mode[d])
    /\ event[d] \in Handling /\ flags[d].usb => registered[d] = None
    /\ event[d] = "loop" /\ disp_set_mode[d] => registered[d] # None
    /\ event[d] = "loop" /\ ~disp_set_mode[d] /\ flags[d].usb => registered[d] = None

Joined ==
    /\ process \in {"none", "closed"} => \A d \in Displays : evdi[d] = "done"
    /\ process = "none" => \A d \in Displays : event[d] = "done"

IInv == TypeOK /\ (~aborted => Joined /\ \A d \in Displays : Buffered(d))

(* What the argument is about, and a display that a step leaves alone.      *)
bufferVars == <<flags, disp_set_mode, modeEvents, size, mode, registered, evdi, event>>

Same(e) ==
    /\ flags'[e] = flags[e] /\ disp_set_mode'[e] = disp_set_mode[e] /\ size'[e] = size[e]
    /\ mode'[e] = mode[e] /\ registered'[e] = registered[e]
    /\ evdi'[e] = evdi[e] /\ event'[e] = event[e]

LEMMA Unmoved ==
    ASSUME NEW e, Same(e), Buffered(e) PROVE Buffered(e)'
  BY DEF Same, Buffered

(* A step of a thread of display d keeps Kept(d): the types, the other displays
   and, unless the process ends in it, the buffer of d.                     *)
Kept(d) ==
    /\ TypeOK' /\ \A e \in Displays : e # d => Same(e)
    /\ ~aborted' => Buffered(d)'

LEMMA EvdiKeeps ==
    ASSUME TypeOK, NEW d \in Displays, Buffered(d), EvdiStep(d) PROVE Kept(d)
  <1> USE DEF TypeOK, Kept, Same
  <1>1. CASE PollMonitor(d)
    BY <1>1 DEF PollMonitor, E, EvdiAt, Dev_destroy, EvdiUnchanged, kernelVars, sharedVars,
       Buffered, Before
  <1>2. CASE GetEvdi_id(d)
    BY <1>2 DEF GetEvdi_id, E, EvdiAt, EvdiUnchanged, kernelVars, Buffered, Before
  <1>3. CASE SetBox(d)
    BY <1>3 DEF SetBox, E, EvdiAt, EvdiUnchanged, kernelVars, sharedVars, Buffered, Before
  <1>4. CASE evdi_process(d)
    <2>1. evdi[d] = "open" /\ UNCHANGED <<modeEvents, size, mode, event>>
      BY <1>4 DEF evdi_process, E, EvdiUnchanged, kernelVars
    <2>2. CASE UNCHANGED <<flags, disp_set_mode, registered>> /\ evdi' = [evdi EXCEPT ![d] = "done"]
      BY <2>1, <2>2 DEF Buffered, Before
    <2>3. CASE /\ flags' = [flags EXCEPT ![d] = [event |-> TRUE, image |-> TRUE, usb |-> TRUE]]
               /\ disp_set_mode' = [disp_set_mode EXCEPT ![d] = FALSE]
               /\ registered' = [registered EXCEPT ![d] = None]
               /\ evdi' = [evdi EXCEPT ![d] = "event"]
      <3>1. flags' \in [Displays -> Flags] /\ disp_set_mode' \in [Displays -> BOOLEAN]
        BY <2>3 DEF Flags
      <3>2. Buffered(d)'
        BY <2>1, <2>3 DEF Buffered, Before, Handling
      <3> QED BY <2>1, <2>3, <3>1, <3>2
    <2> QED BY <1>4, <2>2, <2>3 DEF evdi_process, EvdiAt
  <1>5. CASE StartThread(d)
    BY <1>5 DEF StartThread, E, EvdiAt, kernelVars, sharedVars, Buffered, Before, Handling
  <1>6. CASE StartFails(d)
    <2>1. modeEvents' = [modeEvents EXCEPT ![d] = <<>>] /\ evdi' = [evdi EXCEPT ![d] = "done"]
      BY <1>6 DEF StartFails, Disconnected, EvdiAt
    <2>2. UNCHANGED <<flags, disp_set_mode, size, mode, registered, event>>
      BY <1>6 DEF StartFails, EvdiUnchanged
    <2> QED BY <2>1, <2>2 DEF Buffered, Before
  <1>7. CASE Request(d) \/ evdi_grab_pixels(d) \/ Copied(d) \/ Encode(d) \/ JoinThreads(d)
    <2>1. UNCHANGED <<flags, disp_set_mode, modeEvents, size, mode, registered, event>>
      BY <1>7 DEF Request, evdi_grab_pixels, Copied, Encode, JoinThreads, EvdiUnchanged, kernelVars,
         sharedVars
    <2>2. PICK pc \in {"work", "grab", "copy", "encode", "joinevent", "done"} :
              evdi' = [evdi EXCEPT ![d] = pc]
      BY <1>7 DEF Request, evdi_grab_pixels, Copied, Encode, JoinThreads, EvdiAt
    <2> QED BY <2>1, <2>2 DEF Buffered, Before
  <1>8. CASE WorkEnds(d)
    BY <1>8 DEF WorkEnds, E, EvdiAt, EvdiUnchanged, kernelVars, Buffered, Before, Flags
  <1> QED BY <1>1, <1>2, <1>3, <1>4, <1>5, <1>6, <1>7, <1>8 DEF EvdiStep

LEMMA UsbKeeps ==
    ASSUME TypeOK, NEW d \in Displays, Buffered(d), UsbStep(d) PROVE Kept(d)
  <1> USE DEF TypeOK, Kept, Same
  <1>1. CASE Dequeue(d) \/ Flip(d)
    <2>1. UNCHANGED bufferVars
      BY <1>1 DEF Dequeue, Flip, UsbUnchanged, kernelVars, bufferVars
    <2> QED BY <2>1 DEF bufferVars, Buffered
  <1>2. CASE UsbEnds(d)
    <2>1. /\ disp_set_mode' = [disp_set_mode EXCEPT ![d] = FALSE]
          /\ flags' = [flags EXCEPT ![d].image = FALSE, ![d].usb = FALSE]
          /\ UNCHANGED <<modeEvents, size, mode, registered, evdi, event>>
      BY <1>2 DEF UsbEnds, UsbUnchanged, kernelVars
    <2>2. /\ flags' \in [Displays -> Flags] /\ disp_set_mode' \in [Displays -> BOOLEAN]
          /\ ~flags'[d].usb /\ ~disp_set_mode'[d]
      BY <2>1 DEF Flags
    <2>3. Buffered(d)'
      BY <2>1, <2>2 DEF Buffered, Before, Handling
    <2> QED BY <2>1, <2>2, <2>3
  <1> QED BY <1>1, <1>2 DEF UsbStep

LEMMA EventKeeps ==
    ASSUME TypeOK, NEW d \in Displays, Buffered(d), EventStep(d) PROVE Kept(d)
  <1> USE DEF TypeOK, Kept, Same
  <1>1. CASE mct_mode_changed_handler(d)
    <2>1. /\ event[d] = "loop" /\ modeEvents[d] # <<>> /\ mode' = [mode EXCEPT ![d] = Head(modeEvents[d])]
          /\ modeEvents' = [modeEvents EXCEPT ![d] = Tail(modeEvents[d])]
          /\ UNCHANGED <<flags, size, evdi>>
      BY <1>1 DEF mct_mode_changed_handler, evdi_handle_event, V, EventUnchanged
    <2>2. modeEvents[d] \in Seq(Modes)
      OBVIOUS
    <2>3. Head(modeEvents[d]) \in Modes /\ Tail(modeEvents[d]) \in Seq(Modes)
      BY <2>1, <2>2
    <2>4. CASE disp_set_mode[d]
      <3>1. /\ registered' = [registered EXCEPT ![d] = None]
            /\ disp_set_mode' = [disp_set_mode EXCEPT ![d] = FALSE]
            /\ event' = [event EXCEPT ![d] = "nap"]
        BY <1>1, <2>4 DEF mct_mode_changed_handler, evdi_unregister_buffer, removeFrameBuffer, EventAt
      <3> QED BY <2>1, <2>3, <3>1 DEF Buffered, Before, Handling
    <2>5. CASE ~disp_set_mode[d]
      <3>1. UNCHANGED <<registered, disp_set_mode>> /\ event' = [event EXCEPT ![d] = "set"]
        BY <1>1, <2>5 DEF mct_mode_changed_handler, EventAt
      <3> QED BY <2>1, <2>3, <2>5, <3>1 DEF Buffered, Before, Handling
    <2> QED BY <2>4, <2>5
  <1>2. CASE FreeBuffer(d)
    BY <1>2 DEF FreeBuffer, V, EventAt, EventUnchanged, kernelVars, Buffered, Before, Handling
  <1>3. CASE SetResolution(d)
    BY <1>3 DEF SetResolution, V, EventAt, EventUnchanged, kernelVars, sharedVars, Buffered, Before,
       Handling
  <1>4. CASE Allocate(d)
    BY <1>4 DEF Allocate, V, EventAt, EventUnchanged, kernelVars, Buffered, Before, Handling
  <1>5. CASE RegisterBuffer(d)
    <2>1. None \notin Modes
      BY DaemonAssumption
    <2>2. /\ event[d] = "register" /\ event' = [event EXCEPT ![d] = "loop"]
          /\ aborted' = (registered[d] # None)
          /\ registered' = [registered EXCEPT ![d] = size[d]]
          /\ UNCHANGED <<flags, disp_set_mode, modeEvents, size, mode, evdi>>
      BY <1>5 DEF RegisterBuffer, evdi_register_buffer, addFrameBuffer, findBuffer, V, EventAt,
         EventUnchanged, kernelVars
    <2>3. TypeOK' /\ \A e \in Displays : e # d => Same(e)
      BY <2>2
    <2>4. registered'[d] = size[d] /\ event'[d] = "loop" /\ size[d] \in Modes
      BY <2>2 DEF Buffered
    <2>5. registered'[d] # None
      BY <2>1, <2>4
    <2>6. Buffered(d)'
      BY <2>2, <2>4, <2>5 DEF Buffered, Before, Handling
    <2> QED BY <2>2, <2>3, <2>6
  <1>6. CASE EventsEnd(d)
    BY <1>6 DEF EventsEnd, evdi_unregister_buffer, removeFrameBuffer, V, EventAt, EventUnchanged,
       kernelVars, Buffered, Before, Handling, Flags
  <1>7. CASE EventsDisconnect(d)
    <2>1. modeEvents' = [modeEvents EXCEPT ![d] = <<>>] /\ event' = [event EXCEPT ![d] = "close"]
      BY <1>7 DEF EventsDisconnect, Disconnected, EventAt
    <2>2. UNCHANGED <<flags, disp_set_mode, size, mode, registered, evdi>> /\ event[d] = "disconnect"
      BY <1>7 DEF EventsDisconnect, EventUnchanged, sharedVars, V
    <2> QED BY <2>1, <2>2 DEF Buffered, Before, Handling
  <1>8. CASE EventsDestroy(d)
    BY <1>8 DEF EventsDestroy, V, EventAt, EventUnchanged, kernelVars, Buffered, Before, Handling
  <1> QED BY <1>1, <1>2, <1>3, <1>4, <1>5, <1>6, <1>7, <1>8 DEF EventStep

(* The steps that are no part of this: the compositor only adds events.     *)
Elsewhere ==
    \/ CloseDevice \/ intHandler \/ ReadPreState \/ int_process2
    \/ \E d \in Displays : \/ int_process(d) \/ UseFreed(d) \/ TogglePlug(d) \/ Draw(d)
                           \/ \E new \in Modes : SetMode(d, new)

LEMMA ElsewhereKeeps ==
    ASSUME TypeOK, Elsewhere
    PROVE  /\ TypeOK' /\ \A e \in Displays : Same(e)
           /\ UNCHANGED <<evdi, event>>
           /\ \/ process' = process
              \/ process' = "closed" /\ \A e \in Displays : evdi[e] = "done"
  <1>1. CASE CloseDevice \/ intHandler \/ ReadPreState \/ int_process2
    <2>1. UNCHANGED bufferVars
      BY <1>1 DEF CloseDevice, intHandler, ReadPreState, int_process2, HotplugUnchanged, sharedVars,
         threadVars, kernelVars, bufferVars
    <2>2. \/ process' = process
          \/ process' = "closed" /\ \A e \in Displays : evdi[e] = "done"
      BY <1>1 DEF CloseDevice, intHandler, ReadPreState, int_process2, HotplugUnchanged
    <2> QED BY <2>1, <2>2 DEF bufferVars, TypeOK, Same
  <1>2. ASSUME NEW d \in Displays, int_process(d) \/ UseFreed(d) \/ TogglePlug(d) \/ Draw(d)
        PROVE  UNCHANGED bufferVars /\ process' = process
    BY <1>2 DEF int_process, UseFreed, TogglePlug, Draw, HotplugUnchanged, sharedVars, threadVars,
       kernelVars, bufferVars
  <1>3. ASSUME NEW d \in Displays, NEW new \in Modes, SetMode(d, new)
        PROVE  /\ UNCHANGED <<flags, disp_set_mode, size, mode, registered, evdi, event, process>>
               /\ modeEvents' \in [Displays -> Seq(Modes)]
    <2>1. modeEvents' = [modeEvents EXCEPT ![d] = Append(modeEvents[d], new)]
      BY <1>3 DEF SetMode
    <2>2. Append(modeEvents[d], new) \in Seq(Modes)
      BY DEF TypeOK
    <2> QED BY <1>3, <2>1, <2>2 DEF SetMode, sharedVars, threadVars, TypeOK
  <1> QED BY <1>1, <1>2, <1>3 DEF Elsewhere, TypeOK, Same, bufferVars

(* A process begins when the threads of the last one are gone, and takes those
   that are left with it when it exits.                                     *)
LEMMA ProcessKeeps ==
    ASSUME IInv, ~aborted, EnumT6Device \/ create_wording_thread
    PROVE  IInv'
  <1>1. TypeOK /\ Joined /\ \A e \in Displays : Buffered(e)
    BY DEF IInv
  <1>2. CASE EnumT6Device
    <2>1. /\ process = "none" /\ process' = "join" /\ evdi' = [d \in Displays |-> "poll"]
          /\ UNCHANGED <<flags, disp_set_mode, modeEvents, size, mode, registered, event>>
      BY <1>2 DEF EnumT6Device, kernelVars
    <2>2. \A e \in Displays : Buffered(e)'
      BY <1>1, <2>1 DEF Joined, Buffered, Handling
    <2> QED BY <1>1, <2>1, <2>2 DEF IInv, TypeOK, Joined
  <1>3. CASE create_wording_thread
    <2>1. /\ process = "closed" /\ process' = "none" /\ event' = [d \in Displays |-> "done"]
          /\ UNCHANGED <<flags, disp_set_mode, modeEvents, size, mode, registered, evdi>>
      BY <1>3 DEF create_wording_thread, kernelVars, sharedVars
    <2>2. \A e \in Displays : Buffered(e)'
      BY <1>1, <2>1 DEF Buffered, Handling
    <2> QED BY <1>1, <2>1, <2>2 DEF IInv, TypeOK, Joined
  <1> QED BY <1>2, <1>3

LEMMA Started ==
    Init => IInv
  <1> SUFFICES ASSUME Init PROVE IInv
    OBVIOUS
  <1>1. TypeOK
    BY DEF TypeOK, Init, NoFlags, Flags
  <1>2. \A d \in Displays : Buffered(d)
    BY DEF Init, Buffered, Before, Handling
  <1> QED BY <1>1, <1>2 DEF Init, IInv, Joined

(* Only a thread of a display that runs takes it from "done".               *)
LEMMA StaysJoined ==
    ASSUME Joined, TypeOK, \A e \in Displays : Buffered(e),
           NEW d \in Displays, EvdiStep(d) \/ UsbStep(d) \/ EventStep(d)
    PROVE  Joined'
  <1>1. process' = process
    BY DEF UsbStep, Dequeue, Flip, UsbEnds, UsbUnchanged, EventStep, mct_mode_changed_handler,
       FreeBuffer, SetResolution, Allocate, RegisterBuffer, EventsEnd, EventsDisconnect,
       EventsDestroy, EventUnchanged, EvdiStep, PollMonitor, GetEvdi_id, SetBox, evdi_process,
       StartThread, StartFails, Request, evdi_grab_pixels, Copied, Encode, WorkEnds, JoinThreads,
       EvdiUnchanged
  <1>2. EvdiStep(d) => evdi[d] # "done"
    BY DEF EvdiStep, PollMonitor, GetEvdi_id, SetBox, evdi_process, StartThread, StartFails, Request,
       evdi_grab_pixels, Copied, Encode, WorkEnds, JoinThreads, E
  <1>3. UsbStep(d) => UNCHANGED <<evdi, event>>
    BY DEF UsbStep, Dequeue, Flip, UsbEnds, UsbUnchanged
  <1>4. EventStep(d) => evdi' = evdi /\ event[d] # "done"
    BY DEF EventStep, mct_mode_changed_handler, FreeBuffer, SetResolution, Allocate, RegisterBuffer,
       EventsEnd, EventsDisconnect, EventsDestroy, EventUnchanged, V
  <1> QED BY <1>1, <1>2, <1>3, <1>4 DEF Joined

LEMMA StepKeeps ==
    ASSUME IInv, [Next]_vars PROVE IInv'
  <1>1. CASE UNCHANGED vars
    <2>1. UNCHANGED bufferVars /\ UNCHANGED <<aborted, process>>
      BY <1>1 DEF vars, sharedVars, threadVars, kernelVars, bufferVars
    <2> QED BY <2>1 DEF bufferVars, IInv, TypeOK, Joined, Buffered
  <1>2. CASE Next
    <2>1. ~aborted
      <3>1. EnumT6Device \/ create_wording_thread \/ Elsewhere => ~aborted
        BY DEF EnumT6Device, create_wording_thread, Elsewhere, CloseDevice, intHandler, ReadPreState,
           int_process2, int_process, UseFreed, TogglePlug, Draw, SetMode, Spend
      <3>2. ASSUME NEW d \in Displays PROVE EvdiStep(d) => ~aborted
        BY DEF EvdiStep, PollMonitor, GetEvdi_id, SetBox, evdi_process, StartThread, StartFails,
           Request, evdi_grab_pixels, Copied, Encode, WorkEnds, JoinThreads, E
      <3>3. ASSUME NEW d \in Displays PROVE UsbStep(d) \/ EventStep(d) => ~aborted
        BY DEF UsbStep, Dequeue, Flip, UsbEnds, U, EventStep, mct_mode_changed_handler, FreeBuffer,
           SetResolution, Allocate, RegisterBuffer, EventsEnd, EventsDisconnect, EventsDestroy, V
      <3> QED BY <1>2, <3>1, <3>2, <3>3 DEF Next, Elsewhere
    <2>2. TypeOK /\ Joined /\ \A e \in Displays : Buffered(e)
      BY <2>1 DEF IInv
    <2>3. CASE EnumT6Device \/ create_wording_thread
      BY <2>1, <2>3, ProcessKeeps
    <2>4. CASE Elsewhere
      <3>1. TypeOK' /\ \A e \in Displays : Buffered(e)'
        BY <2>2, <2>4, ElsewhereKeeps, Unmoved
      <3>2. Joined'
        BY <2>2, <2>4, ElsewhereKeeps DEF Joined
      <3> QED BY <3>1, <3>2 DEF IInv
    <2>5. ASSUME NEW d \in Displays, EvdiStep(d) \/ UsbStep(d) \/ EventStep(d) PROVE IInv'
      <3>1. Kept(d)
        BY <2>2, <2>5, EvdiKeeps, UsbKeeps, EventKeeps
      <3>2. ~aborted' => \A e \in Displays : Buffered(e)'
        BY <2>2, <3>1, Unmoved DEF Kept
      <3>3. Joined'
        BY <2>2, <2>5, StaysJoined
      <3> QED BY <3>1, <3>2, <3>3 DEF IInv, Kept
    <2> QED BY <1>2, <2>3, <2>4, <2>5 DEF Next, Elsewhere
  <1> QED BY <1>1, <1>2

-----------------------------------------------------------------------------
(* mct_mode_changed_handler calls the library as its assertions ask, however
   it is interleaved with the threads that grab, encode and send, as long as
   the latter has not ended.                                                *)
THEOREM AssertionsAreKept ==
    Spec => []AssertionsHold
  <1>1. IInv => AssertionsHold
    BY DEF IInv, Buffered, Handling, AssertionsHold
  <1> QED BY <1>1, Started, StepKeeps, PTL DEF Spec

-----------------------------------------------------------------------------
(* The library's processes and the table of devices (EvdiDevices).          *)

DeviceRecords ==
    [card : Cards \cup {Null}, symlinked : BOOLEAN, parent : Usbs \cup {Null}, freed : BOOLEAN]
Files == Handles \cup {Server}
Drms == [registered : BOOLEAN, private : BOOLEAN, files : SUBSET Files,
         filp : Handles \cup {Null}, master : Files \cup {Null}]
RunPlaces == {"idle", "count", "attach", "add", "link", "remove", "clear", "find", "again", "open",
              "device", "slave", "opened", "aborted"}
Runs == [pc : RunPlaces, parent : Usbs \cup {Null}, left : Nat,
         slot : 0 .. EVDI_DEVICE_COUNT_MAX + 1, card : Cards \cup {Null},
         file : Handles \cup {Null}, then : {"idle", "again"}, direct : BOOLEAN]
Opened == [owner : Processes, card : Cards]
Allowances == [adds : Nat, removes : Nat, opens : Nat, numbers : Nat, closes : Nat, connects : Nat,
               unplugs : Nat, servers : Nat, counts : SUBSET Nat, usbs : SUBSET Usbs,
               faults : BOOLEAN]

DevicesTypes ==
    /\ devices \in [Indices -> DeviceRecords \cup {Null}] /\ drm \in [Cards -> Drms]
    /\ handle \in [Handles -> Opened \cup {Null}]
    /\ card_usage \in [Processes -> [Cards -> Handles \cup {Null}]]
    /\ run \in [Processes -> Runs] /\ notifier \in [usb : Usbs \cup {Null}, slot : Indices]
    /\ allowance \in Allowances

(* While a process opens a card, the number is a card and is free in its own
   table, unless it was given as a number.                                  *)
Opening(p) == run[p].pc \in {"open", "device", "slave", "opened"}
Opens(p) ==
    /\ Opening(p) => run[p].card \in Cards
    /\ Opening(p) /\ ~run[p].direct => card_usage[p][run[p].card] = Null
    /\ run[p].pc \in {"slave", "opened"} => run[p].file \in Handles

(* One process removes devices, and no other is about to link the one that it
   has unregistered.                                                        *)
Removes(p) ==
    /\ run[p].pc \in {"remove", "clear"} => lock = p /\ run[p].slot >= 1
    /\ run[p].pc = "clear" =>
          /\ run[p].slot \in Indices
          /\ \A x \in Processes : run[x].pc = "link" => run[x].slot # run[p].slot
    /\ run[p].pc = "link" =>
          \/ run[p].slot = Gone
          \/ run[p].slot \in Indices /\ devices[run[p].slot] \in DeviceRecords

Recorded(h) ==
    handle[h] # Null /\ ~run[handle[h].owner].direct => card_usage[handle[h].owner][handle[h].card] = h

(* A device is linked to a parent that is there, that was late, or that the
   notifier will still take from it.                                        *)
Linked(i) ==
    InUse(i) /\ devices[i].parent # Null =>
        /\ devices[i].symlinked
        /\ \/ devices[i].parent \in present \cup late
           \/ notifier.usb = devices[i].parent /\ notifier.slot <= i

DevicesInv ==
    /\ DevicesTypes
    /\ \A p \in Processes : Opens(p)
    /\ \A p \in Processes : Removes(p)
    /\ \A h \in Handles : Recorded(h)
    /\ \A i \in Indices : Linked(i)
    /\ OnlyServerIsMaster

-----------------------------------------------------------------------------
(* Operators.                                                               *)

(* No step of a DRM device makes a file its master but the opening of it, and
   a file that is closed is master no more.                                 *)
LEMMA DrmFacts ==
    ASSUME NEW d \in Drms, NEW f \in Files
    PROVE  /\ evdi_driver_close(d, f) \in Drms /\ evdi_driver_close(d, f).master \in {Null, d.master}
           /\ evdi_driver_close(d, f).master = f => f = Null
           /\ evdi_drm_device_remove(d) \in Drms /\ evdi_drm_device_remove(d).master \in {Null, d.master}
           /\ FileOpens(d, f) \in Drms /\ FileOpens(d, f).master \in {d.master, f}
           /\ \A e \in DropMaster(d, f) : e \in Drms /\ e.master \in {Null, d.master}
  <1>1. NoDrm \in Drms /\ NoDrm.master = Null
    BY DEF NoDrm, Drms
  <1>2. /\ evdi_driver_close(d, f) \in Drms /\ evdi_driver_close(d, f).master \in {Null, d.master}
        /\ evdi_driver_close(d, f).master = f => f = Null
    <2> DEFINE e == [d EXCEPT !.files = @ \ {f}, !.filp = IF @ = f THEN Null ELSE @,
                              !.master = IF @ = f THEN Null ELSE @]
    <2>1. e \in Drms /\ e.master = IF d.master = f THEN Null ELSE d.master
      BY DEF Drms
    <2>2. evdi_driver_close(d, f) = e \/ evdi_driver_close(d, f) = NoDrm
      BY DEF evdi_driver_close, evdi_drm_device_release_cb
    <2> QED BY <1>1, <2>1, <2>2
  <1>3. evdi_drm_device_remove(d) \in Drms /\ evdi_drm_device_remove(d).master \in {Null, d.master}
    <2>1. [d EXCEPT !.registered = FALSE] \in Drms /\ [d EXCEPT !.registered = FALSE].master = d.master
      BY DEF Drms
    <2> QED BY <1>1, <2>1 DEF evdi_drm_device_remove, evdi_drm_device_release_cb
  <1>4. FileOpens(d, f) \in Drms /\ FileOpens(d, f).master \in {d.master, f}
    BY DEF Drms, FileOpens
  <1>5. \A e \in DropMaster(d, f) : e \in Drms /\ e.master \in {Null, d.master}
    BY DEF Drms, DropMaster
  <1> QED BY <1>2, <1>3, <1>4, <1>5

(* The least of some indices.                                               *)
LEMMA LeastIndex ==
    ASSUME NEW T \in SUBSET Nat, T # {}
    PROVE  \E n \in T : \A m \in T : n <= m
  <1> DEFINE R == {ss \in Nat \X Nat : ss[1] < ss[2]}
  <1>0. OpToRel(<, Nat) = R
    BY DEF OpToRel
  <1>1. IsWellFoundedOn(R, Nat)
    BY <1>0, NatLessThanWellFounded
  <1>2. PICK n \in T : \A m \in T : ~(<<m, n>> \in R)
    BY <1>1, WFMin
  <1>3. ASSUME NEW m \in T PROVE n <= m
    <2>1. ~(<<m, n>> \in R) /\ m \in Nat /\ n \in Nat
      BY <1>2
    <2>2. <<m, n>> \in Nat \X Nat /\ <<m, n>>[1] = m /\ <<m, n>>[2] = n
      BY <2>1
    <2>3. ~(<<m, n>>[1] < <<m, n>>[2])
      BY <2>1, <2>2, Zenon
    <2>4. ~(m < n)
      BY <2>2, <2>3, Zenon
    <2> QED BY <2>1, <2>4
  <1> QED BY <1>3

LEMMA ScanFacts ==
    /\ ScanStops # {} => evdi_platform_drv_get_free_device \in Indices /\ InUse(evdi_platform_drv_get_free_device)
    /\ ~(\A i \in Indices : InUse(i)) => evdi_platform_drv_get_free_idx \in Indices
  <1>0. Indices \in SUBSET Nat
    BY DevicesAssumption DEF Indices
  <1>1. ASSUME ScanStops # {}
        PROVE  evdi_platform_drv_get_free_device \in Indices /\ InUse(evdi_platform_drv_get_free_device)
    <2>1. ScanStops \in SUBSET Nat
      BY <1>0 DEF ScanStops
    <2>2. \E i \in ScanStops : \A j \in ScanStops : i <= j
      BY <1>1, <2>1, LeastIndex
    <2>3. evdi_platform_drv_get_free_device \in ScanStops
      BY <2>2, Zenon DEF evdi_platform_drv_get_free_device
    <2> QED BY <2>3 DEF ScanStops
  <1>2. ASSUME ~(\A i \in Indices : InUse(i))
        PROVE  evdi_platform_drv_get_free_idx \in Indices
    <2> DEFINE T == {i \in Indices : ~InUse(i)}
    <2>1. T \in SUBSET Nat /\ T # {}
      BY <1>0, <1>2
    <2>2. PICK i \in T : \A j \in T : i <= j
      BY <2>1, LeastIndex
    <2>3. \A j \in Indices : j < i => InUse(j)
      BY <1>0, <2>1, <2>2
    <2>4. \E k \in Indices : ~InUse(k) /\ \A j \in Indices : j < k => InUse(j)
      BY <2>2, <2>3
    <2> QED BY <2>4, Zenon DEF evdi_platform_drv_get_free_idx
  <1> QED BY <1>1, <1>2

(* Allowances are spent, never extended.                                    *)
LEMMA TakeFacts ==
    ASSUME allowance \in Allowances,
           NEW what \in {"adds", "removes", "opens", "numbers", "closes", "connects", "unplugs", "servers"},
           Take(what)
    PROVE  allowance' \in Allowances
  BY DEF Take, Allowances

LEMMA DeviceFacts ==
    /\ \A c \in Cards \cup {Null} : Device(c) \in DeviceRecords /\ Device(c).parent = Null
    /\ \A p \in Processes : run \in [Processes -> Runs] =>
          Fresh(p) \in Runs /\ Fresh(p).direct = run[p].direct /\ Fresh(p).pc = "idle"
  <1>1. \A c \in Cards \cup {Null} : Device(c) \in DeviceRecords /\ Device(c).parent = Null
    BY DEF Device, DeviceRecords
  <1>2. 0 \in 0 .. EVDI_DEVICE_COUNT_MAX + 1
    BY DevicesAssumption
  <1>3. Idle \in Runs /\ Idle.pc = "idle"
    BY <1>2 DEF Idle, Runs, RunPlaces
  <1>4. ASSUME NEW p \in Processes, run \in [Processes -> Runs]
        PROVE  Fresh(p) \in Runs /\ Fresh(p).direct = run[p].direct /\ Fresh(p).pc = "idle"
    <2>1. run[p].direct \in BOOLEAN
      BY <1>4 DEF Runs
    <2> QED BY <1>3, <2>1 DEF Fresh, Runs
  <1> QED BY <1>1, <1>4

-----------------------------------------------------------------------------
(* Steps.                                                                   *)

LEMMA DevicesInitHolds ==
    ASSUME DevicesInit PROVE DevicesInv
  <1>1. NoDrm \in Drms /\ NoDrm.master = Null
    BY DEF NoDrm, Drms
  <1>2. Idle \in Runs /\ Idle.pc = "idle" /\ 1 \in Indices
    BY DevicesAssumption DEF Idle, Runs, RunPlaces, Indices
  <1>3. allowance \in Allowances
    BY DevicesAssumption DEF DevicesInit, Allowances
  <1>4. DevicesTypes
    BY <1>1, <1>2, <1>3 DEF DevicesInit, DevicesTypes
  <1>5. \A p \in Processes : run[p].pc = "idle"
    BY <1>2 DEF DevicesInit
  <1>6. \A p \in Processes : Opens(p) /\ Removes(p)
    BY <1>5 DEF Opens, Opening, Removes
  <1>7. \A h \in Handles : Recorded(h)
    BY DEF DevicesInit, Recorded
  <1>8. \A i \in Indices : Linked(i)
    BY DEF DevicesInit, Linked, InUse
  <1>9. OnlyServerIsMaster
    BY <1>1 DEF DevicesInit, OnlyServerIsMaster
  <1> QED BY <1>4, <1>6, <1>7, <1>8, <1>9 DEF DevicesInv

(* A process moves on, by itself: the other processes and the table of devices
   are as they were.                                                        *)
MovesOn(p) ==
    /\ run' \in [Processes -> Runs] /\ \A x \in Processes : x # p => run'[x] = run[x]
    /\ run[p].direct => run'[p].direct
    /\ UNCHANGED <<devices, present, notifier, late>>
    /\ allowance' \in Allowances

LEMMA MasterKept ==
    ASSUME DevicesInv, NEW p \in Processes, run[p].pc # "slave", drm' = drm,
           \A x \in Processes : x # p => run'[x] = run[x]
    PROVE  OnlyServerIsMaster'
  <1> SUFFICES ASSUME NEW c \in Cards
               PROVE  drm'[c].master \in {Null, Server} \cup
                         {run'[x].file : x \in {y \in Processes : run'[y].pc = "slave" /\ run'[y].card = c}}
    BY DEF OnlyServerIsMaster
  <1>1. drm[c].master \in {Null, Server} \cup
           {run[x].file : x \in {y \in Processes : run[y].pc = "slave" /\ run[y].card = c}}
    BY DEF DevicesInv, OnlyServerIsMaster
  <1> QED BY <1>1

(* What a step of the library or of sysfs has to show of its process.       *)
LEMMA AloneKeeps ==
    ASSUME DevicesInv, NEW p \in Processes, MovesOn(p), UNCHANGED <<handle, card_usage>>,
           lock' = lock, drm' \in [Cards -> Drms], OnlyServerIsMaster',
           run'[p].pc \notin {"remove", "clear", "link"}, run[p].pc \notin {"remove", "clear"},
           Opens(p)'
    PROVE  DevicesInv'
  <1>1. DevicesTypes'
    BY DEF DevicesInv, DevicesTypes, MovesOn
  <1>2. \A x \in Processes : Opens(x)'
    <2> SUFFICES ASSUME NEW x \in Processes, x # p PROVE Opens(x)'
      OBVIOUS
    <2> QED BY DEF DevicesInv, MovesOn, Opens, Opening
  <1>3. \A x \in Processes : Removes(x)'
    BY DEF DevicesInv, MovesOn, Removes
  <1>4. \A h \in Handles : Recorded(h)'
    <2> SUFFICES ASSUME NEW h \in Handles, handle[h] # Null, ~run'[handle[h].owner].direct
                 PROVE  card_usage[handle[h].owner][handle[h].card] = h
      BY DEF Recorded
    <2>1. handle[h].owner \in Processes
      BY DEF DevicesInv, DevicesTypes, Opened
    <2>2. ~run[handle[h].owner].direct
      BY <2>1 DEF MovesOn
    <2> QED BY <2>2 DEF DevicesInv, Recorded
  <1>5. \A i \in Indices : Linked(i)'
    BY DEF DevicesInv, MovesOn, Linked, InUse
  <1> QED BY <1>1, <1>2, <1>3, <1>4, <1>5 DEF DevicesInv

(* The process alone changes.                                               *)
Still == UNCHANGED <<devices, lock, drm, present, notifier, handle, card_usage, late>>

LEMMA OnlyRunKeeps ==
    ASSUME DevicesInv, NEW p \in Processes, NEW r \in Runs, run' = [run EXCEPT ![p] = r], Still,
           allowance' \in Allowances, run[p].direct => r.direct,
           run[p].pc \notin {"remove", "clear", "slave"},
           r.pc \notin {"remove", "clear", "link", "slave", "opened"},
           r.pc \in {"open", "device"} => r.card \in Cards,
           r.pc \in {"open", "device"} /\ ~r.direct => card_usage[p][r.card] = Null
    PROVE  DevicesInv'
  <1>1. run \in [Processes -> Runs]
    BY DEF DevicesInv, DevicesTypes
  <1>2. run' \in [Processes -> Runs] /\ run'[p] = r /\ \A x \in Processes : x # p => run'[x] = run[x]
    BY <1>1
  <1>3. MovesOn(p)
    BY <1>2 DEF MovesOn, Still
  <1>4. OnlyServerIsMaster'
    BY <1>2, MasterKept DEF Still
  <1>5. Opens(p)'
    BY <1>2 DEF Opens, Opening, Still
  <1>6. drm' \in [Cards -> Drms] /\ UNCHANGED <<handle, card_usage>> /\ lock' = lock
    BY DEF Still, DevicesInv, DevicesTypes
  <1> QED BY <1>2, <1>3, <1>4, <1>5, <1>6, AloneKeeps

LEMMA WriteEndsFacts ==
    ASSUME DevicesInv, NEW p \in Processes, WriteEnds(p)
    PROVE  \E r \in Runs : /\ run' = [run EXCEPT ![p] = r] /\ r.pc \in {"idle", "again"}
                           /\ r.direct = run[p].direct
  <1>1. run \in [Processes -> Runs] /\ run[p] \in Runs
    BY DEF DevicesInv, DevicesTypes
  <1> DEFINE r == [run[p] EXCEPT !.pc = run[p].then, !.parent = IF run[p].then = "idle" THEN Null ELSE @]
  <1>2. r \in Runs /\ r.pc \in {"idle", "again"} /\ r.direct = run[p].direct
    BY <1>1 DEF Runs, RunPlaces
  <1>3. run' = [run EXCEPT ![p] = r]
    BY <1>1 DEF WriteEnds, Runs
  <1> QED BY <1>2, <1>3

LEMMA SysfsKeeps ==
    ASSUME DevicesInv, NEW p \in Processes,
           \/ \E n \in allowance.counts : add_store(p, n)
           \/ \E u \in allowance.usbs : add_device_with_usb_path(p, u)
           \/ \E u \in allowance.usbs \cup {Null} : evdi_open_attached_to(p, u)
           \/ evdi_platform_add_devices(p) \/ evdi_platform_device_attach(p) \/ FindCard(p)
           \/ wait_for_master(p) \/ \E c \in Cards : OpenNumber(p, c)
    PROVE  DevicesInv'
  <1>0. /\ allowance \in Allowances /\ run \in [Processes -> Runs] /\ run[p] \in Runs
        /\ allowance.counts \subseteq Nat /\ allowance.usbs \subseteq Usbs
    BY DEF DevicesInv, DevicesTypes, Allowances
  <1>1. SysfsUnchanged => Still
    BY DEF SysfsUnchanged, Still, tableVars, usbVars, libVars
  <1>f. Fresh(p) \in Runs /\ Fresh(p).direct = run[p].direct /\ Fresh(p).pc = "idle"
    BY <1>0, DeviceFacts
  <1>2. ASSUME NEW n \in allowance.counts, add_store(p, n) PROVE DevicesInv'
    <2> DEFINE r == [Fresh(p) EXCEPT !.pc = "count", !.left = n]
    <2>1. n \in Nat
      BY <1>0
    <2>2. r \in Runs /\ r.pc = "count" /\ r.direct = run[p].direct
      BY <1>f, <2>1 DEF Runs, RunPlaces
    <2>3. /\ run' = [run EXCEPT ![p] = r] /\ Still /\ run[p].pc = "idle" /\ Take("adds")
      BY <1>1, <1>2 DEF add_store
    <2> HIDE DEF r
    <2>4. allowance' \in Allowances
      BY <1>0, <2>3, TakeFacts
    <2> QED BY <2>2, <2>3, <2>4, OnlyRunKeeps
  <1>3. ASSUME NEW u \in allowance.usbs, add_device_with_usb_path(p, u) PROVE DevicesInv'
    <2> DEFINE r == [Fresh(p) EXCEPT !.pc = "attach", !.left = 1, !.parent = u]
    <2>1. u \in Usbs \cup {Null}
      BY <1>0
    <2>2. r \in Runs /\ r.pc = "attach" /\ r.direct = run[p].direct
      BY <1>f, <2>1 DEF Runs, RunPlaces
    <2>3. /\ run' = [run EXCEPT ![p] = r] /\ Still /\ run[p].pc = "idle" /\ Take("adds")
      BY <1>1, <1>3 DEF add_device_with_usb_path
    <2> HIDE DEF r
    <2>4. allowance' \in Allowances
      BY <1>0, <2>3, TakeFacts
    <2> QED BY <2>2, <2>3, <2>4, OnlyRunKeeps
  <1>4. ASSUME NEW u \in allowance.usbs \cup {Null}, evdi_open_attached_to(p, u) PROVE DevicesInv'
    <2> DEFINE r == [Fresh(p) EXCEPT !.pc = "find", !.parent = u, !.left = 1, !.then = "again"]
    <2>1. u \in Usbs \cup {Null}
      BY <1>0
    <2>2. r \in Runs /\ r.pc = "find" /\ r.direct = run[p].direct
      BY <1>f, <2>1 DEF Runs, RunPlaces
    <2>3. /\ run' = [run EXCEPT ![p] = r] /\ Still /\ run[p].pc = "idle" /\ Take("opens")
      BY <1>1, <1>4 DEF evdi_open_attached_to
    <2> HIDE DEF r
    <2>4. allowance' \in Allowances
      BY <1>0, <2>3, TakeFacts
    <2> QED BY <2>2, <2>3, <2>4, OnlyRunKeeps
  <1>w. ASSUME WriteEnds(p), Still, allowance' = allowance, run[p].pc \in {"count", "attach"}
        PROVE  DevicesInv'
    <2>1. PICK r \in Runs : /\ run' = [run EXCEPT ![p] = r] /\ r.pc \in {"idle", "again"}
                            /\ r.direct = run[p].direct
      BY <1>w, WriteEndsFacts
    <2> QED BY <1>0, <1>w, <2>1, OnlyRunKeeps
  <1>a. ASSUME run' = [run EXCEPT ![p].pc = "add"], Still, allowance' = allowance,
               run[p].pc \in {"count", "attach"}
        PROVE  DevicesInv'
    <2> DEFINE r == [run[p] EXCEPT !.pc = "add"]
    <2>1. r \in Runs /\ r.pc = "add" /\ r.direct = run[p].direct /\ run' = [run EXCEPT ![p] = r]
      BY <1>0, <1>a DEF Runs, RunPlaces
    <2> HIDE DEF r
    <2> QED BY <1>0, <1>a, <2>1, OnlyRunKeeps
  <1>5. CASE evdi_platform_add_devices(p)
    BY <1>1, <1>5, <1>w, <1>a DEF evdi_platform_add_devices, At
  <1>6. CASE evdi_platform_device_attach(p)
    BY <1>1, <1>6, <1>w, <1>a DEF evdi_platform_device_attach, At
  <1>7. CASE FindCard(p)
    <2>0. run[p].pc \in {"find", "again"} /\ Still /\ allowance' = allowance
      BY <1>1, <1>7 DEF FindCard, At
    <2>1. ASSUME NEW c \in find_unused_card_for(p), run' = [run EXCEPT ![p].pc = "open", ![p].card = c]
          PROVE  DevicesInv'
      <3>1. c \in Cards /\ card_usage[p][c] = Null
        <4>1. PICK i \in Indices : InUse(i) /\ ~Unbound(i) /\ c = devices[i].card /\ card_usage[p][c] = Null
          BY <2>1 DEF find_unused_card_for, Matching
        <4>2. devices[i] \in DeviceRecords
          BY <4>1 DEF InUse, DevicesInv, DevicesTypes
        <4>3. devices[i].card \in Cards \cup {Null} /\ devices[i].card # Null
          BY <4>1, <4>2 DEF Unbound, DeviceRecords
        <4> QED BY <4>1, <4>3
      <3> DEFINE r == [run[p] EXCEPT !.pc = "open", !.card = c]
      <3>2. r \in Runs /\ r.pc = "open" /\ r.card = c /\ r.direct = run[p].direct
        BY <1>0, <3>1 DEF Runs, RunPlaces
      <3>3. run' = [run EXCEPT ![p] = r]
        BY <1>0, <2>1 DEF Runs
      <3> HIDE DEF r
      <3> QED BY <1>0, <2>0, <3>1, <3>2, <3>3, OnlyRunKeeps
    <2>2. ASSUME NEW pc \in {"aborted", "count", "attach"}, run' = [run EXCEPT ![p].pc = pc]
          PROVE  DevicesInv'
      <3> DEFINE r == [run[p] EXCEPT !.pc = pc]
      <3>1. r \in Runs /\ r.pc = pc /\ r.direct = run[p].direct /\ run' = [run EXCEPT ![p] = r]
        BY <1>0, <2>2 DEF Runs, RunPlaces
      <3> HIDE DEF r
      <3> QED BY <1>0, <2>0, <3>1, OnlyRunKeeps
    <2>3. ASSUME run' = [run EXCEPT ![p] = Fresh(p)] PROVE DevicesInv'
      BY <1>0, <1>f, <2>0, <2>3, OnlyRunKeeps
    <2> QED BY <1>7, <2>1, <2>2, <2>3 DEF FindCard
  <1>8. CASE wait_for_master(p)
    <2>0. run[p].pc = "open" /\ Still /\ allowance' = allowance
      BY <1>1, <1>8 DEF wait_for_master, At
    <2> DEFINE r == [run[p] EXCEPT !.pc = "device"]
    <2>1. /\ r \in Runs /\ r.pc = "device" /\ r.direct = run[p].direct /\ r.card = run[p].card
          /\ run' = [run EXCEPT ![p] = r]
      BY <1>0, <1>8 DEF Runs, RunPlaces, wait_for_master
    <2>2. r.card \in Cards /\ (~r.direct => card_usage[p][r.card] = Null)
      BY <2>0, <2>1 DEF DevicesInv, Opens, Opening
    <2> HIDE DEF r
    <2> QED BY <1>0, <2>0, <2>1, <2>2, OnlyRunKeeps
  <1>9. ASSUME NEW c \in Cards, OpenNumber(p, c) PROVE DevicesInv'
    <2>0. run[p].pc = "idle" /\ Still /\ Take("numbers")
      BY <1>1, <1>9 DEF OpenNumber
    <2> DEFINE r == [run[p] EXCEPT !.pc = "open", !.card = c, !.direct = TRUE]
    <2>1. r \in Runs /\ r.pc = "open" /\ r.direct /\ r.card = c
      BY <1>0, <1>9 DEF Runs, RunPlaces
    <2>2. run' = [run EXCEPT ![p] = r]
      BY <1>0, <1>9 DEF Runs, OpenNumber
    <2>3. allowance' \in Allowances
      BY <1>0, <2>0, TakeFacts
    <2> HIDE DEF r
    <2> QED BY <1>0, <2>0, <2>1, <2>2, <2>3, OnlyRunKeeps
  <1> QED BY <1>2, <1>3, <1>4, <1>5, <1>6, <1>7, <1>8, <1>9

(* A DRM device is another, and its master is none, the one it was, or the file
   of a process that is at the door.                                        *)
LEMMA MasterMoves ==
    ASSUME DevicesInv, NEW p \in Processes, NEW c \in Cards, NEW d \in Drms,
           drm' = [drm EXCEPT ![c] = d], \A x \in Processes : x # p => run'[x] = run[x],
           \/ d.master \in {Null, Server}
           \/ run'[p].pc = "slave" /\ run'[p].card = c /\ d.master = run'[p].file
           \/ d.master = drm[c].master /\ (run[p].pc = "slave" => d.master # run[p].file),
           run[p].pc = "slave" => run[p].card = c
    PROVE  OnlyServerIsMaster'
  <1>0. drm \in [Cards -> Drms]
    BY DEF DevicesInv, DevicesTypes
  <1> SUFFICES ASSUME NEW b \in Cards
               PROVE  drm'[b].master \in {Null, Server} \cup
                         {run'[x].file : x \in {y \in Processes : run'[y].pc = "slave" /\ run'[y].card = b}}
    BY DEF OnlyServerIsMaster
  <1>1. drm[b].master \in {Null, Server} \cup
           {run[x].file : x \in {y \in Processes : run[y].pc = "slave" /\ run[y].card = b}}
    BY DEF DevicesInv, OnlyServerIsMaster
  <1>2. CASE b # c
    <2>1. drm'[b] = drm[b]
      BY <1>0, <1>2
    <2>2. \A x \in Processes : run[x].pc = "slave" /\ run[x].card = b => run'[x] = run[x]
      BY <1>2
    <2> QED BY <1>1, <2>1, <2>2
  <1>3. CASE b = c
    <2>1. drm'[b] = d
      BY <1>0, <1>3
    <2>2. CASE d.master = drm[c].master /\ (run[p].pc = "slave" => d.master # run[p].file)
      <3>1. d.master \in {Null, Server} \/ \E x \in Processes : /\ run[x].pc = "slave" /\ run[x].card = b
                                                               /\ d.master = run[x].file
        BY <1>1, <1>3, <2>2
      <3> QED BY <2>1, <2>2, <3>1
    <2> QED BY <1>3, <2>1, <2>2
  <1> QED BY <1>2, <1>3

LEMMA DeviceOpens ==
    ASSUME DevicesInv, NEW p \in Processes, wait_for_device(p)
    PROVE  DevicesInv'
  <1>0. /\ allowance \in Allowances /\ run \in [Processes -> Runs] /\ run[p] \in Runs
        /\ drm \in [Cards -> Drms] /\ run[p].pc = "device" /\ run[p].card \in Cards
        /\ ~run[p].direct => card_usage[p][run[p].card] = Null
        /\ UNCHANGED <<devices, present, notifier, late, lock, handle, card_usage, allowance>>
    BY DEF DevicesInv, DevicesTypes, Opens, Opening, wait_for_device, At, tableVars, usbVars, libVars
  <1>1. CASE drm[run[p].card].registered /\ Unused # {}
    <2> DEFINE h == CHOOSE g \in Unused : TRUE
               c == run[p].card
               r == [run[p] EXCEPT !.pc = "slave", !.file = h]
    <2>1. h \in Handles /\ h \in Files
      BY <1>1 DEF Unused, Files
    <2>2. /\ drm' = [drm EXCEPT ![c] = FileOpens(drm[c], h)]
          /\ run' = [run EXCEPT ![p].pc = "slave", ![p].file = h]
      BY <1>1 DEF wait_for_device
    <2> HIDE DEF h
    <2>3. /\ r \in Runs /\ r.pc = "slave" /\ r.file = h /\ r.card = c /\ r.direct = run[p].direct
      BY <1>0, <2>1 DEF Runs, RunPlaces
    <2>4. run' = [run EXCEPT ![p] = r]
      BY <1>0, <2>2 DEF Runs
    <2> HIDE DEF r
    <2>5. run' \in [Processes -> Runs] /\ run'[p] = r /\ \A x \in Processes : x # p => run'[x] = run[x]
      BY <1>0, <2>3, <2>4
    <2>6. PICK d \in Drms : d = FileOpens(drm[c], h) /\ d.master \in {drm[c].master, h}
      BY <1>0, <2>1, DrmFacts
    <2>7. drm' = [drm EXCEPT ![c] = d] /\ drm' \in [Cards -> Drms]
      BY <1>0, <2>2, <2>6
    <2>8. OnlyServerIsMaster'
      BY <1>0, <2>3, <2>5, <2>6, <2>7, MasterMoves
    <2>9. MovesOn(p)
      BY <1>0, <2>3, <2>5 DEF MovesOn
    <2>10. Opens(p)'
      BY <1>0, <2>1, <2>3, <2>5 DEF Opens, Opening
    <2> QED BY <1>0, <2>3, <2>5, <2>7, <2>8, <2>9, <2>10, AloneKeeps
  <1>2. CASE ~(drm[run[p].card].registered /\ Unused # {})
    <2>1. run' = [run EXCEPT ![p] = Fresh(p)] /\ drm' = drm
      BY <1>2 DEF wait_for_device
    <2>2. Fresh(p) \in Runs /\ Fresh(p).direct = run[p].direct /\ Fresh(p).pc = "idle"
      BY <1>0, DeviceFacts
    <2>3. Still
      BY <1>0, <2>1 DEF Still
    <2> QED BY <1>0, <2>1, <2>2, <2>3, OnlyRunKeeps
  <1> QED BY <1>1, <1>2

LEMMA SlaveOpens ==
    ASSUME DevicesInv, NEW p \in Processes, open_as_slave(p)
    PROVE  DevicesInv'
  <1> DEFINE c == run[p].card
             h == run[p].file
  <1>0. /\ allowance \in Allowances /\ run \in [Processes -> Runs] /\ run[p] \in Runs
        /\ drm \in [Cards -> Drms] /\ run[p].pc = "slave" /\ c \in Cards /\ h \in Handles /\ h \in Files
        /\ ~run[p].direct => card_usage[p][c] = Null
        /\ UNCHANGED <<devices, present, notifier, late, lock, handle, card_usage, allowance>>
    BY DEF DevicesInv, DevicesTypes, Opens, Opening, open_as_slave, At, tableVars, usbVars, libVars, Files
  <1>1. PICK d \in DropMaster(drm[c], h) :
           IF drm_is_master(d, h)
           THEN /\ drm' = [drm EXCEPT ![c] = evdi_driver_close(@, h)]
                /\ \/ run' = [run EXCEPT ![p].pc = "device", ![p].file = Null]
                   \/ run' = [run EXCEPT ![p] = Fresh(p)]
           ELSE /\ drm' = [drm EXCEPT ![c] = d]
                /\ run' = [run EXCEPT ![p].pc = "opened"]
    BY DEF open_as_slave
  <1>2. d \in Drms /\ d.master \in {Null, drm[c].master}
    BY <1>0, <1>1, DrmFacts
  <1>3. PICK r \in Runs :
           /\ run' = [run EXCEPT ![p] = r] /\ r.direct = run[p].direct
           /\ \/ drm_is_master(d, h) /\ r.pc = "device" /\ r.card = c
              \/ drm_is_master(d, h) /\ r.pc = "idle"
              \/ ~drm_is_master(d, h) /\ r.pc = "opened" /\ r.card = c /\ r.file = h
    <2>1. CASE drm_is_master(d, h) /\ run' = [run EXCEPT ![p].pc = "device", ![p].file = Null]
      <3> DEFINE r == [run[p] EXCEPT !.pc = "device", !.file = Null]
      <3>1. r \in Runs /\ r.pc = "device" /\ r.card = c /\ r.direct = run[p].direct
        BY <1>0 DEF Runs, RunPlaces
      <3>2. run' = [run EXCEPT ![p] = r]
        BY <1>0, <2>1 DEF Runs
      <3> QED BY <2>1, <3>1, <3>2
    <2>2. CASE drm_is_master(d, h) /\ run' = [run EXCEPT ![p] = Fresh(p)]
      BY <1>0, <2>2, DeviceFacts
    <2>3. CASE ~drm_is_master(d, h)
      <3> DEFINE r == [run[p] EXCEPT !.pc = "opened"]
      <3>1. r \in Runs /\ r.pc = "opened" /\ r.card = c /\ r.file = h /\ r.direct = run[p].direct
        BY <1>0 DEF Runs, RunPlaces
      <3>2. run' = [run EXCEPT ![p] = r]
        BY <1>0, <1>1, <2>3 DEF Runs
      <3> QED BY <2>3, <3>1, <3>2
    <2> QED BY <1>1, <2>1, <2>2, <2>3
  <1>4. run' \in [Processes -> Runs] /\ run'[p] = r /\ \A x \in Processes : x # p => run'[x] = run[x]
    BY <1>0, <1>3
  <1>5. PICK e \in Drms : /\ drm' = [drm EXCEPT ![c] = e] /\ e.master \in {Null, drm[c].master}
                          /\ e.master = h => h = Null
    <2>1. CASE drm_is_master(d, h)
      <3>1. drm' = [drm EXCEPT ![c] = evdi_driver_close(drm[c], h)]
        BY <1>1, <2>1
      <3> QED BY <1>0, <3>1, DrmFacts
    <2>2. CASE ~drm_is_master(d, h)
      BY <1>1, <1>2, <2>2 DEF drm_is_master
    <2> QED BY <2>1, <2>2
  <1> HIDE DEF c, h
  <1>6. OnlyServerIsMaster'
    <2>1. h # Null
      BY <1>0, DevicesAssumption
    <2>2. e.master # h /\ run[p].card = c /\ run[p].file = h
      BY <1>5, <2>1 DEF c, h
    <2>3. e.master \in {Null, Server} \/ (e.master = drm[c].master /\ (run[p].pc = "slave" => e.master # run[p].file))
      BY <1>5, <2>2
    <2> QED BY <1>0, <1>4, <1>5, <2>2, <2>3, MasterMoves
  <1>7. MovesOn(p)
    BY <1>0, <1>3, <1>4 DEF MovesOn
  <1>8. Opens(p)'
    BY <1>0, <1>3, <1>4 DEF Opens, Opening
  <1>9. drm' \in [Cards -> Drms]
    BY <1>0, <1>5
  <1> QED BY <1>0, <1>3, <1>4, <1>6, <1>7, <1>8, <1>9, AloneKeeps

(* A DRM device changes, and its master at most goes or is the server.      *)
LEMMA MasterGoes ==
    ASSUME DevicesInv, NEW c \in Cards, NEW d \in Drms, drm' = [drm EXCEPT ![c] = d],
           d.master \in {Null, Server, drm[c].master},
           \A x \in Processes : run[x].pc = "slave" => run'[x] = run[x]
    PROVE  OnlyServerIsMaster'
  <1>0. drm \in [Cards -> Drms]
    BY DEF DevicesInv, DevicesTypes
  <1> SUFFICES ASSUME NEW b \in Cards
               PROVE  drm'[b].master \in {Null, Server} \cup
                         {run'[x].file : x \in {y \in Processes : run'[y].pc = "slave" /\ run'[y].card = b}}
    BY DEF OnlyServerIsMaster
  <1>1. \/ drm[b].master \in {Null, Server}
        \/ \E x \in Processes : run[x].pc = "slave" /\ run[x].card = b /\ drm[b].master = run[x].file
    BY DEF DevicesInv, OnlyServerIsMaster
  <1>2. drm'[b].master \in {Null, Server, drm[b].master}
    BY <1>0
  <1> QED BY <1>1, <1>2

LEMMA DrmOnlyKeeps ==
    ASSUME DevicesInv, NEW c \in Cards, NEW d \in Drms, drm' = [drm EXCEPT ![c] = d],
           d.master \in {Null, Server, drm[c].master}, allowance' \in Allowances,
           UNCHANGED <<run, devices, lock, present, notifier, handle, card_usage, late>>
    PROVE  DevicesInv'
  <1>1. OnlyServerIsMaster'
    BY MasterGoes
  <1>2. drm' \in [Cards -> Drms]
    BY DEF DevicesInv, DevicesTypes
  <1>3. DevicesTypes'
    BY <1>2 DEF DevicesInv, DevicesTypes
  <1>4. \A p \in Processes : Opens(p)' /\ Removes(p)'
    BY DEF DevicesInv, Opens, Opening, Removes
  <1>5. (\A h \in Handles : Recorded(h)') /\ (\A i \in Indices : Linked(i)')
    BY DEF DevicesInv, Recorded, Linked, InUse
  <1> QED BY <1>1, <1>3, <1>4, <1>5 DEF DevicesInv

LEMMA ServerKeeps ==
    ASSUME DevicesInv, NEW c \in Cards, ServerOpens(c) \/ ServerSetsMaster(c) \/ ServerCloses(c)
    PROVE  DevicesInv'
  <1>0. /\ UNCHANGED <<run, devices, lock, present, notifier, handle, card_usage, late>>
        /\ drm \in [Cards -> Drms] /\ drm[c] \in Drms /\ allowance \in Allowances /\ Server \in Files
    BY DEF ServerOpens, ServerSetsMaster, ServerCloses, tableVars, usbVars, libVars, DevicesInv, DevicesTypes, Files
  <1>1. CASE ServerOpens(c)
    <2>1. drm' = [drm EXCEPT ![c] = FileOpens(drm[c], Server)] /\ Take("servers")
      BY <1>1 DEF ServerOpens
    <2>2. FileOpens(drm[c], Server) \in Drms /\ FileOpens(drm[c], Server).master \in {drm[c].master, Server}
      BY <1>0, DrmFacts
    <2>3. allowance' \in Allowances
      BY <1>0, <2>1, TakeFacts
    <2> QED BY <1>0, <2>1, <2>2, <2>3, DrmOnlyKeeps
  <1>2. CASE ServerSetsMaster(c)
    <2> DEFINE d == [drm[c] EXCEPT !.master = Server]
    <2>1. d \in Drms /\ d.master = Server
      BY <1>0 DEF Drms
    <2>2. drm' = [drm EXCEPT ![c] = d] /\ allowance' = allowance
      BY <1>0, <1>2 DEF ServerSetsMaster
    <2> HIDE DEF d
    <2> QED BY <1>0, <2>1, <2>2, DrmOnlyKeeps
  <1>3. CASE ServerCloses(c)
    <2>1. drm' = [drm EXCEPT ![c] = evdi_driver_close(drm[c], Server)] /\ allowance' = allowance
      BY <1>3 DEF ServerCloses
    <2>2. /\ evdi_driver_close(drm[c], Server) \in Drms
          /\ evdi_driver_close(drm[c], Server).master \in {Null, drm[c].master}
      BY <1>0, DrmFacts
    <2> QED BY <1>0, <2>1, <2>2, DrmOnlyKeeps
  <1> QED BY <1>1, <1>2, <1>3

LEMMA ConnectKeeps ==
    ASSUME DevicesInv, NEW p \in Processes, NEW h \in Handles, evdi_connect(p, h) \/ evdi_disconnect(p, h)
    PROVE  DevicesInv'
  <1> DEFINE c == handle[h].card
  <1>0. /\ UNCHANGED <<run, devices, lock, present, notifier, handle, card_usage, late>>
        /\ handle[h] # Null /\ Take("connects") /\ handle[h] \in Opened \cup {Null}
        /\ drm \in [Cards -> Drms] /\ allowance \in Allowances
    BY DEF evdi_connect, evdi_disconnect, tableVars, usbVars, libVars, DevicesInv, DevicesTypes
  <1>1. c \in Cards /\ drm[c] \in Drms
    BY <1>0 DEF Opened
  <1>2. allowance' \in Allowances
    BY <1>0, TakeFacts
  <1>3. PICK f \in Handles \cup {Null} : drm' = [drm EXCEPT ![c].filp = f]
    <2>1. CASE evdi_connect(p, h)
      <3>1. drm[c].filp \in Handles \cup {Null}
        BY <1>1 DEF Drms
      <3>2. drm' = [drm EXCEPT ![c].filp = IF drm[c].registered THEN h ELSE @]
        BY <2>1 DEF evdi_connect
      <3>3. drm' = [drm EXCEPT ![c].filp = IF drm[c].registered THEN h ELSE drm[c].filp]
        BY <1>1, <3>2
      <3> QED BY <3>1, <3>3
    <2>2. CASE evdi_disconnect(p, h)
      BY <2>2 DEF evdi_disconnect
    <2> QED BY <2>1, <2>2
  <1> DEFINE d == [drm[c] EXCEPT !.filp = f]
  <1>4. d \in Drms /\ d.master = drm[c].master
    BY <1>1 DEF Drms
  <1>5. drm' = [drm EXCEPT ![c] = d]
    BY <1>0, <1>1, <1>3
  <1> HIDE DEF d, c
  <1> QED BY <1>0, <1>1, <1>2, <1>4, <1>5, DrmOnlyKeeps

LEMMA CloseKeeps ==
    ASSUME DevicesInv, NEW p \in Processes, NEW h \in Handles, evdi_close(p, h)
    PROVE  DevicesInv'
  <1> DEFINE c == handle[h].card
  <1>0. /\ UNCHANGED <<run, devices, lock, present, notifier, late>>
        /\ handle[h] # Null /\ handle[h].owner = p /\ Take("closes") /\ handle[h] \in Opened \cup {Null}
        /\ drm \in [Cards -> Drms] /\ allowance \in Allowances /\ h \in Files
        /\ handle \in [Handles -> Opened \cup {Null}]
        /\ card_usage \in [Processes -> [Cards -> Handles \cup {Null}]]
        /\ drm' = [drm EXCEPT ![c] = evdi_driver_close(drm[c], h)]
        /\ handle' = [handle EXCEPT ![h] = Null]
        /\ card_usage' = [card_usage EXCEPT ![p] =
                            [b \in Cards |-> IF card_usage[p][b] = h THEN Null ELSE card_usage[p][b]]]
        /\ run[p].pc = "idle"
    BY DEF evdi_close, tableVars, usbVars, libVars, DevicesInv, DevicesTypes, Files
  <1>1. c \in Cards /\ drm[c] \in Drms
    BY <1>0 DEF Opened
  <1>2. allowance' \in Allowances
    BY <1>0, TakeFacts
  <1>3. /\ evdi_driver_close(drm[c], h) \in Drms
        /\ evdi_driver_close(drm[c], h).master \in {Null, drm[c].master}
    BY <1>0, <1>1, DrmFacts
  <1> HIDE DEF c
  <1>4. OnlyServerIsMaster'
    BY <1>0, <1>1, <1>3, MasterGoes
  <1>5. /\ card_usage' \in [Processes -> [Cards -> Handles \cup {Null}]]
        /\ \A x \in Processes : x # p => card_usage'[x] = card_usage[x]
        /\ \A b \in Cards : card_usage'[p][b] = IF card_usage[p][b] = h THEN Null ELSE card_usage[p][b]
    BY <1>0
  <1>6. DevicesTypes'
    <2>1. drm' \in [Cards -> Drms] /\ handle' \in [Handles -> Opened \cup {Null}]
      BY <1>0, <1>1, <1>3
    <2> QED BY <1>0, <1>2, <1>5, <2>1 DEF DevicesInv, DevicesTypes
  <1>7. \A x \in Processes : Opens(x)' /\ Removes(x)'
    <2> SUFFICES ASSUME NEW x \in Processes PROVE Opens(x)' /\ Removes(x)'
      OBVIOUS
    <2>1. Opens(x)'
      BY <1>0, <1>5 DEF DevicesInv, Opens, Opening
    <2>2. Removes(x)'
      BY <1>0 DEF DevicesInv, Removes
    <2> QED BY <2>1, <2>2
  <1>8. \A g \in Handles : Recorded(g)'
    <2> SUFFICES ASSUME NEW g \in Handles, handle'[g] # Null, ~run'[handle'[g].owner].direct
                 PROVE  card_usage'[handle'[g].owner][handle'[g].card] = g
      BY DEF Recorded
    <2>1. g # h /\ handle'[g] = handle[g] /\ handle[g] \in Opened
      BY <1>0
    <2>2. card_usage[handle[g].owner][handle[g].card] = g
      BY <1>0, <2>1 DEF DevicesInv, Recorded
    <2>3. handle[g].owner \in Processes /\ handle[g].card \in Cards
      BY <2>1 DEF Opened
    <2> QED BY <1>5, <2>1, <2>2, <2>3
  <1>9. \A i \in Indices : Linked(i)'
    BY <1>0 DEF DevicesInv, Linked, InUse
  <1> QED BY <1>4, <1>6, <1>7, <1>8, <1>9 DEF DevicesInv

LEMMA OpenKeeps ==
    ASSUME DevicesInv, NEW p \in Processes, evdi_open(p)
    PROVE  DevicesInv'
  <1> DEFINE c == run[p].card
             h == run[p].file
  <1>0. /\ allowance \in Allowances /\ run \in [Processes -> Runs] /\ run[p] \in Runs
        /\ drm \in [Cards -> Drms] /\ run[p].pc = "opened" /\ c \in Cards /\ h \in Handles /\ h \in Files
        /\ handle \in [Handles -> Opened \cup {Null}]
        /\ card_usage \in [Processes -> [Cards -> Handles \cup {Null}]]
        /\ ~run[p].direct => card_usage[p][c] = Null
        /\ UNCHANGED <<devices, present, notifier, late, lock, allowance>>
        /\ run' = [run EXCEPT ![p] = Fresh(p)]
    BY DEF DevicesInv, DevicesTypes, Opens, Opening, evdi_open, At, tableVars, usbVars, libVars, Files
  <1>1. Fresh(p) \in Runs /\ Fresh(p).direct = run[p].direct /\ Fresh(p).pc = "idle"
    BY <1>0, DeviceFacts
  <1>2. run' \in [Processes -> Runs] /\ run'[p] = Fresh(p) /\ \A x \in Processes : x # p => run'[x] = run[x]
    BY <1>0, <1>1
  <1>3. PICK d \in Drms : drm' = [drm EXCEPT ![c] = d] /\ d.master \in {Null, drm[c].master}
    <2>1. CASE is_evdi(drm[c])
      <3>1. PICK d \in DropMaster(drm[c], h) : drm' = [drm EXCEPT ![c] = d]
        BY <2>1 DEF evdi_open
      <3>2. drm[c] \in Drms
        BY <1>0
      <3>3. d \in Drms /\ d.master \in {Null, drm[c].master}
        BY <1>0, <3>1, <3>2, DrmFacts
      <3> QED BY <3>1, <3>3
    <2>2. CASE ~is_evdi(drm[c])
      <3>1. drm' = [drm EXCEPT ![c] = evdi_driver_close(drm[c], h)]
        BY <2>2 DEF evdi_open
      <3>2. /\ evdi_driver_close(drm[c], h) \in Drms
            /\ evdi_driver_close(drm[c], h).master \in {Null, drm[c].master}
        <4>1. drm[c] \in Drms
          BY <1>0
        <4> QED BY <1>0, <4>1, DrmFacts
      <3> QED BY <3>1, <3>2
    <2> QED BY <2>1, <2>2
  <1>4. \/ UNCHANGED <<handle, card_usage>>
        \/ /\ handle' = [handle EXCEPT ![h] = [owner |-> p, card |-> c]]
           /\ card_usage' = [card_usage EXCEPT ![p][c] = h]
    BY DEF evdi_open, libVars
  <1> HIDE DEF c, h
  <1>5. OnlyServerIsMaster'
    <2>1. \A x \in Processes : run[x].pc = "slave" => run'[x] = run[x]
      BY <1>0, <1>2
    <2> QED BY <1>0, <1>3, <2>1, MasterGoes
  <1>6. drm' \in [Cards -> Drms]
    BY <1>0, <1>3
  <1>7. Opens(p)'
    BY <1>1, <1>2 DEF Opens, Opening
  <1>8. MovesOn(p)
    BY <1>0, <1>1, <1>2 DEF MovesOn
  <1>9. CASE UNCHANGED <<handle, card_usage>>
    BY <1>0, <1>1, <1>2, <1>5, <1>6, <1>7, <1>8, <1>9, AloneKeeps
  <1>10. CASE /\ handle' = [handle EXCEPT ![h] = [owner |-> p, card |-> c]]
              /\ card_usage' = [card_usage EXCEPT ![p][c] = h]
    <2>1. /\ handle'[h].owner = p /\ handle'[h].card = c /\ \A g \in Handles : g # h => handle'[g] = handle[g]
          /\ handle' \in [Handles -> Opened \cup {Null}]
      <3>1. [owner |-> p, card |-> c] \in Opened
        BY <1>0 DEF Opened
      <3> QED BY <1>0, <1>10, <3>1
    <2>2. /\ card_usage'[p][c] = h /\ \A b \in Cards : b # c => card_usage'[p][b] = card_usage[p][b]
          /\ \A x \in Processes : x # p => card_usage'[x] = card_usage[x]
          /\ card_usage' \in [Processes -> [Cards -> Handles \cup {Null}]]
      BY <1>0, <1>10
    <2>3. DevicesTypes'
      BY <1>0, <1>2, <1>6, <2>1, <2>2 DEF DevicesInv, DevicesTypes
    <2>4. \A x \in Processes : Opens(x)'
      <3> SUFFICES ASSUME NEW x \in Processes, x # p PROVE Opens(x)'
        BY <1>7
      <3> QED BY <1>2, <2>2 DEF DevicesInv, Opens, Opening
    <2>5. \A x \in Processes : Removes(x)'
      BY <1>0, <1>1, <1>2 DEF DevicesInv, Removes
    <2>6. \A g \in Handles : Recorded(g)'
      <3> SUFFICES ASSUME NEW g \in Handles, handle'[g] # Null, ~run'[handle'[g].owner].direct
                   PROVE  card_usage'[handle'[g].owner][handle'[g].card] = g
        BY DEF Recorded
      <3>1. CASE g = h
        BY <2>1, <2>2, <3>1
      <3>2. CASE g # h
        <4>1. handle'[g] = handle[g] /\ handle[g] \in Opened
          BY <1>0, <2>1, <3>2
        <4>2. handle[g].owner \in Processes /\ handle[g].card \in Cards
          BY <4>1 DEF Opened
        <4>3. ~run[handle[g].owner].direct
          BY <1>1, <1>2, <4>1, <4>2
        <4>4. card_usage[handle[g].owner][handle[g].card] = g
          BY <4>1, <4>3 DEF DevicesInv, Recorded
        <4>5. ~(handle[g].owner = p /\ handle[g].card = c)
          BY <1>0, <4>3, <4>4, DevicesAssumption
        <4> QED BY <2>2, <4>1, <4>2, <4>4, <4>5
      <3> QED BY <3>1, <3>2
    <2>7. \A i \in Indices : Linked(i)'
      BY <1>0 DEF DevicesInv, Linked, InUse
    <2> QED BY <1>5, <2>3, <2>4, <2>5, <2>6, <2>7 DEF DevicesInv
  <1> QED BY <1>4, <1>9, <1>10

(* A device is found or made, under the lock.                               *)
LEMMA FoundKeeps ==
    ASSUME DevicesInv, NEW p \in Processes, lock = Null, run[p].pc = "add", NEW r \in Runs,
           r.pc = "link", r.direct = run[p].direct, r.slot \in Indices, run' = [run EXCEPT ![p] = r],
           devices' \in [Indices -> DeviceRecords \cup {Null}], devices'[r.slot] \in DeviceRecords,
           \A i \in Indices : \/ devices'[i] = devices[i]
                              \/ devices'[i] \in DeviceRecords /\ devices'[i].parent = Null,
           drm' \in [Cards -> Drms], OnlyServerIsMaster',
           UNCHANGED <<lock, present, notifier, handle, card_usage, late, allowance>>
    PROVE  DevicesInv'
  <1>0. run \in [Processes -> Runs]
    BY DEF DevicesInv, DevicesTypes
  <1>1. run' \in [Processes -> Runs] /\ run'[p] = r /\ \A x \in Processes : x # p => run'[x] = run[x]
    BY <1>0
  <1>2. DevicesTypes'
    BY <1>1 DEF DevicesInv, DevicesTypes
  <1>3. \A x \in Processes : run[x].pc \notin {"remove", "clear"}
    BY DevicesAssumption DEF DevicesInv, Removes
  <1>4. \A x \in Processes : Opens(x)'
    BY <1>1 DEF DevicesInv, Opens, Opening
  <1>5. \A x \in Processes : Removes(x)'
    <2> SUFFICES ASSUME NEW x \in Processes PROVE Removes(x)'
      OBVIOUS
    <2>1. CASE x = p
      BY <1>1, <2>1 DEF Removes
    <2>2. CASE x # p
      BY <1>1, <1>3, <2>2 DEF DevicesInv, Removes
    <2> QED BY <2>1, <2>2
  <1>6. \A h \in Handles : Recorded(h)'
    <2> SUFFICES ASSUME NEW h \in Handles, handle[h] # Null, ~run'[handle[h].owner].direct
                 PROVE  card_usage[handle[h].owner][handle[h].card] = h
      BY DEF Recorded
    <2>1. handle[h].owner \in Processes
      BY DEF DevicesInv, DevicesTypes, Opened
    <2>2. ~run[handle[h].owner].direct
      BY <1>1, <2>1
    <2> QED BY <2>2 DEF DevicesInv, Recorded
  <1>7. \A i \in Indices : Linked(i)'
    BY DEF DevicesInv, Linked, InUse
  <1> QED BY <1>2, <1>4, <1>5, <1>6, <1>7 DEF DevicesInv

LEMMA AddKeeps ==
    ASSUME DevicesInv, NEW p \in Processes, evdi_platform_device_add(p)
    PROVE  DevicesInv'
  <1>0. /\ allowance \in Allowances /\ run \in [Processes -> Runs] /\ run[p] \in Runs
        /\ drm \in [Cards -> Drms] /\ devices \in [Indices -> DeviceRecords \cup {Null}]
        /\ run[p].pc = "add" /\ lock = Null
        /\ UNCHANGED <<present, notifier, handle, card_usage, late, allowance>>
    BY DEF DevicesInv, DevicesTypes, evdi_platform_device_add, At, usbVars, libVars
  <1>l. ASSUME NEW i \in Indices, run' = [run EXCEPT ![p].pc = "link", ![p].slot = i]
        PROVE  \E r \in Runs : /\ run' = [run EXCEPT ![p] = r] /\ r.pc = "link" /\ r.slot = i
                               /\ r.direct = run[p].direct
    <2> DEFINE r == [run[p] EXCEPT !.pc = "link", !.slot = i]
    <2>1. i \in 0 .. EVDI_DEVICE_COUNT_MAX + 1
      BY DevicesAssumption DEF Indices
    <2>2. r \in Runs /\ r.pc = "link" /\ r.slot = i /\ r.direct = run[p].direct
      BY <1>0, <2>1 DEF Runs, RunPlaces
    <2>3. run' = [run EXCEPT ![p] = r]
      BY <1>0, <1>l DEF Runs
    <2> QED BY <2>2, <2>3
  <1>1. CASE run[p].parent = Null \/ ScanStops = {}
    <2>0. evdi_platform_drv_create_new_device(p)
      BY <1>1 DEF evdi_platform_device_add
    <2>1. CASE (\A i \in Indices : InUse(i)) \/ dev_count >= EVDI_DEVICE_COUNT_MAX
      <3>1. WriteEnds(p) /\ UNCHANGED <<devices, lock, drm>>
        BY <2>0, <2>1 DEF evdi_platform_drv_create_new_device, tableVars
      <3>2. PICK r \in Runs : /\ run' = [run EXCEPT ![p] = r] /\ r.pc \in {"idle", "again"}
                              /\ r.direct = run[p].direct
        BY <3>1, WriteEndsFacts
      <3>3. Still
        BY <1>0, <3>1 DEF Still
      <3> QED BY <1>0, <3>2, <3>3, OnlyRunKeeps
    <2>2. CASE ~((\A i \in Indices : InUse(i)) \/ dev_count >= EVDI_DEVICE_COUNT_MAX)
      <3> DEFINE i == evdi_platform_drv_get_free_idx
      <3>1. i \in Indices
        BY <2>2, ScanFacts
      <3>2. PICK c \in Cards \cup {Null} :
               /\ devices' = [devices EXCEPT ![i] = Device(c)]
               /\ drm' = IF c = Null THEN drm
                         ELSE [drm EXCEPT ![c] = [NoDrm EXCEPT !.registered = TRUE, !.private = TRUE]]
        BY <2>0, <2>2 DEF evdi_platform_drv_create_new_device, FreeCard
      <3>3. run' = [run EXCEPT ![p].pc = "link", ![p].slot = i] /\ lock' = lock
        BY <2>0, <2>2 DEF evdi_platform_drv_create_new_device
      <3> HIDE DEF i
      <3>4. PICK r \in Runs : /\ run' = [run EXCEPT ![p] = r] /\ r.pc = "link" /\ r.slot = i
                              /\ r.direct = run[p].direct
        BY <1>l, <3>1, <3>3
      <3>5. /\ devices' \in [Indices -> DeviceRecords \cup {Null}] /\ devices'[i] \in DeviceRecords
            /\ \A j \in Indices : \/ devices'[j] = devices[j]
                                  \/ devices'[j] \in DeviceRecords /\ devices'[j].parent = Null
        <4>1. Device(c) \in DeviceRecords /\ Device(c).parent = Null
          BY DeviceFacts
        <4> QED BY <1>0, <3>1, <3>2, <4>1
      <3>6. drm' \in [Cards -> Drms] /\ OnlyServerIsMaster'
        <4>0. \A x \in Processes : x # p => run'[x] = run[x]
          BY <1>0, <3>4
        <4>1. CASE c = Null
          <5>1. drm' = drm
            BY <3>2, <4>1
          <5> QED BY <1>0, <4>0, <5>1, MasterKept
        <4>2. CASE c # Null
          <5> DEFINE d == [NoDrm EXCEPT !.registered = TRUE, !.private = TRUE]
          <5>1. d \in Drms /\ d.master = Null
            BY DEF NoDrm, Drms
          <5>2. c \in Cards /\ drm' = [drm EXCEPT ![c] = d]
            BY <3>2, <4>2
          <5> HIDE DEF d
          <5>3. drm' \in [Cards -> Drms]
            BY <1>0, <5>1, <5>2
          <5>4. \A x \in Processes : run[x].pc = "slave" => run'[x] = run[x]
            BY <1>0, <4>0
          <5> QED BY <5>1, <5>2, <5>3, <5>4, MasterGoes
        <4> QED BY <4>1, <4>2
      <3> QED BY <1>0, <3>1, <3>3, <3>4, <3>5, <3>6, FoundKeeps
    <2> QED BY <2>1, <2>2
  <1>2. CASE ~(run[p].parent = Null \/ ScanStops = {})
    <2> DEFINE i == evdi_platform_drv_get_free_device
    <2>1. i \in Indices /\ InUse(i)
      BY <1>2, ScanFacts
    <2>2. CASE Unbound(i)
      <3>1. UNCHANGED <<devices, lock, drm, run>>
        BY <1>2, <2>2 DEF evdi_platform_device_add, tableVars
      <3>2. DevicesTypes' /\ OnlyServerIsMaster'
        BY <1>0, <3>1 DEF DevicesInv, DevicesTypes, OnlyServerIsMaster
      <3>3. \A x \in Processes : Opens(x)' /\ Removes(x)'
        BY <1>0, <3>1 DEF DevicesInv, Opens, Opening, Removes
      <3>4. (\A h \in Handles : Recorded(h)') /\ (\A j \in Indices : Linked(j)')
        BY <1>0, <3>1 DEF DevicesInv, Recorded, Linked, InUse
      <3> QED BY <3>2, <3>3, <3>4 DEF DevicesInv
    <2>3. CASE ~Unbound(i)
      <3>1. run' = [run EXCEPT ![p].pc = "link", ![p].slot = i] /\ UNCHANGED <<devices, lock, drm>>
        BY <1>2, <2>3 DEF evdi_platform_device_add, tableVars
      <3> HIDE DEF i
      <3>2. PICK r \in Runs : /\ run' = [run EXCEPT ![p] = r] /\ r.pc = "link" /\ r.slot = i
                              /\ r.direct = run[p].direct
        BY <1>l, <2>1, <3>1
      <3>3. devices[i] \in DeviceRecords
        BY <1>0, <2>1 DEF InUse
      <3>4. OnlyServerIsMaster'
        BY <1>0, <3>1, <3>2, MasterKept
      <3> QED BY <1>0, <2>1, <3>1, <3>2, <3>3, <3>4, FoundKeeps
    <2> QED BY <2>2, <2>3
  <1> QED BY <1>1, <1>2

LEMMA LinkKeeps ==
    ASSUME DevicesInv, NEW p \in Processes, evdi_platform_device_link(p)
    PROVE  DevicesInv'
  <1> DEFINE l == run[p]
  <1>0. /\ allowance \in Allowances /\ run \in [Processes -> Runs] /\ l \in Runs
        /\ devices \in [Indices -> DeviceRecords \cup {Null}]
        /\ l.pc = "link" /\ l.parent \in Usbs \cup {Null}
        /\ l.slot = Gone \/ (l.slot \in Indices /\ devices[l.slot] \in DeviceRecords)
        /\ UNCHANGED <<drm, lock, present, notifier, handle, card_usage, allowance>>
    BY DEF DevicesInv, DevicesTypes, evdi_platform_device_link, At, usbVars, libVars, Removes, Runs
  <1>1. PICK r \in Runs : /\ run' = [run EXCEPT ![p] = r] /\ r.pc \in {"idle", "again", "add"}
                          /\ r.direct = l.direct
    <2>1. CASE l.left > 1
      <3> DEFINE r == [l EXCEPT !.pc = "add", !.left = @ - 1]
      <3>0. l.left - 1 \in Nat
        <4>1. l.left \in Nat
          BY <1>0 DEF Runs
        <4> HIDE DEF l
        <4> QED BY <2>1, <4>1
      <3>1. r \in Runs /\ r.pc = "add" /\ r.direct = l.direct
        <4> DEFINE n == l.left - 1
        <4>1. n \in Nat /\ r = [l EXCEPT !.pc = "add", !.left = n]
          BY <3>0
        <4> HIDE DEF l, n, r
        <4> QED BY <1>0, <4>1 DEF Runs, RunPlaces
      <3>2. run' = [run EXCEPT ![p].pc = "add", ![p].left = @ - 1]
        BY <2>1 DEF evdi_platform_device_link
      <3>3. run' = [run EXCEPT ![p] = r]
        BY <1>0, <3>2 DEF Runs
      <3> QED BY <3>1, <3>3
    <2>2. CASE ~(l.left > 1)
      <3>1. WriteEnds(p)
        BY <2>2 DEF evdi_platform_device_link
      <3> QED BY <3>1, WriteEndsFacts
    <2> QED BY <2>1, <2>2
  <1>2. run' \in [Processes -> Runs] /\ run'[p] = r /\ \A x \in Processes : x # p => run'[x] = run[x]
    BY <1>0, <1>1
  <1>3. late \subseteq late'
    BY DEF evdi_platform_device_link
  <1>4. /\ devices' \in [Indices -> DeviceRecords \cup {Null}]
        /\ \A i \in Indices : \/ devices'[i] = devices[i]
                              \/ /\ devices'[i] \in DeviceRecords /\ devices[i] \in DeviceRecords
                                 /\ devices'[i].symlinked /\ devices'[i].parent \in present \cup late'
    <2>1. CASE devices' = devices
      BY <1>0, <2>1
    <2>2. CASE devices' # devices
      <3>1. /\ l.parent # Null /\ l.slot # Gone
            /\ devices' = [devices EXCEPT ![l.slot].symlinked = TRUE, ![l.slot].parent = l.parent]
            /\ late' = IF l.parent \in present THEN late ELSE late \cup {l.parent}
        BY <2>2 DEF evdi_platform_device_link
      <3>2. l.slot \in Indices /\ devices[l.slot] \in DeviceRecords
        BY <1>0, <3>1
      <3> DEFINE d == [devices[l.slot] EXCEPT !.symlinked = TRUE, !.parent = l.parent]
      <3>3. d \in DeviceRecords /\ d.symlinked /\ d.parent = l.parent
        BY <1>0, <3>2 DEF DeviceRecords
      <3>4. devices' = [devices EXCEPT ![l.slot] = d]
        BY <1>0, <3>1, <3>2 DEF DeviceRecords
      <3> HIDE DEF d
      <3>5. l.parent \in present \cup late'
        BY <3>1
      <3> QED BY <1>0, <3>2, <3>3, <3>4, <3>5
    <2> QED BY <2>1, <2>2
  <1> HIDE DEF l
  <1>5. DevicesTypes'
    BY <1>0, <1>2, <1>4 DEF DevicesInv, DevicesTypes
  <1>6. \A x \in Processes : Opens(x)'
    BY <1>0, <1>1, <1>2 DEF DevicesInv, Opens, Opening
  <1>7. \A x \in Processes : Removes(x)'
    <2> SUFFICES ASSUME NEW x \in Processes PROVE Removes(x)'
      OBVIOUS
    <2>1. CASE x = p
      BY <1>1, <1>2, <2>1 DEF Removes
    <2>2. CASE x # p
      <3>1. Removes(x) /\ run'[x] = run[x]
        BY <1>2, <2>2 DEF DevicesInv
      <3>2. \A y \in Processes : run'[y].pc = "link" => run[y].pc = "link" /\ run'[y].slot = run[y].slot
        BY <1>1, <1>2
      <3> QED BY <1>0, <1>4, <3>1, <3>2 DEF Removes
    <2> QED BY <2>1, <2>2
  <1>8. \A h \in Handles : Recorded(h)'
    <2> SUFFICES ASSUME NEW h \in Handles, handle[h] # Null, ~run'[handle[h].owner].direct
                 PROVE  card_usage[handle[h].owner][handle[h].card] = h
      BY <1>0 DEF Recorded
    <2>1. handle[h].owner \in Processes
      BY DEF DevicesInv, DevicesTypes, Opened
    <2>2. ~run[handle[h].owner].direct
      BY <1>1, <1>2, <2>1 DEF l
    <2> QED BY <2>2 DEF DevicesInv, Recorded
  <1>9. \A i \in Indices : Linked(i)'
    BY <1>0, <1>3, <1>4 DEF DevicesInv, Linked, InUse
  <1>10. OnlyServerIsMaster'
    <2>1. run[p].pc # "slave"
      BY <1>0 DEF l
    <2> QED BY <1>0, <1>2, <2>1, MasterKept
  <1> QED BY <1>5, <1>6, <1>7, <1>8, <1>9, <1>10 DEF DevicesInv

LEMMA RemoveAllKeeps ==
    ASSUME DevicesInv, NEW p \in Processes, evdi_platform_remove_all_devices(p)
    PROVE  DevicesInv'
  <1>0. /\ allowance \in Allowances /\ run \in [Processes -> Runs] /\ run[p] \in Runs
        /\ run[p].pc = "idle" /\ lock = Null /\ lock' = p /\ Take("removes")
        /\ UNCHANGED <<devices, drm, present, notifier, handle, card_usage, late>>
    BY DEF DevicesInv, DevicesTypes, evdi_platform_remove_all_devices, usbVars, libVars
  <1> DEFINE r == [run[p] EXCEPT !.pc = "remove", !.slot = 1]
  <1>1. r \in Runs /\ r.pc = "remove" /\ r.slot = 1 /\ r.direct = run[p].direct
    <2>1. 1 \in 0 .. EVDI_DEVICE_COUNT_MAX + 1
      BY DevicesAssumption
    <2> QED BY <1>0, <2>1 DEF Runs, RunPlaces
  <1>2. run' = [run EXCEPT ![p] = r]
    BY <1>0 DEF evdi_platform_remove_all_devices
  <1> HIDE DEF r
  <1>3. run' \in [Processes -> Runs] /\ run'[p] = r /\ \A x \in Processes : x # p => run'[x] = run[x]
    BY <1>0, <1>1, <1>2
  <1>4. allowance' \in Allowances
    BY <1>0, TakeFacts
  <1>5. DevicesTypes'
    BY <1>0, <1>3, <1>4 DEF DevicesInv, DevicesTypes
  <1>6. \A x \in Processes : Opens(x)'
    BY <1>0, <1>1, <1>3 DEF DevicesInv, Opens, Opening
  <1>7. \A x \in Processes : run[x].pc \notin {"remove", "clear"}
    BY <1>0, DevicesAssumption DEF DevicesInv, Removes
  <1>8. \A x \in Processes : Removes(x)'
    BY <1>0, <1>1, <1>3, <1>7 DEF DevicesInv, Removes
  <1>9. \A h \in Handles : Recorded(h)'
    <2> SUFFICES ASSUME NEW h \in Handles, handle[h] # Null, ~run'[handle[h].owner].direct
                 PROVE  card_usage[handle[h].owner][handle[h].card] = h
      BY <1>0 DEF Recorded
    <2>1. handle[h].owner \in Processes
      BY DEF DevicesInv, DevicesTypes, Opened
    <2>2. ~run[handle[h].owner].direct
      BY <1>1, <1>3, <2>1
    <2> QED BY <2>2 DEF DevicesInv, Recorded
  <1>10. \A i \in Indices : Linked(i)'
    BY <1>0 DEF DevicesInv, Linked, InUse
  <1>11. OnlyServerIsMaster'
    BY <1>0, <1>3, MasterKept
  <1> QED BY <1>5, <1>6, <1>8, <1>9, <1>10, <1>11 DEF DevicesInv

(* The device of a table entry is unregistered: who was about to link it points
   to a device that is gone.                                                *)
LEMMA UnregisterKeeps ==
    ASSUME DevicesInv, NEW p \in Processes, evdi_platform_device_remove(p),
           ~(run[p].slot > EVDI_DEVICE_COUNT_MAX), InUse(run[p].slot)
    PROVE  DevicesInv'
  <1> DEFINE i == run[p].slot
  <1>0. /\ run \in [Processes -> Runs] /\ run[p] \in Runs /\ drm \in [Cards -> Drms]
        /\ devices \in [Indices -> DeviceRecords \cup {Null}]
        /\ run[p].pc = "remove" /\ lock = p /\ i >= 1 /\ i \in 0 .. EVDI_DEVICE_COUNT_MAX + 1
        /\ UNCHANGED <<lock, present, notifier, handle, card_usage, allowance, late>>
    BY DEF DevicesInv, DevicesTypes, evdi_platform_device_remove, At, usbVars, libVars, Removes, Runs
  <1>1. i \in Indices
    BY <1>0, DevicesAssumption DEF Indices
  <1>2. devices[i] \in DeviceRecords
    BY <1>0, <1>1 DEF InUse
  <1>3. /\ devices' = [devices EXCEPT ![i].freed = TRUE]
        /\ drm' = IF Unbound(i) THEN drm ELSE [drm EXCEPT ![devices[i].card] = evdi_drm_device_remove(@)]
        /\ run' = [x \in Processes |->
                      IF x = p THEN [run[x] EXCEPT !.pc = "clear"]
                      ELSE IF run[x].pc = "link" /\ run[x].slot = i
                      THEN [run[x] EXCEPT !.slot = Gone] ELSE run[x]]
    BY DEF evdi_platform_device_remove
  <1>4. /\ devices' \in [Indices -> DeviceRecords \cup {Null}] /\ devices'[i] \in DeviceRecords
        /\ \A j \in Indices : j # i => devices'[j] = devices[j]
        /\ devices'[i].parent = devices[i].parent /\ devices'[i].symlinked = devices[i].symlinked
    <2> DEFINE d == [devices[i] EXCEPT !.freed = TRUE]
    <2>1. d \in DeviceRecords /\ d.parent = devices[i].parent /\ d.symlinked = devices[i].symlinked
      BY <1>2 DEF DeviceRecords
    <2>2. devices' = [devices EXCEPT ![i] = d]
      BY <1>3
    <2> HIDE DEF d, i
    <2> QED BY <1>0, <1>1, <2>1, <2>2
  <1>5. /\ run' \in [Processes -> Runs] /\ run'[p] = [run[p] EXCEPT !.pc = "clear"]
        /\ \A x \in Processes : x # p => \/ run'[x] = run[x] /\ ~(run[x].pc = "link" /\ run[x].slot = i)
                                         \/ /\ run[x].pc = "link" /\ run[x].slot = i
                                            /\ run'[x] = [run[x] EXCEPT !.slot = Gone]
    <2>1. [run[p] EXCEPT !.pc = "clear"] \in Runs
      BY <1>0 DEF Runs, RunPlaces
    <2>2. \A x \in Processes : [run[x] EXCEPT !.slot = Gone] \in Runs
      BY <1>0, DevicesAssumption DEF Runs, Gone
    <2> QED BY <1>0, <1>3, <2>1, <2>2
  <1>6. /\ run'[p].pc = "clear" /\ run'[p].slot = i
        /\ \A x \in Processes : run'[x].direct = run[x].direct /\ run'[x].card = run[x].card /\ run'[x].file = run[x].file
        /\ \A x \in Processes : x # p => run'[x].pc = run[x].pc
        /\ \A x \in Processes : run[x].pc # "link" /\ x # p => run'[x] = run[x]
        /\ \A x \in Processes : run'[x].pc = "link" =>
              run'[x].slot = Gone \/ (run'[x].slot = run[x].slot /\ run[x].pc = "link" /\ run[x].slot # i)
    <2>1. /\ [run[p] EXCEPT !.pc = "clear"].pc = "clear" /\ [run[p] EXCEPT !.pc = "clear"].slot = i
          /\ [run[p] EXCEPT !.pc = "clear"].direct = run[p].direct
          /\ [run[p] EXCEPT !.pc = "clear"].card = run[p].card
          /\ [run[p] EXCEPT !.pc = "clear"].file = run[p].file
      BY <1>0 DEF Runs
    <2>2. \A x \in Processes : LET r == [run[x] EXCEPT !.slot = Gone]
                               IN  /\ r.pc = run[x].pc /\ r.slot = Gone /\ r.direct = run[x].direct
                                   /\ r.card = run[x].card /\ r.file = run[x].file
      BY <1>0 DEF Runs
    <2> HIDE DEF i
    <2>3. run'[p].pc = "clear" /\ run'[p].slot = i
      BY <1>5, <2>1
    <2>4. ASSUME NEW x \in Processes
          PROVE  run'[x].direct = run[x].direct /\ run'[x].card = run[x].card /\ run'[x].file = run[x].file
      <3>1. CASE x = p
        <4>1. run'[p] = [run[p] EXCEPT !.pc = "clear"]
          BY <1>5
        <4> QED BY <2>1, <3>1, <4>1, Zenon
      <3>2. CASE x # p
        <4>1. run'[x] = run[x] \/ run'[x] = [run[x] EXCEPT !.slot = Gone]
          BY <1>5, <3>2
        <4> QED BY <2>2, <4>1
      <3> QED BY <3>1, <3>2
    <2>5. \A x \in Processes : x # p => run'[x].pc = run[x].pc
      BY <1>5, <2>2
    <2>6. \A x \in Processes : run[x].pc # "link" /\ x # p => run'[x] = run[x]
      BY <1>5
    <2>7. ASSUME NEW x \in Processes, run'[x].pc = "link"
          PROVE  run'[x].slot = Gone \/ (run'[x].slot = run[x].slot /\ run[x].pc = "link" /\ run[x].slot # i)
      <3>1. x # p
        BY <2>3, <2>7
      <3> QED BY <1>5, <2>2, <2>7, <3>1
    <2> QED BY <2>3, <2>4, <2>5, <2>6, <2>7
  <1>7. drm' \in [Cards -> Drms] /\ OnlyServerIsMaster'
    <2>1. CASE Unbound(i)
      <3>1. drm' = drm
        BY <1>3, <2>1
      <3>2. \A c \in Cards : drm[c].master \in {Null, Server} \cup
               {run[x].file : x \in {y \in Processes : run[y].pc = "slave" /\ run[y].card = c}}
        BY DEF DevicesInv, OnlyServerIsMaster
      <3>3. \A x \in Processes : run[x].pc = "slave" => run'[x] = run[x]
        BY <1>0, <1>6
      <3> QED BY <1>0, <3>1, <3>2, <3>3 DEF OnlyServerIsMaster
    <2>2. CASE ~Unbound(i)
      <3> DEFINE c == devices[i].card
                 d == evdi_drm_device_remove(drm[c])
      <3>1. c \in Cards
        BY <1>2, <2>2 DEF Unbound, DeviceRecords, InUse
      <3>2. drm' = [drm EXCEPT ![c] = d]
        BY <1>3, <2>2
      <3>3. d \in Drms /\ d.master \in {Null, drm[c].master}
        <4>1. drm[c] \in Drms /\ Server \in Files
          BY <1>0, <3>1 DEF Files
        <4> QED BY <4>1, DrmFacts
      <3>4. \A x \in Processes : run[x].pc = "slave" => run'[x] = run[x]
        BY <1>0, <1>6
      <3> HIDE DEF c, d
      <3>5. drm' \in [Cards -> Drms]
        BY <1>0, <3>1, <3>2, <3>3
      <3> QED BY <3>1, <3>2, <3>3, <3>4, <3>5, MasterGoes
    <2> QED BY <2>1, <2>2
  <1>8. DevicesTypes'
    BY <1>0, <1>4, <1>5, <1>7 DEF DevicesInv, DevicesTypes
  <1> HIDE DEF i
  <1>9. \A x \in Processes : Opens(x)'
    <2> SUFFICES ASSUME NEW x \in Processes PROVE Opens(x)'
      OBVIOUS
    <2>1. Opens(x) /\ (Opening(x)' => Opening(x) /\ run'[x].pc = run[x].pc)
      BY <1>6 DEF DevicesInv, Opening
    <2> QED BY <1>0, <1>6, <2>1 DEF Opens
  <1>10. \A x \in Processes : Removes(x)'
    <2> SUFFICES ASSUME NEW x \in Processes PROVE Removes(x)'
      OBVIOUS
    <2>1. CASE x = p
      <3>1. \A y \in Processes : run'[y].pc = "link" => run'[y].slot # i
        BY <1>1, <1>6, DevicesAssumption DEF Gone, Indices
      <3>2. i >= 1
        BY <1>0 DEF i
      <3> QED BY <1>0, <1>1, <1>6, <2>1, <3>1, <3>2 DEF Removes
    <2>2. CASE x # p
      <3>1. Removes(x) /\ run'[x].pc = run[x].pc
        BY <1>6, <2>2 DEF DevicesInv
      <3>2. run[x].pc \notin {"remove", "clear"}
        BY <1>0, <2>2, <3>1 DEF Removes
      <3>3. \A j \in Indices : devices[j] \in DeviceRecords => devices'[j] \in DeviceRecords
        BY <1>4
      <3> QED BY <1>6, <3>1, <3>2, <3>3 DEF Removes
    <2> QED BY <2>1, <2>2
  <1>11. \A h \in Handles : Recorded(h)'
    <2> SUFFICES ASSUME NEW h \in Handles, handle[h] # Null, ~run'[handle[h].owner].direct
                 PROVE  card_usage[handle[h].owner][handle[h].card] = h
      BY <1>0 DEF Recorded
    <2>1. handle[h].owner \in Processes
      BY DEF DevicesInv, DevicesTypes, Opened
    <2>2. ~run[handle[h].owner].direct
      BY <1>6, <2>1
    <2> QED BY <2>2 DEF DevicesInv, Recorded
  <1>12. \A j \in Indices : Linked(j)'
    <2> SUFFICES ASSUME NEW j \in Indices PROVE Linked(j)'
      OBVIOUS
    <2>1. Linked(j)
      BY DEF DevicesInv
    <2>2. devices'[j] # Null => /\ devices[j] # Null /\ devices'[j].parent = devices[j].parent
                                /\ devices'[j].symlinked = devices[j].symlinked
      BY <1>4 DEF InUse, i
    <2> QED BY <1>0, <2>1, <2>2 DEF Linked, InUse
  <1> QED BY <1>7, <1>8, <1>9, <1>10, <1>11, <1>12 DEF DevicesInv

LEMMA RemoveKeeps ==
    ASSUME DevicesInv, NEW p \in Processes, evdi_platform_device_remove(p)
    PROVE  DevicesInv'
  <1> DEFINE i == run[p].slot
  <1>0. /\ run \in [Processes -> Runs] /\ run[p] \in Runs
        /\ run[p].pc = "remove" /\ lock = p /\ i >= 1 /\ i \in 0 .. EVDI_DEVICE_COUNT_MAX + 1
        /\ UNCHANGED <<present, notifier, handle, card_usage, allowance, late>>
    BY DEF DevicesInv, DevicesTypes, evdi_platform_device_remove, At, usbVars, libVars, Removes, Runs
  <1>1. CASE ~(i > EVDI_DEVICE_COUNT_MAX) /\ InUse(i)
    BY <1>1, UnregisterKeeps
  <1>2. CASE i > EVDI_DEVICE_COUNT_MAX \/ ~InUse(i)
    <2>1. PICK r \in Runs : /\ run' = [run EXCEPT ![p] = r] /\ r.direct = run[p].direct
                            /\ \/ r.pc = "idle" /\ lock' = Null
                               \/ r.pc = "remove" /\ r.slot >= 1 /\ lock' = p
      <3>1. CASE i > EVDI_DEVICE_COUNT_MAX
        <4>1. Fresh(p) \in Runs /\ Fresh(p).direct = run[p].direct /\ Fresh(p).pc = "idle"
          BY <1>0, DevicesAssumption DEF Fresh, Idle, Runs, RunPlaces
        <4>2. run' = [run EXCEPT ![p] = Fresh(p)] /\ lock' = Null
          BY <3>1 DEF evdi_platform_device_remove
        <4> QED BY <4>1, <4>2
      <3>2. CASE ~(i > EVDI_DEVICE_COUNT_MAX)
        <4> DEFINE k == i + 1
                   r == [run[p] EXCEPT !.slot = k]
        <4>1. k \in 0 .. EVDI_DEVICE_COUNT_MAX + 1 /\ k >= 1
          <5> HIDE DEF i
          <5> QED BY <1>0, <3>2, DevicesAssumption
        <4>2. run' = [run EXCEPT ![p] = r] /\ lock' = lock
          BY <1>2, <3>2 DEF evdi_platform_device_remove, tableVars
        <4> HIDE DEF k
        <4>3. r \in Runs /\ r.pc = run[p].pc /\ r.slot = k /\ r.direct = run[p].direct
          BY <1>0, <4>1 DEF Runs
        <4> HIDE DEF r
        <4> QED BY <1>0, <4>1, <4>2, <4>3
      <3> QED BY <3>1, <3>2
    <2>2. devices' = devices /\ drm' = drm
      BY <1>2 DEF evdi_platform_device_remove, tableVars
    <2> HIDE DEF i
    <2>3. run' \in [Processes -> Runs] /\ run'[p] = r /\ \A x \in Processes : x # p => run'[x] = run[x]
      BY <1>0, <2>1
    <2>4. DevicesTypes'
      BY <1>0, <2>2, <2>3 DEF DevicesInv, DevicesTypes
    <2>5. \A x \in Processes : Opens(x)'
      BY <1>0, <2>1, <2>3 DEF DevicesInv, Opens, Opening
    <2>6. \A x \in Processes : x # p => run[x].pc \notin {"remove", "clear"}
      BY <1>0 DEF DevicesInv, Removes
    <2>7. \A x \in Processes : Removes(x)'
      BY <1>0, <2>1, <2>2, <2>3, <2>6 DEF DevicesInv, Removes
    <2>8. \A h \in Handles : Recorded(h)'
      <3> SUFFICES ASSUME NEW h \in Handles, handle[h] # Null, ~run'[handle[h].owner].direct
                   PROVE  card_usage[handle[h].owner][handle[h].card] = h
        BY <1>0 DEF Recorded
      <3>1. handle[h].owner \in Processes
        BY DEF DevicesInv, DevicesTypes, Opened
      <3>2. ~run[handle[h].owner].direct
        BY <2>1, <2>3, <3>1
      <3> QED BY <3>2 DEF DevicesInv, Recorded
    <2>9. \A j \in Indices : Linked(j)'
      BY <1>0, <2>2 DEF DevicesInv, Linked, InUse
    <2>10. OnlyServerIsMaster'
      BY <1>0, <2>2, <2>3, MasterKept
    <2> QED BY <2>4, <2>5, <2>7, <2>8, <2>9, <2>10 DEF DevicesInv
  <1> QED BY <1>1, <1>2

LEMMA ClearKeeps ==
    ASSUME DevicesInv, NEW p \in Processes, RemoveClears(p)
    PROVE  DevicesInv'
  <1> DEFINE i == run[p].slot
  <1>0. /\ run \in [Processes -> Runs] /\ run[p] \in Runs /\ run[p].pc = "clear" /\ lock = p
        /\ devices \in [Indices -> DeviceRecords \cup {Null}]
        /\ i \in Indices /\ \A x \in Processes : run[x].pc = "link" => run[x].slot # i
        /\ devices' = [devices EXCEPT ![i] = Null]
        /\ UNCHANGED <<drm, lock, present, notifier, handle, card_usage, allowance, late>>
    BY DEF DevicesInv, DevicesTypes, RemoveClears, At, usbVars, libVars, Removes
  <1>1. PICK r \in Runs : /\ run' = [run EXCEPT ![p] = r] /\ r.direct = run[p].direct
                          /\ r.pc = "remove" /\ r.slot >= 1
    <2> DEFINE k == i + 1
               r == [run[p] EXCEPT !.pc = "remove", !.slot = k]
    <2>1. k \in 0 .. EVDI_DEVICE_COUNT_MAX + 1 /\ k >= 1
      <3> HIDE DEF i
      <3> QED BY <1>0, DevicesAssumption DEF Indices
    <2>2. run' = [run EXCEPT ![p] = r]
      BY DEF RemoveClears
    <2> HIDE DEF k
    <2>3. r \in Runs /\ r.pc = "remove" /\ r.slot = k /\ r.direct = run[p].direct
      BY <1>0, <2>1 DEF Runs, RunPlaces
    <2> HIDE DEF r
    <2> QED BY <2>1, <2>2, <2>3
  <1> HIDE DEF i
  <1>2. run' \in [Processes -> Runs] /\ run'[p] = r /\ \A x \in Processes : x # p => run'[x] = run[x]
    BY <1>0, <1>1
  <1>3. /\ devices' \in [Indices -> DeviceRecords \cup {Null}]
        /\ devices'[i] = Null /\ \A j \in Indices : j # i => devices'[j] = devices[j]
    BY <1>0
  <1>4. DevicesTypes'
    BY <1>0, <1>2, <1>3 DEF DevicesInv, DevicesTypes
  <1>5. \A x \in Processes : Opens(x)'
    BY <1>0, <1>1, <1>2 DEF DevicesInv, Opens, Opening
  <1>6. \A x \in Processes : Removes(x)'
    <2> SUFFICES ASSUME NEW x \in Processes PROVE Removes(x)'
      OBVIOUS
    <2>1. CASE x = p
      BY <1>0, <1>1, <1>2, <2>1 DEF Removes
    <2>2. CASE x # p
      <3>1. Removes(x) /\ run'[x] = run[x]
        BY <1>2, <2>2 DEF DevicesInv
      <3>2. run[x].pc \notin {"remove", "clear"}
        BY <1>0, <2>2, <3>1 DEF Removes
      <3> QED BY <1>0, <1>3, <3>1, <3>2 DEF Removes
    <2> QED BY <2>1, <2>2
  <1>7. \A h \in Handles : Recorded(h)'
    <2> SUFFICES ASSUME NEW h \in Handles, handle[h] # Null, ~run'[handle[h].owner].direct
                 PROVE  card_usage[handle[h].owner][handle[h].card] = h
      BY <1>0 DEF Recorded
    <2>1. handle[h].owner \in Processes
      BY DEF DevicesInv, DevicesTypes, Opened
    <2>2. ~run[handle[h].owner].direct
      BY <1>1, <1>2, <2>1
    <2> QED BY <2>2 DEF DevicesInv, Recorded
  <1>8. \A j \in Indices : Linked(j)'
    BY <1>0, <1>3 DEF DevicesInv, Linked, InUse
  <1>9. OnlyServerIsMaster'
    BY <1>0, <1>2, MasterKept
  <1> QED BY <1>4, <1>5, <1>6, <1>7, <1>8, <1>9 DEF DevicesInv

(* Steps of USB: the processes and the DRM devices are as they were.        *)
LEMMA TableKeeps ==
    ASSUME DevicesInv, DevicesTypes', UNCHANGED <<lock, drm, handle, card_usage, run>>,
           \A i \in Indices : devices[i] \in DeviceRecords => devices'[i] \in DeviceRecords,
           \A i \in Indices : Linked(i)'
    PROVE  DevicesInv'
  <1>1. \A p \in Processes : Opens(p)' /\ Removes(p)'
    BY DEF DevicesInv, Opens, Opening, Removes
  <1>2. (\A h \in Handles : Recorded(h)') /\ OnlyServerIsMaster'
    BY DEF DevicesInv, Recorded, OnlyServerIsMaster
  <1> QED BY <1>1, <1>2 DEF DevicesInv

LEMMA UnplugKeeps ==
    ASSUME DevicesInv, NEW u \in allowance.usbs, Unplug(u)
    PROVE  DevicesInv'
  <1>0. /\ u \in present /\ notifier.usb = Null /\ Take("unplugs") /\ allowance \in Allowances
        /\ present' = present \ {u} /\ notifier' = [usb |-> u, slot |-> 1]
        /\ UNCHANGED <<devices, lock, drm, handle, card_usage, run, late>>
    BY DEF Unplug, tableVars, libVars, DevicesInv, DevicesTypes
  <1>1. u \in Usbs /\ allowance' \in Allowances
    BY <1>0, TakeFacts DEF Allowances
  <1>2. notifier' \in [usb : Usbs \cup {Null}, slot : Indices] /\ notifier'.usb = u /\ notifier'.slot = 1
    BY <1>0, <1>1, DevicesAssumption DEF Indices
  <1>3. DevicesTypes'
    BY <1>0, <1>1, <1>2 DEF DevicesInv, DevicesTypes
  <1>4. ASSUME NEW i \in Indices PROVE Linked(i)'
    <2>1. Linked(i) /\ 1 <= i
      BY DevicesAssumption DEF DevicesInv, Indices
    <2> QED BY <1>0, <1>2, <2>1 DEF Linked, InUse
  <1> QED BY <1>0, <1>3, <1>4, TableKeeps

LEMMA NotifierKeeps ==
    ASSUME DevicesInv, evdi_platform_drv_usb
    PROVE  DevicesInv'
  <1> DEFINE i == notifier.slot
  <1>0. /\ notifier \in [usb : Usbs \cup {Null}, slot : Indices] /\ i \in Indices
        /\ devices \in [Indices -> DeviceRecords \cup {Null}] /\ notifier.usb # Null
        /\ UNCHANGED <<lock, drm, present, handle, card_usage, run, allowance, late>>
    BY DEF evdi_platform_drv_usb, libVars, DevicesInv, DevicesTypes
  <1>1. CASE InUse(i) /\ (devices[i].freed \/ Unbound(i))
    <2>1. UNCHANGED <<devices, notifier>>
      BY <1>1 DEF evdi_platform_drv_usb
    <2>2. DevicesTypes'
      BY <1>0, <2>1 DEF DevicesInv, DevicesTypes
    <2>3. \A j \in Indices : Linked(j)'
      BY <1>0, <2>1 DEF DevicesInv, Linked, InUse
    <2> QED BY <1>0, <2>1, <2>2, <2>3, TableKeeps
  <1>2. CASE ~(InUse(i) /\ (devices[i].freed \/ Unbound(i)))
    <2> DEFINE d == evdi_platform_device_unlink_if_linked_with(devices[i])
    <2>1. /\ devices' = IF InUse(i) THEN [devices EXCEPT ![i] = d] ELSE devices
          /\ notifier' = IF i = EVDI_DEVICE_COUNT_MAX THEN [usb |-> Null, slot |-> 1]
                         ELSE [notifier EXCEPT !.slot = @ + 1]
      BY <1>2 DEF evdi_platform_drv_usb
    <2>2. InUse(i) => /\ devices[i] \in DeviceRecords /\ d \in DeviceRecords
                      /\ d.parent # Null => d = devices[i] /\ d.parent # notifier.usb
      BY <1>0 DEF InUse, evdi_platform_device_unlink_if_linked_with, DeviceRecords
    <2> HIDE DEF d
    <2>3. /\ devices' \in [Indices -> DeviceRecords \cup {Null}]
          /\ \A j \in Indices : j # i => devices'[j] = devices[j]
          /\ InUse(i) => devices'[i] = d
          /\ ~InUse(i) => devices'[i] = devices[i]
      BY <1>0, <2>1, <2>2
    <2>4. /\ notifier' \in [usb : Usbs \cup {Null}, slot : Indices]
          /\ i # EVDI_DEVICE_COUNT_MAX => notifier'.usb = notifier.usb /\ notifier'.slot = i + 1
      <3>1. CASE i = EVDI_DEVICE_COUNT_MAX
        <4>1. notifier' = [usb |-> Null, slot |-> 1] /\ 1 \in Indices
          BY <2>1, <3>1, DevicesAssumption DEF Indices
        <4> QED BY <3>1, <4>1
      <3>2. CASE i # EVDI_DEVICE_COUNT_MAX
        <4> DEFINE k == i + 1
        <4>1. k \in Indices
          <5> HIDE DEF i
          <5> QED BY <1>0, <3>2, DevicesAssumption DEF Indices
        <4>2. notifier' = [notifier EXCEPT !.slot = k]
          BY <2>1, <3>2
        <4> HIDE DEF k
        <4>3. /\ [notifier EXCEPT !.slot = k] \in [usb : Usbs \cup {Null}, slot : Indices]
              /\ [notifier EXCEPT !.slot = k].usb = notifier.usb /\ [notifier EXCEPT !.slot = k].slot = k
          BY <1>0, <4>1
        <4> QED BY <4>2, <4>3 DEF k
      <3> QED BY <3>1, <3>2
    <2>5. DevicesTypes'
      BY <1>0, <2>3, <2>4 DEF DevicesInv, DevicesTypes
    <2>6. \A j \in Indices : devices[j] \in DeviceRecords => devices'[j] \in DeviceRecords
      BY <2>2, <2>3 DEF InUse
    <2>7. ASSUME NEW j \in Indices PROVE Linked(j)'
      <3> SUFFICES ASSUME devices'[j] # Null, devices'[j].parent # Null
                   PROVE  /\ devices'[j].symlinked
                          /\ \/ devices'[j].parent \in present \cup late
                             \/ notifier'.usb = devices'[j].parent /\ notifier'.slot <= j
        BY <1>0 DEF Linked, InUse
      <3>1. /\ devices'[j] = devices[j]
            /\ j = i => devices[j].parent # notifier.usb
        <4>1. CASE j # i
          BY <2>3, <4>1
        <4>2. CASE j = i
          <5>1. InUse(i)
            BY <2>3, <4>2 DEF InUse
          <5>2. devices'[j] = d
            BY <2>3, <4>2, <5>1
          <5>3. d = devices[i] /\ d.parent # notifier.usb
            BY <2>2, <5>1, <5>2
          <5> HIDE DEF i
          <5> QED BY <4>2, <5>2, <5>3
        <4> QED BY <4>1, <4>2
      <3>2. /\ devices[j].symlinked
            /\ \/ devices[j].parent \in present \cup late
               \/ notifier.usb = devices[j].parent /\ i <= j
        BY <3>1 DEF DevicesInv, Linked, InUse
      <3>3. CASE devices[j].parent \in present \cup late
        BY <3>1, <3>2, <3>3
      <3>4. CASE notifier.usb = devices[j].parent /\ i <= j
        <4> HIDE DEF i
        <4>1. i # j /\ i # EVDI_DEVICE_COUNT_MAX /\ i + 1 <= j
          BY <1>0, <3>1, <3>4, DevicesAssumption DEF Indices
        <4> QED BY <2>4, <3>1, <3>2, <3>4, <4>1
      <3> QED BY <3>2, <3>3, <3>4
    <2> QED BY <1>0, <2>5, <2>6, <2>7, TableKeeps
  <1> QED BY <1>1, <1>2

LEMMA DevicesStep == DevicesInv /\ [DevicesNext]_devicesVars => DevicesInv'
  <1> SUFFICES ASSUME DevicesInv, [DevicesNext]_devicesVars PROVE DevicesInv'
    OBVIOUS
  <1>1. ASSUME UNCHANGED devicesVars PROVE DevicesInv'
    <2>1. UNCHANGED <<devices, lock, drm, present, notifier, handle, card_usage, run, allowance, late>>
      BY <1>1 DEF devicesVars, tableVars, usbVars, libVars
    <2>2. DevicesTypes'
      BY <2>1 DEF DevicesInv, DevicesTypes
    <2>3. \A i \in Indices : Linked(i)'
      BY <2>1 DEF DevicesInv, Linked, InUse
    <2> QED BY <2>1, <2>2, <2>3, TableKeeps
  <1>2. ASSUME NEW p \in Processes,
               \/ \E n \in allowance.counts : add_store(p, n)
               \/ \E u \in allowance.usbs : add_device_with_usb_path(p, u)
               \/ \E u \in allowance.usbs \cup {Null} : evdi_open_attached_to(p, u)
               \/ \E c \in Cards : OpenNumber(p, c)
               \/ \E h \in Handles : evdi_close(p, h) \/ evdi_connect(p, h) \/ evdi_disconnect(p, h)
               \/ evdi_platform_add_devices(p) \/ evdi_platform_device_attach(p)
               \/ evdi_platform_device_add(p) \/ evdi_platform_device_link(p)
               \/ evdi_platform_remove_all_devices(p) \/ evdi_platform_device_remove(p)
               \/ RemoveClears(p) \/ FindCard(p)
               \/ wait_for_master(p) \/ wait_for_device(p) \/ open_as_slave(p) \/ evdi_open(p)
        PROVE  DevicesInv'
    BY <1>2, SysfsKeeps, CloseKeeps, ConnectKeeps, AddKeeps, LinkKeeps, RemoveAllKeeps, RemoveKeeps,
       ClearKeeps, DeviceOpens, SlaveOpens, OpenKeeps
  <1> QED BY <1>1, <1>2, ServerKeeps, UnplugKeeps, NotifierKeeps DEF DevicesNext

(* The inductive invariant of the devices and the library.                  *)
THEOREM DevicesInvariant == DevicesSpec => []DevicesInv
  BY DevicesInitHolds, DevicesStep, PTL DEF DevicesSpec

(* HandlesOwnCards: card_usage of a process that opens no card by its number
   has each of its handles at the card of the handle, so that no two have one
   card (evdi_open, evdi_close, find_unused_card_for of evdi_lib.c).        *)
THEOREM HandlesAreApart == DevicesSpec => []HandlesOwnCards
  <1>1. DevicesInv => HandlesOwnCards
    BY DEF DevicesInv, Recorded, HandlesOwnCards
  <1> QED BY <1>1, DevicesInvariant, PTL

(* OnlyServerIsMaster: whatever fails or goes between open_as_slave and
   evdi_open, no handle stays the master of a card.                         *)
THEOREM ServerKeepsTheCards == DevicesSpec => []OnlyServerIsMaster
  <1>1. DevicesInv => OnlyServerIsMaster
    BY DEF DevicesInv
  <1> QED BY <1>1, DevicesInvariant, PTL

(* NoStaleLink: the notifier, which walks over the table without its lock,
   passes every device that is linked to the parent that goes.              *)
THEOREM LinksAreCut == DevicesSpec => []NoStaleLink
  <1>1. DevicesInv => NoStaleLink
    BY DEF DevicesInv, Linked, NoStaleLink
  <1> QED BY <1>1, DevicesInvariant, PTL

==============================================================================
