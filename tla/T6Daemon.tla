------------------------------- MODULE T6Daemon -------------------------------
(***************************************************************************)
(* The daemon of the dongle (main.c): a parent that forks a process for a  *)
(* device it finds, and in that process, for every display of the device,  *)
(* the thread that grabs and encodes (evdi_process), the thread that sends *)
(* (usb_process) and the thread that handles events (events_process), with *)
(* the queue between them (queue.c), the buffers they register with the    *)
(* library (evdi_lib.c), the table of cards in shared memory, and the      *)
(* thread that watches the plugs (int_process2).                           *)
(*                                                                         *)
(* The threads share a structure without a lock, and where one withdraws   *)
(* what others use it only sleeps for a moment, which waits for nothing.   *)
(* A failed assertion of the library aborts the process; a thread that     *)
(* uses memory after it was freed (Dangling) goes on with what is left     *)
(* there, or nothing can be said of the process any more.  Both set        *)
(* aborted, and the process takes no further step.                         *)
(***************************************************************************)
EXTENDS Integers, Sequences, FiniteSets

CONSTANTS
    Displays,           \* 0 .. number - 1
    Modes,              \* resolutions
    Slots,              \* evdi cards: 0 .. MAX_T6_DEVICES - 1
    QueueHigh,          \* 5 in the code: frames that may wait
    Workloads,          \* how often each thing may happen
    None

ASSUME DaemonAssumption ==
    /\ Slots \subseteq Nat /\ QueueHigh \in Nat \ {0}
    /\ None \notin Modes

VARIABLES
    (* struct T6evdi, for each display *)
    flags,                      \* event_process, image_work_process, usb_process
    disp_set_mode, size, video_buffer, jpg_queue, display_id, freed,
    registered,                 \* the list of buffers of its handle
    (* the threads *)
    evdi, usb, event,           \* where each is
    reader, int,                \* int_process, int_process2
    picture, frame,             \* what is being grabbed or encoded, and sent
    mode,                       \* the mode of the event being handled
    (* the process and the daemon *)
    process, detach_all_event, g_program_exit, box, aborted,
    (* the kernel and the device *)
    kmode, modeEvents, dirty,   \* the mode of each card, those not yet read, damage
    resolution, plugged, irq, pre_state,
    budget

sharedVars == <<flags, disp_set_mode, size, video_buffer, jpg_queue, display_id, freed,
                registered>>
threadVars == <<evdi, usb, event, reader, picture, frame, mode>>
hotplugVars == <<int, plugged, irq, pre_state, detach_all_event>>
kernelVars == <<kmode, modeEvents, dirty>>
vars == <<sharedVars, threadVars, hotplugVars, process, g_program_exit, box, aborted,
          kernelVars, resolution, budget>>

NoFlags == [event |-> FALSE, image |-> FALSE, usb |-> FALSE]
NoBuffer == [mode |-> None, live |-> FALSE]

Init ==
    /\ budget \in Workloads
    /\ flags = [d \in Displays |-> NoFlags]
    /\ disp_set_mode = [d \in Displays |-> FALSE] /\ size = [d \in Displays |-> None]
    /\ video_buffer = [d \in Displays |-> NoBuffer]
    /\ jpg_queue = [d \in Displays |-> <<>>] /\ display_id = [d \in Displays |-> 0]
    /\ freed = [d \in Displays |-> TRUE] /\ registered = [d \in Displays |-> None]
    /\ evdi = [d \in Displays |-> "done"] /\ usb = [d \in Displays |-> "done"]
    /\ event = [d \in Displays |-> "done"] /\ reader = [d \in Displays |-> "done"]
    /\ int = "done"
    /\ picture = [d \in Displays |-> None] /\ frame = [d \in Displays |-> None]
    /\ mode = [d \in Displays |-> None]
    /\ process = "none" /\ detach_all_event = FALSE /\ g_program_exit = FALSE
    /\ box = [s \in Slots |-> 0] /\ aborted = FALSE
    /\ kmode = [d \in Displays |-> None] /\ modeEvents = [d \in Displays |-> <<>>]
    /\ dirty = [d \in Displays |-> FALSE]
    /\ resolution = [d \in Displays |-> None]
    /\ plugged = [d \in Displays |-> d \in budget.plugged] /\ irq = FALSE
    /\ pre_state = plugged

(* queue.c: a list under a mutex.  queue_length reads without it.           *)
queue_create == <<>>
queue_add(queue, element) == Append(queue, element)
queue_length(queue) == Len(queue)
queue_first(queue) == Head(queue)
queue_remove(queue) == Tail(queue)
releses_queue(queue) == queue_create

(* The list of buffers of a handle of the library (evdi_lib.c): a display
   registers one at a time, under its own number.                           *)
findBuffer(d) == registered[d] # None
addFrameBuffer(d, dims) == registered' = [registered EXCEPT ![d] = dims]
removeFrameBuffer(d) == registered' = [registered EXCEPT ![d] = None]

(* Both assert: the buffer is there, or it is not.                          *)
evdi_unregister_buffer(d) == aborted' = ~findBuffer(d) /\ removeFrameBuffer(d)
evdi_register_buffer(d) == aborted' = findBuffer(d) /\ addFrameBuffer(d, size[d])

Spend(what) == budget[what] > 0 /\ ~aborted /\ budget' = [budget EXCEPT ![what] = @ - 1]

-----------------------------------------------------------------------------
(* The process: the parent looks for a device it can claim, every few seconds,
   and forks.                                                               *)

EnumT6Device ==
    /\ process = "none" /\ ~g_program_exit /\ Spend("forks")
    /\ process' = "join"
    /\ detach_all_event' = FALSE /\ int' = "start"
    /\ evdi' = [d \in Displays |-> "poll"] /\ freed' = [d \in Displays |-> FALSE]
    /\ display_id' = [d \in Displays |-> 0]
    /\ UNCHANGED <<flags, disp_set_mode, size, video_buffer, jpg_queue, registered, usb, event,
                   reader, picture, frame, mode, plugged, irq, pre_state, g_program_exit, box,
                   aborted, kernelVars, resolution>>

(* The threads of the displays are joined and the handle of the device is
   closed.                                                                  *)
CloseDevice ==
    /\ process = "join" /\ ~aborted
    /\ \A d \in Displays : evdi[d] = "done"
    /\ process' = "closed"
    /\ UNCHANGED <<sharedVars, threadVars, hotplugVars, g_program_exit, box, aborted,
                   kernelVars, resolution, budget>>

(* The thread that watches the plugs is joined and the process exits, with
   every thread that is left.                                               *)
create_wording_thread ==
    /\ process = "closed" /\ int = "done" /\ ~aborted
    /\ process' = "none"
    /\ usb' = [d \in Displays |-> "done"] /\ event' = [d \in Displays |-> "done"]
    /\ reader' = [d \in Displays |-> "done"]
    /\ UNCHANGED <<sharedVars, evdi, picture, frame, mode, hotplugVars, g_program_exit, box,
                   aborted, kernelVars, resolution, budget>>

(* A signal: every entry of the table is cleared, whoever has it.           *)
intHandler ==
    /\ ~g_program_exit /\ Spend("exits")
    /\ g_program_exit' = TRUE /\ box' = [s \in Slots |-> 0]
    /\ UNCHANGED <<sharedVars, threadVars, hotplugVars, process, aborted, kernelVars,
                   resolution>>

(* Dev_destroy frees the structure.  Pointers that were never set are freed
   as well, and so is a structure that is freed already.                    *)
Dev_destroy(d, setUp) ==
    /\ box' = [box EXCEPT ![display_id[d]] = 0]
    /\ video_buffer' = [video_buffer EXCEPT ![d].live = FALSE]
    /\ jpg_queue' = [jpg_queue EXCEPT ![d] = releses_queue(@)]
    /\ freed' = [freed EXCEPT ![d] = TRUE]
    /\ aborted' \in IF setUp /\ ~freed[d] THEN {FALSE} ELSE BOOLEAN

(* Memory that was freed is in use: the structure by a thread that runs on, the
   picture buffer, or its entry in the list of the library, by the copy or the
   encoder, the handle of the device by who reads its interrupts.           *)
Dangling(d) ==
    \/ freed[d] /\ \/ evdi[d] \in {"work", "grab", "copy", "encode"}
                   \/ "done" # usb[d] \/ "done" # event[d] \/ "done" # reader[d]
    \/ evdi[d] \in {"copy", "encode"} /\ ~video_buffer[d].live
    \/ evdi[d] = "copy" /\ ~findBuffer(d)
    \/ process = "closed" /\ (int # "done" \/ "done" # reader[d])

UseFreed(d) ==
    /\ Dangling(d) /\ ~aborted /\ aborted' = TRUE
    /\ UNCHANGED <<sharedVars, threadVars, hotplugVars, process, g_program_exit, box,
                   kernelVars, resolution, budget>>

-----------------------------------------------------------------------------
(* evdi_process.                                                            *)

E(d, pc) == evdi[d] = pc /\ ~aborted
EvdiAt(d, pc) == evdi' = [evdi EXCEPT ![d] = pc]

EvdiUnchanged == UNCHANGED <<usb, event, reader, frame, mode, hotplugVars, process,
                             g_program_exit, resolution, budget>>

(* The monitor is asked for its state and EDID each second.  A failure ends
   the display; a detach ends the loop, and the display goes on with no EDID. *)
PollMonitor(d) ==
    /\ E(d, "poll")
    /\ \/ /\ budget.faults /\ ~g_program_exit /\ Dev_destroy(d, FALSE) /\ EvdiAt(d, "done")
          /\ UNCHANGED <<flags, disp_set_mode, size, display_id, registered>>
       \/ /\ g_program_exit /\ EvdiAt(d, "done")
          /\ UNCHANGED <<sharedVars, box, aborted>>
       \/ /\ plugged[d] \/ detach_all_event
          /\ ~g_program_exit /\ EvdiAt(d, "claim")
          /\ UNCHANGED <<sharedVars, box, aborted>>
    /\ EvdiUnchanged /\ UNCHANGED <<picture, kernelVars>>

(* GetEvdi_id looks for an entry that is 0, and sets it, without a lock.    *)
FreeSlots == {s \in Slots : box[s] = 0}

GetEvdi_id(d) ==
    /\ E(d, "claim") /\ FreeSlots # {}
    /\ display_id' = [display_id EXCEPT ![d] = CHOOSE s \in FreeSlots :
                                                   \A t \in FreeSlots : s <= t]
    /\ EvdiAt(d, "claimed")
    /\ EvdiUnchanged
    /\ UNCHANGED <<flags, disp_set_mode, size, video_buffer, jpg_queue, freed, registered, box,
                   aborted, picture, kernelVars>>

SetBox(d) ==
    /\ E(d, "claimed")
    /\ box' = [box EXCEPT ![display_id[d]] = 1] /\ EvdiAt(d, "open")
    /\ EvdiUnchanged /\ UNCHANGED <<sharedVars, aborted, picture, kernelVars>>

(* The card is opened and connected, and the structure set up.              *)
evdi_process(d) ==
    /\ E(d, "open")
    /\ \/ /\ budget.faults /\ Dev_destroy(d, FALSE) /\ EvdiAt(d, "done")
          /\ UNCHANGED <<flags, disp_set_mode, size, display_id, registered>>
       \/ /\ flags' = [flags EXCEPT ![d] = [event |-> TRUE, image |-> TRUE, usb |-> TRUE]]
          /\ disp_set_mode' = [disp_set_mode EXCEPT ![d] = FALSE]
          /\ jpg_queue' = [jpg_queue EXCEPT ![d] = queue_create]
          /\ registered' = [registered EXCEPT ![d] = None]
          /\ EvdiAt(d, "event")
          /\ UNCHANGED <<size, video_buffer, display_id, freed, box, aborted>>
    /\ EvdiUnchanged /\ UNCHANGED <<picture, kernelVars>>

(* The threads are started one after the other: for the events, for sending
   and, where pictures are rotated, for the interrupts.                     *)
StartThread(d) ==
    /\ \/ /\ E(d, "event") /\ event' = [event EXCEPT ![d] = "loop"] /\ EvdiAt(d, "usb")
          /\ UNCHANGED <<usb, reader>>
       \/ /\ E(d, "usb") /\ usb' = [usb EXCEPT ![d] = "loop"]
          /\ EvdiAt(d, IF budget.rotate THEN "reader" ELSE "work") /\ UNCHANGED <<event, reader>>
       \/ /\ E(d, "reader") /\ reader' = [reader EXCEPT ![d] = "loop"] /\ EvdiAt(d, "work")
          /\ UNCHANGED <<usb, event>>
    /\ UNCHANGED <<sharedVars, picture, frame, mode, hotplugVars, process, g_program_exit, box,
                   aborted, kernelVars, resolution, budget>>

Disconnected(d) ==
    /\ kmode' = [kmode EXCEPT ![d] = None] /\ modeEvents' = [modeEvents EXCEPT ![d] = <<>>]
    /\ dirty' = [dirty EXCEPT ![d] = FALSE]

(* One cannot be started: the card is disconnected and closed and the structure
   freed, although those started before it run on.                          *)
StartFails(d) ==
    /\ E(d, "event") \/ E(d, "usb") \/ E(d, "reader")
    /\ budget.faults /\ Dev_destroy(d, FALSE) /\ Disconnected(d)
    /\ EvdiAt(d, "done") /\ EvdiUnchanged
    /\ UNCHANGED <<flags, disp_set_mode, size, display_id, registered, picture>>

Working(d) == flags[d].image /\ ~detach_all_event

(* evdi_request_update says that there is something to grab.                *)
Request(d) ==
    /\ E(d, "work") /\ Working(d)
    /\ queue_length(jpg_queue[d]) <= QueueHigh /\ dirty[d]
    /\ EvdiAt(d, "grab") /\ EvdiUnchanged
    /\ UNCHANGED <<sharedVars, box, aborted, picture, kernelVars>>

(* evdi_grab_pixels: without a registered buffer there are no rectangles, nor
   if the buffer has not the size of the mode.                              *)
evdi_grab_pixels(d) ==
    /\ E(d, "grab")
    /\ EvdiAt(d, IF findBuffer(d) THEN "copy" ELSE "work")
    /\ picture' = [picture EXCEPT ![d] = registered[d]]
    /\ EvdiUnchanged /\ UNCHANGED <<sharedVars, box, aborted, kernelVars>>

(* With rectangles and room in the queue the picture is encoded, with the width
   and height that the structure then has.                                  *)
Copied(d) ==
    /\ E(d, "copy")
    /\ dirty' = [dirty EXCEPT ![d] = FALSE]
    /\ EvdiAt(d, IF picture[d] = kmode[d] /\ queue_length(jpg_queue[d]) < QueueHigh
                 THEN "encode" ELSE "work")
    /\ picture' = [picture EXCEPT ![d] = size[d]]
    /\ EvdiUnchanged /\ UNCHANGED <<sharedVars, box, aborted, kmode, modeEvents>>

(* The picture, encoded and perhaps rotated, is queued; if that fails it is
   lost.                                                                    *)
Encode(d) ==
    /\ E(d, "encode")
    /\ \/ jpg_queue' = [jpg_queue EXCEPT ![d] = queue_add(@, picture[d])]
       \/ budget.faults /\ UNCHANGED jpg_queue
    /\ EvdiAt(d, "work") /\ EvdiUnchanged
    /\ UNCHANGED <<flags, disp_set_mode, size, video_buffer, display_id, freed, registered, box,
                   aborted, picture, kernelVars>>

(* A mutant: the thread that handles events is not told.                    *)
WorkEndsQuietly(d) ==
    /\ E(d, "work") /\ ~Working(d)
    /\ EvdiAt(d, "joinusb") /\ EvdiUnchanged
    /\ UNCHANGED <<sharedVars, box, aborted, picture, kernelVars>>

WorkEnds(d) ==
    /\ E(d, "work") /\ ~Working(d)
    /\ flags' = [flags EXCEPT ![d].event = FALSE] /\ EvdiAt(d, "joinusb")
    /\ EvdiUnchanged
    /\ UNCHANGED <<disp_set_mode, size, video_buffer, jpg_queue, display_id, freed, registered,
                   box, aborted, picture, kernelVars>>

JoinThreads(d) ==
    /\ \/ E(d, "joinusb") /\ usb[d] = "done" /\ EvdiAt(d, "joinevent")
       \/ E(d, "joinevent") /\ event[d] = "done" /\ EvdiAt(d, "done")
    /\ EvdiUnchanged /\ UNCHANGED <<sharedVars, box, aborted, picture, kernelVars>>

-----------------------------------------------------------------------------
(* usb_process.                                                             *)

U(d, pc) == usb[d] = pc /\ ~aborted
UsbAt(d, pc) == usb' = [usb EXCEPT ![d] = pc]

UsbUnchanged == UNCHANGED <<size, video_buffer, display_id, freed, registered, evdi, event,
                            reader, picture, mode, hotplugVars, process, g_program_exit, box,
                            aborted, kernelVars, resolution>>

Sending(d) == flags[d].usb /\ box[display_id[d]] = 1 /\ ~detach_all_event

(* What waited while the mode is being set is dropped.                      *)
Dequeue(d) ==
    /\ U(d, "loop") /\ Sending(d) /\ queue_length(jpg_queue[d]) > 0
    /\ jpg_queue' = [jpg_queue EXCEPT ![d] = queue_remove(@)]
    /\ IF disp_set_mode[d]
       THEN UsbAt(d, "flip") /\ frame' = [frame EXCEPT ![d] = queue_first(jpg_queue[d])]
       ELSE UNCHANGED <<usb, frame>>
    /\ UsbUnchanged /\ UNCHANGED <<flags, disp_set_mode, budget>>

(* A flip that fails resets the dongle and ends the thread.                 *)
Flip(d) ==
    /\ U(d, "flip")
    /\ frame' = [frame EXCEPT ![d] = None]
    /\ \/ UsbAt(d, "loop") /\ UNCHANGED budget
       \/ UsbAt(d, "end") /\ Spend("errors")
    /\ UsbUnchanged /\ UNCHANGED <<flags, disp_set_mode, jpg_queue>>

UsbEnds(d) ==
    /\ U(d, "end") \/ (U(d, "loop") /\ ~Sending(d))
    /\ disp_set_mode' = [disp_set_mode EXCEPT ![d] = FALSE]
    /\ flags' = [flags EXCEPT ![d].image = FALSE, ![d].usb = FALSE]
    /\ UsbAt(d, "done") /\ UsbUnchanged /\ UNCHANGED <<jpg_queue, frame, budget>>

-----------------------------------------------------------------------------
(* events_process.                                                          *)

V(d, pc) == event[d] = pc /\ ~aborted
EventAt(d, pc) == event' = [event EXCEPT ![d] = pc]

EventUnchanged == UNCHANGED <<evdi, usb, reader, picture, frame, hotplugVars, process,
                              g_program_exit>>

(* evdi_handle_events reads an event and calls its handler.                 *)
evdi_handle_event(d) ==
    /\ modeEvents[d] # <<>>
    /\ mode' = [mode EXCEPT ![d] = Head(modeEvents[d])]
    /\ modeEvents' = [modeEvents EXCEPT ![d] = Tail(@)]

mct_mode_changed_handler(d) ==
    /\ V(d, "loop") /\ flags[d].event /\ evdi_handle_event(d)
    /\ IF disp_set_mode[d]
       THEN /\ evdi_unregister_buffer(d)
            /\ disp_set_mode' = [disp_set_mode EXCEPT ![d] = FALSE]
            /\ EventAt(d, "nap")
       ELSE EventAt(d, "set") /\ UNCHANGED <<registered, disp_set_mode, aborted>>
    /\ EventUnchanged
    /\ UNCHANGED <<flags, size, video_buffer, jpg_queue, display_id, freed, box, kmode, dirty,
                   resolution, budget>>

(* After a sleep of 50 ms, whatever the other threads have begun.           *)
FreeBuffer(d) ==
    /\ V(d, "nap")
    /\ video_buffer' = [video_buffer EXCEPT ![d].live = FALSE] /\ EventAt(d, "set")
    /\ EventUnchanged
    /\ UNCHANGED <<flags, disp_set_mode, size, jpg_queue, display_id, freed, registered, box,
                   aborted, mode, kernelVars, resolution, budget>>

(* A mutant: only the first mode is sent to the port.                       *)
SetResolutionOnce(d) ==
    /\ V(d, "set")
    /\ resolution' = [resolution EXCEPT ![d] = IF @ = None THEN mode[d] ELSE @]
    /\ EventAt(d, "alloc") /\ EventUnchanged
    /\ UNCHANGED <<sharedVars, box, aborted, mode, kernelVars, budget>>

(* The resolution is sent under the lock of the control messages.           *)
SetResolution(d) ==
    /\ V(d, "set")
    /\ resolution' = [resolution EXCEPT ![d] = mode[d]]
    /\ EventAt(d, "alloc") /\ EventUnchanged
    /\ UNCHANGED <<sharedVars, box, aborted, mode, kernelVars, budget>>

(* A mutant: the mode counts as set before the memory is there.             *)
AllocateLate(d) ==
    /\ V(d, "alloc")
    /\ size' = [size EXCEPT ![d] = mode[d]]
    /\ disp_set_mode' = [disp_set_mode EXCEPT ![d] = TRUE]
    /\ \/ /\ video_buffer' = [video_buffer EXCEPT ![d] = [mode |-> mode[d], live |-> TRUE]]
          /\ EventAt(d, "register")
       \/ /\ budget.faults /\ video_buffer' = [video_buffer EXCEPT ![d] = NoBuffer]
          /\ EventAt(d, "loop")
    /\ EventUnchanged
    /\ UNCHANGED <<flags, jpg_queue, display_id, freed, registered, box, aborted, mode, kernelVars,
                   resolution, budget>>

(* Without memory the handler returns, and the mode stays unset.            *)
Allocate(d) ==
    /\ V(d, "alloc")
    /\ size' = [size EXCEPT ![d] = mode[d]]
    /\ \/ /\ video_buffer' = [video_buffer EXCEPT ![d] = [mode |-> mode[d], live |-> TRUE]]
          /\ disp_set_mode' = [disp_set_mode EXCEPT ![d] = TRUE]
          /\ EventAt(d, "register")
       \/ /\ budget.faults /\ video_buffer' = [video_buffer EXCEPT ![d] = NoBuffer]
          /\ EventAt(d, "loop") /\ UNCHANGED disp_set_mode
    /\ EventUnchanged
    /\ UNCHANGED <<flags, jpg_queue, display_id, freed, registered, box, aborted, mode, kernelVars,
                   resolution, budget>>

RegisterBuffer(d) ==
    /\ V(d, "register")
    /\ evdi_register_buffer(d) /\ EventAt(d, "loop")
    /\ EventUnchanged
    /\ UNCHANGED <<flags, disp_set_mode, size, video_buffer, jpg_queue, display_id, freed, box,
                   mode, kernelVars, resolution, budget>>

(* The loop ends when the flag is cleared, or when select fails.  The buffer
   is unregistered without asking whether there is one.                     *)
EventsEnd(d) ==
    /\ V(d, "loop")
    /\ \/ ~flags[d].event /\ UNCHANGED budget
       \/ flags[d].event /\ Spend("interrupts")
    /\ flags' = [flags EXCEPT ![d].event = FALSE, ![d].usb = FALSE]
    /\ box' = [box EXCEPT ![display_id[d]] = 0]
    /\ evdi_unregister_buffer(d)
    /\ EventAt(d, "disconnect") /\ EventUnchanged
    /\ UNCHANGED <<disp_set_mode, size, video_buffer, jpg_queue, display_id, freed, mode,
                   kernelVars, resolution>>

(* After a sleep of 100 ms the card is disconnected; after another it is closed
   and the structure freed.                                                 *)
EventsDisconnect(d) ==
    /\ V(d, "disconnect") /\ Disconnected(d) /\ EventAt(d, "close")
    /\ EventUnchanged /\ UNCHANGED <<sharedVars, box, aborted, mode, resolution, budget>>

EventsDestroy(d) ==
    /\ V(d, "close")
    /\ Dev_destroy(d, TRUE) /\ EventAt(d, "done") /\ EventUnchanged
    /\ UNCHANGED <<flags, disp_set_mode, size, display_id, registered, mode, kernelVars,
                   resolution, budget>>

-----------------------------------------------------------------------------
(* int_process2, and the plugs it watches.                                  *)

HotplugUnchanged == UNCHANGED <<sharedVars, threadVars, process, g_program_exit, box, aborted,
                                kernelVars, resolution>>

ReadPreState ==
    /\ int = "start" /\ ~aborted
    /\ int' = "loop" /\ pre_state' = plugged
    /\ UNCHANGED <<plugged, irq, detach_all_event, budget>> /\ HotplugUnchanged

int_process2 ==
    /\ int = "loop" /\ ~aborted
    /\ \/ /\ g_program_exit \/ budget.faults        \* the device may be gone
          /\ int' = "done" /\ UNCHANGED <<irq, detach_all_event>>
       \/ /\ irq /\ irq' = FALSE
          /\ IF plugged # pre_state /\ \E d \in Displays : ~plugged[d]
             THEN detach_all_event' = TRUE /\ int' = "done"
             ELSE UNCHANGED <<detach_all_event, int>>
    /\ UNCHANGED <<plugged, pre_state, budget>> /\ HotplugUnchanged

(* A display that rotates has a thread of its own that reads the same
   interrupts, and drops them.  Nobody joins it.                            *)
int_process(d) ==
    /\ reader[d] = "loop" /\ ~aborted
    /\ IF flags[d].usb THEN irq /\ irq' = FALSE /\ UNCHANGED reader
                       ELSE reader' = [reader EXCEPT ![d] = "done"] /\ UNCHANGED irq
    /\ UNCHANGED <<sharedVars, evdi, usb, event, picture, frame, mode, int, plugged, pre_state,
                   detach_all_event, process, g_program_exit, box, aborted, kernelVars,
                   resolution, budget>>

TogglePlug(d) ==
    /\ Spend("plugs")
    /\ plugged' = [plugged EXCEPT ![d] = ~@] /\ irq' = TRUE
    /\ UNCHANGED <<int, pre_state, detach_all_event>> /\ HotplugUnchanged

-----------------------------------------------------------------------------
(* The compositor sets a mode of the card or draws.                         *)

Connected(d) ==
    ~freed[d] /\ event[d] \in {"loop", "nap", "set", "alloc", "register", "disconnect"}

SetMode(d, new) ==
    /\ Connected(d) /\ kmode[d] # new /\ Spend("modes")
    /\ kmode' = [kmode EXCEPT ![d] = new]
    /\ modeEvents' = [modeEvents EXCEPT ![d] = Append(@, new)]
    /\ dirty' = [dirty EXCEPT ![d] = TRUE]
    /\ UNCHANGED <<sharedVars, threadVars, hotplugVars, process, g_program_exit, box, aborted,
                   resolution>>

Draw(d) ==
    /\ Connected(d) /\ kmode[d] # None /\ ~dirty[d] /\ ~aborted
    /\ dirty' = [dirty EXCEPT ![d] = TRUE]
    /\ UNCHANGED <<sharedVars, threadVars, hotplugVars, process, g_program_exit, box, aborted,
                   kmode, modeEvents, resolution, budget>>

-----------------------------------------------------------------------------
EvdiStep(d) == \/ PollMonitor(d) \/ GetEvdi_id(d) \/ SetBox(d) \/ evdi_process(d)
               \/ StartThread(d) \/ StartFails(d) \/ Request(d)
               \/ evdi_grab_pixels(d) \/ Copied(d) \/ Encode(d) \/ WorkEnds(d)
               \/ JoinThreads(d)
UsbStep(d)  == Dequeue(d) \/ Flip(d) \/ UsbEnds(d)
EventStep(d) == \/ mct_mode_changed_handler(d) \/ FreeBuffer(d) \/ SetResolution(d) \/ Allocate(d)
                \/ RegisterBuffer(d) \/ EventsEnd(d) \/ EventsDisconnect(d)
                \/ EventsDestroy(d)

Next ==
    \/ EnumT6Device \/ CloseDevice \/ create_wording_thread \/ intHandler
    \/ ReadPreState \/ int_process2
    \/ \E d \in Displays : \/ EvdiStep(d) \/ UsbStep(d) \/ EventStep(d) \/ int_process(d)
                           \/ UseFreed(d) \/ TogglePlug(d) \/ Draw(d)
                           \/ \E new \in Modes : SetMode(d, new)

Spec == Init /\ [][Next]_vars

(* Every thread that can run runs.                                          *)
FairSpec == Spec /\ \A d \in Displays : /\ WF_vars(EvdiStep(d)) /\ WF_vars(UsbStep(d))
                                        /\ WF_vars(EventStep(d))

-----------------------------------------------------------------------------
(* What the library asserts of its callers holds in the handler of a new mode,
   as long as the sending thread of the display has not ended: a mode that is
   set has a registered buffer, also after an allocation that failed, and the
   next buffer is registered after that one was withdrawn.  (Once the sending
   thread has cleared disp_set_mode, the buffer is never withdrawn and the next
   mode aborts the process; so does the end of a display that never had one.) *)
AssertionsHold ==
    \A d \in Displays : ~aborted =>
        /\ event[d] = "loop" /\ disp_set_mode[d] => registered[d] # None
        /\ event[d] = "register" /\ flags[d].usb => registered[d] = None

(* Pictures of an old mode, in the queue, in the encoder or in a transfer that
   outlasts the sleep, may be sent after the port has been set to the new one;
   but if modes stop to change, so does that, while the compositor draws on.  *)
FlipsSettle ==
    <>[](\A d \in Displays : usb[d] = "flip" /\ ~aborted => frame[d] = resolution[d])

(* A display that was told to stop, by a detach, by its entry in the table or
   by a failed transfer, ends: no thread waits for another that waits for it. *)
DisplayEnds ==
    \A d \in Displays :
        []<>~(/\ evdi[d] \in {"work", "joinusb", "joinevent"} /\ ~aborted
              /\ detach_all_event \/ box[display_id[d]] = 0 \/ ~flags[d].usb)

(* What the comment of int_process2 says: when one display is unplugged, all
   are detached.                                                            *)
UnplugDetaches ==
    /\ int = "loop" /\ ~irq /\ ~aborted
    /\ \E d \in Displays : evdi[d] = "work" /\ ~plugged[d]
    => detach_all_event
==============================================================================
