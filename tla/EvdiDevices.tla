----------------------------- MODULE EvdiDevices -----------------------------
(***************************************************************************)
(* How evdi devices come, are used and go: the table of platform devices   *)
(* (evdi_platform_drv.c, evdi_platform_dev.c), the sysfs files that fill   *)
(* and empty it (evdi_sysfs.c), the DRM device of each (evdi_drm_drv.c),   *)
(* and the library with which processes find, open and close them          *)
(* (evdi_lib.c).                                                           *)
(*                                                                         *)
(* What runs under the lock of the table is one step, but for the removal  *)
(* of all devices, whose steps the USB notifier can see: it takes no lock. *)
(* A write to sysfs and a call of the library take several steps of their  *)
(* process.  A pointer that is used after its object is gone, or is NULL,  *)
(* sets oops and ends the behaviour.                                       *)
(***************************************************************************)
EXTENDS Integers, FiniteSets

CONSTANTS
    EVDI_DEVICE_COUNT_MAX,
    Cards,                      \* minor numbers: 0 .. EVDI_USAGE_LEN - 1 in the library
    Usbs, Processes, Handles,
    Server,                     \* the file of the display server
    Scenarios,                  \* how often each thing may happen
    Null

ASSUME DevicesAssumption ==
    /\ EVDI_DEVICE_COUNT_MAX \in Nat \ {0} /\ Cards \subseteq Nat
    /\ Null \notin Handles /\ Null \notin Processes /\ Null \notin Cards
    /\ Scenarios \subseteq [adds : Nat, removes : Nat, opens : Nat, numbers : Nat, closes : Nat,
                            connects : Nat, unplugs : Nat, servers : Nat, counts : SUBSET Nat,
                            usbs : SUBSET Usbs, faults : BOOLEAN]

VARIABLES
    devices, dev_count, lock,   \* struct evdi_platform_drv_context
    drm,                        \* the DRM devices, by minor number
    present, notifier,          \* USB devices, and where the notifier is
    handle, card_usage,         \* of the library in each process
    run,                        \* what each process is doing
    allowance, oops,
    late                        \* links made to a parent that was already gone

tableVars == <<devices, dev_count, lock>>
usbVars   == <<present, notifier>>
libVars   == <<handle, card_usage>>
devicesVars == <<tableVars, drm, usbVars, libVars, run, allowance, oops, late>>

Indices == 1 .. EVDI_DEVICE_COUNT_MAX
Gone  == 0              \* where a pointer to a freed device points

(* struct evdi_platform_device_data; card is Null if the probe failed.      *)
Device(c) == [card |-> c, symlinked |-> FALSE, parent |-> Null, freed |-> FALSE]

(* registered: user space can open it.  private: dev_private is there.
   filp: the file that is connected to the painter.  master: the file that may
   set modes.                                                               *)
NoDrm == [registered |-> FALSE, private |-> FALSE, files |-> {}, filp |-> Null, master |-> Null]

Idle == [pc |-> "idle", parent |-> Null, left |-> 0, slot |-> 0, card |-> Null, file |-> Null,
         then |-> "idle", direct |-> FALSE]

DevicesInit ==
    /\ devices = [i \in Indices |-> Null] /\ dev_count = 0 /\ lock = Null
    /\ drm = [c \in Cards |-> NoDrm]
    /\ present = Usbs /\ notifier = [usb |-> Null, slot |-> 1]
    /\ handle = [h \in Handles |-> Null]
    /\ card_usage = [p \in Processes |-> [c \in Cards |-> Null]]
    /\ run = [p \in Processes |-> Idle]
    /\ allowance \in Scenarios /\ oops = FALSE /\ late = {}

Take(what) == /\ allowance[what] > 0 /\ ~oops
              /\ allowance' = [allowance EXCEPT ![what] = @ - 1]

At(p, pc) == run[p].pc = pc /\ ~oops

Fresh(p) == [Idle EXCEPT !.direct = run[p].direct]

(* A process ends a write to sysfs: the call of the library it was made for
   goes on, if there is one.                                                *)
WriteEnds(p) == run' = [run EXCEPT ![p].pc = run[p].then, ![p].parent =
                           IF run[p].then = "idle" THEN Null ELSE @]

Oops == oops' = TRUE

-----------------------------------------------------------------------------
(* The DRM device.                                                          *)

(* The last reference, of the platform device or of an open file, frees the
   private data; then the minor number can be used again.                   *)
evdi_drm_device_release_cb(d) ==
    IF d.registered \/ d.files # {} THEN d ELSE NoDrm

evdi_drm_device_remove(d) ==
    evdi_drm_device_release_cb([d EXCEPT !.registered = FALSE])

(* The smallest minor number that is free, if there is one.                 *)
FreeCard == {c \in Cards : drm[c] = NoDrm /\ \A b \in Cards : b < c => drm[b] # NoDrm}

(* evdi_painter_close: a file that is connected disconnects.                *)
evdi_driver_close(d, h) ==
    evdi_drm_device_release_cb([d EXCEPT !.files = @ \ {h},
                                         !.filp = IF @ = h THEN Null ELSE @,
                                         !.master = IF @ = h THEN Null ELSE @])

(* The first file that is opened on a device is its master.                 *)
FileOpens(d, f) == [d EXCEPT !.files = @ \cup {f}, !.master = IF @ = Null THEN f ELSE @]

-----------------------------------------------------------------------------
(* The table of devices.                                                    *)

InUse(i) == devices[i] # Null

evdi_platform_drv_get_free_idx == CHOOSE i \in Indices : /\ ~InUse(i)
                                                         /\ \A j \in Indices : j < i => InUse(j)

evdi_platform_device_is_free(i) ==
    /\ drm[devices[i].card].private /\ drm[devices[i].card].filp = Null
    /\ ~devices[i].symlinked

(* The scan stops at the first free device; one without data is a null
   pointer to it.                                                           *)
Unbound(i) == InUse(i) /\ devices[i].card = Null
ScanStops  == {i \in Indices : InUse(i) /\ (Unbound(i) \/ evdi_platform_device_is_free(i))}
evdi_platform_drv_get_free_device == CHOOSE i \in ScanStops : \A j \in ScanStops : i <= j

(* The probe may fail; the platform device is there all the same.           *)
evdi_platform_drv_create_new_device(p) ==
    IF (\A i \in Indices : InUse(i)) \/ dev_count >= EVDI_DEVICE_COUNT_MAX
    THEN WriteEnds(p) /\ UNCHANGED <<tableVars, drm>>
    ELSE LET i == evdi_platform_drv_get_free_idx
         IN  /\ \E c \in FreeCard \cup (IF allowance.faults \/ FreeCard = {} THEN {Null} ELSE {}) :
                   /\ devices' = [devices EXCEPT ![i] = Device(c)]
                   /\ drm' = IF c = Null THEN drm
                             ELSE [drm EXCEPT ![c] = [NoDrm EXCEPT !.registered = TRUE,
                                                                   !.private = TRUE]]
             /\ dev_count' = dev_count + 1
             /\ run' = [run EXCEPT ![p].pc = "link", ![p].slot = i]
             /\ UNCHANGED lock

(* A device for a parent is a free one before it is a new one.              *)
evdi_platform_device_add(p) ==
    /\ At(p, "add") /\ lock = Null
    /\ IF run[p].parent = Null \/ ScanStops = {}
       THEN evdi_platform_drv_create_new_device(p) /\ UNCHANGED oops
       ELSE LET i == evdi_platform_drv_get_free_device
            IN  IF Unbound(i) THEN Oops /\ UNCHANGED <<tableVars, drm, run>>
                ELSE /\ run' = [run EXCEPT ![p].pc = "link", ![p].slot = i]
                     /\ UNCHANGED <<tableVars, drm, oops>>
    /\ UNCHANGED <<usbVars, libVars, allowance, late>>

(* Without the lock: the device may be another process's by now, or gone.   *)
evdi_platform_device_link(p) ==
    /\ At(p, "link")
    /\ LET r == run[p]
       IN  /\ IF r.parent # Null /\ (r.slot = Gone \/ Unbound(r.slot))
              THEN Oops /\ UNCHANGED <<devices, late>>
              ELSE IF r.parent # Null /\ evdi_platform_device_is_free(r.slot)
              THEN /\ devices' = [devices EXCEPT ![r.slot].symlinked = TRUE,
                                                 ![r.slot].parent = r.parent]
                   /\ late' = IF r.parent \in present THEN late ELSE late \cup {r.parent}
                   /\ UNCHANGED oops
              ELSE UNCHANGED <<devices, oops, late>>
           /\ IF r.left > 1 THEN run' = [run EXCEPT ![p].pc = "add", ![p].left = @ - 1]
                            ELSE WriteEnds(p)
    /\ UNCHANGED <<dev_count, lock, drm, usbVars, libVars, allowance>>

evdi_platform_remove_all_devices(p) ==
    /\ run[p].pc = "idle" /\ lock = Null /\ Take("removes")
    /\ lock' = p /\ run' = [run EXCEPT ![p].pc = "remove", ![p].slot = 1]
    /\ UNCHANGED <<devices, dev_count, drm, usbVars, libVars, oops, late>>

evdi_platform_device_remove(p) ==
    /\ At(p, "remove")
    /\ LET i == run[p].slot
       IN  IF i > EVDI_DEVICE_COUNT_MAX
           THEN /\ dev_count' = 0 /\ lock' = Null /\ run' = [run EXCEPT ![p] = Fresh(p)]
                /\ UNCHANGED <<devices, drm>>
           ELSE IF InUse(i)
           THEN /\ devices' = [devices EXCEPT ![i].freed = TRUE]
                /\ drm' = IF Unbound(i) THEN drm
                          ELSE [drm EXCEPT ![devices[i].card] = evdi_drm_device_remove(@)]
                /\ run' = [x \in Processes |->
                              IF x = p THEN [run[x] EXCEPT !.pc = "clear"]
                              ELSE IF run[x].pc = "link" /\ run[x].slot = i
                              THEN [run[x] EXCEPT !.slot = Gone] ELSE run[x]]
                /\ UNCHANGED <<dev_count, lock>>
           ELSE run' = [run EXCEPT ![p].slot = @ + 1] /\ UNCHANGED <<tableVars, drm>>
    /\ UNCHANGED <<usbVars, libVars, allowance, oops, late>>

RemoveClears(p) ==
    /\ At(p, "clear")
    /\ devices' = [devices EXCEPT ![run[p].slot] = Null] /\ dev_count' = dev_count - 1
    /\ run' = [run EXCEPT ![p].pc = "remove", ![p].slot = @ + 1]
    /\ UNCHANGED <<lock, drm, usbVars, libVars, allowance, oops, late>>

-----------------------------------------------------------------------------
(* A USB device goes; the notifier walks over the table without its lock.   *)

Unplug(u) ==
    /\ u \in present /\ notifier.usb = Null /\ Take("unplugs")
    /\ present' = present \ {u} /\ notifier' = [usb |-> u, slot |-> 1]
    /\ UNCHANGED <<tableVars, drm, libVars, run, oops, late>>

(* A mutant: the link goes, and the parent is still remembered.             *)
UnlinkKeepsParent(d) ==
    IF d.parent = notifier.usb THEN [d EXCEPT !.symlinked = FALSE] ELSE d

evdi_platform_device_unlink_if_linked_with(d) ==
    IF d.parent = notifier.usb THEN [d EXCEPT !.symlinked = FALSE, !.parent = Null] ELSE d

(* Our devices have no parent of their own: the rest of the loop of the code,
   which destroys a device whose parent goes, is never taken.               *)
evdi_platform_drv_usb ==
    /\ notifier.usb # Null /\ ~oops
    /\ LET i == notifier.slot
       IN  IF InUse(i) /\ (devices[i].freed \/ Unbound(i))
           THEN Oops /\ UNCHANGED <<devices, notifier>>
           ELSE /\ devices' = IF InUse(i)
                              THEN [devices EXCEPT ![i] =
                                       evdi_platform_device_unlink_if_linked_with(@)]
                              ELSE devices
                /\ notifier' = IF i = EVDI_DEVICE_COUNT_MAX THEN [usb |-> Null, slot |-> 1]
                               ELSE [notifier EXCEPT !.slot = @ + 1]
                /\ UNCHANGED oops
    /\ UNCHANGED <<dev_count, lock, drm, present, libVars, run, allowance, late>>

-----------------------------------------------------------------------------
(* Writes to the file add of sysfs: a number of devices, or a USB path.     *)

SysfsUnchanged == UNCHANGED <<tableVars, drm, usbVars, libVars, oops, late>>

add_store(p, n) ==
    /\ run[p].pc = "idle" /\ Take("adds")
    /\ run' = [run EXCEPT ![p] = [Fresh(p) EXCEPT !.pc = "count", !.left = n]]
    /\ SysfsUnchanged

(* The count is read in a lock of its own.                                  *)
evdi_platform_add_devices(p) ==
    /\ At(p, "count") /\ lock = Null
    /\ IF run[p].left = 0 \/ run[p].left > EVDI_DEVICE_COUNT_MAX - dev_count
       THEN WriteEnds(p)
       ELSE run' = [run EXCEPT ![p].pc = "add"]
    /\ SysfsUnchanged /\ UNCHANGED allowance

add_device_with_usb_path(p, u) ==
    /\ run[p].pc = "idle" /\ Take("adds")
    /\ run' = [run EXCEPT ![p] = [Fresh(p) EXCEPT !.pc = "attach", !.left = 1, !.parent = u]]
    /\ SysfsUnchanged

(* The parent is looked up and used later without a reference on it.        *)
evdi_platform_device_attach(p) ==
    /\ At(p, "attach")
    /\ IF run[p].parent \in present THEN run' = [run EXCEPT ![p].pc = "add"] ELSE WriteEnds(p)
    /\ SysfsUnchanged /\ UNCHANGED allowance

-----------------------------------------------------------------------------
(* The library.                                                             *)

evdi_open_attached_to(p, u) ==
    /\ run[p].pc = "idle" /\ Take("opens")
    /\ run' = [run EXCEPT ![p] = [Fresh(p) EXCEPT !.pc = "find", !.parent = u, !.left = 1,
                                                  !.then = "again"]]
    /\ SysfsUnchanged

is_correct_parent_device(d, u) == IF u = Null THEN ~d.symlinked
                                              ELSE d.symlinked /\ d.parent = u

(* The directory is read in any order.  A device without a card fails an
   assertion, which ends the process.                                       *)
Matching(p) == {i \in Indices : /\ InUse(i) /\ ~devices[i].freed
                                /\ is_correct_parent_device(devices[i], run[p].parent)}
find_unused_card_for(p) ==
    {devices[i].card : i \in {j \in Matching(p) : ~Unbound(j) /\
                                                  card_usage[p][devices[j].card] = Null}}

FindCard(p) ==
    /\ At(p, "find") \/ At(p, "again")
    /\ \/ \E c \in find_unused_card_for(p) :
             run' = [run EXCEPT ![p].pc = "open", ![p].card = c]
       \/ /\ \E i \in Matching(p) : Unbound(i)
          /\ run' = [run EXCEPT ![p].pc = "aborted"]
       \/ /\ find_unused_card_for(p) = {} /\ \A i \in Matching(p) : ~Unbound(i)
          /\ run' = IF run[p].pc = "again" THEN [run EXCEPT ![p] = Fresh(p)]
                    ELSE [run EXCEPT ![p].pc = IF run[p].parent = Null THEN "count" ELSE "attach"]
    /\ SysfsUnchanged /\ UNCHANGED allowance

(* Xorg, if it runs, is waited for until another process has the card open, or
   five seconds: the wait may end at any time.                              *)
wait_for_master(p) ==
    /\ At(p, "open") /\ run' = [run EXCEPT ![p].pc = "device"]
    /\ SysfsUnchanged /\ UNCHANGED allowance

(* A card that is gone is waited for, at most five seconds.                 *)
Unused == {h \in Handles : handle[h] = Null /\ \A c \in Cards : h \notin drm[c].files}

wait_for_device(p) ==
    /\ At(p, "device")
    /\ IF drm[run[p].card].registered /\ Unused # {}
       THEN LET h == CHOOSE g \in Unused : TRUE
            IN  /\ drm' = [drm EXCEPT ![run[p].card] = FileOpens(@, h)]
                /\ run' = [run EXCEPT ![p].pc = "slave", ![p].file = h]
       ELSE run' = [run EXCEPT ![p] = Fresh(p)] /\ UNCHANGED drm
    /\ UNCHANGED <<tableVars, usbVars, libVars, allowance, oops, late>>

(* Any answer but a refusal makes a file a master, that of an unplugged device
   too.                                                                     *)
drm_is_master(d, h) == ~d.registered \/ d.master = h

(* DRM_IOCTL_DROP_MASTER, which may fail.                                   *)
DropMaster(d, h) ==
    {IF d.registered /\ d.master = h THEN [d EXCEPT !.master = Null] ELSE d}
        \cup (IF allowance.faults THEN {d} ELSE {})

(* A mutant: a drop that failed is not noticed.                             *)
DropUnchecked(p) ==
    /\ At(p, "slave")
    /\ \E d \in DropMaster(drm[run[p].card], run[p].file) : drm' = [drm EXCEPT ![run[p].card] = d]
    /\ run' = [run EXCEPT ![p].pc = "opened"]
    /\ UNCHANGED <<tableVars, usbVars, libVars, allowance, oops, late>>

(* The file is closed if it stays a master, and opened again or given up.   *)
open_as_slave(p) ==
    /\ At(p, "slave")
    /\ LET c == run[p].card
           h == run[p].file
       IN  \E d \in DropMaster(drm[c], h) :
             IF drm_is_master(d, h)
             THEN /\ drm' = [drm EXCEPT ![c] = evdi_driver_close(@, h)]
                  /\ \/ run' = [run EXCEPT ![p].pc = "device", ![p].file = Null]
                     \/ run' = [run EXCEPT ![p] = Fresh(p)]
             ELSE /\ drm' = [drm EXCEPT ![c] = d]
                  /\ run' = [run EXCEPT ![p].pc = "opened"]
    /\ UNCHANGED <<tableVars, usbVars, libVars, allowance, oops, late>>

(* The version cannot be asked of a device that was unplugged meanwhile.    *)
is_evdi(d) == d.registered

(* The master is dropped once more, whatever the answer.                    *)
evdi_open(p) ==
    /\ At(p, "opened")
    /\ LET c == run[p].card
           h == run[p].file
       IN  IF is_evdi(drm[c])
           THEN /\ handle' = [handle EXCEPT ![h] = [owner |-> p, card |-> c]]
                /\ card_usage' = [card_usage EXCEPT ![p][c] = h]
                /\ \E d \in DropMaster(drm[c], h) : drm' = [drm EXCEPT ![c] = d]
           ELSE drm' = [drm EXCEPT ![c] = evdi_driver_close(@, h)] /\ UNCHANGED libVars
    /\ run' = [run EXCEPT ![p] = Fresh(p)]
    /\ UNCHANGED <<tableVars, usbVars, allowance, oops, late>>

(* The display server opens a card, asks to be its master if it is not, and
   closes a card that is gone.                                              *)
ServerOpens(c) ==
    /\ drm[c].registered /\ Server \notin drm[c].files /\ Take("servers")
    /\ drm' = [drm EXCEPT ![c] = FileOpens(@, Server)]
    /\ UNCHANGED <<tableVars, usbVars, libVars, run, oops, late>>

ServerSetsMaster(c) ==
    /\ drm[c].registered /\ Server \in drm[c].files /\ drm[c].master = Null /\ ~oops
    /\ drm' = [drm EXCEPT ![c].master = Server]
    /\ UNCHANGED <<tableVars, usbVars, libVars, run, allowance, oops, late>>

ServerCloses(c) ==
    /\ ~drm[c].registered /\ Server \in drm[c].files /\ ~oops
    /\ drm' = [drm EXCEPT ![c] = evdi_driver_close(@, Server)]
    /\ UNCHANGED <<tableVars, usbVars, libVars, run, allowance, oops, late>>

(* A program may also open a card by its number, and take over its entry.   *)
OpenNumber(p, c) ==
    /\ run[p].pc = "idle" /\ drm[c].registered /\ Take("numbers")
    /\ run' = [run EXCEPT ![p].pc = "open", ![p].card = c, ![p].direct = TRUE]
    /\ SysfsUnchanged

(* A mutant: every entry is marked as unused.                               *)
CloseForgetsAll(p, h) ==
    /\ run[p].pc = "idle" /\ handle[h] # Null /\ handle[h].owner = p /\ Take("closes")
    /\ drm' = [drm EXCEPT ![handle[h].card] = evdi_driver_close(@, h)]
    /\ handle' = [handle EXCEPT ![h] = Null]
    /\ card_usage' = [card_usage EXCEPT ![p] = [c \in Cards |-> Null]]
    /\ UNCHANGED <<tableVars, usbVars, run, oops, late>>

evdi_close(p, h) ==
    /\ run[p].pc = "idle" /\ handle[h] # Null /\ handle[h].owner = p /\ Take("closes")
    /\ drm' = [drm EXCEPT ![handle[h].card] = evdi_driver_close(@, h)]
    /\ handle' = [handle EXCEPT ![h] = Null]
    /\ card_usage' = [card_usage EXCEPT ![p] =
                         [c \in Cards |-> IF @[c] = h THEN Null ELSE @[c]]]
    /\ UNCHANGED <<tableVars, usbVars, run, oops, late>>

(* The ioctls do nothing on a device that was unplugged.                    *)
evdi_connect(p, h) ==
    /\ run[p].pc = "idle" /\ handle[h] # Null /\ handle[h].owner = p /\ Take("connects")
    /\ drm' = [drm EXCEPT ![handle[h].card].filp = IF drm[handle[h].card].registered THEN h ELSE @]
    /\ UNCHANGED <<tableVars, usbVars, libVars, run, oops, late>>

evdi_disconnect(p, h) ==
    /\ run[p].pc = "idle" /\ handle[h] # Null /\ handle[h].owner = p /\ Take("connects")
    /\ drm[handle[h].card].filp = h /\ drm[handle[h].card].registered
    /\ drm' = [drm EXCEPT ![handle[h].card].filp = Null]
    /\ UNCHANGED <<tableVars, usbVars, libVars, run, oops, late>>

-----------------------------------------------------------------------------
DevicesNext ==
    \/ \E p \in Processes :
          \/ \E n \in allowance.counts : add_store(p, n)
          \/ \E u \in allowance.usbs : add_device_with_usb_path(p, u)
          \/ \E u \in allowance.usbs \cup {Null} : evdi_open_attached_to(p, u)
          \/ \E c \in Cards : OpenNumber(p, c)
          \/ \E h \in Handles : evdi_close(p, h) \/ evdi_connect(p, h) \/ evdi_disconnect(p, h)
          \/ evdi_platform_add_devices(p) \/ evdi_platform_device_attach(p)
          \/ evdi_platform_device_add(p) \/ evdi_platform_device_link(p)
          \/ evdi_platform_remove_all_devices(p) \/ evdi_platform_device_remove(p)
          \/ RemoveClears(p) \/ FindCard(p)
          \/ wait_for_master(p) \/ wait_for_device(p) \/ open_as_slave(p) \/ evdi_open(p)
    \/ \E c \in Cards : ServerOpens(c) \/ ServerSetsMaster(c) \/ ServerCloses(c)
    \/ \E u \in allowance.usbs : Unplug(u)
    \/ evdi_platform_drv_usb

DevicesSpec == DevicesInit /\ [][DevicesNext]_devicesVars

-----------------------------------------------------------------------------
(* A process never has one card twice: what evdi_open_attached_to finds is not
   the card of a handle the process has open, even after devices were removed
   and made again.  (A program that opens cards by number takes over their
   entries, and can.)                                                       *)
HandlesOwnCards ==
    \A g, h \in Handles :
        /\ g # h /\ handle[g] # Null /\ handle[h] # Null
        /\ handle[g].owner = handle[h].owner /\ ~run[handle[g].owner].direct
        => handle[g].card # handle[h].card

(* Only the display server is master of a card, but for the moment in which the
   library opens it: no handle keeps the server from setting modes, also when
   the master cannot be dropped or the card goes in between.                *)
OnlyServerIsMaster ==
    \A c \in Cards : drm[c].master \in {Null, Server} \cup
        {run[p].file : p \in {x \in Processes : run[x].pc = "slave" /\ run[x].card = c}}

(* A parent that went leaves no device linked to it behind, which nobody could
   be given again; but for a link that was made from a lookup before it went. *)
NoStaleLink ==
    \A i \in Indices :
        InUse(i) /\ devices[i].parent # Null /\ notifier.usb = Null /\ ~oops =>
            devices[i].symlinked /\ devices[i].parent \in present \cup late
==============================================================================
