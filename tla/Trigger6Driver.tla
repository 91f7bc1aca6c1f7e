--------------------------- MODULE Trigger6Driver ---------------------------
(***************************************************************************)
(* The Linux driver, trigger6_drv.c with trigger6_commands.c: probing and  *)
(* disconnecting, suspending and resuming, and the mode and power of the   *)
(* output across atomic commits, with control messages that may be lost.   *)
(*                                                                         *)
(* The DRM core is external and modelled from how the driver hooks into    *)
(* it: it checks a new state, swaps it in, and a worker then runs the      *)
(* callbacks of the pipe in the order disable, update, enable.  The bytes  *)
(* of an update are in BulkTransfer.                                       *)
(***************************************************************************)
EXTENDS Naturals, Sequences

CONSTANTS
    DisplayModes,       \* what a client may ask for
    Resolution,         \* width, height and rate of each
    Table,              \* trigger6_device.modes, as resolutions
    NoMode

ASSUME DriverAssumption ==
    /\ NoMode \notin DisplayModes
    /\ Table \in Seq(Nat \X Nat \X Nat)

VARIABLES
    present,        \* the device is plugged in
    binding,        \* of the interface
    dmadev,         \* the pointer: "NULL" or "device"
    references,     \* taken on that device and not yet put
    crtc,           \* the software state: mode and active
    saved,          \* the state put aside by a suspend, or NoState
    job,            \* the commit at work, or NoJob
    device,         \* the state of the device: mode, on
    missed,         \* what the device was told last and did not hear
    unsent          \* history: the mode was set by a commit that left the output off

driverVars ==
    <<present, binding, dmadev, references, crtc, saved, job, device, missed, unsent>>

Off     == [mode |-> NoMode, active |-> FALSE]
States  == {s \in [mode : DisplayModes \cup {NoMode}, active : BOOLEAN] :
               s.mode = NoMode => ~s.active}
NoState == [mode |-> NoMode, active |-> TRUE]       \* not a state
NoJob   == [old |-> Off, new |-> Off, step |-> "none"]

-----------------------------------------------------------------------------
(* The first entry of the table with the resolution; 0 is the error pointer. *)
trigger6_get_mode(m) ==
    LET found == {i \in 1 .. Len(Table) : Table[i] = Resolution[m]}
    IN  IF found = {} THEN 0 ELSE CHOOSE i \in found : \A j \in found : i <= j

trigger6_pipe_mode_valid(m) == trigger6_get_mode(m) # 0

-----------------------------------------------------------------------------
DriverInit ==
    /\ present \in BOOLEAN /\ binding = "unbound"
    /\ dmadev = "NULL" /\ references = 0
    /\ crtc = Off /\ saved = NoState /\ job = NoJob
    /\ device = [mode |-> 0, on |-> FALSE]
    /\ missed = {"power", "mode"} /\ unsent = FALSE

Plug ==
    /\ ~present /\ binding = "unbound"
    /\ present' = TRUE
    /\ device' = [mode |-> 0, on |-> FALSE]
    /\ missed' = {"power", "mode"}
    /\ UNCHANGED <<binding, dmadev, references, crtc, saved, job, unsent>>

Unplug ==
    /\ present
    /\ present' = FALSE
    /\ UNCHANGED <<binding, dmadev, references, crtc, saved, job, device, missed, unsent>>

(* trigger6_usb_probe, to the look-up of the DMA device; the host controller
   may have none, which is not an error.                                    *)
Probe ==
    /\ present /\ binding = "unbound"
    /\ binding' = "probing"
    /\ \/ dmadev' = "device" /\ references' = references + 1
       \/ dmadev' = "NULL" /\ UNCHANGED references
    /\ crtc' = Off /\ saved' = NoState /\ unsent' = FALSE
    /\ UNCHANGED <<present, job, device, missed>>

(* The rest of it: the two reads of the mode table, the connector, the pipe and
   drm_dev_register.  The device may go at any point.                       *)
ProbeEnds ==
    /\ binding = "probing"
    /\ binding' = "bound"
    /\ UNCHANGED <<present, dmadev, references, crtc, saved, job, device, missed, unsent>>

(* Any of those steps fails, or a read is short: err_put_device.            *)
ProbeFails ==
    /\ binding = "probing"
    /\ binding' = "unbound"
    /\ references' = IF dmadev = "device" THEN references - 1 ELSE references
    /\ dmadev' = "NULL"        \* dies with the object
    /\ UNCHANGED <<present, crtc, saved, job, device, missed, unsent>>

-----------------------------------------------------------------------------
ModeChanged(j) == j.old.mode # j.new.mode
NeedsModeset(j) == ModeChanged(j) \/ j.old.active # j.new.active

Swap(new) ==
    /\ job' = [old |-> crtc, new |-> new, step |-> "disable"]
    /\ crtc' = new

(* A client's commit, once the check has accepted it.                       *)
Commit(new) ==
    /\ binding = "bound" /\ job = NoJob /\ saved = NoState
    /\ new.mode \notin {NoMode, crtc.mode} => trigger6_pipe_mode_valid(new.mode)
    /\ Swap(new)
    /\ unsent' = IF new.mode = crtc.mode THEN unsent ELSE ~new.active
    /\ UNCHANGED <<present, binding, dmadev, references, saved, device, missed>>

(* trigger6_enable_output, trigger6_disable_output.  A control message arrives
   or is lost; the driver does not look.                                    *)
SetPower(on) ==
    \/ /\ present
       /\ device' = [device EXCEPT !.on = on]
       /\ missed' = missed \ {"power"}
    \/ missed' = missed \cup {"power"} /\ UNCHANGED device

trigger6_pipe_disable ==
    /\ job.step = "disable"
    /\ job' = [job EXCEPT !.step = "update"]
    /\ IF job.old.active /\ NeedsModeset(job)
       THEN SetPower(FALSE)
       ELSE UNCHANGED <<device, missed>>
    /\ UNCHANGED <<present, binding, dmadev, references, crtc, saved, unsent>>

trigger6_pipe_update ==
    /\ job.step = "update"
    /\ job' = [job EXCEPT !.step = "enable"]
    /\ UNCHANGED <<present, binding, dmadev, references, crtc, saved, device, missed, unsent>>

(* A mutant: the mode is set only when the output was off before.           *)
EnableFromOff ==
    /\ job.step = "enable"
    /\ job' = IF job.new.active /\ ModeChanged(job) /\ ~job.old.active
              THEN [job EXCEPT !.step = "resolution"] ELSE NoJob
    /\ IF job.new.active /\ NeedsModeset(job)
       THEN SetPower(TRUE)
       ELSE UNCHANGED <<device, missed>>
    /\ UNCHANGED <<present, binding, dmadev, references, crtc, saved, unsent>>

(* trigger6_pipe_enable: the power, and the resolution if the mode changed. *)
trigger6_pipe_enable ==
    /\ job.step = "enable"
    /\ job' = IF job.new.active /\ ModeChanged(job)
              THEN [job EXCEPT !.step = "resolution"] ELSE NoJob
    /\ IF job.new.active /\ NeedsModeset(job)
       THEN SetPower(TRUE)
       ELSE UNCHANGED <<device, missed>>
    /\ UNCHANGED <<present, binding, dmadev, references, crtc, saved, unsent>>

trigger6_set_resolution ==
    /\ job.step = "resolution"
    /\ job' = NoJob
    /\ \/ /\ present
          /\ device' = [device EXCEPT !.mode = trigger6_get_mode(job.new.mode)]
          /\ missed' = missed \ {"mode"}
       \/ missed' = missed \cup {"mode"} /\ UNCHANGED device
    /\ UNCHANGED <<present, binding, dmadev, references, crtc, saved, unsent>>

Work ==
    \/ trigger6_pipe_disable \/ trigger6_pipe_update
    \/ trigger6_pipe_enable \/ trigger6_set_resolution

-----------------------------------------------------------------------------
(* drm_mode_config_helper_suspend puts the state aside and turns all off.   *)
trigger6_usb_suspend ==
    /\ binding = "bound" /\ job = NoJob /\ saved = NoState
    /\ saved' = crtc
    /\ Swap(Off)
    /\ UNCHANGED <<present, binding, dmadev, references, device, missed, unsent>>

trigger6_usb_resume ==
    /\ binding = "bound" /\ job = NoJob /\ saved # NoState
    /\ saved' = NoState
    /\ Swap(saved)
    /\ unsent' = (unsent /\ ~saved.active)
    /\ UNCHANGED <<present, binding, dmadev, references, device, missed>>

(* A mutant: a suspended device must be resumed first.                      *)
DisconnectResumed ==
    /\ binding = "bound" /\ saved = NoState
    /\ binding' = "unplugged"
    /\ UNCHANGED <<present, dmadev, references, crtc, saved, job, device, missed, unsent>>

(* trigger6_usb_disconnect.  The core calls it when the device is gone, or when
   the driver is unbound from a device that is still there.  It first stops
   new commits, in the middle of one or of a suspend (drm_dev_unplug), ...  *)
Disconnect ==
    /\ binding = "bound"
    /\ binding' = "unplugged"
    /\ UNCHANGED <<present, dmadev, references, crtc, saved, job, device, missed, unsent>>

(* ... then, after the commit at work, turns all off with a last one, ...   *)
Shutdown ==
    /\ binding = "unplugged" /\ job = NoJob
    /\ binding' = "disconnecting"
    /\ Swap(Off)
    /\ UNCHANGED <<present, dmadev, references, saved, device, missed, unsent>>

(* ... and puts the DMA device; put_device does nothing for NULL.           *)
DisconnectEnds ==
    /\ binding = "disconnecting" /\ job = NoJob
    /\ binding' = "unbound"
    /\ references' = IF dmadev = "device" THEN references - 1 ELSE references
    /\ dmadev' = "NULL"
    /\ UNCHANGED <<present, crtc, saved, job, device, missed, unsent>>

DriverNext ==
    \/ Plug \/ Unplug \/ Probe \/ ProbeEnds \/ ProbeFails
    \/ \E new \in States : Commit(new)
    \/ Work \/ trigger6_usb_suspend \/ trigger6_usb_resume
    \/ Disconnect \/ Shutdown \/ DisconnectEnds

DriverSpec == DriverInit /\ [][DriverNext]_driverVars

(* Every message ends, if only by its timeout, and the core disconnects what
   is gone.                                                                 *)
FairDriverSpec ==
    /\ DriverSpec
    /\ WF_driverVars(ProbeEnds \/ ProbeFails) /\ WF_driverVars(Work)
    /\ WF_driverVars(~present /\ Disconnect)
    /\ WF_driverVars(Shutdown) /\ WF_driverVars(DisconnectEnds)

-----------------------------------------------------------------------------
(* The state of the driver, with a reference count that never goes below zero. *)
DriverTypeOK ==
    /\ present \in BOOLEAN /\ binding \in {"unbound", "probing", "bound",
                                      "unplugged", "disconnecting"}
    /\ dmadev \in {"NULL", "device"} /\ references \in Nat
    /\ crtc \in States /\ saved \in States \cup {NoState}
    /\ job \in [old : States, new : States,
                step : {"none", "disable", "update", "enable", "resolution"}]
    /\ device \in [mode : 0 .. Len(Table), on : BOOLEAN]
    /\ missed \subseteq {"power", "mode"} /\ unsent \in BOOLEAN

(* Between commits the output is on exactly when the software state says so,
   and then in its mode, unless the last message about it was lost.  The
   driver sends the mode only with a commit that changes it, and relies on
   the device keeping it while the output is off and over a suspend.  One case
   is excepted, because the driver gets it wrong: the mode was set by a commit
   that left the output off, and neither another mode nor a resume followed.
   trigger6_pipe_enable does not run for that commit, and does not send the
   mode when the output is turned on later.                                 *)
DeviceFollows ==
    binding = "bound" /\ job = NoJob =>
        /\ "power" \notin missed => device.on = crtc.active
        /\ crtc.active /\ missed = {} /\ ~unsent =>
              device.mode = trigger6_get_mode(crtc.mode)

(* A device that is gone is let go of, even in the middle of a commit or a
   suspend.                                                                 *)
UnpluggedIsUnbound == ~present ~> binding = "unbound"

=============================================================================
