------------------------------ MODULE T6Protocol ------------------------------
(***************************************************************************)
(* A dongle and the programs that talk to it (t6usbdongle.c, main.c,       *)
(* T6contrl.c): each port of the daemon reads the EDID of its monitor,     *)
(* shows one to its card, lays out the memory, sets resolutions and flips  *)
(* pictures; the control tool stops the daemon to write new firmware.      *)
(***************************************************************************)
EXTENDS T6Edid, T6Frames

CONSTANTS
    Ports,          \* 0 .. number - 1
    Dvo,            \* the port with the external HDMI output
    Vga,            \* the ports with a VGA output
    Tables,         \* the timings the dongle lists for a port
    Monitors,       \* the EDIDs of the monitors a port may have
    CeaModes, HdmiModes,    \* the modes of the codes in an extension
    Generic, FourKEdid,     \* the modes of generic_edid and of EDID_4k_bin
    Lengths,        \* lengths of a JPEG with its 1072 bytes more
    Devices,        \* the dongles: on USB 3 or not, jpg_rotate, version 0 or not
    ResetFrames,    \* 10 in the code
    MaxFlips, MaxModes, MaxUpdates, Faults

ASSUME PortsAssumption == None \notin Ports
ASSUME LengthsAssumption == Lengths \subseteq 0 .. MB(3)
ASSUME MonitorsAssumption ==
    \A p \in Ports : \A e \in Monitors[p] :
        /\ e.extensions \in Nat /\ Len(e.exts) \in Nat
        /\ \A k \in 1 .. Len(e.exts) : LET bs == e.exts[k].blocks
                                      IN  Len(bs) \in Nat /\ DOMAIN bs = 1 .. Len(bs)

(* The codes CTA-861 was given after the table in cea_edid.c was written.   *)
AddedCodes == (108 .. 127) \cup (193 .. 219)

(* The tables of modes: generic_edid has none of 4K.  Those of CTA-861 and HDMI
   have 4K modes under the codes 93 to 107, with or without the mark of a
   native mode, under codes added since, and under the HDMI codes 1 to 4.    *)
ASSUME ModesAssumption ==
    /\ \A m \in Generic : ~FourK(m.w, m.h)
    /\ \A c \in DOMAIN CeaModes : FourK(CeaModes[c].w, CeaModes[c].h)
                                    => c % 128 \in 93 .. 107 \/ c \in AddedCodes
    /\ \A c \in DOMAIN HdmiModes : FourK(HdmiModes[c].w, HdmiModes[c].h) => c \in 1 .. 4

(* Every timing a dongle lists has a clock T6CalculatePixelClock can make.   *)
ASSUME TablesAssumption == \A p \in Ports : \A t \in Tables[p] :
    t.clock \in Nat /\ 25000 <= t.clock /\ t.clock <= 400000

(* "Two port dongle, internal HDMI port should be 1080p" (main.c:1127): of two
   ports one is the external output, and the other's dongle lists no 4K.     *)
ASSUME OutputsAssumption ==
    /\ \A p, q \in Ports : p = q \/ p = Dvo \/ q = Dvo
    /\ Ports = {0} \/ \A p \in Ports : p = Dvo \/ t6_libusb_get_4K_capbability(Tables[p], TRUE) = 0

VARIABLES
    device,
    monitor, phase, shows, bRun4K30,
    layout, cmdAddr, fbAddr, count,
    mode, timing,
    lock, pending,  \* the port between a header and its payload, and its flip
    expects,        \* what the dongle takes the next bulk transfer for
    recent,         \* the last three flips of a port
    misread, failed,    \* who was misunderstood since the last update began;
                        \* has a transfer of a flip, a mode or an update failed?
    flips, modes,
    service, tool, updates,
    unreset             \* was the reset of the last update the one that failed?

edidVars == <<monitor, shows, bRun4K30>>
memoryVars == <<layout, cmdAddr, fbAddr, count>>
flipVars == <<lock, pending, expects, recent, misread, failed, flips>>
modeVars == <<mode, timing, modes>>
toolVars == <<service, tool, updates, unreset>>
vars == <<device, phase, edidVars, memoryVars, flipVars, modeVars, toolVars>>

All(x) == [p \in Ports |-> x]

Init ==
    /\ device \in Devices
    /\ monitor \in {m \in [Ports -> UNION {Monitors[p] : p \in Ports}] :
                        \A p \in Ports : m[p] \in Monitors[p]}
    /\ phase = All("poll") /\ shows = All({}) /\ bRun4K30 = All(FALSE)
    /\ layout = All(None) /\ cmdAddr = All(0) /\ fbAddr = All(0) /\ count = All(0)
    /\ mode = All(None) /\ timing = All(None) /\ recent = All(<<>>)
    /\ lock = None /\ pending = None
    /\ expects = "command" /\ misread = {} /\ failed = FALSE /\ flips = 0 /\ modes = 0
    /\ service = TRUE /\ tool = "idle" /\ updates = 0 /\ unreset = FALSE

At(p, at) == service /\ phase[p] = at
Goes(p, at) == phase' = [phase EXCEPT ![p] = at]

-----------------------------------------------------------------------------
(* What the card makes of an EDID it is shown: the timings of its descriptors
   and of the descriptors and codes of every extension that is passed on.   *)
Timings(ds) == {[w |-> d.w, h |-> d.h, fps |-> d.fps] :
                   d \in {ds[i] : i \in {k \in DOMAIN ds : ds[k].tag = "timing"
                                                         /\ ds[k].total > 0}}}

BlockModes(b, known) ==
    LET codes == {b.codes[i] : i \in DOMAIN b.codes}
    IN  IF b.type = "video" THEN {CeaModes[c] : c \in codes \cap known}
        ELSE IF b.type = "hdmi" /\ b.video THEN {HdmiModes[c] : c \in codes \cap DOMAIN HdmiModes}
        ELSE {}

ExtensionModes(ext, known) ==
    Timings(ext.long) \cup UNION {BlockModes(ext.blocks[i], known) : i \in DOMAIN ext.blocks}

ModesOf(e) ==
    Timings(e.descriptors) \cup
    UNION {ExtensionModes(e.exts[k], DOMAIN CeaModes) : k \in 1 .. Extensions(e)}

(* The sides of a mode: two numbers of 12 bits, or a mode of the standard;
   EDID_4k_bin has none larger than 3840 by 2160.                           *)
ASSUME SidesAssumption ==
    /\ \A p \in Ports : \A e \in Monitors[p] : \A m \in Generic \cup ModesOf(e) :
          m.w \in Nat /\ m.h \in Nat /\ m.w + m.h <= 16384
    /\ \A m \in FourKEdid : /\ m.w \in Nat /\ m.h \in Nat /\ m.w <= 4096 /\ m.h <= 4096
                             /\ m.w * m.h <= 3840 * 2160

(* evdi_process: the EDID is read until it can be used.                     *)
ReadEdid(p) ==
    /\ At(p, "poll")
    /\ LET size == t6_libusb_get_edid(monitor[p], p \in Vga)
       IN  /\ size # 0
           /\ Goes(p, IF size < 0 THEN "ended" ELSE "revise")
    /\ UNCHANGED <<device, edidVars, memoryVars, flipVars, modeVars, toolVars>>

(* Another monitor on a port whose EDID was of no use.                      *)
PlugMonitor(p) ==
    /\ At(p, "poll") /\ t6_libusb_get_edid(monitor[p], p \in Vga) = 0
    /\ \E e \in Monitors[p] : monitor' = [monitor EXCEPT ![p] = e]
    /\ UNCHANGED <<device, phase, shows, bRun4K30, memoryVars, flipVars, modeVars, toolVars>>

(* garbage is the flag evdi_process did not initialise, beyond what lies after
   the table of HDMI codes; answered, whether the dongle lists its timings
   when it is asked.                                                        *)
Revise(p) ==
    /\ At(p, "revise")
    /\ \E garbage \in BOOLEAN, beyond \in BOOLEAN, answered \in {TRUE, ~Faults} :
         LET e    == monitor[p]
             good == e.answer = "ok" /\ EdidIsGood(e)
             is4K == IF good THEN Monitor4K(e, t6_libusb_get_edid(e, p \in Vga), garbage, beyond)
                     ELSE garbage
             r    == t6_revise_edid(is4K, t6_libusb_get_4K_capbability(Tables[p], answered),
                                    device.super)
         IN  /\ bRun4K30' = [bRun4K30 EXCEPT ![p] = r.bRun4K30]
             /\ shows' = [shows EXCEPT ![p] = IF r.edid = "4k" THEN FourKEdid
                                              ELSE IF r.edid = "generic" \/ ~good THEN Generic
                                              ELSE ModesOf(e)]
    /\ Goes(p, "start")
    /\ UNCHANGED <<device, monitor, memoryVars, flipVars, modeVars, toolVars>>

(* usb_process: the layout, and the first picture to follow is the third.   *)
StartUsb(p) ==
    /\ At(p, "start")
    /\ LET l == Layout(Ports # {0}, p = Dvo, bRun4K30[p])
       IN  /\ layout' = [layout EXCEPT ![p] = l]
           /\ cmdAddr' = [cmdAddr EXCEPT ![p] = l.cmd]
           /\ fbAddr' = [fbAddr EXCEPT ![p] = l.fbAddr2]
    /\ count' = [count EXCEPT ![p] = 0]
    /\ Goes(p, "work")
    /\ UNCHANGED <<device, edidVars, flipVars, modeVars, toolVars>>

-----------------------------------------------------------------------------
(* T6CalculatePixelClock: the first multiple that is 800 MHz or more, as a
   whole and a fractional multiple of the base frequency.                   *)
Multiples == <<4, 8, 16, 32>>
VideoSelectOutput == <<3, 1, 2, 0>>

(* The quotient is a double, from which first the whole part and then the
   thousandths are cut off: a whole number of thousandths may come out one too
   low, as it does for 148.5 MHz and a base of 40.                          *)
Thousandths(vco, base) ==
    LET rest == vco % (base * 1000)
    IN  {rest \div base} \cup (IF rest > 0 /\ rest % base = 0 THEN {rest \div base - 1} ELSE {})

T6CalculatePixelClock(clock, base) ==
    LET enough == {i \in 1 .. 4 : clock * Multiples[i] >= 800000}
        i      == CHOOSE k \in enough : \A j \in enough : k <= j
        vco    == clock * Multiples[i]
    IN  IF clock < 25000 \/ clock > 400000 \/ enough = {} THEN {None}
        ELSE {[N |-> vco \div (base * 1000), P |-> P, select |-> VideoSelectOutput[i]] :
                 P \in Thousandths(vco, base)}

Turned == device.rotate \in {1, 3}

(* t6_libusb_get_resolution_timing: the entry of the turned mode, with the
   sides put back.  If there is none, the caller's variable is sent as it is. *)
Listed(p, m) == {t \in Tables[p] : /\ t.w = (IF Turned THEN m.h ELSE m.w)
                                   /\ t.h = (IF Turned THEN m.w ELSE m.h)
                                   /\ t.fps = m.fps}

(* A mutant: the sides of the entry are not put back.                       *)
TurnedTimingsOf(t, m) == {[w |-> t.w, h |-> t.h, fps |-> t.fps, clock |-> t.clock, divider |-> d] :
                             d \in T6CalculatePixelClock(t.clock, IF device.lite THEN 48 ELSE 40)}

TimingsOf(t, m) == {[w |-> IF Turned THEN m.w ELSE t.w, h |-> IF Turned THEN m.h ELSE t.h,
                     fps |-> t.fps, clock |-> t.clock, divider |-> d] :
                       d \in T6CalculatePixelClock(t.clock, IF device.lite THEN 48 ELSE 40)}

(* t6_libusb_set_resolution, for a mode of the EDID the card was shown.  The
   daemon goes on in that mode if one of the three transfers fails too.     *)
SetResolution(p, m) ==
    /\ At(p, "work") /\ modes < MaxModes /\ mode[p] # m
    /\ mode' = [mode EXCEPT ![p] = m] /\ modes' = modes + 1
    /\ \/ /\ \E t \in Listed(p, m) : \E sent \in TimingsOf(t, m) :
                                       timing' = [timing EXCEPT ![p] = sent]
          /\ UNCHANGED failed
       \/ /\ Listed(p, m) = {} /\ timing' = [timing EXCEPT ![p] = None]
          /\ UNCHANGED failed
       \/ /\ Faults /\ ~failed /\ failed' = TRUE
          /\ timing' = [timing EXCEPT ![p] = None]
    /\ UNCHANGED <<device, phase, edidVars, memoryVars, lock, pending, expects, recent, misread,
                   flips, toolVars>>

-----------------------------------------------------------------------------
Recent(s, x) == IF Len(s) < 3 THEN Append(s, x) ELSE Append(Tail(s), x)

(* A picture is flipped: the next of the three, a JPEG in the next slot of the
   commands, or 4K as it is.  Two bulk transfers, a header and the payload, go
   out under the lock the ports share.  The decoder is reset when the commands
   start over and for the first pictures.                                   *)
FlipHeader(p, len) ==
    /\ At(p, "work") /\ mode[p] # None /\ flips < MaxFlips /\ lock = None
    /\ flips' = flips + 1
    /\ LET fb   == NextPicture(layout[p], fbAddr[p])
           cmd  == CommandAt(layout[p], cmdAddr[p], len)
           w    == IF Turned THEN mode[p].h ELSE mode[p].w
           h    == IF Turned THEN mode[p].w ELSE mode[p].h
           flag == Wraps(layout[p], cmdAddr[p], len) \/ count[p] + 1 < ResetFrames
       IN  /\ fbAddr' = [fbAddr EXCEPT ![p] = fb] /\ lock' = p
           /\ IF bRun4K30[p]
              THEN /\ pending' = FilpYV12Frame(fb, w, h)
                   /\ UNCHANGED <<cmdAddr, count>>
              ELSE /\ pending' = FilpJpegFrame(cmd, fb, len, w, h, flag)
                   /\ cmdAddr' = [cmdAddr EXCEPT ![p] = cmd + cmdoffset(len)]
                   /\ count' = [count EXCEPT ![p] = IF @ < ResetFrames THEN @ + 1 ELSE @]
    /\ misread' = IF expects = "command" THEN misread ELSE misread \cup {"daemon"}
    /\ expects' = IF expects = "command" THEN "payload" ELSE "command"
    /\ UNCHANGED <<device, phase, edidVars, layout, recent, failed, modeVars, toolVars>>

FlipPayload(p) ==
    /\ At(p, "work") /\ lock = p
    /\ recent' = [recent EXCEPT ![p] = Recent(@, pending)] /\ lock' = None /\ pending' = None
    /\ misread' = IF expects = "payload" THEN misread ELSE misread \cup {"daemon"}
    /\ expects' = "command"
    /\ UNCHANGED <<device, phase, edidVars, memoryVars, failed, flips, modeVars, toolVars>>

(* The header fails, and may have come through, or the payload does and the
   dongle is reset at once, if that comes through.  The lock is given up.   *)
FlipFails(p) ==
    /\ At(p, "work") /\ Faults /\ ~failed /\ failed' = TRUE
    /\ lock \in {None, p} /\ (lock = None => mode[p] # None)
    /\ expects' \in {"command", "payload"}
    /\ lock' = None /\ pending' = None /\ Goes(p, "reset")
    /\ UNCHANGED <<device, edidVars, memoryVars, recent, misread, flips, modeVars, toolVars>>

(* t6_libusb_dongle_reset, without the lock: the port ends.                 *)
t6_libusb_dongle_reset(p) ==
    /\ At(p, "reset") /\ Goes(p, "ended")
    /\ expects' = "command" \/ (Faults /\ UNCHANGED expects)
    /\ UNCHANGED <<device, edidVars, memoryVars, lock, pending, recent, misread, failed, flips,
                   modeVars, toolVars>>

-----------------------------------------------------------------------------
(* T6contrl -u.  The service is killed wherever it is, between the transfers
   of a flip too.                                                           *)
DaemonUnchanged == UNCHANGED <<phase, shows, bRun4K30, memoryVars, mode, timing, lock, pending,
                             recent>>

ToolStep(from, to) ==
    /\ tool = from /\ tool' = to
    /\ UNCHANGED <<device, monitor, flips, modes>>

(* It is started anew when an update is given up.                           *)
Abandon(from) ==
    /\ Faults /\ ToolStep(from, "idle") /\ service' = TRUE
    /\ DaemonUnchanged /\ UNCHANGED <<misread, updates, unreset>>

Update ==
    /\ updates < MaxUpdates /\ updates' = updates + 1
    /\ ToolStep("idle", "reset")
    /\ service' = FALSE
    /\ phase' = All("poll") /\ shows' = All({}) /\ bRun4K30' = All(FALSE)
    /\ layout' = All(None) /\ cmdAddr' = All(0) /\ fbAddr' = All(0) /\ count' = All(0)
    /\ mode' = All(None) /\ timing' = All(None) /\ recent' = All(<<>>)
    /\ lock' = None /\ pending' = None /\ misread' = {}
    /\ UNCHANGED <<expects, failed, unreset>>

(* A mutant: the dongle is closed and opened again without.                 *)
NoReset ==
    /\ ToolStep("reset", "open") /\ unreset' = FALSE
    /\ DaemonUnchanged /\ UNCHANGED <<service, expects, misread, failed, updates>>

(* t6_libusb_donglereset2: what was begun is cancelled.  Nobody looks whether
   the transfer fails.                                                      *)
t6_libusb_donglereset2 ==
    /\ ToolStep("reset", "open")
    /\ \/ expects' = "command" /\ unreset' = FALSE /\ UNCHANGED failed
       \/ Faults /\ ~failed /\ failed' = TRUE /\ unreset' = TRUE /\ UNCHANGED expects
    /\ DaemonUnchanged /\ UNCHANGED <<service, misread, updates>>

(* The dongle is looked for again after five seconds.                       *)
GetT6Device ==
    \/ ToolStep("open", "read") /\ DaemonUnchanged
       /\ UNCHANGED <<service, expects, misread, failed, updates, unreset>>
    \/ Abandon("open") /\ UNCHANGED <<expects, failed>>

(* A file that cannot be opened is an error; an empty one is not.           *)
FileRead ==
    \/ ToolStep("read", "write") /\ DaemonUnchanged
       /\ UNCHANGED <<service, expects, misread, failed, updates, unreset>>
    \/ Abandon("read") /\ UNCHANGED <<expects, failed>>

(* A header and the image.  If one of them fails the service is started with
   the dongle left as it is.                                                *)
t6_write_rom_date ==
    \/ /\ ToolStep("write", "show") /\ DaemonUnchanged
       /\ misread' = IF expects = "command" THEN misread ELSE misread \cup {"tool"}
       /\ expects' = "command" /\ UNCHANGED <<service, failed, updates, unreset>>
    \/ Abandon("write") /\ ~failed /\ failed' = TRUE /\ expects' \in {"command", "payload"}

(* The events of the burning are shown until it ends, fails or is silent; the
   dongle is reset.  The service stays stopped.                             *)
ShowRomMsg ==
    /\ ToolStep("show", "exit")
    /\ expects' = "command" \/ (Faults /\ UNCHANGED expects)
    /\ DaemonUnchanged /\ UNCHANGED <<service, misread, failed, updates, unreset>>

(* Until it is started by hand.                                             *)
StartService ==
    /\ ToolStep("exit", "idle") /\ service' = TRUE
    /\ DaemonUnchanged /\ UNCHANGED <<expects, misread, failed, updates, unreset>>

-----------------------------------------------------------------------------
Next ==
    \/ \E p \in Ports : \/ ReadEdid(p) \/ PlugMonitor(p) \/ Revise(p) \/ StartUsb(p)
                        \/ \E m \in shows[p] : SetResolution(p, m)
                        \/ \E len \in Lengths : FlipHeader(p, len)
                        \/ FlipPayload(p) \/ FlipFails(p) \/ t6_libusb_dongle_reset(p)
    \/ Update \/ t6_libusb_donglereset2 \/ GetT6Device \/ FileRead \/ t6_write_rom_date
    \/ ShowRomMsg \/ StartService

Spec == Init /\ [][Next]_vars

-----------------------------------------------------------------------------
(* The sizes usb_process lays its memory out for: up to 1080p, or 4K with its
   flag.  A monitor between the two passes t6_revise_edid unchanged, and its
   pictures are larger than their room.  So are the 4K pictures of an inner
   port, which has room for 1080p whatever its flag says: t6_revise_edid sets
   the flag there, although the dongle lists no 4K, when the dongle does not
   answer what it lists.                                                    *)
Misjudged(p) == bRun4K30[p] /\ t6_libusb_get_4K_capbability(Tables[p], TRUE) = 0
Inner(p)     == Ports # {0} /\ p # Dvo

Roomy(p) == IF bRun4K30[p] THEN ~(Inner(p) /\ Misjudged(p))
            ELSE \A m \in shows[p] : m.w * m.h <= 1920 * 1080

Fits(p) == mode[p] # None /\ Roomy(p)

(* What a flip writes, the command and the picture, touches no picture of the
   other port and none of the last two of its own, and no command that may
   still be decoded, unless the decoder is reset with it: the ports' regions
   and the wrap of the commands in usb_process are laid out for it.  It does on
   a port that is not roomy: after an unanswered query on the inner port, or
   with a monitor between 1080p and 4K.                                     *)
FlipsKeepPictures ==
    \A p \in Ports : Fits(p) /\ recent[p] # <<>> =>
        LET n == Len(recent[p])
            f == recent[p][n]
        IN  /\ f.picture.hi <= MB(ramsize)
            /\ \A i \in 1 .. n - 1 : /\ Disjoint(f.picture, recent[p][i].picture)
                                     /\ Disjoint(f.command, recent[p][i].picture)
            /\ n > 1 /\ ~f.flag => Disjoint(f.command, recent[p][n - 1].command)
            /\ \A q \in Ports \ {p} : \A i \in DOMAIN recent[q] :
                   Fits(q) => /\ Disjoint(f.picture, recent[q][i].picture)
                              /\ Disjoint(f.command, recent[q][i].picture)
                              /\ Disjoint(f.command, recent[q][i].command)

(* An EDID whose extension is whole: its blocks end before its long descriptors,
   and those lie where cea_edid.c looks for them, which a last one at byte 109
   does not.                                                                *)
WellFormed(e) ==
    /\ e.extensions <= Len(e.exts)
    /\ e.extensions > 0 =>
          LET ext == e.exts[1]
          IN  /\ ext.valid /\ ~Overflow(ext) /\ LongRead(ext) = DOMAIN ext.long
              /\ \A n \in 1 .. Len(ext.blocks) : BlockEnd(ext, n) <= ext.offset

(* The modes the card finds where cea_edid.c looks: in the first block and the
   first extension, under the codes of its table.  An EDID with 4K modes in a
   further extension or under an added code alone is overlooked.            *)
Sought(e) == Timings(e.descriptors) \cup
             (IF Extensions(e) = 0 THEN {} ELSE ExtensionModes(e.exts[1], DOMAIN CeaModes \ AddedCodes))
Overlooked(e) == \A m \in Sought(e) : ~FourK(m.w, m.h)

(* A card is never put in a 4K mode with the memory laid out for 1080p, or on
   a slow bus, unless the EDID of the monitor is overlooked: of the places
   cea_edid.c looks at, it finds 4K in each where the card does.            *)
LayoutFollowsEdid ==
    \A p \in Ports : mode[p] # None /\ FourK(mode[p].w, mode[p].h) /\ WellFormed(monitor[p])
                         => (bRun4K30[p] /\ device.super) \/ Overlooked(monitor[p])

(* A divider makes a pixel clock, or one step less, from a frequency between
   800 and 1600 MHz.                                                        *)
Makes(d, clock, base) ==
    /\ \E i \in 1 .. 4 :
          LET vco  == clock * Multiples[i]
              made == base * (d.N * 1000 + d.P)
          IN  /\ VideoSelectOutput[i] = d.select
              /\ 800000 <= vco /\ vco <= 1600000
              /\ made <= vco /\ vco <= made + base
    /\ d.N \in 0 .. 255 /\ d.P \in 0 .. 999

(* The timing sent for a mode that the dongle lists, turned or not, is of that
   mode, and its divider makes the pixel clock of the list within one step of
   a thousandth of the base frequency; without a failed transfer one is sent
   (t6_libusb_get_resolution_timing, T6CalculatePixelClock).                *)
TimingMatchesMode ==
    \A p \in Ports : mode[p] # None /\ Listed(p, mode[p]) # {} =>
        \/ timing[p] = None /\ failed
        \/ /\ timing[p].w = mode[p].w /\ timing[p].h = mode[p].h /\ timing[p].fps = mode[p].fps
           /\ Makes(timing[p].divider, timing[p].clock, IF device.lite THEN 48 ELSE 40)

(* The dongle takes no header for a payload and no payload for a header while
   no transfer has failed, and what the control tool burns only if the reset of
   this very update has failed, which the tool does not look at: not because
   the service was killed between the two transfers of a flip.              *)
CommandsAreRead == ("tool" \in misread => unreset) /\ (failed \/ misread = {})
==============================================================================
