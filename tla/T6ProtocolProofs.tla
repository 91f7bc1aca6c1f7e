--------------------------- MODULE T6ProtocolProofs ---------------------------
(***************************************************************************)
(* The dongle reads what it is sent as it was meant, and a JPEG stays in   *)
(* the region of commands of its port, for any number of ports, monitors,  *)
(* modes and lengths and any size of memory.                               *)
(***************************************************************************)
EXTENDS T6Protocol, SequenceTheorems, TLAPS

-----------------------------------------------------------------------------
(* Who may be in the middle of something.  The service is down exactly while
   the tool is at work; the dongle waits for a payload exactly while a port
   holds the lock, until the first transfer fails; and the tool finds it
   waiting for a command from its reset on, unless that was what failed.    *)
Agreement ==
    /\ phase \in [Ports -> {"poll", "revise", "start", "work", "reset", "ended"}]
    /\ tool \in {"idle", "reset", "open", "read", "write", "show", "exit"}
    /\ service <=> tool = "idle"
    /\ tool # "idle" => lock = None
    /\ tool \in {"open", "read", "write", "show", "exit"} => expects = "command" \/ unreset
    /\ "tool" \in misread => unreset
    /\ unreset => failed
    /\ tool = "reset" => misread = {}
    /\ ~failed => /\ misread = {}
                  /\ \A p \in Ports : phase[p] # "reset"
                  /\ service => expects = IF lock = None THEN "command" ELSE "payload"

(* A step of one of the ports.                                              *)
PortStep(p) == \/ ReadEdid(p) \/ PlugMonitor(p) \/ Revise(p) \/ StartUsb(p)
               \/ \E m \in shows[p] : SetResolution(p, m)
               \/ \E len \in Lengths : FlipHeader(p, len)
               \/ FlipPayload(p) \/ FlipFails(p) \/ t6_libusb_dongle_reset(p)

ToolActs == \/ Update \/ t6_libusb_donglereset2 \/ GetT6Device \/ FileRead \/ t6_write_rom_date
            \/ ShowRomMsg \/ StartService

LEMMA NextSplits == Next => (\E p \in Ports : PortStep(p)) \/ ToolActs
  BY DEF Next, PortStep, ToolActs

LEMMA AgreementInit == Init => Agreement
  BY DEF Init, Agreement, All

LEMMA PortsAgree == ASSUME Agreement, NEW p \in Ports, PortStep(p) PROVE Agreement'
<1> USE PortsAssumption DEF Agreement, At, Goes, edidVars, memoryVars, modeVars, toolVars
<1>1. CASE ReadEdid(p)
  BY <1>1 DEF ReadEdid, flipVars
<1>2. CASE PlugMonitor(p)
  BY <1>2 DEF PlugMonitor, flipVars
<1>3. CASE Revise(p)
  BY <1>3 DEF Revise, flipVars
<1>4. CASE StartUsb(p)
  BY <1>4 DEF StartUsb, flipVars
<1>5. CASE \E m \in shows[p] : SetResolution(p, m)
  BY <1>5 DEF SetResolution, flipVars
<1>6. CASE \E len \in Lengths : FlipHeader(p, len)
  BY <1>6 DEF FlipHeader
<1>7. CASE FlipPayload(p)
  BY <1>7 DEF FlipPayload
<1>8. CASE FlipFails(p)
  BY <1>8 DEF FlipFails
<1>9. CASE t6_libusb_dongle_reset(p)
  BY <1>9 DEF t6_libusb_dongle_reset
<1> QED
  BY <1>1, <1>2, <1>3, <1>4, <1>5, <1>6, <1>7, <1>8, <1>9, PortStep(p) DEF PortStep

LEMMA ToolAgrees == ASSUME Agreement, ToolActs PROVE Agreement'
<1> USE DEF Agreement, ToolStep, DaemonUnchanged, Abandon
<1>1. CASE Update
  BY <1>1 DEF Update, All
<1>2. CASE t6_libusb_donglereset2
  <2>1. /\ tool = "reset" /\ tool' = "open" /\ lock' = lock /\ phase' = phase
        /\ service' = service /\ misread' = misread
    BY <1>2 DEF t6_libusb_donglereset2
  <2>2. CASE expects' = "command" /\ unreset' = FALSE /\ failed' = failed
    BY <2>1, <2>2
  <2>3. CASE failed' = TRUE /\ unreset' = TRUE
    BY <2>1, <2>3
  <2> QED
    BY <1>2, <2>2, <2>3 DEF t6_libusb_donglereset2
<1>3. CASE GetT6Device
  BY <1>3 DEF GetT6Device
<1>4. CASE FileRead
  BY <1>4 DEF FileRead
<1>5. CASE t6_write_rom_date
  BY <1>5 DEF t6_write_rom_date
<1>6. CASE ShowRomMsg
  BY <1>6 DEF ShowRomMsg
<1>7. CASE StartService
  BY <1>7 DEF StartService
<1> QED
  BY <1>1, <1>2, <1>3, <1>4, <1>5, <1>6, <1>7, ToolActs DEF ToolActs

LEMMA AgreementHolds == Spec => []Agreement
<1>1. Agreement /\ [Next]_vars => Agreement'
  <2> SUFFICES ASSUME Agreement, [Next]_vars PROVE Agreement'
    OBVIOUS
  <2>1. CASE UNCHANGED vars
    BY <2>1 DEF Agreement, vars, flipVars, toolVars
  <2>2. CASE Next
    BY <2>2, NextSplits, PortsAgree, ToolAgrees
  <2> QED
    BY <2>1, <2>2
<1> QED
  BY AgreementInit, <1>1, PTL DEF Spec

(* Neither the daemon nor the update tool is ever misunderstood while no
   transfer has failed, and the tool not even then but for a failed reset of
   its own, although it kills the daemon at any point (t6_libusb_donglereset2
   in T6contrl.c).                                                          *)
THEOREM UpdatesAreUnderstood == Spec => []CommandsAreRead
<1>1. Agreement => CommandsAreRead
  BY DEF Agreement, CommandsAreRead
<1> QED
  BY AgreementHolds, <1>1, PTL

-----------------------------------------------------------------------------
(* The region of a port, which does not change while the port works.        *)
Home(p) == Layout(Ports # {0}, p = Dvo, bRun4K30[p])

(* A port that shows up to 1080p: 4K pictures have no commands of their own. *)
Small(p) == phase[p] = "work" /\ ~bRun4K30[p]

(* The address of the next command never passes the pictures, the picture to
   follow is one of the three, and a flip that is going out is inside the
   commands of its port.                                                    *)
CommandsStayHome ==
    \A p \in Ports : Small(p) /\ lock = p =>
        /\ pending.command.lo >= Home(p).cmd
        /\ pending.command.hi <= Home(p).fbAddr1

Addresses ==
    /\ phase \in [Ports -> {"poll", "revise", "start", "work", "reset", "ended"}]
    /\ layout \in [Ports -> {None} \cup [cmd : Int, fbAddr1 : Int, fbAddr2 : Int, fbAddr3 : Int]]
    /\ cmdAddr \in [Ports -> Int] /\ DOMAIN fbAddr = Ports /\ DOMAIN bRun4K30 = Ports
    /\ \A p \in Ports : phase[p] = "work" => layout[p] = Home(p)
    /\ \A p \in Ports : Small(p) => cmdAddr[p] \in Home(p).cmd .. Home(p).fbAddr1
    /\ \A p \in Ports : lock = p => phase[p] = "work"
    /\ CommandsStayHome

(* What usb_process lays out: 3 MB of commands at least, and three pictures
   of 4 MB.                                                                 *)
LEMMA HomesAreLarge ==
    ASSUME NEW p \in Ports
    PROVE  /\ Home(p) \in [cmd : Int, fbAddr1 : Int, fbAddr2 : Int, fbAddr3 : Int]
           /\ ~bRun4K30[p] => Home(p).cmd + MB(6) <= Home(p).fbAddr1
  BY MemoryAssumption, SMT DEF Home, Layout, Triple, tmp, MB

LEMMA Megabytes == MB(1) = 1048576 /\ MB(2) = 2097152 /\ MB(3) = 3145728 /\ MB(6) = 6291456
  BY SMT DEF MB

(* A slot of the commands holds what is put in it, and ends before the
   pictures if the region has room for one.                                 *)
LEMMA SlotHolds ==
    ASSUME NEW l \in [cmd : Int, fbAddr1 : Int, fbAddr2 : Int, fbAddr3 : Int],
           NEW at \in Int, NEW len \in 0 .. MB(3),
           l.cmd <= at, l.cmd + MB(6) <= l.fbAddr1
    PROVE  /\ CommandAt(l, at, len) \in Int
           /\ l.cmd <= CommandAt(l, at, len)
           /\ len <= cmdoffset(len) /\ cmdoffset(len) \in Int /\ cmdoffset(len) > 0
           /\ CommandAt(l, at, len) + cmdoffset(len) <= l.fbAddr1
<1>1. MB(1) = 1048576 /\ MB(2) = 2097152 /\ MB(3) = 3145728 /\ MB(6) = 6291456
  BY Megabytes
<1>2. len <= cmdoffset(len) /\ cmdoffset(len) \in Int /\ cmdoffset(len) > 0 /\ cmdoffset(len) <= MB(3)
  BY <1>1, SMT DEF cmdoffset
<1> HIDE DEF cmdoffset
<1>3. l.cmd \in Int /\ l.fbAddr1 \in Int
  OBVIOUS
<1>4. CASE Wraps(l, at, len)
  <2>1. CommandAt(l, at, len) = l.cmd
    BY <1>4 DEF CommandAt
  <2> QED
    BY <1>1, <1>2, <1>3, <2>1, SMT
<1>5. CASE ~Wraps(l, at, len)
  <2>1. CommandAt(l, at, len) = at
    BY <1>5 DEF CommandAt
  <2> QED
    BY <1>2, <1>3, <1>5, <2>1, SMT DEF Wraps
<1> QED
  BY <1>4, <1>5

LEMMA AddressesInit == Init => Addresses
  BY PortsAssumption DEF Init, Addresses, All, Small, CommandsStayHome

LEMMA PortsKeepAddresses == ASSUME Addresses, NEW p \in Ports, PortStep(p) PROVE Addresses'
<1> USE PortsAssumption DEF At, Goes, edidVars, memoryVars, modeVars, flipVars
<1>a. \A q \in Ports : bRun4K30'[q] = bRun4K30[q] => Home(q)' = Home(q)
  BY DEF Home
<1>1. CASE ReadEdid(p)
  BY <1>1, <1>a DEF ReadEdid, Addresses, Small, CommandsStayHome
<1>2. CASE PlugMonitor(p)
  BY <1>2, <1>a DEF PlugMonitor, Addresses, Small, CommandsStayHome
<1>3. CASE Revise(p)
  BY <1>3, <1>a DEF Revise, Addresses, Small, CommandsStayHome
<1>4. CASE StartUsb(p)
  <2>1. layout' = [layout EXCEPT ![p] = Home(p)] /\ cmdAddr' = [cmdAddr EXCEPT ![p] = Home(p).cmd]
    BY <1>4 DEF StartUsb, Home
  <2>2. /\ bRun4K30' = bRun4K30 /\ lock' = lock /\ pending' = pending
        /\ phase[p] = "start" /\ phase' = [phase EXCEPT ![p] = "work"]
        /\ DOMAIN fbAddr' = DOMAIN fbAddr
    BY <1>4 DEF StartUsb
  <2>3. /\ Home(p) \in [cmd : Int, fbAddr1 : Int, fbAddr2 : Int, fbAddr3 : Int]
        /\ ~bRun4K30[p] => Home(p).cmd \in Home(p).cmd .. Home(p).fbAddr1
    BY HomesAreLarge, Megabytes
  <2>4. \A q \in Ports : Home(q)' = Home(q)
    BY <1>a, <2>2
  <2>5. lock # p
    BY <2>2 DEF Addresses
  <2> QED
    BY <2>1, <2>2, <2>3, <2>4, <2>5 DEF Addresses, Small, CommandsStayHome
<1>5. CASE \E m \in shows[p] : SetResolution(p, m)
  BY <1>5, <1>a DEF SetResolution, Addresses, Small, CommandsStayHome
<1>6. CASE \E len \in Lengths : FlipHeader(p, len)
  <2>1. PICK len \in Lengths : FlipHeader(p, len)
    BY <1>6
  <2> DEFINE cmd == CommandAt(layout[p], cmdAddr[p], len)
  <2>2. /\ bRun4K30' = bRun4K30 /\ phase' = phase /\ layout' = layout
        /\ phase[p] = "work" /\ lock' = p /\ lock = None /\ DOMAIN fbAddr' = DOMAIN fbAddr
    BY <2>1 DEF FlipHeader
  <2>3. \A q \in Ports : Home(q)' = Home(q)
    BY <1>a, <2>2
  <2>4. layout[p] = Home(p)
    BY <2>2 DEF Addresses
  <2>5. CASE bRun4K30[p]
    <3>1. cmdAddr' = cmdAddr
      BY <2>1, <2>5 DEF FlipHeader
    <3> QED
      BY <2>2, <2>3, <2>5, <3>1 DEF Addresses, Small, CommandsStayHome
  <2>6. CASE ~bRun4K30[p]
    <3>1. /\ cmdAddr' = [cmdAddr EXCEPT ![p] = cmd + cmdoffset(len)]
          /\ pending'.command = [lo |-> cmd, hi |-> cmd + len]
      BY <2>1, <2>6 DEF FlipHeader, FilpJpegFrame, Extent
    <3>2. /\ Home(p) \in [cmd : Int, fbAddr1 : Int, fbAddr2 : Int, fbAddr3 : Int]
          /\ Home(p).cmd + MB(6) <= Home(p).fbAddr1
      BY <2>6, HomesAreLarge
    <3>3. cmdAddr[p] \in Int /\ Home(p).cmd <= cmdAddr[p]
      BY <2>2, <2>6, <3>2 DEF Addresses, Small
    <3>4. len \in 0 .. MB(3)
      BY LengthsAssumption
    <3>5. /\ cmd \in Int /\ Home(p).cmd <= cmd
          /\ len <= cmdoffset(len) /\ cmdoffset(len) \in Int /\ cmdoffset(len) > 0
          /\ cmd + cmdoffset(len) <= Home(p).fbAddr1
      BY <2>4, <3>2, <3>3, <3>4, SlotHolds
    <3> HIDE DEF cmd
    <3>6. len \in Int
      BY <3>4, Megabytes
    <3>7. /\ cmd + cmdoffset(len) \in Home(p).cmd .. Home(p).fbAddr1
          /\ cmd >= Home(p).cmd /\ cmd + len <= Home(p).fbAddr1
      BY <3>2, <3>5, <3>6
    <3>8. \A q \in Ports : lock' = q => q = p
      BY <2>2
    <3> QED
      BY <2>2, <2>3, <3>1, <3>7, <3>8 DEF Addresses, Small, CommandsStayHome
  <2> QED
    BY <2>5, <2>6
<1>7. CASE FlipPayload(p)
  BY <1>7, <1>a DEF FlipPayload, Addresses, Small, CommandsStayHome
<1>8. CASE FlipFails(p)
  BY <1>8, <1>a DEF FlipFails, Addresses, Small, CommandsStayHome
<1>9. CASE t6_libusb_dongle_reset(p)
  BY <1>9, <1>a DEF t6_libusb_dongle_reset, Addresses, Small, CommandsStayHome
<1> QED
  BY <1>1, <1>2, <1>3, <1>4, <1>5, <1>6, <1>7, <1>8, <1>9, PortStep(p) DEF PortStep

LEMMA ToolKeepsAddresses == ASSUME Addresses, ToolActs PROVE Addresses'
<1> USE PortsAssumption DEF ToolStep, DaemonUnchanged, Abandon, memoryVars
<1>a. bRun4K30' = bRun4K30 => \A q \in Ports : Home(q)' = Home(q)
  BY DEF Home
<1>1. CASE Update
  BY <1>1 DEF Update, All, Addresses, Small, CommandsStayHome
<1>2. CASE ToolActs /\ ~Update
  <2>1. UNCHANGED <<phase, bRun4K30, layout, cmdAddr, fbAddr, lock, pending>>
    BY <1>2 DEF ToolActs, t6_libusb_donglereset2, GetT6Device, FileRead, t6_write_rom_date,
                ShowRomMsg, StartService
  <2> QED
    BY <1>a, <2>1 DEF Addresses, Small, CommandsStayHome
<1> QED
  BY <1>1, <1>2, ToolActs

LEMMA AddressesHold == Spec => []Addresses
<1>1. Addresses /\ [Next]_vars => Addresses'
  <2> SUFFICES ASSUME Addresses, [Next]_vars PROVE Addresses'
    OBVIOUS
  <2>1. CASE UNCHANGED vars
    <3>1. \A q \in Ports : Home(q)' = Home(q)
      BY <2>1 DEF vars, edidVars, Home
    <3> QED
      BY <2>1, <3>1 DEF Addresses, Small, CommandsStayHome, vars, edidVars, memoryVars, flipVars
  <2>2. CASE Next
    BY <2>2, NextSplits, PortsKeepAddresses, ToolKeepsAddresses
  <2> QED
    BY <2>1, <2>2
<1> QED
  BY AddressesInit, <1>1, PTL DEF Spec

(* While a port up to 1080p sends a flip, the JPEG lies in the port's own
   commands and ends before its pictures, for any memory of 54 MB or more and
   JPEGs of up to 3 MB (the wrap of cmdAddr in usb_process).                *)
THEOREM CommandsMissPictures == Spec => []CommandsStayHome
<1>1. Addresses => CommandsStayHome
  BY DEF Addresses
<1> QED
  BY AddressesHold, <1>1, PTL

(* The pictures and the commands of the port with the external output end
   where those of the other port begin, whether or not the first runs 4K, and
   the pictures of a port follow each other: usb_process shares the memory out
   without an overlap.                                                      *)
THEOREM RegionsAreApart ==
    ASSUME NEW is4K \in BOOLEAN, NEW other \in BOOLEAN
    PROVE  LET a == Layout(TRUE, TRUE, is4K)
               b == Layout(TRUE, FALSE, other)
               size == IF is4K THEN MB(12) ELSE MB(4)
           IN  /\ 0 <= a.cmd /\ a.cmd <= a.fbAddr1
               /\ a.fbAddr1 + size <= a.fbAddr2 /\ a.fbAddr2 + size <= a.fbAddr3
               /\ a.fbAddr3 + size <= b.cmd /\ b.cmd + MB(6) <= b.fbAddr1
               /\ b.fbAddr1 + MB(4) <= b.fbAddr2 /\ b.fbAddr2 + MB(4) <= b.fbAddr3
               /\ b.fbAddr3 + MB(4) <= MB(ramsize)
  BY MemoryAssumption, SMT DEF Layout, Triple, tmp, MB

-----------------------------------------------------------------------------
(* What a card is shown fits what its port is laid out for, from the revision
   of the EDID on; the card sets no other mode; a monitor is only exchanged
   before.                                                                  *)
Shown ==
    /\ DOMAIN phase = Ports /\ DOMAIN monitor = Ports /\ DOMAIN shows = Ports
    /\ DOMAIN mode = Ports /\ DOMAIN bRun4K30 = Ports
    /\ \A p \in Ports : monitor[p] \in Monitors[p]
    /\ \A p \in Ports : phase[p] \in {"poll", "revise"} => shows[p] = {}
    /\ \A p \in Ports : mode[p] = None \/ mode[p] \in shows[p]
    /\ \A p \in Ports : \A m \in shows[p] :
          FourK(m.w, m.h) /\ WellFormed(monitor[p])
              => (bRun4K30[p] /\ device.super) \/ Overlooked(monitor[p])

(* Every data block and long descriptor of a whole extension is read.       *)
LEMMA ExtensionIsRead ==
    ASSUME NEW x, x.valid, ~Overflow(x), LongRead(x) = DOMAIN x.long, Len(x.blocks) \in Nat,
           \A n \in 1 .. Len(x.blocks) : BlockEnd(x, n) <= x.offset
    PROVE  /\ BlocksRead(x) = 1 .. Len(x.blocks)
           /\ \A n \in BlocksRead(x) : ~GivesUp(x, n)
<1>1. \A n : ~GivesUp(x, n)
  BY DEF GivesUp, EDID_ValidateBlock1Buffer
<1>2. \A n \in 1 .. Len(x.blocks) : 1 .. n \subseteq 1 .. Len(x.blocks)
  OBVIOUS
<1>3. BlocksRead(x) = 1 .. Len(x.blocks)
  BY <1>1, <1>2 DEF BlocksRead
<1> QED
  BY <1>1, <1>3

(* A 4K mode the card finds in a whole EDID, where cea_edid.c looks, is found
   by it too.                                                               *)
LEMMA CardFindsNoMore ==
    ASSUME NEW q \in Ports, NEW e \in Monitors[q], WellFormed(e), NEW vga, NEW garbage, NEW beyond,
           e.answer = "ok", EdidIsGood(e),
           NEW m \in Sought(e), FourK(m.w, m.h)
    PROVE  Monitor4K(e, t6_libusb_get_edid(e, vga), garbage, beyond)
<1> DEFINE x == e.exts[1]
<1>1. e.extensions \in Nat /\ Len(e.exts) \in Nat
  BY MonitorsAssumption
<1>2. \A ds : m \in Timings(ds) => \E i \in DOMAIN ds : EDID_ParseDetailDescriptor(ds[i])
  BY DEF Timings, EDID_ParseDetailDescriptor, DetailedTiming
<1>3. CASE m \in Timings(e.descriptors)
  BY <1>2, <1>3 DEF Monitor4K
<1>4. CASE m \notin Timings(e.descriptors)
  <2>1. /\ Extensions(e) # 0
        /\ \/ m \in Timings(x.long)
           \/ \E i \in DOMAIN x.blocks : m \in BlockModes(x.blocks[i], DOMAIN CeaModes \ AddedCodes)
    BY <1>4 DEF Sought, ExtensionModes
  <2>2. e.extensions > 0 /\ Extensions(e) \in Nat /\ Extensions(e) > 0 /\ 1 \in 1 .. Len(e.exts)
    BY <1>1, <2>1 DEF Extensions, MaxExtensions
  <2>3. t6_libusb_get_edid(e, vga) > 128
    BY <2>2 DEF t6_libusb_get_edid
  <2>4. /\ x.valid /\ ~Overflow(x) /\ LongRead(x) = DOMAIN x.long
        /\ \A n \in 1 .. Len(x.blocks) : BlockEnd(x, n) <= x.offset
        /\ Len(x.blocks) \in Nat /\ DOMAIN x.blocks = 1 .. Len(x.blocks)
    BY <2>2, MonitorsAssumption DEF WellFormed
  <2> HIDE DEF x
  <2>7. BlocksRead(x) = DOMAIN x.blocks /\ \A n \in BlocksRead(x) : ~GivesUp(x, n)
    BY <2>4, ExtensionIsRead
  <2>5. CASE m \in Timings(x.long)
    BY <1>2, <2>3, <2>4, <2>5, <2>7 DEF Monitor4K, EDID_ParseCEAExtensionBlockInformation, x
  <2>6. ASSUME NEW i \in DOMAIN x.blocks,
               m \in BlockModes(x.blocks[i], DOMAIN CeaModes \ AddedCodes)
        PROVE  DataBlock4K(x.blocks[i], beyond)
    <3> DEFINE b == x.blocks[i]
    <3>1. CASE b.type = "video"
      <4>1. PICK k \in DOMAIN b.codes : /\ b.codes[k] \in DOMAIN CeaModes \ AddedCodes
                                        /\ m = CeaModes[b.codes[k]]
        BY <2>6, <3>1 DEF BlockModes
      <4>2. VideoCode4K(b.codes[k])
        BY <4>1, ModesAssumption, Zenon DEF VideoCode4K
      <4> QED
        BY <3>1, <4>2, Zenon DEF DataBlock4K
    <3>2. CASE b.type # "video"
      <4>1. b.type = "hdmi" /\ b.video
        BY <2>6, <3>2 DEF BlockModes
      <4>2. PICK k \in DOMAIN b.codes : b.codes[k] \in DOMAIN HdmiModes /\ m = HdmiModes[b.codes[k]]
        BY <2>6, <4>1, <3>2 DEF BlockModes
      <4> QED
        BY <4>1, <4>2, ModesAssumption
        DEF DataBlock4K, EDID_ParseVendorSpecificBlock, HdmiCode4K
    <3> QED
      BY <3>1, <3>2
  <2> QED
    BY <2>1, <2>3, <2>5, <2>6, <2>7 DEF Monitor4K, EDID_ParseCEAExtensionBlockInformation, x
<1> QED
  BY <1>3, <1>4

LEMMA ShownInit == Init => Shown
  BY DEF Init, Shown, All

(* The only step that changes what a card is shown.                         *)
LEMMA RevisionFits ==
    ASSUME Shown, NEW p \in Ports, Revise(p)
    PROVE  Shown'
<1> USE DEF At, Goes
<1>1. PICK garbage \in BOOLEAN, beyond \in BOOLEAN, answered \in {TRUE, ~Faults} :
         LET e    == monitor[p]
             good == e.answer = "ok" /\ EdidIsGood(e)
             is4K == IF good THEN Monitor4K(e, t6_libusb_get_edid(e, p \in Vga), garbage, beyond)
                     ELSE garbage
             r    == t6_revise_edid(is4K, t6_libusb_get_4K_capbability(Tables[p], answered),
                                    device.super)
         IN  /\ bRun4K30' = [bRun4K30 EXCEPT ![p] = r.bRun4K30]
             /\ shows' = [shows EXCEPT ![p] = IF r.edid = "4k" THEN FourKEdid
                                              ELSE IF r.edid = "generic" \/ ~good THEN Generic
                                              ELSE ModesOf(e)]
  BY DEF Revise
<1> DEFINE e    == monitor[p]
           good == e.answer = "ok" /\ EdidIsGood(e)
           is4K == IF good THEN Monitor4K(e, t6_libusb_get_edid(e, p \in Vga), garbage, beyond)
                   ELSE garbage
           r    == t6_revise_edid(is4K, t6_libusb_get_4K_capbability(Tables[p], answered),
                                  device.super)
<1>2. /\ bRun4K30' = [bRun4K30 EXCEPT ![p] = r.bRun4K30]
      /\ shows' = [shows EXCEPT ![p] = IF r.edid = "4k" THEN FourKEdid
                                       ELSE IF r.edid = "generic" \/ ~good THEN Generic
                                       ELSE ModesOf(e)]
  BY <1>1
<1>3. /\ monitor' = monitor /\ mode' = mode /\ device' = device
      /\ phase' = [phase EXCEPT ![p] = "start"] /\ phase[p] = "revise"
  BY DEF Revise, modeVars
<1>4. mode[p] = None /\ e \in Monitors[p]
  BY <1>3 DEF Shown
<1>5. \/ r.edid = "4k" /\ r.bRun4K30 /\ device.super
      \/ r.edid = "generic" /\ ~r.bRun4K30
      \/ r.edid = "own" /\ ~r.bRun4K30 /\ ~is4K
  BY DEF t6_revise_edid
<1> HIDE DEF r
<1>6. ASSUME NEW m \in shows'[p], FourK(m.w, m.h), WellFormed(e), ~Overlooked(e)
      PROVE  r.bRun4K30 /\ device.super
  <2>1. CASE r.edid = "4k"
    BY <1>5, <2>1
  <2>2. CASE r.edid # "4k"
    <3>1. m \notin Generic
      BY <1>6, ModesAssumption
    <3>2. good /\ r.edid = "own"
      BY <1>2, <1>5, <1>6, <2>2, <3>1 DEF Shown
    <3>4. PICK n \in Sought(e) : FourK(n.w, n.h)
      BY <1>6 DEF Overlooked
    <3>3. Monitor4K(e, t6_libusb_get_edid(e, p \in Vga), garbage, beyond)
      BY <1>4, <1>6, <3>2, <3>4, CardFindsNoMore
    <3> QED
      BY <1>5, <3>2, <3>3
  <2> QED
    BY <2>1, <2>2
<1> QED
  <2> HIDE DEF e
  <2>1. e = monitor[p]
    BY DEF e
  <2> QED
    BY <1>2, <1>3, <1>4, <1>6, <2>1 DEF Shown

LEMMA PortsKeepShown == ASSUME Shown, NEW p \in Ports, PortStep(p) PROVE Shown'
<1> USE DEF At, Goes, edidVars, modeVars
<1>1. CASE ReadEdid(p)
  BY <1>1 DEF ReadEdid, Shown
<1>2. CASE PlugMonitor(p)
  BY <1>2 DEF PlugMonitor, Shown
<1>3. CASE Revise(p)
  BY <1>3, RevisionFits
<1>4. CASE StartUsb(p)
  BY <1>4 DEF StartUsb, Shown
<1>5. CASE \E m \in shows[p] : SetResolution(p, m)
  BY <1>5 DEF SetResolution, Shown
<1>6. CASE \E len \in Lengths : FlipHeader(p, len)
  BY <1>6 DEF FlipHeader, Shown
<1>7. CASE FlipPayload(p)
  BY <1>7 DEF FlipPayload, Shown
<1>8. CASE FlipFails(p)
  BY <1>8 DEF FlipFails, Shown
<1>9. CASE t6_libusb_dongle_reset(p)
  BY <1>9 DEF t6_libusb_dongle_reset, Shown
<1> QED
  BY <1>1, <1>2, <1>3, <1>4, <1>5, <1>6, <1>7, <1>8, <1>9, PortStep(p) DEF PortStep

(* Of the tool's steps only the one that kills the service reaches the ports. *)
LEMMA ToolLeavesPorts ==
    ASSUME ToolActs, ~Update
    PROVE  UNCHANGED <<device, monitor, phase, shows, bRun4K30, memoryVars, mode,
                       timing, lock, pending, recent>> /\ (failed => failed')
  BY DEF ToolActs, ToolStep, DaemonUnchanged, Abandon, t6_libusb_donglereset2, GetT6Device, FileRead,
         t6_write_rom_date, ShowRomMsg, StartService

LEMMA ToolKeepsShown == ASSUME Shown, ToolActs PROVE Shown'
<1>1. CASE Update
  BY <1>1 DEF Update, ToolStep, All, Shown
<1>2. CASE ~Update
  BY <1>2, ToolLeavesPorts DEF Shown
<1> QED
  BY <1>1, <1>2

LEMMA ShownHolds == Spec => []Shown
<1>1. Shown /\ [Next]_vars => Shown'
  <2> SUFFICES ASSUME Shown, [Next]_vars PROVE Shown'
    OBVIOUS
  <2>1. CASE UNCHANGED vars
    BY <2>1 DEF Shown, vars, edidVars, modeVars
  <2>2. CASE Next
    BY <2>2, NextSplits, PortsKeepShown, ToolKeepsShown
  <2> QED
    BY <2>1, <2>2
<1> QED
  BY ShownInit, <1>1, PTL DEF Spec

(* Whatever the monitors, the tables of modes and the uninitialised flag of
   evdi_process, a card is in a 4K mode only on a port laid out for it and on
   a fast bus, if the EDID's first extension is whole and the EDID is not
   overlooked: its 4K modes are not all in further extensions, which
   cea_edid.c does not read, or under codes younger than its table.         *)
THEOREM FourKFollowsEdid == Spec => []LayoutFollowsEdid
<1>1. Shown => LayoutFollowsEdid
  BY DEF Shown, LayoutFollowsEdid
<1> QED
  BY ShownHolds, <1>1, PTL

-----------------------------------------------------------------------------
(* The timing of a mode the dongle lists comes from one of its entries.     *)
Timed ==
    /\ DOMAIN mode = Ports /\ DOMAIN timing = Ports
    /\ \A p \in Ports : mode[p] # None /\ Listed(p, mode[p]) # {} =>
          \/ timing[p] = None /\ failed
          \/ \E t \in Listed(p, mode[p]) : timing[p] \in TimingsOf(t, mode[p])

(* The multiple that is taken, and its frequency.                           *)
LEMMA MultipleInReach ==
    ASSUME NEW clock \in Nat, 25000 <= clock, clock <= 400000, NEW base
    PROVE  \E i \in 1 .. 4 :
              /\ clock * Multiples[i] \in Nat /\ 800000 <= clock * Multiples[i] /\ clock * Multiples[i] <= 1600000
              /\ \A d \in T6CalculatePixelClock(clock, base) : \E m \in Thousandths(clock * Multiples[i], base) :
                    d = [N |-> (clock * Multiples[i]) \div (base * 1000), P |-> m,
                         select |-> VideoSelectOutput[i]]
<1> DEFINE enough == {i \in 1 .. 4 : clock * Multiples[i] >= 800000}
           first == CHOOSE k \in enough : \A j \in enough : k <= j
<1>1. Multiples[1] = 4 /\ Multiples[2] = 8 /\ Multiples[3] = 16 /\ Multiples[4] = 32
  BY SMT DEF Multiples
<1>2. \A i : i \in enough <=> \/ i = 1 /\ clock * 4 >= 800000
                              \/ i = 2 /\ clock * 8 >= 800000
                              \/ i = 3 /\ clock * 16 >= 800000
                              \/ i = 4 /\ clock * 32 >= 800000
  <2>1. \A i : i \in 1 .. 4 <=> i = 1 \/ i = 2 \/ i = 3 \/ i = 4
    BY SMT
  <2> QED
    BY <1>1, <2>1, SMT
<1> HIDE DEF enough
<1>3. \E k \in enough : \A j \in enough : k <= j
  <2>1. 4 \in enough
    BY <1>2, SMT
  <2>2. CASE 1 \in enough
    BY <1>2, <2>2, SMT
  <2>3. CASE 1 \notin enough /\ 2 \in enough
    BY <1>2, <2>3, SMT
  <2>4. CASE 1 \notin enough /\ 2 \notin enough /\ 3 \in enough
    BY <1>2, <2>4, SMT
  <2>5. CASE 1 \notin enough /\ 2 \notin enough /\ 3 \notin enough
    BY <1>2, <2>1, <2>5, SMT
  <2> QED
    BY <2>2, <2>3, <2>4, <2>5, SMT
<1>4. first \in enough /\ \A j \in enough : first <= j
  BY <1>3, SMT
<1> HIDE DEF first
<1>5. first \in 1 .. 4 /\ clock * Multiples[first] \in Nat /\ 800000 <= clock * Multiples[first] /\ clock * Multiples[first] <= 1600000
  <2>1. CASE first = 1
    BY <1>1, <1>2, <1>4, <2>1, SMT
  <2>2. CASE first = 2
    BY <1>1, <1>2, <1>4, <2>2, SMT
  <2>3. CASE first = 3
    BY <1>1, <1>2, <1>4, <2>3, SMT
  <2>4. CASE first = 4
    BY <1>1, <1>2, <1>4, <2>4, SMT
  <2> QED
    BY <1>2, <1>4, <2>1, <2>2, <2>3, <2>4, SMT
<1>6. enough # {}
  BY <1>3, SMT
<1>7. ~(clock < 25000 \/ clock > 400000 \/ enough = {})
  BY <1>6, SMT
<1> DEFINE vco == clock * Multiples[first]
<1>8. T6CalculatePixelClock(clock, base) =
        {[N |-> vco \div (base * 1000), P |-> m, select |-> VideoSelectOutput[first]] :
            m \in Thousandths(vco, base)}
  BY <1>7, SMT DEF T6CalculatePixelClock, enough, first
<1> QED
  BY <1>5, <1>8, SMT

(* Its whole and thousandth parts, in units of the base, make it again, within
   a unit.                                                                  *)
LEMMA DividerMakesClock ==
    ASSUME NEW clock \in Nat, 25000 <= clock, clock <= 400000, NEW base \in {40, 48},
           NEW d \in T6CalculatePixelClock(clock, base)
    PROVE  Makes(d, clock, base)
<1>1. PICK i \in 1 .. 4 :
          /\ clock * Multiples[i] \in Nat
          /\ 800000 <= clock * Multiples[i] /\ clock * Multiples[i] <= 1600000
          /\ \E m \in Thousandths(clock * Multiples[i], base) :
                d = [N |-> (clock * Multiples[i]) \div (base * 1000), P |-> m,
                     select |-> VideoSelectOutput[i]]
  BY MultipleInReach, SMT
<1> DEFINE vco == clock * Multiples[i]
           rest == vco % (base * 1000)
<1>3. vco \in Nat /\ 800000 <= vco /\ vco <= 1600000
  BY <1>1, SMT
<1>2. /\ d.N = vco \div (base * 1000) /\ d.select = VideoSelectOutput[i]
      /\ d.P = rest \div base \/ (rest > 0 /\ rest % base = 0 /\ d.P = rest \div base - 1)
  BY <1>1 DEF Thousandths
<1> HIDE DEF vco
<1>4. /\ base * (d.N * 1000 + d.P) <= vco /\ vco <= base * (d.N * 1000 + d.P) + base
      /\ d.N \in 0 .. 255 /\ d.P \in 0 .. 999
  <2> DEFINE n == d.N  m == d.P
  <2>1. /\ n = vco \div (base * 1000)
        /\ m = rest \div base \/ (rest > 0 /\ rest % base = 0 /\ m = rest \div base - 1)
    BY <1>2
  <2> HIDE DEF n, m
  <2>2. base * (n * 1000 + m) <= vco /\ vco <= base * (n * 1000 + m) + base
        /\ n \in 0 .. 255 /\ m \in 0 .. 999
    <3>1. CASE base = 40
      BY <1>3, <2>1, <3>1, SMT
    <3>2. CASE base = 48
      BY <1>3, <2>1, <3>2, SMT
    <3> QED
      BY <3>1, <3>2, SMT
  <2> QED
    BY <2>2, SMT DEF n, m
<1> QED
  BY <1>2, <1>3, <1>4, SMT DEF Makes, vco

LEMMA EntriesAreRight == ASSUME Timed PROVE TimingMatchesMode
<1> SUFFICES ASSUME NEW p \in Ports, mode[p] # None, Listed(p, mode[p]) # {},
                    ~(timing[p] = None /\ failed)
    PROVE  /\ timing[p].w = mode[p].w /\ timing[p].h = mode[p].h /\ timing[p].fps = mode[p].fps
           /\ Makes(timing[p].divider, timing[p].clock, IF device.lite THEN 48 ELSE 40)
  BY DEF TimingMatchesMode
<1> DEFINE base == IF device.lite THEN 48 ELSE 40
<1>1. PICK t \in Listed(p, mode[p]) : timing[p] \in TimingsOf(t, mode[p])
  BY DEF Timed
<1>2. t \in Tables[p] /\ base \in {40, 48}
  BY DEF Listed
<1>3. /\ timing[p].w = mode[p].w /\ timing[p].h = mode[p].h /\ timing[p].fps = mode[p].fps
      /\ timing[p].clock = t.clock
      /\ timing[p].divider \in T6CalculatePixelClock(t.clock, base)
  BY <1>1 DEF TimingsOf, Listed
<1> HIDE DEF base
<1>4. Makes(timing[p].divider, t.clock, base)
  BY <1>2, <1>3, TablesAssumption, DividerMakesClock
<1> QED
  BY <1>3, <1>4 DEF base

LEMMA OnlyModesTime ==
    ASSUME NEW p \in Ports, PortStep(p)
    PROVE  /\ device' = device /\ (failed => failed')
           /\ UNCHANGED <<mode, timing>> \/ \E m \in shows[p] : SetResolution(p, m)
<1> USE DEF modeVars, flipVars
<1>1. CASE ReadEdid(p)
  BY <1>1 DEF ReadEdid
<1>2. CASE PlugMonitor(p)
  BY <1>2 DEF PlugMonitor
<1>3. CASE Revise(p)
  BY <1>3 DEF Revise
<1>4. CASE StartUsb(p)
  BY <1>4 DEF StartUsb
<1>5. CASE \E m \in shows[p] : SetResolution(p, m)
  <2>0. PICK m \in shows[p] : SetResolution(p, m)
    BY <1>5
  <2>1. device' = device
    BY <2>0 DEF SetResolution
  <2>2. failed => failed'
    <3>1. CASE UNCHANGED failed
      BY <3>1
    <3>2. CASE failed' = TRUE
      BY <3>2
    <3> QED
      BY <2>0, <3>1, <3>2, Zenon DEF SetResolution
  <2> QED
    BY <2>0, <2>1, <2>2, Zenon
<1>6. CASE \E len \in Lengths : FlipHeader(p, len)
  BY <1>6 DEF FlipHeader
<1>7. CASE FlipPayload(p)
  BY <1>7 DEF FlipPayload
<1>8. CASE FlipFails(p)
  BY <1>8 DEF FlipFails
<1>9. CASE t6_libusb_dongle_reset(p)
  BY <1>9 DEF t6_libusb_dongle_reset
<1> QED
  BY <1>1, <1>2, <1>3, <1>4, <1>5, <1>6, <1>7, <1>8, <1>9, PortStep(p) DEF PortStep

(* The timing sent for a mode the dongle lists is of that mode, turned or not,
   and its divider makes the listed clock from between 800 and 1600 MHz, for
   every table of timings with clocks of 25 to 400 MHz
   (t6_libusb_get_resolution_timing, T6CalculatePixelClock).                *)
THEOREM TimingsMakeTheMode == Spec => []TimingMatchesMode
<1>1. Init => Timed
  BY DEF Init, Timed, All
<1>2. Timed /\ [Next]_vars => Timed'
  <2> SUFFICES ASSUME Timed, [Next]_vars PROVE Timed'
    OBVIOUS
  <2>a. device' = device => \A m : \A q \in Ports :
           Listed(q, m)' = Listed(q, m) /\ \A t : TimingsOf(t, m)' = TimingsOf(t, m)
    BY DEF Listed, TimingsOf, Turned
  <2>b. /\ device' = device /\ (failed => failed')
        /\ \/ UNCHANGED <<mode, timing>> \/ Update
           \/ \E p \in Ports : \E m \in shows[p] : SetResolution(p, m)
    <3>1. CASE UNCHANGED vars
      BY <3>1 DEF vars, modeVars, flipVars
    <3>2. CASE ToolActs
      <4>1. CASE Update
        BY <4>1 DEF Update, ToolStep
      <4>2. CASE ~Update
        BY <3>2, <4>2, ToolLeavesPorts
      <4> QED
        BY <4>1, <4>2
    <3>3. CASE \E p \in Ports : PortStep(p)
      BY <3>3, OnlyModesTime
    <3> QED
      BY <3>1, <3>2, <3>3, NextSplits
  <2>1. CASE UNCHANGED <<mode, timing>>
    BY <2>a, <2>b, <2>1 DEF Timed
  <2>2. CASE \E p \in Ports : \E m \in shows[p] : SetResolution(p, m)
    <3>0. PICK p \in Ports : \E m \in shows[p] : SetResolution(p, m)
      BY <2>2
    <3>1. PICK m \in shows[p] : SetResolution(p, m)
      BY <3>0
    <3>2. mode' = [mode EXCEPT ![p] = m]
      BY <3>1 DEF SetResolution
    <3>3. \/ \E t \in Listed(p, m) : \E sent \in TimingsOf(t, m) : timing' = [timing EXCEPT ![p] = sent]
          \/ Listed(p, m) = {} /\ timing' = [timing EXCEPT ![p] = None]
          \/ failed' = TRUE /\ timing' = [timing EXCEPT ![p] = None]
      BY <3>1 DEF SetResolution
    <3> QED
      BY <2>a, <2>b, <3>2, <3>3 DEF Timed
  <2>3. CASE Update
    BY <2>3 DEF Update, Timed, All
  <2> QED
    BY <2>b, <2>1, <2>2, <2>3
<1> QED
  BY <1>1, <1>2, EntriesAreRight, PTL DEF Spec

-----------------------------------------------------------------------------
(* What a port was found capable of, once its EDID is revised.              *)
Bounded(m) == m.w \in Nat /\ m.h \in Nat /\ m.w + m.h <= 16384
Bounded4K(m) == /\ m.w \in Nat /\ m.h \in Nat /\ m.w <= 4096 /\ m.h <= 4096
                /\ m.w * m.h <= 3840 * 2160

Capable ==
    \A p \in Ports : /\ bRun4K30[p] \in BOOLEAN
                     /\ \A m \in shows[p] : IF bRun4K30[p] THEN Bounded4K(m) ELSE Bounded(m)

LEMMA CapableInit == Init => Capable
  BY DEF Init, All, Capable

(* The steps that leave alone what a card is shown.                         *)
LEMMA RevisionOnly ==
    ASSUME NEW p \in Ports, PortStep(p)
    PROVE  UNCHANGED <<shows, bRun4K30>> \/ Revise(p)
<1> USE DEF edidVars
<1>1. CASE ReadEdid(p)
  BY <1>1 DEF ReadEdid
<1>2. CASE PlugMonitor(p)
  BY <1>2 DEF PlugMonitor
<1>4. CASE StartUsb(p)
  BY <1>4 DEF StartUsb
<1>5. CASE \E m \in shows[p] : SetResolution(p, m)
  BY <1>5 DEF SetResolution
<1>6. CASE \E len \in Lengths : FlipHeader(p, len)
  BY <1>6 DEF FlipHeader
<1>7. CASE FlipPayload(p)
  BY <1>7 DEF FlipPayload
<1>8. CASE FlipFails(p)
  BY <1>8 DEF FlipFails
<1>9. CASE t6_libusb_dongle_reset(p)
  BY <1>9 DEF t6_libusb_dongle_reset
<1> QED
  BY <1>1, <1>2, <1>4, <1>5, <1>6, <1>7, <1>8, <1>9, PortStep(p) DEF PortStep

LEMMA RevisionKeepsCapable ==
    ASSUME Shown, Capable, NEW p \in Ports, Revise(p)
    PROVE  Capable'
<1> DEFINE e == monitor[p]
           good == e.answer = "ok" /\ EdidIsGood(e)
<1>1. PICK garbage \in BOOLEAN, beyond \in BOOLEAN, answered \in {TRUE, ~Faults} :
         LET is4K == IF good THEN Monitor4K(e, t6_libusb_get_edid(e, p \in Vga), garbage, beyond)
                     ELSE garbage
             r    == t6_revise_edid(is4K, t6_libusb_get_4K_capbability(Tables[p], answered),
                                    device.super)
         IN  /\ bRun4K30' = [bRun4K30 EXCEPT ![p] = r.bRun4K30]
             /\ shows' = [shows EXCEPT ![p] = IF r.edid = "4k" THEN FourKEdid
                                              ELSE IF r.edid = "generic" \/ ~good THEN Generic
                                              ELSE ModesOf(e)]
  BY DEF Revise
<1> DEFINE is4K == IF good THEN Monitor4K(e, t6_libusb_get_edid(e, p \in Vga), garbage, beyond)
                   ELSE garbage
           r == t6_revise_edid(is4K, t6_libusb_get_4K_capbability(Tables[p], answered),
                               device.super)
<1>2. /\ bRun4K30' = [bRun4K30 EXCEPT ![p] = r.bRun4K30]
      /\ shows' = [shows EXCEPT ![p] = IF r.edid = "4k" THEN FourKEdid
                                       ELSE IF r.edid = "generic" \/ ~good THEN Generic
                                       ELSE ModesOf(e)]
  BY <1>1
<1>3. \/ r.edid = "4k" /\ r.bRun4K30 = TRUE
      \/ r.edid # "4k" /\ r.bRun4K30 = FALSE
  BY DEF t6_revise_edid
<1> HIDE DEF r, good
<1>4. e \in Monitors[p] /\ DOMAIN bRun4K30 = Ports /\ DOMAIN shows = Ports
  BY DEF Shown
<1>6. /\ \A m \in FourKEdid : Bounded4K(m)
      /\ \A m \in Generic \cup ModesOf(e) : Bounded(m)
  BY <1>4, SidesAssumption, SMT DEF Bounded, Bounded4K
<1> HIDE DEF e
<1>7. \A q \in Ports \ {p} : bRun4K30'[q] = bRun4K30[q] /\ shows'[q] = shows[q]
  BY <1>2, <1>4
<1>8. CASE r.edid = "4k"
  <2>1. bRun4K30'[p] = TRUE /\ shows'[p] = FourKEdid
    BY <1>2, <1>3, <1>4, <1>8
  <2> QED
    BY <1>3, <1>6, <1>7, <1>8, <2>1 DEF Capable
<1>9. CASE r.edid # "4k"
  <2>1. bRun4K30'[p] = FALSE /\ shows'[p] \subseteq Generic \cup ModesOf(e)
    BY <1>2, <1>3, <1>4, <1>9
  <2> QED
    BY <1>6, <1>7, <2>1 DEF Capable
<1> QED
  BY <1>8, <1>9

LEMMA CapableHolds == Spec => []Capable
<1>1. Shown /\ Capable /\ [Next]_vars => Capable'
  <2> SUFFICES ASSUME Shown, Capable, [Next]_vars PROVE Capable'
    OBVIOUS
  <2>1. CASE UNCHANGED <<shows, bRun4K30>>
    BY <2>1 DEF Capable
  <2>2. CASE Update
    BY <2>2 DEF Update, All, Capable
  <2>3. CASE UNCHANGED vars
    BY <2>1, <2>3 DEF vars, edidVars
  <2>4. CASE Next
    BY <2>1, <2>2, <2>4, NextSplits, ToolLeavesPorts, RevisionOnly, RevisionKeepsCapable
  <2> QED
    BY <2>3, <2>4
<1> QED
  BY CapableInit, ShownHolds, <1>1, PTL DEF Spec

(* The room of a picture of a port, and where the port's things lie: an inner
   port has room for 1080p only, whatever its flag.                         *)
Room(p) == IF bRun4K30[p] /\ ~Inner(p) THEN MB(12) ELSE MB(4)

(* The dongle lists no 4K for an inner port: if it has the flag all the same
   its query was not answered.                                              *)
LEMMA RoomFor4K == ASSUME NEW p \in Ports, bRun4K30[p], Roomy(p) PROVE Room(p) = MB(12)
  BY OutputsAssumption DEF Roomy, Room, Inner, Misjudged

LEMMA HomeShape ==
    ASSUME Capable, NEW p \in Ports
    PROVE  /\ Home(p).cmd \in Int /\ Home(p).fbAddr1 \in Int /\ Home(p).fbAddr2 \in Int
           /\ Home(p).fbAddr3 \in Int /\ Room(p) \in Int /\ Room(p) > 0
           /\ 0 <= Home(p).cmd /\ Home(p).cmd <= Home(p).fbAddr1
           /\ Home(p).fbAddr1 + Room(p) <= Home(p).fbAddr2
           /\ Home(p).fbAddr2 + Room(p) <= Home(p).fbAddr3
           /\ Home(p).fbAddr3 + Room(p) <= MB(ramsize)
<1>1. bRun4K30[p] \in BOOLEAN
  BY DEF Capable
<1> QED
  BY <1>1, MemoryAssumption, SMT DEF Home, Layout, Triple, tmp, MB, Room, Inner

LEMMA HomesApart ==
    ASSUME Capable, NEW p \in Ports, NEW q \in Ports, p # q
    PROVE  \/ Home(p).fbAddr3 + Room(p) <= Home(q).cmd
           \/ Home(q).fbAddr3 + Room(q) <= Home(p).cmd
<1>1. Ports # {0}
  OBVIOUS
<1>2. bRun4K30[p] \in BOOLEAN /\ bRun4K30[q] \in BOOLEAN
  BY DEF Capable
<1>3. CASE p = Dvo
  BY <1>1, <1>2, <1>3, MemoryAssumption, SMT DEF Home, Layout, Triple, tmp, MB, Room, Inner
<1>4. CASE q = Dvo
  BY <1>1, <1>2, <1>4, MemoryAssumption, SMT DEF Home, Layout, Triple, tmp, MB, Room, Inner
<1> QED
  BY <1>3, <1>4, OutputsAssumption

-----------------------------------------------------------------------------
(* Aligned sides: at most one step more.                                    *)
LEMMA AlignBound ==
    ASSUME NEW n \in Nat, NEW to \in {16, 32}
    PROVE  Align(n, to) \in Nat /\ Align(n, to) <= n + to - 1
<1>1. CASE to = 16
  BY <1>1, SMT DEF Align
<1>2. CASE to = 32
  BY <1>2, SMT DEF Align
<1> QED
  BY <1>1, <1>2

LEMMA ProductGrows ==
    ASSUME NEW a \in Nat, NEW b \in Nat, NEW c \in Nat, NEW d \in Nat, a <= c, b <= d
    PROVE  a * b \in Nat /\ a * b <= c * d
<1>1. a * b \in Nat /\ c * b \in Nat /\ c * d \in Nat
  BY SMT
<1>2. a * b <= c * b
  <2>1. PICK k \in Nat : c = a + k
    <3>1. c - a \in Nat /\ c = a + (c - a)
      BY SMT
    <3> QED
      BY <3>1
  <2>2. c * b = a * b + k * b /\ k * b >= 0
    BY <2>1, SMT
  <2> QED
    BY <1>1, <2>2, SMT
<1>3. c * b <= c * d
  <2>1. PICK k \in Nat : d = b + k
    <3>1. d - b \in Nat /\ d = b + (d - b)
      BY SMT
    <3> QED
      BY <3>1
  <2>2. c * d = c * b + c * k /\ c * k >= 0
    BY <2>1, SMT
  <2> QED
    BY <1>1, <2>2, SMT
<1> QED
  BY <1>1, <1>2, <1>3, SMT

(* A picture decoded from a JPEG of up to 1080p fits 4 MB, whatever its shape. *)
LEMMA JpegPictureFits ==
    ASSUME NEW w \in Nat, NEW h \in Nat, w + h <= 16384, w * h <= 1920 * 1080, NEW cmd, NEW len,
           NEW flag, NEW fb \in Int
    PROVE  /\ FilpJpegFrame(cmd, fb, len, w, h, flag).picture.hi \in Int
           /\ FilpJpegFrame(cmd, fb, len, w, h, flag).picture.hi <= fb + MB(4)
<1> DEFINE a == Align(w, 32)
           b == Align(h, 32)
<1>1. a \in Nat /\ b \in Nat /\ a <= w + 31 /\ b <= h + 31
  BY AlignBound, SMT
<1> HIDE DEF a, b
<1>2. a * b \in Nat /\ a * b <= (w + 31) * (h + 31)
  BY <1>1, ProductGrows, SMT
<1>3. (w + 31) * (h + 31) = w * h + 31 * (w + h) + 961
  BY SMT
<1>4. w * h \in Nat
  BY SMT
<1> DEFINE plane == a * b
           area == w * h
<1>5. plane \in Nat /\ plane <= area + 31 * (w + h) + 961 /\ area <= 1920 * 1080 /\ area \in Nat
  BY <1>2, <1>3, <1>4, SMT
<1>6. FilpJpegFrame(cmd, fb, len, w, h, flag).picture.hi = fb + (plane + 1024 + plane \div 2)
  BY DEF FilpJpegFrame, Extent, a, b
<1> HIDE DEF plane, area
<1>7. plane + 1024 + plane \div 2 \in Nat /\ plane + 1024 + plane \div 2 <= MB(4)
  BY <1>5, SMT DEF MB
<1> QED
  BY <1>6, <1>7, SMT DEF MB

(* A 4K picture fits 12 MB.                                                 *)
LEMMA FourKPictureFits ==
    ASSUME NEW w \in Nat, NEW h \in Nat, w <= 4096, h <= 4096, w * h <= 3840 * 2160,
           NEW fb \in Int
    PROVE  /\ FilpYV12Frame(fb, w, h).picture.hi \in Int
           /\ FilpYV12Frame(fb, w, h).command.hi \in Int
           /\ FilpYV12Frame(fb, w, h).command.hi <= FilpYV12Frame(fb, w, h).picture.hi
           /\ FilpYV12Frame(fb, w, h).picture.hi <= fb + MB(12)
<1> DEFINE half == w \div 2
           a == Align(w, 16)
           b == Align(half, 16)
           area == w * h
           y == a * h
           c == b * h
<1>1. half \in Nat /\ 2 * half <= w
  BY SMT
<1> HIDE DEF half
<1>2. a \in Nat /\ a <= w + 15 /\ b \in Nat /\ b <= half + 15
  BY <1>1, AlignBound, SMT
<1> HIDE DEF a, b
<1>3. area \in Nat /\ area <= 3840 * 2160
  BY SMT
<1>4. y \in Nat /\ y <= area + 15 * h
  <2>1. y \in Nat /\ y <= (w + 15) * h
    BY <1>2, ProductGrows, SMT
  <2>2. (w + 15) * h = area + 15 * h
    BY SMT
  <2> QED
    BY <2>1, <2>2, <1>3, SMT
<1>5. c \in Nat /\ 2 * c <= area + 30 * h
  <2>1. c \in Nat /\ c <= (half + 15) * h
    BY <1>1, <1>2, ProductGrows, SMT
  <2>2. (2 * half + 30) * h <= (w + 30) * h
    BY <1>1, ProductGrows, SMT
  <2>3. 2 * ((half + 15) * h) = (2 * half + 30) * h /\ (w + 30) * h = area + 30 * h
    BY <1>1, SMT
  <2>4. (half + 15) * h \in Nat
    BY <1>1, SMT
  <2> QED
    BY <2>1, <2>2, <2>3, <2>4, <1>3, SMT
<1> DEFINE sent == (w * h * 3) \div 2 + 48 + 1024
           planes == 48 + Align(w, 16) * h + 2 * ((Align(w \div 2, 16) * h) \div 2)
<1>6. FilpYV12Frame(fb, w, h) = [command |-> Extent(fb, sent), flag |-> FALSE,
         picture |-> Extent(fb, IF sent > planes THEN sent ELSE planes)]
  BY DEF FilpYV12Frame
<1>7. sent = (area * 3) \div 2 + 48 + 1024 /\ planes = 48 + y + 2 * (c \div 2)
  BY DEF a, b, half
<1> HIDE DEF sent, planes, area, y, c
<1>8. sent \in Nat /\ sent <= MB(12)
  BY <1>3, <1>7, SMT DEF MB
<1>9. planes \in Nat /\ planes <= MB(12)
  BY <1>3, <1>4, <1>5, <1>7, SMT DEF MB
<1> DEFINE longer == IF sent > planes THEN sent ELSE planes
<1>10. longer \in Nat /\ sent <= longer /\ longer <= MB(12)
  BY <1>8, <1>9, SMT DEF MB
<1>11. /\ FilpYV12Frame(fb, w, h).picture.hi = fb + longer
       /\ FilpYV12Frame(fb, w, h).command.hi = fb + sent
  BY <1>6 DEF Extent
<1> HIDE DEF longer
<1> QED
  BY <1>8, <1>10, <1>11, SMT DEF MB

-----------------------------------------------------------------------------
Span == [lo : Int, hi : Int]
Flip == [command : Span, flag : BOOLEAN, picture : Span]

(* A flip is placed where its port has room for it: one of the three pictures,
   and a command before them, or a 4K picture that is its own command.      *)
Placed(p, f) ==
    /\ f \in Flip
    /\ f.picture.lo \in {Home(p).fbAddr1, Home(p).fbAddr2, Home(p).fbAddr3}
    /\ Roomy(p) => f.picture.hi <= f.picture.lo + Room(p)
    /\ IF bRun4K30[p] THEN f.command.lo = f.picture.lo /\ f.command.hi <= f.picture.hi
       ELSE Home(p).cmd <= f.command.lo /\ f.command.hi <= Home(p).fbAddr1

(* A flip takes the next picture, and a command after the last one unless the
   decoder is reset with it.                                                *)
Follows(p, f, g) ==
    /\ g.picture.lo = NextPicture(Home(p), f.picture.lo)
    /\ bRun4K30[p] \/ g.flag \/ f.command.hi <= g.command.lo

(* The addresses of a port are those after its last flip.                   *)
After(p, f) ==
    /\ fbAddr[p] = f.picture.lo
    /\ bRun4K30[p] \/ f.command.hi <= cmdAddr[p]

PortFlips(p) ==
    /\ recent[p] \in Seq(Flip) /\ Len(recent[p]) <= 3
    /\ \A i \in 1 .. Len(recent[p]) : Placed(p, recent[p][i])
    /\ \A i \in 1 .. Len(recent[p]) - 1 : Follows(p, recent[p][i], recent[p][i + 1])
    /\ phase[p] \in {"poll", "revise", "start"} => Len(recent[p]) = 0
    /\ phase[p] = "work" /\ lock # p /\ Len(recent[p]) > 0 => After(p, recent[p][Len(recent[p])])
    /\ lock = p => /\ Placed(p, pending) /\ After(p, pending)
                   /\ Len(recent[p]) > 0 => Follows(p, recent[p][Len(recent[p])], pending)

Flipping ==
    /\ DOMAIN recent = Ports /\ DOMAIN fbAddr = Ports
    /\ \A p \in Ports : PortFlips(p)

(* Three flips are kept: the new one comes last, the others move up.        *)
LEMMA RecentKeepsOrder ==
    ASSUME NEW S, NEW s \in Seq(S), Len(s) <= 3, NEW x \in S
    PROVE  /\ Recent(s, x) \in Seq(S) /\ Len(Recent(s, x)) \in 1 .. 3
           /\ Recent(s, x)[Len(Recent(s, x))] = x
           /\ \E d \in {0, 1} : /\ Len(Recent(s, x)) = Len(s) + 1 - d
                               /\ \A i \in 1 .. Len(s) - d : Recent(s, x)[i] = s[i + d]
<1>1. CASE Len(s) < 3
  <2>1. Recent(s, x) = Append(s, x)
    BY <1>1 DEF Recent
  <2>2. /\ Append(s, x) \in Seq(S) /\ Len(Append(s, x)) = Len(s) + 1
        /\ Append(s, x)[Len(s) + 1] = x /\ \A i \in 1 .. Len(s) : Append(s, x)[i] = s[i]
    OBVIOUS
  <2>3. Len(s) \in Nat
    OBVIOUS
  <2>4. /\ Len(Recent(s, x)) = Len(s) + 1 - 0
        /\ \A i \in 1 .. Len(s) - 0 : Recent(s, x)[i] = s[i + 0]
    BY <2>1, <2>2, <2>3
  <2> QED
    BY <1>1, <2>1, <2>2, <2>3, <2>4
<1>2. CASE Len(s) = 3
  <2> DEFINE t == Tail(s)
  <2>1. Recent(s, x) = Append(t, x)
    BY <1>2 DEF Recent
  <2>2. s # <<>>
    <3> SUFFICES ASSUME s = <<>> PROVE FALSE
      OBVIOUS
    <3>1. Len(s) = 0
      BY EmptySeq, Zenon
    <3> QED
      BY <1>2, <3>1
  <2>3. t \in Seq(S) /\ Len(t) = Len(s) - 1 /\ \A i \in 1 .. Len(t) : t[i] = s[i + 1]
    BY <2>2, HeadTailProperties
  <2> HIDE DEF t
  <2>4. /\ Append(t, x) \in Seq(S) /\ Len(Append(t, x)) = Len(t) + 1
        /\ Append(t, x)[Len(t) + 1] = x /\ \A i \in 1 .. Len(t) : Append(t, x)[i] = t[i]
    BY <2>3, AppendProperties
  <2>5. Len(t) = 2 /\ Len(Append(t, x)) = 3
    BY <1>2, <2>3, <2>4
  <2>6. /\ Len(Recent(s, x)) = Len(s) + 1 - 1
        /\ \A i \in 1 .. Len(s) - 1 : Recent(s, x)[i] = s[i + 1]
    BY <1>2, <2>1, <2>3, <2>4, <2>5
  <2> QED
    BY <1>2, <2>1, <2>4, <2>5, <2>6
<1>3. Len(s) \in Nat
  BY LenProperties
<1>4. Len(s) < 3 \/ Len(s) = 3
  <2> DEFINE n == Len(s)
  <2>1. n \in Nat /\ n <= 3
    BY <1>3
  <2> HIDE DEF n
  <2>2. n < 3 \/ n = 3
    BY <2>1
  <2> QED
    BY <2>2 DEF n
<1> QED
  BY <1>1, <1>2, <1>4

(* What the flips of a port depend on.                                      *)
LEMMA FlipsAreLeft ==
    ASSUME NEW q \in Ports, PortFlips(q),
           bRun4K30'[q] = bRun4K30[q], shows'[q] = shows[q], phase'[q] = phase[q],
           recent'[q] = recent[q], fbAddr'[q] = fbAddr[q], cmdAddr'[q] = cmdAddr[q],
           lock' = q <=> lock = q, lock = q => pending' = pending
    PROVE  PortFlips(q)'
<1>1. Home(q)' = Home(q) /\ Room(q)' = Room(q) /\ Roomy(q)' = Roomy(q)
  BY DEF Home, Room, Roomy, Misjudged, Inner
<1>2. /\ \A f : Placed(q, f)' = Placed(q, f)
      /\ \A f, g : Follows(q, f, g)' = Follows(q, f, g)
      /\ \A f : After(q, f)' = After(q, f)
  BY <1>1 DEF Placed, Follows, After
<1>3. lock = q => Placed(q, pending)' /\ After(q, pending)'
  BY <1>1 DEF PortFlips, Placed, After
<1>4. lock = q /\ Len(recent[q]) > 0 => Follows(q, recent[q][Len(recent[q])], pending)'
  BY <1>1 DEF PortFlips, Follows
<1> QED
  BY <1>1, <1>2, <1>3, <1>4 DEF PortFlips

LEMMA NoFlipsYet ==
    ASSUME NEW q \in Ports, PortFlips(q), Len(recent[q]) = 0, recent'[q] = recent[q], lock' # q
    PROVE  PortFlips(q)'
<1>1. 1 .. Len(recent'[q]) = {} /\ 1 .. Len(recent'[q]) - 1 = {} /\ ~(Len(recent'[q]) > 0)
      /\ Len(recent'[q]) <= 3
  BY SMT
<1> QED
  BY <1>1 DEF PortFlips

LEMMA FlipsEnd ==
    ASSUME NEW q \in Ports, PortFlips(q), bRun4K30'[q] = bRun4K30[q], shows'[q] = shows[q],
           phase'[q] \in {"reset", "ended"}, recent'[q] = recent[q], lock' # q
    PROVE  PortFlips(q)'
<1>1. Home(q)' = Home(q) /\ Room(q)' = Room(q) /\ Roomy(q)' = Roomy(q)
  BY DEF Home, Room, Roomy, Misjudged, Inner
<1>2. /\ \A f : Placed(q, f)' = Placed(q, f)
      /\ \A f, g : Follows(q, f, g)' = Follows(q, f, g)
  BY <1>1 DEF Placed, Follows
<1> QED
  BY <1>2 DEF PortFlips

(* A flip that is begun: its picture is the next one, its command the next
   slot.                                                                    *)
LEMMA HeaderFlips ==
    ASSUME Addresses, Shown, Capable, NEW p \in Ports, PortFlips(p), NEW len \in Lengths,
           FlipHeader(p, len), DOMAIN fbAddr = Ports
    PROVE  PortFlips(p)'
<1> DEFINE H == Home(p)
           fb == NextPicture(H, fbAddr[p])
           cmd == CommandAt(H, cmdAddr[p], len)
           w == IF Turned THEN mode[p].h ELSE mode[p].w
           h == IF Turned THEN mode[p].w ELSE mode[p].h
           flag == Wraps(H, cmdAddr[p], len) \/ count[p] + 1 < ResetFrames
<1> USE PortsAssumption DEF At, edidVars, modeVars
<1>1. /\ phase[p] = "work" /\ phase' = phase /\ lock = None /\ lock' = p /\ mode[p] # None
      /\ bRun4K30' = bRun4K30 /\ shows' = shows /\ recent' = recent
  BY DEF FlipHeader
<1>2. layout[p] = H
  BY <1>1 DEF Addresses
<1>3. /\ fbAddr' = [fbAddr EXCEPT ![p] = fb]
      /\ bRun4K30[p] => pending' = FilpYV12Frame(fb, w, h) /\ cmdAddr' = cmdAddr
      /\ ~bRun4K30[p] => /\ pending' = FilpJpegFrame(cmd, fb, len, w, h, flag)
                         /\ cmdAddr' = [cmdAddr EXCEPT ![p] = cmd + cmdoffset(len)]
  BY <1>2 DEF FlipHeader
<1>4. /\ H.cmd \in Int /\ H.fbAddr1 \in Int /\ H.fbAddr2 \in Int /\ H.fbAddr3 \in Int
      /\ Room(p) \in Int
  BY HomeShape
<1>5. fb \in {H.fbAddr1, H.fbAddr2, H.fbAddr3} /\ fb \in Int
  BY <1>4 DEF NextPicture
<1>6. mode[p] \in shows[p]
  BY <1>1 DEF Shown
<1>7. bRun4K30[p] \in BOOLEAN
  BY DEF Capable
<1>8. Home(p)' = H /\ Room(p)' = Room(p) /\ Roomy(p)' = Roomy(p)
  BY <1>1 DEF Home, Room, Roomy, Misjudged, Inner
<1>9. /\ \A f : Placed(p, f)' = Placed(p, f)
      /\ \A f, g : Follows(p, f, g)' = Follows(p, f, g)
  BY <1>1, <1>8 DEF Placed, Follows
<1> HIDE DEF fb, cmd, flag
<1>10. /\ Placed(p, pending') /\ pending'.picture.lo = fb
       /\ ~bRun4K30[p] => /\ pending'.command.hi <= cmd + cmdoffset(len)
                          /\ pending'.flag = flag /\ pending'.command.lo = cmd
  <2>1. CASE bRun4K30[p]
    <3>1. Bounded4K(mode[p])
      BY <1>6, <2>1 DEF Capable
    <3>2. w \in Nat /\ h \in Nat /\ w <= 4096 /\ h <= 4096 /\ w * h <= 3840 * 2160
      BY <3>1, SMT DEF Bounded4K
    <3> HIDE DEF w, h
    <3>3. /\ FilpYV12Frame(fb, w, h).picture.hi \in Int
          /\ FilpYV12Frame(fb, w, h).command.hi \in Int
          /\ FilpYV12Frame(fb, w, h).command.hi <= FilpYV12Frame(fb, w, h).picture.hi
          /\ FilpYV12Frame(fb, w, h).picture.hi <= fb + MB(12)
      BY <1>5, <3>2, FourKPictureFits, SMT
    <3> DEFINE sent == (w * h * 3) \div 2 + 48 + 1024
               planes == 48 + Align(w, 16) * h + 2 * ((Align(w \div 2, 16) * h) \div 2)
               a == fb + sent
               b == fb + (IF sent > planes THEN sent ELSE planes)
    <3>4. pending' = [command |-> [lo |-> fb, hi |-> a], flag |-> FALSE,
                      picture |-> [lo |-> fb, hi |-> b]]
      BY <1>3, <2>1, Zenon DEF FilpYV12Frame, Extent
    <3> HIDE DEF a, b
    <3>5. a \in Int /\ b \in Int /\ a <= b /\ b <= fb + MB(12)
      <4>1. pending' = FilpYV12Frame(fb, w, h)
        BY <1>3, <2>1
      <4> QED
        BY <3>3, <3>4, <4>1
    <3>6. pending' \in Flip
      BY <1>5, <3>4, <3>5 DEF Flip, Span
    <3>7. Roomy(p) => Room(p) = MB(12)
      BY <2>1, RoomFor4K
    <3> QED
      BY <1>5, <2>1, <3>4, <3>5, <3>6, <3>7 DEF Placed
  <2>2. CASE ~bRun4K30[p]
    <3>1. Bounded(mode[p])
      BY <1>6, <2>2 DEF Capable
    <3>2. w \in Nat /\ h \in Nat /\ w + h <= 16384
      BY <3>1, SMT DEF Bounded
    <3>3. Roomy(p) => w * h <= 1920 * 1080
      <4>1. Roomy(p) => mode[p].w * mode[p].h <= 1920 * 1080
        BY <1>6, <2>2, SMT DEF Roomy
      <4> QED
        BY <3>1, <4>1, SMT DEF Bounded
    <3> HIDE DEF w, h
    <3> DEFINE plane == Align(w, 32) * Align(h, 32)
               hi == fb + (plane + 1024 + plane \div 2)
    <3>4. pending' = [command |-> [lo |-> cmd, hi |-> cmd + len], flag |-> flag,
                      picture |-> [lo |-> fb, hi |-> hi]]
      BY <1>3, <2>2, Zenon DEF FilpJpegFrame, Extent
    <3>5. hi \in Int
      <4>1. Align(w, 32) \in Nat /\ Align(h, 32) \in Nat
        BY <3>2, AlignBound, SMT
      <4>2. plane \in Nat
        BY <4>1, ProductGrows, SMT
      <4> HIDE DEF plane
      <4> QED
        BY <1>5, <4>2, SMT
    <3>6. Roomy(p) => hi <= fb + MB(4)
      <4>1. FilpJpegFrame(cmd, fb, len, w, h, flag).picture.hi = hi
        BY DEF FilpJpegFrame, Extent
      <4> HIDE DEF hi
      <4> QED
        BY <1>5, <3>2, <3>3, <4>1, JpegPictureFits, SMT
    <3> HIDE DEF hi, plane
    <3>7. /\ Home(p) \in [cmd : Int, fbAddr1 : Int, fbAddr2 : Int, fbAddr3 : Int]
          /\ H.cmd + MB(6) <= H.fbAddr1
      BY <2>2, HomesAreLarge
    <3>8. cmdAddr[p] \in Int /\ H.cmd <= cmdAddr[p]
      BY <1>1, <1>4, <2>2 DEF Addresses, Small
    <3>9. len \in 0 .. MB(3)
      BY LengthsAssumption
    <3>10. /\ cmd \in Int /\ H.cmd <= cmd
           /\ len <= cmdoffset(len) /\ cmdoffset(len) \in Int
           /\ cmd + cmdoffset(len) <= H.fbAddr1
      BY <3>7, <3>8, <3>9, SlotHolds DEF cmd
    <3>11. len \in Int
      BY <3>9, Megabytes
    <3>12. /\ cmd + len \in Int /\ cmd + len <= H.fbAddr1
           /\ cmd + len <= cmd + cmdoffset(len)
      BY <1>4, <3>10, <3>11
    <3>13. pending' \in Flip
      BY <1>5, <3>4, <3>5, <3>10, <3>12 DEF Flip, Span, flag
    <3>14. Room(p) = MB(4)
      BY <2>2 DEF Room
    <3> QED
      BY <1>5, <2>2, <3>4, <3>6, <3>10, <3>12, <3>13, <3>14 DEF Placed
  <2> QED
    BY <2>1, <2>2
<1>11. fbAddr'[p] = fb /\ (~bRun4K30[p] => cmdAddr'[p] = cmd + cmdoffset(len))
  BY <1>3 DEF Addresses
<1>12. After(p, pending)'
  BY <1>1, <1>10, <1>11 DEF After
<1>13. ASSUME Len(recent[p]) > 0
       PROVE  Follows(p, recent[p][Len(recent[p])], pending')
  <2> DEFINE last == recent[p][Len(recent[p])]
  <2>1. After(p, last) /\ lock # p
    BY <1>1, <1>13 DEF PortFlips
  <2> HIDE DEF last
  <2>2. pending'.picture.lo = NextPicture(H, last.picture.lo)
    BY <1>10, <2>1 DEF After, fb
  <2>3. bRun4K30[p] \/ pending'.flag \/ last.command.hi <= pending'.command.lo
    <3> SUFFICES ASSUME ~bRun4K30[p], ~flag PROVE last.command.hi <= pending'.command.lo
      BY <1>10
    <3>1. cmd = cmdAddr[p]
      BY DEF flag, cmd, CommandAt
    <3> QED
      BY <1>10, <2>1, <3>1 DEF After
  <2>4. Follows(p, last, pending')
    BY <2>2, <2>3 DEF Follows
  <2> QED
    BY <2>4 DEF last
<1>14. /\ Placed(p, pending)'
       /\ Len(recent[p]) > 0 => Follows(p, recent[p][Len(recent[p])], pending)'
  BY <1>1, <1>8, <1>10, <1>13 DEF Placed, Follows
<1> QED
  BY <1>1, <1>9, <1>12, <1>14 DEF PortFlips

LEMMA PayloadFlips ==
    ASSUME Addresses, NEW p \in Ports, PortFlips(p), FlipPayload(p), DOMAIN recent = Ports
    PROVE  PortFlips(p)'
<1> USE PortsAssumption DEF At, edidVars, memoryVars
<1> DEFINE s == recent[p]
           t == Recent(s, pending)
<1>1. /\ phase[p] = "work" /\ phase' = phase /\ lock = p /\ lock' = None
      /\ bRun4K30' = bRun4K30 /\ shows' = shows /\ fbAddr' = fbAddr /\ cmdAddr' = cmdAddr
      /\ recent'[p] = t
  BY DEF FlipPayload
<1>2. Home(p)' = Home(p) /\ Room(p)' = Room(p) /\ Roomy(p)' = Roomy(p)
  BY <1>1 DEF Home, Room, Roomy, Misjudged, Inner
<1>3. /\ \A f : Placed(p, f)' = Placed(p, f)
      /\ \A f, g : Follows(p, f, g)' = Follows(p, f, g)
      /\ \A f : After(p, f)' = After(p, f)
  BY <1>1, <1>2 DEF Placed, Follows, After
<1>4. s \in Seq(Flip) /\ Len(s) <= 3 /\ Placed(p, pending) /\ After(p, pending)
      /\ (Len(s) > 0 => Follows(p, s[Len(s)], pending))
      /\ (\A i \in 1 .. Len(s) : Placed(p, s[i]))
      /\ \A i \in 1 .. Len(s) - 1 : Follows(p, s[i], s[i + 1])
  BY <1>1 DEF PortFlips
<1>5. pending \in Flip /\ Len(s) \in Nat
  BY <1>4, LenProperties DEF Placed
<1>6. /\ t \in Seq(Flip) /\ Len(t) \in 1 .. 3 /\ t[Len(t)] = pending
      /\ \E d \in {0, 1} : /\ Len(t) = Len(s) + 1 - d
                          /\ \A i \in 1 .. Len(s) - d : t[i] = s[i + d]
  BY <1>4, <1>5, RecentKeepsOrder
<1> HIDE DEF s, t
<1>7. PICK d \in {0, 1} : Len(t) = Len(s) + 1 - d /\ \A i \in 1 .. Len(s) - d : t[i] = s[i + d]
  BY <1>6
<1>8. \A i \in 1 .. Len(t) : Placed(p, t[i])
  <2> TAKE i \in 1 .. Len(t)
  <2>1. CASE i = Len(t)
    BY <1>4, <1>6, <2>1
  <2>2. CASE i # Len(t)
    <3>1. i \in 1 .. Len(s) - d /\ i + d \in 1 .. Len(s)
      BY <1>5, <1>6, <1>7, <2>2
    <3> QED
      BY <1>4, <1>7, <3>1
  <2> QED
    BY <2>1, <2>2
<1>9. \A i \in 1 .. Len(t) - 1 : Follows(p, t[i], t[i + 1])
  <2> TAKE i \in 1 .. Len(t) - 1
  <2>1. i \in 1 .. Len(s) - d /\ t[i] = s[i + d]
    BY <1>5, <1>6, <1>7
  <2>2. CASE i = Len(t) - 1
    <3>1. i + d = Len(s) /\ Len(s) > 0 /\ t[i + 1] = pending
      BY <1>5, <1>6, <1>7, <2>1, <2>2
    <3> QED
      BY <1>4, <2>1, <3>1
  <2>3. CASE i # Len(t) - 1
    <3>1. /\ i + 1 \in 1 .. Len(s) - d /\ i + d \in 1 .. Len(s) - 1
          /\ (i + 1) + d = (i + d) + 1
      BY <1>5, <1>6, <1>7, <2>1, <2>3
    <3>2. t[i + 1] = s[(i + d) + 1]
      BY <1>7, <3>1
    <3> QED
      BY <1>4, <2>1, <3>1, <3>2
  <2> QED
    BY <2>2, <2>3
<1>10. Len(t) > 0 /\ Len(t) <= 3 /\ After(p, t[Len(t)])
  BY <1>4, <1>6
<1> QED
  BY <1>1, <1>3, <1>6, <1>8, <1>9, <1>10 DEF PortFlips

LEMMA PortsKeepFlips ==
    ASSUME Addresses, Shown, Capable, Flipping, NEW p \in Ports, PortStep(p)
    PROVE  Flipping'
<1> USE PortsAssumption DEF At, Goes, edidVars, memoryVars, modeVars, flipVars
<1>0. /\ \A q \in Ports : PortFlips(q)
      /\ DOMAIN recent = Ports /\ DOMAIN fbAddr = Ports /\ DOMAIN cmdAddr = Ports
      /\ DOMAIN phase = Ports /\ DOMAIN shows = Ports /\ DOMAIN bRun4K30 = Ports
  BY DEF Flipping, Addresses, Shown
<1>a. phase[p] \in {"poll", "revise", "start"} => Len(recent[p]) = 0
  BY <1>0 DEF PortFlips
<1>b. \A q \in Ports : lock = q => phase[q] = "work"
  BY DEF Addresses
<1>c. ASSUME /\ DOMAIN recent' = Ports /\ DOMAIN fbAddr' = Ports
             /\ \A q \in Ports \ {p} :
                   /\ bRun4K30'[q] = bRun4K30[q] /\ shows'[q] = shows[q] /\ phase'[q] = phase[q]
                   /\ recent'[q] = recent[q] /\ fbAddr'[q] = fbAddr[q] /\ cmdAddr'[q] = cmdAddr[q]
                   /\ lock' = q <=> lock = q
                   /\ lock = q => pending' = pending,
             PortFlips(p)'
      PROVE  Flipping'
  <2>1. \A q \in Ports \ {p} : PortFlips(q)'
    BY <1>0, <1>c, FlipsAreLeft
  <2> QED
    BY <1>c, <2>1 DEF Flipping
<1>1. CASE ReadEdid(p)
  <2>1. PortFlips(p)'
    BY <1>0, <1>1, <1>a, <1>b, NoFlipsYet DEF ReadEdid
  <2> QED
    BY <1>0, <1>1, <1>c, <2>1 DEF ReadEdid
<1>2. CASE PlugMonitor(p)
  <2>1. PortFlips(p)'
    BY <1>0, <1>2, <1>a, <1>b, NoFlipsYet DEF PlugMonitor
  <2> QED
    BY <1>0, <1>2, <1>c, <2>1 DEF PlugMonitor
<1>3. CASE Revise(p)
  <2>1. PortFlips(p)'
    BY <1>0, <1>3, <1>a, <1>b, NoFlipsYet DEF Revise
  <2>2. \A q \in Ports \ {p} : bRun4K30'[q] = bRun4K30[q] /\ shows'[q] = shows[q]
    BY <1>0, <1>3 DEF Revise
  <2> QED
    BY <1>0, <1>3, <1>c, <2>1, <2>2 DEF Revise
<1>4. CASE StartUsb(p)
  <2>1. PortFlips(p)'
    BY <1>0, <1>4, <1>a, <1>b, NoFlipsYet DEF StartUsb
  <2> QED
    BY <1>0, <1>4, <1>c, <2>1 DEF StartUsb
<1>5. CASE \E m \in shows[p] : SetResolution(p, m)
  <2>1. PortFlips(p)'
    BY <1>0, <1>5, FlipsAreLeft DEF SetResolution
  <2> QED
    BY <1>0, <1>5, <1>c, <2>1 DEF SetResolution
<1>6. CASE \E len \in Lengths : FlipHeader(p, len)
  <2>1. PICK len \in Lengths : FlipHeader(p, len)
    BY <1>6
  <2>2. PortFlips(p)'
    BY <1>0, <2>1, HeaderFlips
  <2> QED
    BY <1>0, <2>1, <1>c, <2>2 DEF FlipHeader
<1>7. CASE FlipPayload(p)
  <2>1. PortFlips(p)'
    BY <1>0, <1>7, PayloadFlips
  <2> QED
    BY <1>0, <1>7, <1>c, <2>1 DEF FlipPayload
<1>8. CASE FlipFails(p)
  <2>1. PortFlips(p)'
    BY <1>0, <1>8, FlipsEnd DEF FlipFails
  <2> QED
    BY <1>0, <1>8, <1>c, <2>1 DEF FlipFails
<1>9. CASE t6_libusb_dongle_reset(p)
  <2>1. PortFlips(p)'
    BY <1>0, <1>9, <1>b, FlipsEnd DEF t6_libusb_dongle_reset
  <2> QED
    BY <1>0, <1>9, <1>c, <2>1 DEF t6_libusb_dongle_reset
<1> QED
  BY <1>1, <1>2, <1>3, <1>4, <1>5, <1>6, <1>7, <1>8, <1>9, PortStep(p) DEF PortStep

LEMMA FlippingStarts ==
    ASSUME recent = All(<<>>), fbAddr = All(0), lock = None
    PROVE  Flipping
<1>1. \A p \in Ports : recent[p] = <<>> /\ lock # p
  BY PortsAssumption DEF All
<1>2. <<>> \in Seq(Flip) /\ Len(<<>>) = 0
  BY EmptySeq
<1>3. 1 .. 0 = {} /\ 1 .. 0 - 1 = {} /\ ~(0 > 0) /\ 0 <= 3
  BY SMT
<1>4. \A p \in Ports : PortFlips(p)
  BY <1>1, <1>2, <1>3 DEF PortFlips
<1> QED
  BY <1>4 DEF Flipping, All

LEMMA FlippingHolds == Spec => []Flipping
<1>1. Init => Flipping
  BY FlippingStarts DEF Init
<1>2. Addresses /\ Shown /\ Capable /\ Flipping /\ [Next]_vars => Flipping'
  <2> SUFFICES ASSUME Addresses, Shown, Capable, Flipping, [Next]_vars PROVE Flipping'
    OBVIOUS
  <2>1. CASE UNCHANGED <<bRun4K30, shows, phase, recent, fbAddr, cmdAddr, lock, pending>>
    <3>1. \A q \in Ports : PortFlips(q)'
      BY <2>1, FlipsAreLeft DEF Flipping
    <3> QED
      BY <2>1, <3>1 DEF Flipping
  <2>2. CASE UNCHANGED vars
    BY <2>1, <2>2 DEF vars, edidVars, memoryVars, flipVars
  <2>3. CASE Update
    <3>1. (recent = All(<<>>) /\ fbAddr = All(0) /\ lock = None)'
      BY <2>3 DEF Update, All
    <3>2. (recent = All(<<>>) /\ fbAddr = All(0) /\ lock = None => Flipping)'
      BY FlippingStarts, PTL
    <3> QED
      BY <3>1, <3>2
  <2>4. CASE ToolActs /\ ~Update
    BY <2>1, <2>4, ToolLeavesPorts DEF memoryVars
  <2>5. CASE \E p \in Ports : PortStep(p)
    BY <2>5, PortsKeepFlips
  <2> QED
    BY <2>2, <2>3, <2>4, <2>5, NextSplits
<1> QED
  BY <1>1, <1>2, AddressesHold, ShownHolds, CapableHolds, PTL DEF Spec

Pictures(p) == {Home(p).fbAddr1, Home(p).fbAddr2, Home(p).fbAddr3}

(* The next picture but one is not the picture before.                      *)
LEMMA ThreePictures ==
    ASSUME Capable, NEW p \in Ports, NEW a \in Pictures(p)
    PROVE  /\ NextPicture(Home(p), a) # a
           /\ NextPicture(Home(p), NextPicture(Home(p), a)) # a
<1> DEFINE H == Home(p)
<1>1. H.fbAddr1 < H.fbAddr2 /\ H.fbAddr2 < H.fbAddr3
      /\ H.fbAddr1 \in Int /\ H.fbAddr2 \in Int /\ H.fbAddr3 \in Int
  BY HomeShape, SMT
<1> HIDE DEF H
<1>2. H.fbAddr1 # H.fbAddr2 /\ H.fbAddr2 # H.fbAddr3 /\ H.fbAddr1 # H.fbAddr3
  BY <1>1, SMT
<1>3. a \in {H.fbAddr1, H.fbAddr2, H.fbAddr3}
  BY DEF H, Pictures
<1>4. NextPicture(H, a) # a /\ NextPicture(H, NextPicture(H, a)) # a
  BY <1>2, <1>3 DEF NextPicture
<1> QED
  BY <1>4 DEF H

(* Two flips that are placed: their pictures are the same one or apart, and
   commands are apart from all pictures but, in 4K, their own.              *)
LEMMA PlacedApart ==
    ASSUME Capable, NEW p \in Ports, Roomy(p), NEW f, NEW g, Placed(p, f), Placed(p, g),
           f.picture.lo # g.picture.lo
    PROVE  /\ Disjoint(f.picture, g.picture) /\ Disjoint(f.command, g.picture)
           /\ bRun4K30[p] => Disjoint(f.command, g.command)
<1> DEFINE H == Home(p)  R == Room(p)
<1>1. /\ H.cmd \in Int /\ H.fbAddr1 \in Int /\ H.fbAddr2 \in Int /\ H.fbAddr3 \in Int
      /\ R \in Int /\ R > 0 /\ H.cmd <= H.fbAddr1
      /\ H.fbAddr1 + R <= H.fbAddr2 /\ H.fbAddr2 + R <= H.fbAddr3
  BY HomeShape
<1>2. /\ f.picture.lo \in Int /\ f.picture.hi \in Int /\ f.command.lo \in Int /\ f.command.hi \in Int
      /\ g.picture.lo \in Int /\ g.picture.hi \in Int /\ g.command.lo \in Int /\ g.command.hi \in Int
  BY DEF Placed, Flip, Span
<1>3. /\ f.picture.lo \in {H.fbAddr1, H.fbAddr2, H.fbAddr3}
      /\ g.picture.lo \in {H.fbAddr1, H.fbAddr2, H.fbAddr3}
      /\ f.picture.hi <= f.picture.lo + R /\ g.picture.hi <= g.picture.lo + R
      /\ IF bRun4K30[p] THEN f.command.lo = f.picture.lo /\ f.command.hi <= f.picture.hi
                             /\ g.command.lo = g.picture.lo /\ g.command.hi <= g.picture.hi
         ELSE f.command.hi <= H.fbAddr1
  BY DEF Placed
<1> HIDE DEF H, R
<1>4. f.picture.lo + R <= g.picture.lo \/ g.picture.lo + R <= f.picture.lo
  BY <1>1, <1>3, SMT
<1>5. H.fbAddr1 <= g.picture.lo
  BY <1>1, <1>3, SMT
<1> QED
  BY <1>1, <1>2, <1>3, <1>4, <1>5, SMT DEF Disjoint

(* Everything of a flip lies in the region of its port.                     *)
LEMMA PlacedAtHome ==
    ASSUME Capable, NEW p \in Ports, Roomy(p), NEW f, Placed(p, f)
    PROVE  /\ f.picture.lo \in Int /\ f.picture.hi \in Int /\ f.command.lo \in Int /\ f.command.hi \in Int
           /\ Home(p).cmd <= f.picture.lo /\ f.picture.hi <= Home(p).fbAddr3 + Room(p)
           /\ Home(p).cmd <= f.command.lo /\ f.command.hi <= Home(p).fbAddr3 + Room(p)
<1> DEFINE H == Home(p)  R == Room(p)
<1>1. /\ H.cmd \in Int /\ H.fbAddr1 \in Int /\ H.fbAddr2 \in Int /\ H.fbAddr3 \in Int
      /\ R \in Int /\ R > 0 /\ H.cmd <= H.fbAddr1
      /\ H.fbAddr1 + R <= H.fbAddr2 /\ H.fbAddr2 + R <= H.fbAddr3
  BY HomeShape
<1>2. /\ f.picture.lo \in Int /\ f.picture.hi \in Int /\ f.command.lo \in Int /\ f.command.hi \in Int
  BY DEF Placed, Flip, Span
<1>3. /\ f.picture.lo \in {H.fbAddr1, H.fbAddr2, H.fbAddr3}
      /\ f.picture.hi <= f.picture.lo + R
      /\ IF bRun4K30[p] THEN f.command.lo = f.picture.lo /\ f.command.hi <= f.picture.hi
         ELSE H.cmd <= f.command.lo /\ f.command.hi <= H.fbAddr1
  BY DEF Placed
<1> HIDE DEF H, R
<1>4. /\ H.cmd <= f.picture.lo /\ f.picture.hi <= H.fbAddr3 + R
      /\ H.cmd <= f.command.lo /\ f.command.hi <= H.fbAddr3 + R
  BY <1>1, <1>2, <1>3, SMT
<1> QED
  BY <1>2, <1>4 DEF H, R

LEMMA FlippingKeepsPictures == ASSUME Capable, Flipping PROVE FlipsKeepPictures
<1> SUFFICES ASSUME NEW p \in Ports, Fits(p), recent[p] # <<>>
    PROVE  LET n == Len(recent[p])
               f == recent[p][n]
           IN  /\ f.picture.hi <= MB(ramsize)
               /\ \A i \in 1 .. n - 1 : /\ Disjoint(f.picture, recent[p][i].picture)
                                        /\ Disjoint(f.command, recent[p][i].picture)
               /\ n > 1 /\ ~f.flag => Disjoint(f.command, recent[p][n - 1].command)
               /\ \A q \in Ports \ {p} : \A i \in DOMAIN recent[q] :
                      Fits(q) => /\ Disjoint(f.picture, recent[q][i].picture)
                                 /\ Disjoint(f.command, recent[q][i].picture)
                                 /\ Disjoint(f.command, recent[q][i].command)
  BY DEF FlipsKeepPictures
<1> DEFINE n == Len(recent[p])
           f == recent[p][n]
<1>0. \A q \in Ports : Fits(q) => Roomy(q)
  BY DEF Fits
<1>1. /\ recent[p] \in Seq(Flip) /\ n <= 3
      /\ \A i \in 1 .. n : Placed(p, recent[p][i])
      /\ \A i \in 1 .. n - 1 : Follows(p, recent[p][i], recent[p][i + 1])
  BY DEF Flipping, PortFlips
<1>2. n \in Nat \ {0}
  BY <1>1, EmptySeq
<1> HIDE DEF n
<1>3. n \in {1, 2, 3} /\ n \in 1 .. n
  <2>1. n <= 3
    BY <1>1
  <2> QED
    BY <1>2, <2>1
<1>4. Placed(p, f)
  BY <1>1, <1>3
<1>5. f.picture.hi <= MB(ramsize)
  <2>1. MB(ramsize) \in Int
    BY MemoryAssumption, SMT DEF MB
  <2>2. /\ f.picture.hi \in Int /\ f.picture.hi <= Home(p).fbAddr3 + Room(p)
        /\ Home(p).fbAddr3 + Room(p) <= MB(ramsize)
        /\ Home(p).fbAddr3 + Room(p) \in Int
    BY <1>0, <1>4, PlacedAtHome, HomeShape
  <2> QED
    BY <2>1, <2>2
<1>6. \A i \in 1 .. n - 1 : Placed(p, recent[p][i]) /\ f.picture.lo # recent[p][i].picture.lo
  <2> TAKE i \in 1 .. n - 1
  <2>0. i \in 1 .. n
    BY <1>3
  <2>1. Placed(p, recent[p][i]) /\ Follows(p, recent[p][i], recent[p][i + 1])
    BY <1>1, <2>0
  <2> DEFINE at == recent[p][i].picture.lo
  <2>2. at \in Pictures(p)
    BY <2>1 DEF Placed, Pictures
  <2>3. recent[p][i + 1].picture.lo = NextPicture(Home(p), at)
    BY <2>1 DEF Follows
  <2> HIDE DEF at
  <2>4. NextPicture(Home(p), at) # at /\ NextPicture(Home(p), NextPicture(Home(p), at)) # at
    BY <2>2, ThreePictures
  <2>5. CASE i = n - 1
    <3>1. i + 1 = n
      BY <1>3, <2>5
    <3> QED
      BY <2>1, <2>3, <2>4, <3>1 DEF at
  <2>6. CASE i # n - 1
    <3>1. i + 1 \in 1 .. n - 1 /\ (i + 1) + 1 = n
      BY <1>3, <2>6
    <3>2. f.picture.lo = NextPicture(Home(p), recent[p][i + 1].picture.lo)
      BY <1>1, <3>1 DEF Follows
    <3> QED
      BY <2>1, <2>3, <2>4, <3>2 DEF at
  <2> QED
    BY <2>5, <2>6
<1>7. \A i \in 1 .. n - 1 : /\ Disjoint(f.picture, recent[p][i].picture)
                           /\ Disjoint(f.command, recent[p][i].picture)
  BY <1>0, <1>4, <1>6, PlacedApart
<1>8. ASSUME n > 1, ~f.flag PROVE Disjoint(f.command, recent[p][n - 1].command)
  <2>1. n - 1 \in 1 .. n - 1 /\ (n - 1) + 1 = n
    BY <1>3, <1>8
  <2>2. CASE bRun4K30[p]
    BY <1>0, <1>4, <1>6, <2>1, <2>2, PlacedApart
  <2>3. CASE ~bRun4K30[p]
    <3>1. recent[p][n - 1].command.hi <= f.command.lo
      BY <1>1, <1>8, <2>1, <2>3 DEF Follows
    <3> QED
      BY <3>1 DEF Disjoint
  <2> QED
    BY <2>2, <2>3
<1>9. ASSUME NEW q \in Ports \ {p}, NEW i \in DOMAIN recent[q], Fits(q)
      PROVE  /\ Disjoint(f.picture, recent[q][i].picture)
             /\ Disjoint(f.command, recent[q][i].picture)
             /\ Disjoint(f.command, recent[q][i].command)
  <2> DEFINE g == recent[q][i]
  <2>1. Placed(q, g)
    <3>1. recent[q] \in Seq(Flip) /\ \A k \in 1 .. Len(recent[q]) : Placed(q, recent[q][k])
      BY <1>9 DEF Flipping, PortFlips
    <3>2. DOMAIN recent[q] = 1 .. Len(recent[q])
      BY <3>1, LenProperties
    <3> QED
      BY <1>9, <3>1, <3>2
  <2> HIDE DEF f, g
  <2>2. /\ f.picture.lo \in Int /\ f.picture.hi \in Int /\ f.command.lo \in Int /\ f.command.hi \in Int
        /\ Home(p).cmd <= f.picture.lo /\ f.picture.hi <= Home(p).fbAddr3 + Room(p)
        /\ Home(p).cmd <= f.command.lo /\ f.command.hi <= Home(p).fbAddr3 + Room(p)
    BY <1>0, <1>4, PlacedAtHome
  <2>3. /\ g.picture.lo \in Int /\ g.picture.hi \in Int /\ g.command.lo \in Int /\ g.command.hi \in Int
        /\ Home(q).cmd <= g.picture.lo /\ g.picture.hi <= Home(q).fbAddr3 + Room(q)
        /\ Home(q).cmd <= g.command.lo /\ g.command.hi <= Home(q).fbAddr3 + Room(q)
    BY <1>0, <1>9, <2>1, PlacedAtHome
  <2>4. \/ Home(p).fbAddr3 + Room(p) <= Home(q).cmd
        \/ Home(q).fbAddr3 + Room(q) <= Home(p).cmd
    BY HomesApart
  <2> DEFINE lo == Home(p).cmd  hi == Home(p).fbAddr3 + Room(p)
             from == Home(q).cmd  to == Home(q).fbAddr3 + Room(q)
  <2>5. /\ lo \in Int /\ hi \in Int /\ from \in Int /\ to \in Int
        /\ hi <= from \/ to <= lo
    BY <2>4, HomeShape
  <2>7. /\ lo <= f.picture.lo /\ f.picture.hi <= hi /\ lo <= f.command.lo /\ f.command.hi <= hi
        /\ from <= g.picture.lo /\ g.picture.hi <= to /\ from <= g.command.lo /\ g.command.hi <= to
    BY <2>2, <2>3
  <2> HIDE DEF lo, hi, from, to
  <2>6. /\ Disjoint(f.picture, g.picture) /\ Disjoint(f.command, g.picture)
        /\ Disjoint(f.command, g.command)
    <3>1. CASE hi <= from
      BY <2>2, <2>3, <2>5, <2>7, <3>1, SMT DEF Disjoint
    <3>2. CASE to <= lo
      BY <2>2, <2>3, <2>5, <2>7, <3>2, SMT DEF Disjoint
    <3> QED
      BY <2>5, <3>1, <3>2
  <2> QED
    BY <2>6 DEF g
<1> QED
  BY <1>5, <1>7, <1>8, <1>9 DEF n

(* A flip destroys nothing that is still shown or decoded: of its own port, of
   the other, in 4K or not, whatever the modes, the lengths up to 3 MB and the
   memory of 54 MB or more, through mode changes, failures and updates of the
   firmware (usb_process, t6_libusb_FilpJpegFrame, t6_libusb_FilpYV12Frame).  *)
THEOREM FlipsStayApart == Spec => []FlipsKeepPictures
  BY CapableHolds, FlippingHolds, FlippingKeepsPictures, PTL
==============================================================================
