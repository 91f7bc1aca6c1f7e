------------------------------- MODULE T6Frames -------------------------------
(***************************************************************************)
(* Where the daemon puts things in the memory of the dongle (usb_process   *)
(* in main.c) and what a flip writes there (t6usbdongle.c): a region of    *)
(* commands that is used round and round, and three pictures after it, for *)
(* each port.  Addresses and lengths are in bytes.                         *)
(***************************************************************************)
EXTENDS Integers

CONSTANT ramsize        \* the memory of the dongle, in megabytes

ASSUME MemoryAssumption == ramsize \in Nat /\ ramsize >= 54

MB(n) == n * 1048576

(* The regions of a port.  Of two ports the one with the external HDMI output
   (DVO) is below tmp and may run 4K; the other is above.                   *)
tmp == ramsize - 18

Triple(cmd, top, size) == [cmd |-> MB(cmd), fbAddr1 |-> MB(top - 3 * size),
                           fbAddr2 |-> MB(top - 2 * size), fbAddr3 |-> MB(top - size)]

Layout(two, dvo, bRun4K30) ==
    LET size == IF bRun4K30 THEN 12 ELSE 4
    IN  IF two THEN (IF dvo THEN Triple(0, tmp, size) ELSE Triple(tmp, ramsize, 4))
        ELSE Triple(0, ramsize, size)

(* The picture after the one at fb.                                         *)
NextPicture(layout, fb) ==
    IF fb = layout.fbAddr1 THEN layout.fbAddr2
    ELSE IF fb = layout.fbAddr2 THEN layout.fbAddr3
    ELSE layout.fbAddr1

(* How far the address of the next command moves after one of length len.   *)
cmdoffset(len) == IF len < MB(1) THEN MB(1) ELSE IF len < MB(2) THEN MB(2) ELSE MB(3)

(* A mutant: the commands run on into the pictures.                         *)
RunsOn(layout, cmdAddr, len) == cmdAddr

(* A command that would reach the pictures goes to the start of its region.  *)
Wraps(layout, cmdAddr, len) == cmdAddr + cmdoffset(len) > layout.fbAddr1
CommandAt(layout, cmdAddr, len) ==
    IF Wraps(layout, cmdAddr, len) THEN layout.cmd ELSE cmdAddr

-----------------------------------------------------------------------------
(* What a flip writes: a header of 48 bytes, the data and 1024 bytes more.   *)
Extent(lo, len) == [lo |-> lo, hi |-> lo + len]
Disjoint(a, b) == a.hi <= b.lo \/ b.hi <= a.lo

Align(n, to) == ((n + to - 1) \div to) * to

(* t6_libusb_FilpJpegFrame: the JPEG in the region of commands, and the
   picture the dongle decodes it to: a plane of Y and one of UV.            *)
FilpJpegFrame(cmd, fb, len, w, h, flag) ==
    LET plane == Align(w, 32) * Align(h, 32)
    IN  [command |-> Extent(cmd, len), flag |-> flag,
         picture |-> Extent(fb, plane + 1024 + plane \div 2)]

(* t6_libusb_FilpYV12Frame: the payload itself is the picture; its planes may
   be longer than what is sent.                                             *)
FilpYV12Frame(fb, w, h) ==
    LET sent   == (w * h * 3) \div 2 + 48 + 1024
        planes == 48 + Align(w, 16) * h + 2 * ((Align(w \div 2, 16) * h) \div 2)
    IN  [command |-> Extent(fb, sent), flag |-> FALSE,
         picture |-> Extent(fb, IF sent > planes THEN sent ELSE planes)]
==============================================================================
