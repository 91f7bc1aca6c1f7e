-------------------------------- MODULE T6Edid --------------------------------
(***************************************************************************)
(* What the daemon reads out of a monitor's EDID (t6usbdongle.c,           *)
(* cea_edid.c): whether it can be used at all, and whether the monitor is  *)
(* one for 4K, from the descriptors of the first block and from the data   *)
(* blocks and long descriptors of the first extension.                     *)
(*                                                                         *)
(* An EDID is a record: the answer to its reading, whether sum, header and *)
(* version are right, the number of extensions it announces, four          *)
(* descriptors, and the extensions that can be read.                       *)
(***************************************************************************)
EXTENDS Integers, Sequences, SequencesExt

CONSTANT None

FourK(w, h) == w >= 3840 /\ h >= 2160

(* EDID_ParseDetailDescriptor: a timing counts if its total is not 0, a range
   descriptor if its pixel clock is 300 MHz or more.  A standard timing is at
   most (255 + 31) * 8 pixels wide and never counts; nor do names.          *)
DetailedTiming(d) == d.tag = "timing" /\ d.total > 0 /\ FourK(d.w, d.h)
StandardTiming(d) == d.tag = "standard" /\ FourK((d.byte + 31) * 8, ((d.byte + 31) * 8 * 5) \div 8)
RangeLimits(d)    == d.tag = "range" /\ d.clock * 10 >= 300

EDID_ParseDetailDescriptor(d) == DetailedTiming(d) \/ StandardTiming(d) \/ RangeLimits(d)

(* A mutant: the mark of a native mode is not taken off.                    *)
BareCode4K(code) == code \in 93 .. 107

(* g_VideoDataFormat: the codes of the modes 3840 or more wide or 2160 high.
   The table is named up to 107 and zero after it.                          *)
VideoCode4K(code) == code % 128 \in 93 .. 107

(* g_HdmiVicTable has the entries 0 to 4; entry 5 is read all the same, past
   the end of the table: beyond stands for what is found there.             *)
HdmiCode4K(code, beyond) == code \in 1 .. 4 \/ (code = 5 /\ beyond)

EDID_ParseVendorSpecificBlock(b, beyond) ==
    b.video /\ \E i \in DOMAIN b.codes : HdmiCode4K(b.codes[i], beyond)

(* One data block of the extension.                                         *)
DataBlock4K(b, beyond) ==
    \/ b.type = "video" /\ \E i \in DOMAIN b.codes : VideoCode4K(b.codes[i])
    \/ b.type = "hdmi" /\ EDID_ParseVendorSpecificBlock(b, beyond)

(* The blocks lie one after the other from byte 4, each a byte and its length;
   BlockEnd is where the first n end.  One that does not end before the long
   descriptors stops the reading.                                           *)
EDID_REG_DATA_START == 4

BlockEnd(ext, n) == FoldLeft(LAMBDA at, b : at + 1 + b.len, EDID_REG_DATA_START,
                             SubSeq(ext.blocks, 1, n))

(* EDID_ValidateBlock1Buffer: the sum, tag or revision of the block is wrong.
   It is parsed nevertheless, but the error is found again at a block of
   another vendor, unless an HDMI block came before.                        *)
EDID_ValidateBlock1Buffer(ext) == ext.valid

GivesUp(ext, n) == /\ ~EDID_ValidateBlock1Buffer(ext) /\ ext.blocks[n].type = "vendor"
                   /\ \A k \in 1 .. n - 1 : ext.blocks[k].type # "hdmi"

BlocksRead(ext) == {n \in 1 .. Len(ext.blocks) :
                       /\ \A k \in 1 .. n : BlockEnd(ext, k) <= ext.offset
                       /\ \A k \in 1 .. n - 1 : ~GivesUp(ext, k)}

(* The reading stopped inside the blocks: the long descriptors are skipped.  *)
Overflow(ext) ==
    \E n \in 1 .. Len(ext.blocks) :
        /\ BlockEnd(ext, n) > ext.offset
        /\ \A k \in 1 .. n - 1 : BlockEnd(ext, k) <= ext.offset
        /\ BlockEnd(ext, n - 1) + 1 < ext.offset

(* Long descriptors are read while they begin before byte 127 - 18.         *)
EDID_REG_CHECKSUM == 127
DETAILED_DESCRIPTOR_LENGTH == 18

LongRead(ext) ==
    {i \in DOMAIN ext.long : ext.offset + (i - 1) * DETAILED_DESCRIPTOR_LENGTH
                                 < EDID_REG_CHECKSUM - DETAILED_DESCRIPTOR_LENGTH}

EDID_ParseCEAExtensionBlockInformation(ext, beyond) ==
    \/ \E n \in BlocksRead(ext) : DataBlock4K(ext.blocks[n], beyond)
    \/ /\ ~Overflow(ext) /\ \A n \in BlocksRead(ext) : ~GivesUp(ext, n)
       /\ \E i \in LongRead(ext) : EDID_ParseDetailDescriptor(ext.long[i])

-----------------------------------------------------------------------------
(* t6_libusb_get_edid: the size, 0 for nothing usable, negative for a failed
   transfer.  A VGA port is given a generic EDID in place of an unusable one. *)
EdidIsGood(e) == e.sum /\ e.header /\ e.version

t6_vga_force_edid(vga) == IF vga THEN 128 ELSE 0

MaxExtensions == 3

Extensions(e) ==
    LET asked == IF e.extensions < MaxExtensions THEN e.extensions ELSE MaxExtensions
    IN  IF Len(e.exts) < asked THEN Len(e.exts) ELSE asked

t6_libusb_get_edid(e, vga) ==
    IF e.answer = "failed" THEN -1
    ELSE IF e.answer = "short" \/ ~EdidIsGood(e) THEN t6_vga_force_edid(vga)
    ELSE 128 * (1 + Extensions(e))

(* The first step of t6_revise_edid: is the monitor one for 4K?  Of the
   extensions only the first is looked at.  The answer is never set to no, so
   that garbage, what the caller's variable held, stays.                    *)
Monitor4K(e, size, garbage, beyond) ==
    \/ garbage
    \/ \E i \in DOMAIN e.descriptors : EDID_ParseDetailDescriptor(e.descriptors[i])
    \/ size > 128 /\ EDID_ParseCEAExtensionBlockInformation(e.exts[1], beyond)

(* Its second: the EDID that is shown to the card, and the flag.  A failed
   query of the capability (-1) counts as yes.                              *)
t6_revise_edid(is4K, capability, super) ==
    IF is4K /\ capability # 0 /\ super THEN [edid |-> "4k", bRun4K30 |-> TRUE]
    ELSE IF is4K THEN [edid |-> "generic", bRun4K30 |-> FALSE]
    ELSE [edid |-> "own", bRun4K30 |-> FALSE]

(* t6_libusb_get_4K_capbability: has the table of the port a 4K mode at 30 Hz?
   A table that is asked for and not answered gives -1.                     *)
t6_libusb_get_4K_capbability(table, answered) ==
    IF ~answered THEN -1
    ELSE IF \E t \in table : FourK(t.w, t.h) /\ t.fps = 30 THEN 1
    ELSE 0
==============================================================================
