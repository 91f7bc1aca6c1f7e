----------------------------- MODULE MCT6Protocol -----------------------------
(***************************************************************************)
(* A dongle of 54 MB with two ports, HDMI with 4K and VGA.  The monitors   *)
(* of the first list 4K in every place an EDID can, in none, or their EDID *)
(* is broken in one of the ways the daemon tells apart.                    *)
(***************************************************************************)
EXTENDS T6Protocol

Mode(w, h, fps) == [w |-> w, h |-> h, fps |-> fps]
HD  == Mode(1920, 1080, 60)
UHD == Mode(3840, 2160, 30)
QHD == Mode(2560, 1440, 60)

Entry(m, clock) == [w |-> m.w, h |-> m.h, fps |-> m.fps, clock |-> clock]
HdTable == {Entry(HD, 148500), Entry(Mode(1080, 1920, 60), 148500), Entry(Mode(800, 600, 60), 40000)}
MCTables == (0 :> HdTable \cup {Entry(UHD, 297000), Entry(Mode(2160, 3840, 30), 297000)}) @@ (1 :> HdTable)

MCDevices == {[super |-> TRUE, rotate |-> 1, lite |-> FALSE], [super |-> FALSE, rotate |-> 0, lite |-> TRUE]}

Timing(m) == [tag |-> "timing", w |-> m.w, h |-> m.h, fps |-> m.fps, total |-> 1]
Zero(m)   == [Timing(m) EXCEPT !.total = 0]
Name      == [tag |-> "other"]
Standard(b) == [tag |-> "standard", byte |-> b]
Range_(c) == [tag |-> "range", clock |-> c]

Block(type, codes) == [type |-> type, codes |-> codes, video |-> TRUE,
                       len |-> Len(codes) + (IF type = "video" THEN 0 ELSE 10)]

Edid(ds) == [answer |-> "ok", sum |-> TRUE, header |-> TRUE, version |-> TRUE, extensions |-> 0,
             descriptors |-> ds, exts |-> <<>>]
Ext(offset, blocks, long) == [valid |-> TRUE, offset |-> offset, blocks |-> blocks, long |-> long]
Extended(exts) == [Edid(<<Timing(HD), Name>>) EXCEPT !.extensions = Len(exts), !.exts = exts]
With(offset, blocks, long) == Extended(<<Ext(offset, blocks, long)>>)

Video(code) == Block("video", <<16, code>>)
Vendor      == Block("vendor", <<0>>)
Hdmi(code)  == Block("hdmi", <<code>>)

Plain == Edid(<<Timing(HD), Standard(255), Range_(17), Name>>)
ByRange == Edid(<<Timing(HD), Range_(30)>>)
Broken == [With(20, <<Vendor, Video(95)>>, <<Timing(HD)>>) EXCEPT !.exts[1].valid = FALSE]

MCMonitors ==
    (0 :> {Plain, ByRange, Broken,
           Edid(<<Name, Timing(UHD)>>), Edid(<<Timing(HD), Zero(UHD)>>), Edid(<<Timing(QHD), Name>>),
           With(19, <<Vendor, Video(95)>>, <<>>), With(7, <<Video(128 + 95)>>, <<>>),
           With(16, <<Hdmi(1)>>, <<>>), With(16, <<Hdmi(5)>>, <<>>),
           With(4, <<>>, <<Timing(HD), Name, Timing(UHD)>>),
           With(7, <<Video(16)>>, <<Timing(HD), Timing(UHD)>>),
           With(13, <<Vendor, Video(95)>>, <<Timing(UHD)>>),
           With(7, <<Video(114)>>, <<>>), With(7, <<Video(218)>>, <<>>),
           Extended(<<Ext(7, <<Video(16)>>, <<>>), Ext(7, <<Video(95)>>, <<>>)>>),
           Extended(<<Ext(7, <<Video(95)>>, <<>>), Ext(4, <<>>, <<Timing(UHD)>>)>>),
           [Plain EXCEPT !.answer = "failed"], [Plain EXCEPT !.answer = "short"]})
    @@ (1 :> {[Plain EXCEPT !.sum = FALSE]})

MCCeaModes == (16 :> HD) @@ (95 :> UHD) @@ (128 + 95 :> UHD)
              @@ (114 :> Mode(3840, 2160, 48)) @@ (218 :> Mode(4096, 2160, 120))
MCHdmiModes == (1 :> UHD)
MCGeneric == {HD}
MCFourKEdid == {UHD, HD}
MCLengths == {MB(1) - 1, MB(3) - 1}
==============================================================================
