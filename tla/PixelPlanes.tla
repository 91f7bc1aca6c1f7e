----------------------------- MODULE PixelPlanes -----------------------------
(***************************************************************************)
(* The pictures a captured frame is turned into, byte by byte: the raw     *)
(* pictures of the transports nv12, yv12, rgb24 and yuv444 with the planes *)
(* their flip header announces, and the picture the JPEG encoder is handed *)
(* for a full frame or for a tile of Type7Geometry.                        *)
(*                                                                         *)
(* The rotation is written five times in the code (for the box of a        *)
(* change, for the planar pictures, for the RGB picture, for the crop of a *)
(* tile and, as a constant of vImage, for the full JPEG picture); a tile   *)
(* is patched into a full picture, so all of them have to agree.           *)
(*                                                                         *)
(* A byte is the component it holds and the pixels of the captured frame   *)
(* it was computed from; colours are left out.                             *)
(***************************************************************************)
EXTENDS Type7Geometry

CONSTANT FlipHeader         \* VIDEO_FLIP_HEADER_SIZE

ASSUME HeaderAssumption == FlipHeader \in Nat

Raw      == {"nv12", "yv12", "rgb24", "yuv444"}
Captures == {"bgra", "420"}          \* 420: either range of the bi-planar format

VARIABLES
    transport, capture,     \* --transport, --capture-format
    sent,                   \* the raw picture sent last: its header and bytes
    stopped                 \* state.stopped, set by a frame that was refused

pictureVars == <<vars, transport, capture, sent, stopped>>

NoPicture == [header |-> <<>>, data |-> <<>>]

-----------------------------------------------------------------------------
(* A byte.  Zero is one of a fresh buffer, Old one that an earlier picture
   left in a buffer that is used again.                                     *)
Byte(component, pixels) == <<component, pixels>>
Zero == Byte("zero", {})
Old  == Byte("old", {})

(* A buffer of a size after a loop has stored bytes at offsets.             *)
Stored(size, other, stores) ==
    [i \in 0 .. size - 1 |->
        IF \E s \in stores : s[1] = i THEN (CHOOSE s \in stores : s[1] = i)[2] ELSE other]

(* bgr_to_yuv of one pixel, and ChromaAccumulator over a block of four.     *)
Source(ox, oy) == <<source_x(ox, oy), source_y(ox, oy)>>
OfPixel(c, ox, oy) == Byte(c, {Source(ox, oy)})
OfBlock(c, ox, oy) == Byte(c, {Source(ox + dx, oy + dy) : dx, dy \in {0, 1}})

Columns == 0 .. OutWidth - 1
Rows    == 0 .. OutHeight - 1
EvenColumns == {x \in Columns : x % 2 = 0}
EvenRows    == {y \in Rows : y % 2 = 0}
EvenSides   == OutWidth % 2 = 0 /\ OutHeight % 2 = 0

-----------------------------------------------------------------------------
(* The planes: pitches and starts.  The converters and the builders of the
   flip header each compute them for themselves.                            *)
y_pitch == align_usize(OutWidth, Block)
y_size  == y_pitch * OutHeight

yv12_uv_pitch == align_usize(OutWidth \div 2, Block)

LumaStores == {<<oy * y_pitch + ox, OfPixel("Y", ox, oy)>> : ox \in Columns, oy \in Rows}

bgra_to_nv12 ==
    Stored(y_size + (y_pitch * OutHeight) \div 2, Zero,
           LumaStores \cup
           UNION {LET at == y_size + (oy \div 2) * y_pitch + ox
                  IN  {<<at, OfBlock("U", ox, oy)>>, <<at + 1, OfBlock("V", ox, oy)>>} :
                  ox \in EvenColumns, oy \in EvenRows})

bgra_to_yv12 ==
    LET uv_size == (yv12_uv_pitch * OutHeight) \div 2
    IN  Stored(y_size + uv_size * 2, Zero,
               LumaStores \cup
               UNION {LET at == (oy \div 2) * yv12_uv_pitch + ox \div 2
                      IN  {<<y_size + at, OfBlock("U", ox, oy)>>,
                           <<y_size + uv_size + at, OfBlock("V", ox, oy)>>} :
                      ox \in EvenColumns, oy \in EvenRows})

(* The captured planes are copied row by row; the second one has a row of
   interleaved samples for every two rows of pixels.                        *)
copy_captured_nv12 ==
    LET luma == {<<y * y_pitch + x, Byte("Y", {<<x, y>>})>> :
                    x \in 0 .. Width - 1, y \in 0 .. Height - 1}
        Captured(c, x, y) == Byte(c, {<<x + dx, 2 * y + dy>> : dx, dy \in {0, 1}})
        chroma == {<<y_size + y * y_pitch + x,
                     IF x % 2 = 0 THEN Captured("U", x, y) ELSE Captured("V", x - 1, y)>> :
                    x \in 0 .. Width - 1, y \in 0 .. (Height \div 2) - 1}
    IN  Stored(y_size + (y_pitch * Height) \div 2, Zero, luma \cup chroma)

bgra_to_yuv444 ==
    Stored(OutWidth * OutHeight * 3, Zero,
           UNION {{<<(oy * OutWidth + ox) * 3, OfPixel("Y", ox, oy)>>,
                   <<(oy * OutWidth + ox) * 3 + 1, OfPixel("U", ox, oy)>>,
                   <<(oy * OutWidth + ox) * 3 + 2, OfPixel("V", ox, oy)>>} :
                  ox \in Columns, oy \in Rows})

(* The pixel copy_bgra_to_rgb_bytes reads for a place of the output: at 180
   degrees its loop runs over the source, otherwise over the output.        *)
RgbSource(ox, oy) ==
    CASE rotation = "0"   -> <<ox, oy>>
      [] rotation = "90"  -> <<oy, Height - 1 - ox>>
      [] rotation = "180" -> CHOOSE p \in (0 .. Width - 1) \X (0 .. Height - 1) :
                                Width - 1 - p[1] = ox /\ Height - 1 - p[2] = oy
      [] rotation = "270" -> <<Width - 1 - oy, ox>>

(* Written into rgb_scratch, which the frame before has left as it was.     *)
copy_bgra_to_rgb_bytes ==
    Stored(Width * Height * 3, Old,
           UNION {{<<(oy * OutWidth + ox) * 3, Byte("R", {RgbSource(ox, oy)})>>,
                   <<(oy * OutWidth + ox) * 3 + 1, Byte("G", {RgbSource(ox, oy)})>>,
                   <<(oy * OutWidth + ox) * 3 + 2, Byte("B", {RgbSource(ox, oy)})>>} :
                  ox \in Columns, oy \in Rows})

Converted ==
    CASE transport = "nv12"   -> IF capture = "420" THEN copy_captured_nv12 ELSE bgra_to_nv12
      [] transport = "yv12"   -> bgra_to_yv12
      [] transport = "rgb24"  -> copy_bgra_to_rgb_bytes
      [] transport = "yuv444" -> bgra_to_yuv444

-----------------------------------------------------------------------------
(* VideoFlipHeader::nv12, yv12, rgb24 and yuv444, with addresses counted
   from the framebuffer's; the picture follows the header there.            *)
Header(t) ==
    LET start == FlipHeader
        pitch == align_usize(OutWidth, Block)
        uv    == align_usize(OutWidth \div 2, Block)
    IN  CASE t = "nv12" ->
                 [y_rgb_pitch |-> pitch, uv_pitch |-> pitch, y_rgb_data |-> start,
                  u_uv_data |-> start + pitch * OutHeight, v_data |-> 0]
          [] t = "yv12" ->
                 [y_rgb_pitch |-> pitch, uv_pitch |-> uv, y_rgb_data |-> start,
                  u_uv_data |-> start + pitch * OutHeight,
                  v_data |-> start + pitch * OutHeight + uv * (OutHeight \div 2)]
          [] t \in {"rgb24", "yuv444"} ->
                 [y_rgb_pitch |-> OutWidth * 3, uv_pitch |-> 0, y_rgb_data |-> start,
                  u_uv_data |-> 0, v_data |-> 0]

(* ensure_bgra_capture and the checks of the converters: the planar ones want
   even sides, a captured bi-planar frame goes out only as NV12 and only
   unrotated.                                                               *)
Converts ==
    /\ transport \in {"nv12", "yv12"} => EvenSides
    /\ capture = "420" => transport = "nv12" /\ rotation = "0"

-----------------------------------------------------------------------------
PictureInit ==
    /\ Init
    /\ transport \in Raw \cup {"jpeg-type7"}
    /\ capture \in Captures
    /\ sent = NoPicture
    /\ stopped = FALSE

(* send_raw_nv12_frame and the raw arms of send_frame.                      *)
SendRaw ==
    /\ transport \in Raw /\ Converts
    /\ ~stopped
    /\ sent' = [header |-> Header(transport), data |-> Converted]
    /\ UNCHANGED <<vars, transport, capture, stopped>>

(* The JPEG arm of send_frame for a frame that reports the change d: a full
   picture or a tile.                                                       *)
SendJpeg(d) ==
    /\ transport = "jpeg-type7" /\ Converts
    /\ ~stopped
    /\ SendTile(d) \/ SendFull(d)
    /\ UNCHANGED <<transport, capture, sent, stopped>>

(* send_frame returns the error, and its caller ends the run.               *)
Refuse ==
    /\ ~Converts /\ ~stopped
    /\ stopped' = TRUE
    /\ UNCHANGED <<vars, transport, capture, sent>>

-----------------------------------------------------------------------------
(* What the display reads of a raw picture for an output pixel, from the
   header alone: external.                                                  *)
Read(address) == LET i == address - FlipHeader
                 IN  IF i \in DOMAIN sent.data THEN sent.data[i] ELSE Zero

Displayed(ox, oy) ==
    LET h   == sent.header
        y   == h.y_rgb_data + oy * h.y_rgb_pitch
        row == (oy \div 2) * h.uv_pitch
    IN  CASE transport = "nv12" ->
                 <<Read(y + ox), Read(h.u_uv_data + row + (ox \div 2) * 2),
                   Read(h.u_uv_data + row + (ox \div 2) * 2 + 1)>>
          [] transport = "yv12" ->
                 <<Read(y + ox), Read(h.u_uv_data + row + ox \div 2),
                   Read(h.v_data + row + ox \div 2)>>
          [] transport \in {"rgb24", "yuv444"} ->
                 <<Read(y + 3 * ox), Read(y + 3 * ox + 1), Read(y + 3 * ox + 2)>>

(* Every pixel of the captured frame is displayed, in this frame's bytes,
   where output_coordinate (which places the changes) says it is: the
   header's planes are the converter's, no row or plane runs into another,
   the chroma of a pixel comes from its own block of four and nothing of an
   earlier picture is left in the scratch buffer.                           *)
RawShowsTheFrame ==
    sent # NoPicture =>
        \A sx \in 0 .. Width - 1, sy \in 0 .. Height - 1 :
            LET ox == output_x(sx, sy)
                oy == output_y(sx, sy)
                bx == ox - (ox % 2)
                by == oy - (oy % 2)
                block == {p \in (0 .. Width - 1) \X (0 .. Height - 1) :
                            /\ output_x(p[1], p[2]) \in {bx, bx + 1}
                            /\ output_y(p[1], p[2]) \in {by, by + 1}}
                own   == {<<sx, sy>>}
            IN  Displayed(ox, oy) =
                CASE transport \in {"nv12", "yv12"} ->
                         <<Byte("Y", own), Byte("U", block), Byte("V", block)>>
                  [] transport = "rgb24"  -> <<Byte("R", own), Byte("G", own), Byte("B", own)>>
                  [] transport = "yuv444" -> <<Byte("Y", own), Byte("U", own), Byte("V", own)>>

-----------------------------------------------------------------------------
(* A mutant: the two quarter turns are taken for each other.                *)
ClockwiseConstant == CASE rotation = "0"   -> 0 [] rotation = "90"  -> 1
                       [] rotation = "180" -> 2 [] rotation = "270" -> 3

rotation_constant == CASE rotation = "0"   -> 0 [] rotation = "90"  -> 3
                       [] rotation = "180" -> 2 [] rotation = "270" -> 1

(* vImageRotate90_ARGB8888, external: that many quarter turns against the
   clock.                                                                   *)
vImageRotate90(i, j) == CASE rotation_constant = 0 -> <<i, j>>
                          [] rotation_constant = 1 -> <<Width - 1 - j, i>>
                          [] rotation_constant = 2 -> <<Width - 1 - i, Height - 1 - j>>
                          [] rotation_constant = 3 -> <<j, Height - 1 - i>>

(* The picture the encoder is handed: a tile cropped from the captured frame,
   or the frame itself, turned by vImage unless it is upright.              *)
Handed == IF tile # None THEN tile
          ELSE [x |-> 0, y |-> 0, w |-> OutWidth, h |-> OutHeight]
HandedPixel(i, j) ==
    IF tile # None THEN <<CropX(i, j), CropY(i, j)>>
    ELSE IF rotation = "0" THEN <<i, j>>
    ELSE vImageRotate90(i, j)

(* fill_t6_yuv420_from_bgra: row after row, without padding.                *)
T6Luma(w, h) ==
    [k \in 0 .. w * h - 1 |-> Byte("Y", {HandedPixel(k % w, k \div w)})]
T6Chroma(c, w, h) ==
    [k \in 0 .. (w \div 2) * (h \div 2) - 1 |->
        LET cx == k % (w \div 2)
            cy == k \div (w \div 2)
        IN  Byte(c, {HandedPixel(2 * cx + dx, 2 * cy + dy) : dx, dy \in {0, 1}})]

(* The encoder, which reads the planes with strides w and w / 2, sees at each
   place the pixel that belongs there, in the full picture as in a tile of
   it: a tile fits the picture it is patched into at every rotation.        *)
EncoderSeesThePicture ==
    dirty # None =>
        LET w == Handed.w
            h == Handed.h
            Y == T6Luma(w, h)
            C == [c \in {"U", "V"} |-> T6Chroma(c, w, h)]
            Placed(p, i, j) == /\ output_x(p[1], p[2]) = Handed.x + i
                               /\ output_y(p[1], p[2]) = Handed.y + j
        IN  \A i \in 0 .. w - 1, j \in 0 .. h - 1 :
                /\ Y[j * w + i][1] = "Y"
                /\ \A p \in Y[j * w + i][2] : Placed(p, i, j)
                /\ w % 2 = 0 /\ h % 2 = 0 =>
                     \A c \in {"U", "V"} :
                        LET u == C[c][(j \div 2) * (w \div 2) + i \div 2]
                        IN  u[1] = c /\ \E p \in u[2] : Placed(p, i, j)

(* A picture is right on every path: raw pictures, those the encoder is given
   and the tiles that are patched into them.                                *)
PicturesAreRight == RawShowsTheFrame /\ EncoderSeesThePicture

=============================================================================
