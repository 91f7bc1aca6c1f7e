---------------------------- MODULE Mode6Packets ----------------------------
(***************************************************************************)
(* The headers of a setup (type 4) and of a tile (type 7), word by word as *)
(* lib.rs writes them and as t6_pcap_summary.py, the only description of   *)
(* them that is executable, reads them.  A setup says where the planes of  *)
(* the whole picture are, a tile where its own first samples go and how    *)
(* wide the canvas is.  A slot is taken to begin at address 0.             *)
(***************************************************************************)
EXTENDS PixelPlanes

CONSTANT Corner         \* side of the tile that follows a paired setup (64)

ASSUME CornerAssumption == Corner \in Nat \ {0}

Half == 65536
VIDEO_COLOR_JPEG == 13

(* Words of 32 bits, in order.  The setup is type 4, mode 6.                *)
Type4Mode6SetupHeader(data_len, sequence, w, h, b0, b1, b2) ==
    <<4, data_len, sequence, 6, h * Half + w, b0, b1, b2, VIDEO_COLOR_JPEG, 0, 0, 0>>

(* A mutant: the canvas is put where the setup has it.                      *)
CanvasFirst(data_len, sequence, w, h, cw, ch, p0, p1, p2) ==
    <<7, data_len, sequence, 6, ch * Half + cw, h * Half + w, p0, p1, p2,
      VIDEO_COLOR_JPEG, 0, 0>>

Type7JpegTileHeader(data_len, sequence, w, h, cw, ch, p0, p1, p2) ==
    <<7, data_len, sequence, 6, h * Half + w, ch * Half + cw, p0, p1, p2,
      VIDEO_COLOR_JPEG, 0, 0>>

(* Offsets 0x10 and 0x14 are the fifth and the sixth word; a type 7 header
   has one word more before its addresses.                                  *)
parse_video_header(words) ==
    LET at == IF words[1] = 7 THEN 7 ELSE 6
    IN  [video_type |-> words[1], data_len |-> words[2], sequence |-> words[3],
         width_field |-> words[5] % Half, height_field |-> words[5] \div Half,
         canvas_width |-> IF words[1] = 7 THEN words[6] % Half ELSE 0,
         start_addr |-> words[at], end_addr |-> words[at + 1],
         image_format |-> words[at + 3]]

-----------------------------------------------------------------------------
(* Both are given the width, rounded up, for the height of the canvas too.  *)
canvas_width  == align_usize(OutWidth, Block)
canvas_height == align_usize(OutWidth, Block)

SetupPacket(len, sequence) ==
    Type4Mode6SetupHeader(len, sequence, canvas_width, canvas_height, base0, base1, 0)

TilePacket(len, sequence) ==
    Type7JpegTileHeader(len, sequence, tile.w, tile.h, canvas_width, canvas_height,
                        plane0, plane1, 0)

(* The tile that is sent with each setup of a pair: the upper left corner.  *)
CornerPacket(len, sequence) ==
    Type7JpegTileHeader(len, sequence, Least(OutWidth, Corner), Least(OutHeight, Corner),
                        canvas_width, canvas_height, base0, base1, 0)

-----------------------------------------------------------------------------
(* The device, external: samples of a surface from the addresses and the
   stride of a header; chroma is interleaved, one pair for four pixels.     *)
LumaAt(h, stride, x, y)   == h.start_addr + y * stride + x
ChromaAt(h, stride, x, y) == h.end_addr + (y \div 2) * stride + (x \div 2) * 2

(* Every sample of a tile is written where the setup has put the sample of
   the same pixel of the picture: the sides and the stride of the tile are
   read from the words they were written to, the addresses of the tile agree
   with the planes of the setup, and a tile starts on an even row and column,
   so that its chroma falls on that of the picture.  At any size the tile
   stays inside the planes.                                                 *)
TileLandsOnThePicture ==
  /\ TileFitsPlanes
  /\ Width % 2 = 0 /\ Height % 2 = 0 /\ Grain % 2 = 0 =>
        LET s == parse_video_header(SetupPacket(0, 1))
            Lands(t, x, y) ==
                /\ t.video_type = 7 /\ s.video_type = 4
                /\ t.image_format = s.image_format
                /\ \A i \in 0 .. t.width_field - 1, j \in 0 .. t.height_field - 1 :
                      /\ x + i < OutWidth /\ y + j < OutHeight
                      /\ LumaAt(t, t.canvas_width, i, j) = LumaAt(s, s.width_field, x + i, y + j)
                      /\ ChromaAt(t, t.canvas_width, i, j)
                            = ChromaAt(s, s.width_field, x + i, y + j)
        IN  /\ tile # None => Lands(parse_video_header(TilePacket(0, 2)), tile.x, tile.y)
            /\ tile = None => Lands(parse_video_header(CornerPacket(0, 2)), 0, 0)

=============================================================================
