-------------------------- MODULE MCType7Geometry --------------------------
(* A frame of 10 by 6 pixels on a grid of 4: neither side is a whole number
   of grains.  The changes lie in corners, on and between grid lines, across
   an edge and outside the frame, with corners on pixels and between them, and
   come alone or with one in another corner.                                *)
EXTENDS DirtyUpdates

Across == {<<0, 1>>, <<0, 20>>, <<6, 8>>, <<8, 13>>, <<18, 20>>, <<15, 26>>, <<22, 25>>}
Down   == {<<0, 2>>, <<6, 9>>, <<7, 12>>, <<8, 16>>, <<4, 4>>}

Area(a, d) == [x1 |-> a[1], x2 |-> a[2], y1 |-> d[1], y2 |-> d[2]]

MCUpdates == {{Area(a, d)} : a \in Across, d \in Down}
             \cup {{Area(<<-3, 1>>, <<-2, 3>>), Area(a, <<7, 9>>)} : a \in Across}
             \cup {{}, {Area(<<3, 5>>, <<1, 3>>), Area(<<15, 17>>, <<7, 9>>), Area(<<22, 25>>, <<0, 2>>)}}
MCDirty   == {t6_vd_get_dirty_summary(u) : u \in Updates}

=============================================================================
