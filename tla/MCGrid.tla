------------------------------- MODULE MCGrid -------------------------------
(* Instances of Grid: every 2D and every real 3D node on small shapes whose   *)
(* extents differ wherever the node allows it.                                *)
EXTENDS Grid

Kinds2D == {"as_1d", "2d", "2d_row", "2d_fused", "2d_rc", "2d_rc_four",
            "2d_rc_outer", "2d_rc_row"}
Kinds3D == {"strided", "plane", "plane_column", "cube", "leaf", "first_store",
            "transposed", "rtrt", "rtrt_outer", "rtrt_final", "3d"}

Shapes2D == {<<1, 4, 3>>, <<1, 3, 4>>, <<1, 3, 3>>, <<1, 1, 4>>, <<1, 3, 1>>,
             <<1, 6, 2>>}
Shapes3D == {<<2, 2, 2>>, <<3, 3, 3>>, <<2, 3, 4>>, <<1, 8, 2>>, <<2, 8, 1>>}

Fusions(k) == CASE k = "leaf" -> SUBSET {"first", "load", "middle"}
                [] k = "rtrt" -> SUBSET {"first", "middle", "last"}
                [] OTHER -> {{}}

Node(rank, t, k, f, b, s, h, i) ==
    [rank |-> rank, type |-> t, kind |-> k, fused |-> f, batch |-> b,
     n0 |-> s[1], n1 |-> s[2], n2 |-> s[3], chunk |-> h, inPlace |-> i]

\* Nodes whose steps are not split get one chunk size.
Chunks(k) == IF k \in {"2d", "2d_rc", "2d_rc_four", "leaf", "transposed", "rtrt",
                       "plane_column", "first_store", "3d"} THEN {1, 4} ELSE {4}

AllConfigs ==
    UNION {{Node(2, t, k, {}, b, s, h, i) : h \in Chunks(k)} :
             t \in {"c2c", "r2c", "c2r"}, k \in Kinds2D, b \in 1 .. 3,
             s \in Shapes2D, i \in BOOLEAN}
    \cup
    UNION {{Node(3, t, k, f, b, s, h, i) : f \in Fusions(k), h \in Chunks(k)} :
             t \in {"r2c", "c2r"}, k \in Kinds3D,
             b \in 1 .. 2, s \in Shapes3D, i \in BOOLEAN}

\* Cases in which the code is known to go wrong; see the README.
BatchedInnerStore(c) == c.kind = "leaf" /\ "middle" \in c.fused /\ c.batch > 1
InPlaceCube(c) == c.kind = "cube" /\ c.inPlace
InPlaceUnitAxis(c) ==
    c.kind = "as_1d" /\ c.inPlace /\ c.batch > 1 /\ c.type # "c2c"

SoundConfigs ==
    {c \in AllConfigs :
       Admits(c) /\ ~BatchedInnerStore(c) /\ ~InPlaceCube(c) /\ ~InPlaceUnitAxis(c)}
=============================================================================
