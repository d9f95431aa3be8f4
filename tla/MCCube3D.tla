------------------------------ MODULE MCCube3D ------------------------------
(* Instances of Cube3D: every node kind on small shapes.  Extents differ from *)
(* one another wherever the node allows it, so that a transposed, rotated or  *)
(* mis-strided cube never looks natural.                                      *)
EXTENDS Cube3D

Kinds == {"pair_store", "fused_cube", "fused_plane", "prime_plane",
          "final_store", "hybrid", "hybrid_last", "hybrid_first",
          "hybrid_first_last", "chain", "chain_last", "strided", "rtrt",
          "rtrt_inverse"}

Shapes == {<<2, 2, 2>>, <<3, 3, 3>>, <<2, 3, 4>>, <<4, 3, 2>>, <<3, 2, 4>>,
           <<2, 5, 3>>, <<1, 8, 2>>, <<2, 8, 1>>, <<3, 1, 2>>}

\* batch_per_block is the kernel's pack or, on backends metadata.py does not
\* name, 1.  Parameters a node makes no use of are fixed.
AllConfigs ==
    {c \in {[kind |-> k, batch |-> b, n0 |-> s[1], n1 |-> s[2], n2 |-> s[3],
             pack |-> p, perBlock |-> q, chunk |-> h, inPlace |-> i] :
               k \in Kinds, b \in 1 .. 3, s \in Shapes, p \in {1, 2, 4},
               q \in {1, 2, 4}, h \in {1, 2}, i \in BOOLEAN} :
        /\ c.perBlock \in {1, c.pack}
        /\ c.batch = 1 => c.chunk = 1
        /\ c.kind \in {"fused_cube", "rtrt", "rtrt_inverse"} => c.pack = 1
        /\ c.kind = "fused_cube" => c.chunk = 1 /\ c.batch * c.n0 <= 4
        /\ c.inPlace => c.perBlock = c.pack}

\* Without the cases in which the code is known to go wrong; see the README.
SoundConfigs == {c \in AllConfigs : Sound(c)}
=============================================================================
