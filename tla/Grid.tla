-------------------------------- MODULE Grid --------------------------------
(***************************************************************************)
(* The 2D nodes and the real 3D nodes: what compile_raw_2d_node,           *)
(* compile_raw_2d_r2c_node, compile_raw_2d_c2r_node, and their 3D          *)
(* counterparts for real data (src/codegen/compiler.cpp) put together, and *)
(* what the execute functions of src/exec/raw_nodes.cpp do with it, at the *)
(* level of addresses.  Complex 3D nodes are the subject of Cube3D.        *)
(*                                                                         *)
(* A matrix is a cube with n0 = 1: the extents n0, n1 of the code's 2D     *)
(* nodes are n1, n2 here, so that axis 2 is always the contiguous one.     *)
(*                                                                         *)
(* An address is a real word.  An element of a real array ("real") takes   *)
(* one, of a full ("full") or half ("half") complex one two; half rows     *)
(* hold n2 \div 2 + 1 elements.  A cell says which element of which item   *)
(* of the batch it stems from, along which axes it has been transformed,   *)
(* in which form it is and which of its words it is.  A kernel that does   *)
(* not find a line of its axis, whole and in the form it takes, stores     *)
(* junk.                                                                   *)
(*                                                                         *)
(* Slots and blocks of permuting leaves are in Cube3D, replay graphs in    *)
(* GraphExec, children that run contiguous rows in RowNodes.  Tests on     *)
(* backend, dtype and environment are left open.                           *)
(***************************************************************************)
EXTENDS Integers, Sequences, FiniteSets

CONSTANTS
    Configs,     \* nodes to look at
    RcMax,       \* longest column of the RC path (256)
    StridedMax   \* largest compact array of the strided 3D path (64^3)

ASSUME ConfigsType ==
    Configs \subseteq
        [rank : {2, 3}, type : {"c2c", "r2c", "c2r"}, kind : STRING,
         fused : SUBSET STRING, batch : Nat \ {0}, n0 : Nat \ {0},
         n1 : Nat \ {0}, n2 : Nat \ {0}, chunk : Nat \ {0}, inPlace : BOOLEAN]
ASSUME BoundsType == RcMax \in Nat /\ StridedMax \in Nat

VARIABLES
    cfg,      \* the node: its kind and what is fused into its kernels, shape,
              \* batch, rows (batches, columns) per launch, in place or not
    pc,       \* next step of execute, counted from 1
    offset,   \* row_offset, batch_offset or b of the loop around that step
    mem,      \* buffer -> word -> cell
    status    \* "running", or what execute returned: "success", "failed"

vars == <<cfg, pc, offset, mem, status>>

n0 == cfg.n0
n1 == cfg.n1
n2 == cfg.n2
half == n2 \div 2 + 1
Forward == cfg.type # "c2r"
Out == IF cfg.inPlace THEN "in" ELSE "out"
CeilDiv(x, y) == (x + y - 1) \div y
Least(x, y) == IF x < y THEN x ELSE y
Larger(x, y) == IF x > y THEN x ELSE y

\* The form of the arrays between the real boundary and the other axes.
Inner == IF cfg.type = "c2c" THEN "full" ELSE "half"
Given == CASE cfg.type = "c2c" -> "full" [] cfg.type = "r2c" -> "real"
           [] cfg.type = "c2r" -> "half"
Wanted == CASE cfg.type = "c2c" -> "full" [] cfg.type = "r2c" -> "half"
            [] cfg.type = "c2r" -> "real"

\* "mid" is what lies between the two kernels of a strided four-step.
Width(form) ==
    IF form = "half" \/ (form = "mid" /\ cfg.type # "c2c") THEN half ELSE n2
Words(form) == IF form = "real" THEN 1 ELSE 2
Elements(form) == cfg.batch * n0 * n1 * Width(form)
-----------------------------------------------------------------------------
(* Which nodes the compiler makes of which shapes *)

Packed(c) == c.batch * c.n0 * c.n1 * (c.n2 \div 2 + 1)
IsCube(c) == c.n0 = c.n1 /\ c.n1 = c.n2
Elongated(c) == c.n1 >= 4 * Larger(c.n0, c.n2)
HasUnitAxis(c) == c.n1 = 1 \/ (c.type = "c2c" /\ c.n2 = 1)

\* compile_raw_2d_node
Admits2D(c) ==
    \/ c.kind = "as_1d" /\ HasUnitAxis(c)
    \/ c.kind = "2d_fused" /\ c.n1 = c.n2
    \/ c.kind \in {"2d_rc", "2d_rc_four"} /\ c.n1 <= RcMax
    \/ c.kind \in {"2d", "2d_rc_outer"}

\* compile_raw_2d_r2c_node
AdmitsR2C2D(c) ==
    \/ c.kind = "as_1d" /\ HasUnitAxis(c)
    \/ c.kind \in {"2d_rc", "2d_rc_four", "2d_rc_row"} /\ c.n1 <= RcMax
    \/ c.kind \in {"2d", "2d_row"}

\* compile_raw_2d_c2r_node
AdmitsC2R2D(c) ==
    \/ c.kind = "as_1d" /\ HasUnitAxis(c)
    \/ c.kind \in {"2d_rc", "2d_rc_four", "2d_rc_row"} /\ c.n1 <= RcMax
    \/ c.kind \in {"2d", "2d_row"}

\* compile_raw_3d_real_leaf_node, first part: small cubes and fused planes.
\* ("first", "load" and "middle" are fused by the second part.)
AdmitsPlane(c) ==
    \/ c.kind = "strided" /\ Packed(c) <= StridedMax
    \/ c.kind \in {"plane", "plane_column"} /\ IsCube(c) /\ c.batch <= 4
    \/ c.kind = "cube" /\ IsCube(c) /\ c.batch = 1 /\ c.type = "r2c"

\* compile_raw_3d_real_leaf_node, second part: large arrays.
AdmitsLeaf(c) ==
    /\ Packed(c) > StridedMax
    /\ \/ /\ c.kind = "leaf"
          /\ "first" \in c.fused => c.type = "r2c"
          /\ "load" \in c.fused => c.type = "c2r" /\ "middle" \in c.fused
          /\ "middle" \notin c.fused => Elongated(c)
          /\ c.fused \subseteq {"first", "load", "middle"}
       \/ c.kind = "first_store" /\ c.type = "r2c"
       \/ c.kind = "transposed"

\* compile_raw_3d_real_rtrt_node
AdmitsRtrt(c) ==
    \/ /\ c.kind = "rtrt"
       /\ c.fused \subseteq {"first", "middle", "last"}
       /\ c.fused # {} => Packed(c) > StridedMax
       /\ c.fused \cap {"first", "middle"} # {} => c.type = "r2c"
       /\ "middle" \in c.fused => IsCube(c) /\ c.batch = 1
    \/ c.kind \in {"rtrt_outer", "rtrt_final"} /\ IsCube(c)

\* compile_raw_3d_r2c_node and compile_raw_3d_c2r_node after these declined.
Admits3D(c) ==
    \/ AdmitsPlane(c)
    \/ AdmitsLeaf(c)
    \/ AdmitsRtrt(c)
    \/ c.kind = "3d"

Admits(c) ==
    /\ c.fused # {} => c.kind \in {"leaf", "rtrt"}
    /\ IF c.rank = 3 THEN c.type # "c2c" /\ Admits3D(c)
       ELSE /\ c.n0 = 1
            /\ HasUnitAxis(c) => c.kind = "as_1d"
            /\ \/ c.type = "c2c" /\ Admits2D(c)
               \/ c.type = "r2c" /\ AdmitsR2C2D(c)
               \/ c.type = "c2r" /\ AdmitsC2R2D(c)
-----------------------------------------------------------------------------
(* Steps *)

\* Lines of the given axes, read from src as load says and stored to dst as
\* store says; perRow: words the pointers advance by for every row of a loop.
Step(axes, from, to, load, store, span, src, dst) ==
    [op |-> "lines", axes |-> axes, done |-> TRUE, from |-> from, to |-> to,
     load |-> load, store |-> store, span |-> span, src |-> src, dst |-> dst,
     loop |-> "none", perRow |-> <<0, 0>>]

\* CompiledRawStridedLeafNode, CompiledRawStridedDirectDftNode
Lines(a, span, src, dst) ==
    Step(<<a>>, Inner, Inner, "strided", "strided", span, src, dst)

\* CompiledRawFourStepStridedNode
FourStepLines(a, span, src, dst) ==
    <<[Step(<<a>>, Inner, "mid", "strided", "strided", span, src, "stage")
         EXCEPT !.done = FALSE],
      Step(<<a>>, "mid", Inner, "strided", "strided", span, "stage", dst)>>

\* A child on contiguous rows, the child that crosses the real boundary, and
\* leaves with permuting stores.
Rows(a, src, dst) == Step(<<a>>, Inner, Inner, "rows", "rows", 1, src, dst)
FullRows(src, dst) == Step(<<2>>, "full", "full", "rows", "rows", 1, src, dst)
BoundaryRows(src, dst) == Step(<<2>>, Given, Wanted, "rows", "rows", 1, src, dst)
OuterStore(a, span, src, dst) ==
    Step(<<a>>, Inner, Inner, "rows", "outer", span, src, dst)
InnerStore(a, span, src, dst) ==
    Step(<<a>>, Inner, Inner, "rows", "inner", span, src, dst)
RealOuterStore(src, dst) ==
    Step(<<2>>, "real", "half", "rows", "outer", n1, src, dst)

\* A fused plane (or cube) of real data, in one block (or several).
RealPlane(src, dst) == Step(<<1, 2>>, Given, Wanted, "rows", "rows", 1, src, dst)
RealCube(src, dst) ==
    Step(<<0, 1, 2>>, "real", "half", "rows", "rows", 1, src, dst)

\* Kernels that only change the form of rows, launched chunk by chunk with
\* the given words per row.
Reform(from, to, src, dst, inStep, outStep) ==
    [Step(<<2>>, from, to, "rows", "rows", 1, src, dst)
       EXCEPT !.done = FALSE, !.loop = "rows", !.perRow = <<inStep, outStep>>]

\* transpose2d and transpose3d of source dimensions d by axis order o.
Permute(o, d, loop, src, dst) ==
    [op |-> "perm", order |-> o, dims |-> d, from |-> Inner, to |-> Inner,
     src |-> src, dst |-> dst, loop |-> loop]

\* CompiledRawTranspose2D::launch: (batch, rows, cols) to (batch, cols, rows)
Transpose(rows, cols, src, dst) ==
    Permute(<<0, 2, 1>>, <<1, rows, cols>>, "none", src, dst)
Permute3D(o, d, src, dst) == Permute(o, d, "batch", src, dst)

\* A step inside the loop over the items of the batch.
PerItem(s) == [s EXCEPT !.loop = "item"]

Expand(src, dst) ==
    IF Forward THEN Reform("real", "full", src, dst, n2, 2 * n2)
    ELSE Reform("half", "full", src, dst, 2 * half, 2 * n2)

\* Mutant: the packed rows are placed by their real size.
PackRealBytes(src, dst) ==
    IF Forward THEN Reform("full", "half", src, dst, 2 * n2, half)
    ELSE Reform("full", "real", src, dst, 2 * n2, n2)

Pack(src, dst) ==
    IF Forward THEN Reform("full", "half", src, dst, 2 * n2, 2 * half)
    ELSE Reform("full", "real", src, dst, 2 * n2, n2)
-----------------------------------------------------------------------------
(* 2D nodes: the sequence each execute runs *)

\* CompiledRaw1DAs2DNode: one of the axes is 1.
As1D ==
    IF n1 > 1 THEN <<Rows(1, "in", Out)>>
    ELSE <<[BoundaryRows("in", Out) EXCEPT
              !.load = IF cfg.inPlace /\ cfg.type = "r2c" THEN "padded" ELSE "rows",
              !.store = IF cfg.inPlace /\ cfg.type = "c2r" THEN "padded" ELSE "rows"]>>

\* CompiledRaw2DNode
TwoD ==
    <<Rows(2, "in", "t1"),
      Transpose(n1, n2, "t1", "t2"),
      Rows(1, "t2", "t1"),
      Transpose(n2, n1, "t1", Out)>>

\* CompiledRaw2DFusedNode, and CompiledRaw2DRCNode around leaves (or Cube DFT
\* kernels) that store transposed.
TwoDFused ==
    <<OuterStore(2, n1, "in", "t1"), OuterStore(1, n2, "t1", Out)>>

\* The column pass of the RC nodes.
Columns(src, dst) ==
    IF cfg.kind = "2d_rc_four" THEN FourStepLines(1, Width(Inner), src, dst)
    ELSE <<Lines(1, Width(Inner), src, dst)>>

\* CompiledRaw2DRCNode
TwoDRC == <<Rows(2, "in", "t1")>> \o Columns("t1", Out)

\* CompiledRaw2DR2CRowNode
R2CRow ==
    <<BoundaryRows("in", "t1"),
      Transpose(n1, half, "t1", "t2"),
      Rows(1, "t2", "t1"),
      Transpose(half, n1, "t1", Out)>>

\* Mutant: the input, consumed by the first step, serves as a temporary.
C2RRowThroughInput ==
    <<Transpose(n1, half, "in", "t1"),
      Rows(1, "t1", "t2"),
      Transpose(half, n1, "t2", "in"),
      BoundaryRows("in", Out)>>

\* CompiledRaw2DC2RRowNode
C2RRow ==
    <<Transpose(n1, half, "in", "t1"),
      Rows(1, "t1", "t2"),
      Transpose(half, n1, "t2", "t1"),
      BoundaryRows("t1", Out)>>

\* CompiledRaw2DR2CNode
R2C ==
    <<Expand("in", "row"),
      FullRows("row", "row"),
      Pack("row", Out),
      Transpose(n1, half, Out, "t1"),
      Rows(1, "t1", "t2"),
      Transpose(half, n1, "t2", Out)>>

\* CompiledRaw2DR2CRCNode, with expand and pack kernels or without
R2CRC ==
    IF cfg.kind = "2d_rc_row" THEN <<BoundaryRows("in", "t1")>> \o Columns("t1", Out)
    ELSE <<Expand("in", "row"), FullRows("row", "row"), Pack("row", Out)>>
           \o Columns(Out, Out)

\* CompiledRaw2DC2RNode
C2R ==
    <<Transpose(n1, half, "in", "t1"),
      Rows(1, "t1", "t2"),
      Transpose(half, n1, "t2", "t1"),
      Expand("t1", "row"),
      FullRows("row", "row"),
      Pack("row", Out)>>

\* CompiledRaw2DC2RRCNode
C2RRC ==
    Columns("in", "t1")
      \o (IF cfg.kind = "2d_rc_row" THEN <<BoundaryRows("t1", Out)>>
          ELSE <<Expand("t1", "row"), FullRows("row", "row"), Pack("row", Out)>>)

Program2D ==
    CASE cfg.kind = "as_1d" -> As1D
      [] cfg.kind \in {"2d_fused", "2d_rc_outer"} -> TwoDFused
      [] cfg.type = "c2c" /\ cfg.kind = "2d" -> TwoD
      [] cfg.type = "c2c" /\ cfg.kind \in {"2d_rc", "2d_rc_four"} -> TwoDRC
      [] cfg.type = "r2c" /\ cfg.kind = "2d_row" -> R2CRow
      [] cfg.type = "r2c" /\ cfg.kind = "2d" -> R2C
      [] cfg.type = "r2c" /\ cfg.kind \in {"2d_rc", "2d_rc_four", "2d_rc_row"} -> R2CRC
      [] cfg.type = "c2r" /\ cfg.kind = "2d_row" -> C2RRow
      [] cfg.type = "c2r" /\ cfg.kind = "2d" -> C2R
      [] cfg.type = "c2r" /\ cfg.kind \in {"2d_rc", "2d_rc_four", "2d_rc_row"} -> C2RRC
-----------------------------------------------------------------------------
(* Real 3D nodes *)

\* Mutant: the strided columns of n1 are taken to be n2 apart.
StridedFullSpan ==
    IF Forward
    THEN <<BoundaryRows("in", "t1"), Lines(1, n2, "t1", "t2"),
           Lines(0, n1 * half, "t2", Out)>>
    ELSE <<Lines(1, n2, "in", "t1"), Lines(0, n1 * half, "t1", "t2"),
           BoundaryRows("t2", Out)>>

\* CompiledRaw3DRealLeafNode without fused_store, and its Strided layout
StridedReal ==
    IF Forward
    THEN <<BoundaryRows("in", "t1"), Lines(1, half, "t1", "t2"),
           Lines(0, n1 * half, "t2", Out)>>
    ELSE <<Lines(1, half, "in", "t1"), Lines(0, n1 * half, "t1", "t2"),
           BoundaryRows("t2", Out)>>

\* CompiledRaw3DRealLeafNode with fused_store.  Fused are the first
\* permutation ("first": n2_permuted; "load": n1_strided_input) and the one
\* between n1 and n0 ("middle": no perm_210).
MiddleLeaf(src, dst) ==
    IF "middle" \notin cfg.fused THEN Rows(1, src, dst)
    ELSE IF "load" \in cfg.fused
    THEN [InnerStore(1, half, src, dst) EXCEPT !.load = "strided"]
    ELSE InnerStore(1, half, src, dst)

LeafR2C ==
    (IF "first" \in cfg.fused THEN <<RealOuterStore("in", "t2")>>
     ELSE <<BoundaryRows("in", "t1"),
            Permute3D(<<0, 2, 1>>, <<n0, n1, half>>, "t1", "t2")>>)
    \o <<MiddleLeaf("t2", "t1")>>
    \o (IF "middle" \in cfg.fused
        THEN <<OuterStore(0, n1 * half, "t1", Out)>>
        ELSE <<Permute3D(<<2, 1, 0>>, <<n0, half, n1>>, "t1", "t2"),
               OuterStore(0, n1 * half, "t2", Out)>>)

LeafC2R ==
    (IF "load" \in cfg.fused THEN <<MiddleLeaf("in", "t2")>>
     ELSE <<Permute3D(<<0, 2, 1>>, <<n0, n1, half>>, "in", "t1"),
            MiddleLeaf("t1", "t2")>>)
    \o (IF "middle" \in cfg.fused
        THEN <<OuterStore(0, n1 * half, "t2", "t1"), BoundaryRows("t1", Out)>>
        ELSE <<Permute3D(<<2, 1, 0>>, <<n0, half, n1>>, "t2", "t1"),
               OuterStore(0, n1 * half, "t1", "t2"), BoundaryRows("t2", Out)>>)

\* Layouts R2CFirstStore and Transposed.
FirstStore ==
    <<RealOuterStore("in", "t2"),
      Rows(1, "t2", "t1"),
      Permute3D(<<2, 1, 0>>, <<n0, half, n1>>, "t1", "t2"),
      Rows(0, "t2", "t1"),
      Permute3D(<<2, 0, 1>>, <<n1, half, n0>>, "t1", Out)>>

Transposed ==
    IF Forward
    THEN <<BoundaryRows("in", "t1"),
           Permute3D(<<0, 2, 1>>, <<n0, n1, half>>, "t1", "t2"),
           Rows(1, "t2", "t1"),
           Permute3D(<<2, 1, 0>>, <<n0, half, n1>>, "t1", "t2"),
           Rows(0, "t2", "t1"),
           Permute3D(<<2, 0, 1>>, <<n1, half, n0>>, "t1", Out)>>
    ELSE <<Permute3D(<<1, 2, 0>>, <<n0, n1, half>>, "in", "t1"),
           Rows(0, "t1", "t2"),
           Permute3D(<<2, 1, 0>>, <<n1, half, n0>>, "t2", "t1"),
           Rows(1, "t1", "t2"),
           Permute3D(<<0, 2, 1>>, <<n0, half, n1>>, "t2", "t1"),
           BoundaryRows("t1", Out)>>

\* CompiledRaw3DColumnNode: blocks of cfg.chunk columns, one launch.
ColumnGrid(src, dst) == [Lines(0, n1 * half, src, dst) EXCEPT !.loop = "columns"]

\* CompiledRaw3DRealFusedPlaneNode, CompiledRaw3DFusedRealPlaneNode
Outermost(src, dst) ==
    IF cfg.kind = "plane_column" THEN ColumnGrid(src, dst)
    ELSE Lines(0, n1 * half, src, dst)
PlaneReal ==
    IF Forward THEN <<RealPlane("in", "t1"), Outermost("t1", Out)>>
    ELSE <<Outermost("in", "t1"), RealPlane("t1", Out)>>

\* CompiledRaw3DRealRTRTNode.  Fused are perm_021 ("first"), perm_210
\* ("middle") and perm_201 ("last"); kind "rtrt_final" has its n0 child store
\* transposed (npu_fused_small_final_store).
FusedLast == "last" \in cfg.fused \/ cfg.kind = "rtrt_final"
LastLeaf(src, dst) ==
    IF FusedLast THEN OuterStore(0, n1 * half, src, dst) ELSE Rows(0, src, dst)

RtrtR2C ==
    LET middle == "middle" \notin cfg.fused
        n0Input == IF middle THEN "t2" ELSE "t1"
        n0Output == IF FusedLast THEN Out ELSE IF middle THEN "t1" ELSE "t2"
    IN  (IF "first" \in cfg.fused THEN <<RealOuterStore("in", "t2")>>
         ELSE <<BoundaryRows("in", "t1"),
                Permute3D(<<0, 2, 1>>, <<n0, n1, half>>, "t1", "t2")>>)
        \o (IF middle
            THEN <<Rows(1, "t2", "t1"),
                   Permute3D(<<2, 1, 0>>, <<n0, half, n1>>, "t1", "t2")>>
            ELSE <<InnerStore(1, half, "t2", "t1")>>)
        \o <<LastLeaf(n0Input, n0Output)>>
        \o (IF FusedLast THEN <<>>
            ELSE <<Permute3D(<<2, 0, 1>>, <<n1, half, n0>>, n0Output, Out)>>)

\* No middle permutation is fused on the way back.
RtrtC2R ==
    <<Permute3D(<<0, 2, 1>>, <<n0, n1, half>>, "in", "t1"),
      Rows(1, "t1", "t2"),
      Permute3D(<<2, 1, 0>>, <<n0, half, n1>>, "t2", "t1"),
      LastLeaf("t1", "t2")>>
    \o (IF FusedLast THEN <<BoundaryRows("t2", Out)>>
        ELSE <<Permute3D(<<2, 0, 1>>, <<n1, half, n0>>, "t2", "t1"),
               BoundaryRows("t1", Out)>>)

\* CompiledRaw3DRealRTRTNode with npu_fused_outer_stores: item by item, the
\* n1 and n0 children store transposed with row strides n0 * half and n1 * half.
RtrtOuter ==
    IF Forward
    THEN <<BoundaryRows("in", "t1"),
           Permute3D(<<2, 0, 1>>, <<n0, n1, half>>, "t1", "t2"),
           PerItem(OuterStore(1, n0 * half, "t2", "t1")),
           PerItem(OuterStore(0, n1 * half, "t1", Out))>>
    ELSE <<Permute3D(<<2, 0, 1>>, <<n0, n1, half>>, "in", "t1"),
           PerItem(OuterStore(1, n0 * half, "t1", "t2")),
           PerItem(OuterStore(0, n1 * half, "t2", "t1")),
           BoundaryRows("t1", Out)>>

\* CompiledRaw3DR2CNode
R2C3D ==
    <<Expand("in", "row"),
      FullRows("row", "row"),
      Pack("row", Out),
      Permute3D(<<0, 2, 1>>, <<n0, n1, half>>, Out, "t1"),
      Rows(1, "t1", "t2"),
      Permute3D(<<2, 1, 0>>, <<n0, half, n1>>, "t2", "t1"),
      Rows(0, "t1", "t2"),
      Permute3D(<<2, 0, 1>>, <<n1, half, n0>>, "t2", Out)>>

\* CompiledRaw3DC2RNode
C2R3D ==
    <<Permute3D(<<1, 2, 0>>, <<n0, n1, half>>, "in", "t1"),
      Rows(0, "t1", "t2"),
      Permute3D(<<2, 1, 0>>, <<n1, half, n0>>, "t2", "t1"),
      Rows(1, "t1", "t2"),
      Permute3D(<<0, 2, 1>>, <<n0, half, n1>>, "t2", "t1"),
      Expand("t1", "row"),
      FullRows("row", "row"),
      Pack("row", Out)>>

Program3D ==
    CASE cfg.kind = "strided" -> StridedReal
      [] cfg.kind = "cube" -> <<RealCube("in", Out)>>
      [] cfg.kind \in {"plane", "plane_column"} -> PlaneReal
      [] cfg.kind = "leaf" -> IF Forward THEN LeafR2C ELSE LeafC2R
      [] cfg.kind = "first_store" -> FirstStore
      [] cfg.kind = "transposed" -> Transposed
      [] cfg.kind \in {"rtrt", "rtrt_final"} -> IF Forward THEN RtrtR2C ELSE RtrtC2R
      [] cfg.kind = "rtrt_outer" -> RtrtOuter
      [] cfg.kind = "3d" -> IF Forward THEN R2C3D ELSE C2R3D

Program == IF cfg.rank = 2 THEN Program2D ELSE Program3D
Now == Program[pc]
-----------------------------------------------------------------------------
(* Buffers and cells *)

\* The workspaces the compiler allocates and the caller's arrays, in words.
\* In place, the caller's one array is large enough for input and output, and
\* for the padded rows that a 1D real child expects there.
Size(b) ==
    CASE b \in {"t1", "t2", "stage"} -> 2 * Elements(Inner)
      [] b = "row" -> IF cfg.type = "c2c" THEN 0 ELSE 2 * Elements("full")
      [] b = "out" -> IF cfg.inPlace THEN 0 ELSE Words(Wanted) * Elements(Wanted)
      [] b = "in" ->
           IF cfg.inPlace
           THEN Larger(Words(Given) * Elements(Given), Words(Wanted) * Elements(Wanted))
           ELSE Words(Given) * Elements(Given)

Buffers == {"in", "out", "row", "stage", "t1", "t2"}

Junk == [item |-> -1, at |-> <<0, 0, 0>>, done |-> {}, form |-> "junk", part |-> 0]

\* Word w of an array of the given form in natural order.
Natural(w, form, done) ==
    LET e == w \div Words(form)
        wd == Width(form)
    IN  [item |-> e \div (n0 * n1 * wd),
         at |-> <<(e \div (n1 * wd)) % n0, (e \div wd) % n1, e % wd>>,
         done |-> done, form |-> form, part |-> w % Words(form)]

Load(buf, w) == IF w \in DOMAIN mem[buf] THEN mem[buf][w] ELSE Junk

\* Index k of a line, plane or cube moves a cell to these coordinates.
Moved(at, axes, form, k) ==
    CASE Len(axes) = 1 -> [at EXCEPT ![axes[1] + 1] = k]
      [] Len(axes) = 2 -> <<at[1], k \div Width(form), k % Width(form)>>
      [] Len(axes) = 3 -> <<k \div (n1 * Width(form)),
                            (k \div Width(form)) % n1, k % Width(form)>>

Extent(a, form) == CASE a = 0 -> n0 [] a = 1 -> n1 [] a = 2 -> Width(form)
Length(s, form) ==
    CASE Len(s.axes) = 1 -> Extent(s.axes[1], form)
      [] Len(s.axes) = 2 -> n1 * Width(form)
      [] Len(s.axes) = 3 -> n0 * n1 * Width(form)
-----------------------------------------------------------------------------
(* Launches *)

RowCount(s) == Elements(s.from) \div Length(s, s.from)

\* Rows of one launch: a chunk of launch_grid_y_chunks, the rows of one item,
\* the columns its blocks take up, or all.
Launched(s) ==
    CASE s.loop = "rows" -> 0 .. Least(cfg.chunk, RowCount(s) - offset) - 1
      [] s.loop = "item" -> 0 .. RowCount(s) \div cfg.batch - 1
      [] s.loop = "columns" ->
           {r \in 0 .. RowCount(s) - 1 :
              (r % s.span) \div cfg.chunk < CeilDiv(s.span, cfg.chunk)}
      [] OTHER -> 0 .. RowCount(s) - 1

\* Where the pointers of the launch point, in words.
ItemWords == 2 * n0 * n1 * half
LoadBase(s) ==
    CASE s.loop = "rows" -> offset * s.perRow[1]
      [] s.loop = "item" -> offset * ItemWords
      [] OTHER -> 0
StoreBase(s) ==
    CASE s.loop = "rows" -> offset * s.perRow[2]
      [] s.loop = "item" -> offset * ItemWords
      [] OTHER -> 0

\* Element index k of row r is at, relative to that.
Place(s, layout, len, r, k) ==
    CASE layout = "rows" -> r * len + k
      [] layout = "padded" -> r * 2 * half + k
      [] layout \in {"strided", "outer"} ->
           (r \div s.span) * (len * s.span) + k * s.span + (r % s.span)
      [] layout = "inner" ->
           k * RowCount(s) + (r % s.span) * (RowCount(s) \div s.span) + r \div s.span

LoadWord(s, r, k) ==
    LoadBase(s) + Words(s.from) * Place(s, s.load, Length(s, s.from), r, k)
StoreWord(s, r, k) ==
    StoreBase(s) + Words(s.to) * Place(s, s.store, Length(s, s.to), r, k)

Nontrivial(axes) == {a \in axes : (CASE a = 0 -> n0 [] a = 1 -> n1 [] a = 2 -> n2) > 1}
Over(s) == {s.axes[j] : j \in DOMAIN s.axes}

\* A row may be stored over rows being read only where it was itself read.
InPlaceSafe(s) ==
    s.src = s.dst =>
        \/ /\ s.load = s.store /\ s.from = s.to
        \/ s.load = "padded" \/ s.store = "padded"

\* What row r of the launch holds, as its first cell: junk unless it is a
\* line of the axes in the form expected, not yet transformed along them.  A
\* half row stands for a real one only once the other axes are done.
Found(s, r) ==
    LET first == Load(s.src, LoadWord(s, r, 0))
        needed == IF s.from = "half" /\ s.to # "half"
                  THEN Nontrivial({0, 1} \ Over(s)) ELSE {}
        whole == \A k \in 0 .. Length(s, s.from) - 1, p \in 0 .. Words(s.from) - 1 :
                   Load(s.src, LoadWord(s, r, k) + p)
                     = [first EXCEPT !.at = Moved(@, s.axes, s.from, k), !.part = p]
    IN  IF /\ first.form = s.from
           /\ first.done \cap Over(s) = {} \/ ~s.done
           /\ needed \subseteq first.done
           /\ whole /\ InPlaceSafe(s)
        THEN first ELSE Junk

\* The destination after the launch: words nobody stores to are kept, words
\* where two stores meet are undefined.
LinesStored(s) ==
    LET found == [r \in Launched(s) |-> Found(s, r)]
        len == Length(s, s.to)
        place == [p \in Launched(s) \X (0 .. len - 1) |-> StoreWord(s, p[1], p[2])]
        marks == IF s.done THEN Nontrivial(Over(s)) ELSE {}
    IN  [w \in DOMAIN mem[s.dst] |->
           LET part == (w - StoreBase(s)) % Words(s.to)
               here == {p \in DOMAIN place : place[p] = w - part}
               p == CHOOSE p \in here : TRUE
           IN  IF here = {} THEN mem[s.dst][w]
               ELSE IF Cardinality(here) > 1 \/ found[p[1]] = Junk THEN Junk
               ELSE [found[p[1]] EXCEPT !.at = Moved(@, s.axes, s.to, p[2]),
                       !.done = @ \cup marks, !.form = s.to, !.part = part]]

\* Source element, within an item, of element e of a permutation's result.
PermuteSource(s, e) ==
    LET d == [x \in 0 .. 2 |-> s.dims[x + 1]]
        o == [x \in 0 .. 2 |-> s.order[x + 1]]
        y == [z \in 0 .. 2 |-> CASE z = o[0] -> e \div (d[o[1]] * d[o[2]])
                                 [] z = o[1] -> (e \div d[o[2]]) % d[o[1]]
                                 [] z = o[2] -> e % d[o[2]]]
    IN  (y[0] * d[1] + y[1]) * d[2] + y[2]

\* Batches of one launch of a permutation.
Items(s) ==
    IF s.loop = "batch" THEN offset .. Least(offset + cfg.chunk, cfg.batch) - 1
    ELSE 0 .. cfg.batch - 1

Permuted(s) ==
    LET size == s.dims[1] * s.dims[2] * s.dims[3]
    IN  [w \in DOMAIN mem[s.dst] |->
           LET b == w \div (2 * size)
           IN  IF b \notin Items(s) THEN mem[s.dst][w]
               ELSE Load(s.src, 2 * (b * size + PermuteSource(s, (w \div 2) % size))
                                  + (w % 2))]
-----------------------------------------------------------------------------
(* execute *)

Init ==
    /\ cfg \in {c \in Configs : Admits(c)}
    /\ pc = 1
    /\ offset = 0
    /\ mem = [b \in Buffers |->
                [w \in 0 .. Size(b) - 1 |->
                   IF b = "in" /\ w < Words(Given) * Elements(Given)
                   THEN Natural(w, Given, {}) ELSE Junk]]
    /\ status = "running"

\* The loop bound of a step and how far one round goes.
Rounds(s) == CASE s.loop = "rows" -> RowCount(s)
               [] s.loop \in {"batch", "item"} -> cfg.batch
               [] OTHER -> 1
Stride(s) == IF s.loop \in {"rows", "batch"} THEN cfg.chunk ELSE 1

\* Position after a launch: the next chunk, the next step of the loop over
\* items or its next round, the next step, or the end.
Advance(s) ==
    LET more == offset + Stride(s) < Rounds(s)
        last == pc = Len(Program)
        inBody == s.loop = "item" /\ ~last /\ Program[pc + 1].loop = "item"
    IN  CASE inBody -> pc' = pc + 1 /\ UNCHANGED <<offset, status>>
          [] ~inBody /\ s.loop = "item" /\ more ->
               pc' = pc - 1 /\ offset' = offset + 1 /\ UNCHANGED status
          [] ~inBody /\ s.loop # "item" /\ more ->
               offset' = offset + Stride(s) /\ UNCHANGED <<pc, status>>
          [] ~inBody /\ ~more /\ ~last ->
               pc' = pc + 1 /\ offset' = 0 /\ UNCHANGED status
          [] OTHER -> status' = "success" /\ UNCHANGED <<pc, offset>>

Launch ==
    /\ status = "running"
    /\ LET s == Now
       IN  /\ mem' = [mem EXCEPT ![s.dst] = IF s.op = "lines" THEN LinesStored(s)
                                            ELSE Permuted(s)]
           /\ Advance(s)
    /\ UNCHANGED cfg

\* A launch throws or a child returns an error: execute stops there.
LaunchFails ==
    /\ status = "running"
    /\ status' = "failed"
    /\ UNCHANGED <<cfg, pc, offset, mem>>

Next == Launch \/ LaunchFails

Spec == Init /\ [][Next]_vars
-----------------------------------------------------------------------------
(* Properties *)

\* The node, its control state and its buffers keep their types and sizes.
TypeOK ==
    /\ cfg \in Configs /\ Admits(cfg)
    /\ pc \in 1 .. Len(Program)
    /\ offset \in 0 .. Rounds(Now) - 1
    /\ status \in {"running", "success", "failed"}
    /\ \A b \in Buffers : DOMAIN mem[b] = 0 .. Size(b) - 1

\* No launch reads or stores outside the workspaces the compiler allocated for
\* this batch and shape, or outside the caller's arrays: compact workspaces
\* never hold full rows, and no chunk runs past the end.
AccessInBounds ==
    /\ TypeOK
    /\ status = "running" =>
        LET s == Now
        IN  IF s.op = "perm"
            THEN cfg.batch * s.dims[1] * s.dims[2] * s.dims[3] * 2
                   <= Least(Size(s.src), Size(s.dst))
            ELSE \A r \in Launched(s) :
                   /\ \A k \in 0 .. Length(s, s.from) - 1 :
                        LoadWord(s, r, k) + Words(s.from) <= Size(s.src)
                   /\ \A k \in 0 .. Length(s, s.to) - 1 :
                        StoreWord(s, r, k) + Words(s.to) <= Size(s.dst)

\* A call that returns success has left every element of every item of the
\* batch at its natural place in the form asked for, transformed exactly once
\* along each axis, in place as out of place.
ResultExact ==
    status = "success" =>
        \A w \in 0 .. Words(Wanted) * Elements(Wanted) - 1 :
            mem[Out][w] = Natural(w, Wanted, Nontrivial(0 .. 2))

\* Out of place, no node writes the caller's input, though several use the
\* caller's output as a workspace.
CallerInputKept ==
    ~cfg.inPlace =>
        \A w \in DOMAIN mem["in"] : mem["in"][w] = Natural(w, Given, {})
=============================================================================
