------------------------------- MODULE Cube3D -------------------------------
(***************************************************************************)
(* The complex 3D nodes: what compile_raw_3d_node (src/codegen/            *)
(* compiler.cpp) puts together and the execute functions of                *)
(* CompiledRaw3DNode, ...StridedNode, ...HybridNode, ...FusedPlaneNode,    *)
(* ...PrimePlaneNode and ...FusedCubeNode (src/exec/raw_nodes.cpp) do with *)
(* it, at the level of addresses.                                          *)
(*                                                                         *)
(* A buffer holds one cell per address.  A cell says which element of      *)
(* which cube it stems from and along which axes it has been transformed;  *)
(* numbers do not matter.  Every launch computes its addresses as the      *)
(* generated kernel does, from the strides, spans and dimensions it was    *)
(* compiled with, and a transform of cells that are not a line of its axis *)
(* yields junk.                                                            *)
(*                                                                         *)
(* The backend, dtype and environment tests that select a node are left    *)
(* open; the tests on shape, batch and size are in Admits, with the sizes  *)
(* 16, 32, 256, ... of the tuned cubes standing for any cube.              *)
(***************************************************************************)
EXTENDS Integers, Sequences, FiniteSets

CONSTANTS
    Configs,     \* plans to look at: [kind, batch, n0, n1, n2, pack,
                 \* perBlock, chunk, inPlace]
    StridedMax   \* kStridedMaxElements

ASSUME ConfigsType ==
    Configs \subseteq
        [kind : STRING, batch : Nat \ {0}, n0 : Nat \ {0}, n1 : Nat \ {0},
         n2 : Nat \ {0}, pack : Nat \ {0}, perBlock : Nat \ {0},
         chunk : Nat \ {0}, inPlace : BOOLEAN]
ASSUME StridedMaxType == StridedMax \in Nat

VARIABLES
    cfg,      \* the plan: node kind, shape, batch slots per block in the
              \* kernel and in its metadata, batches per transpose launch,
              \* and whether the call is in place
    pc,       \* next step of execute, counted from 1
    offset,   \* batch_offset of the transpose loop
    block,    \* block[g]: what block g of a fused cube kernel has done
    mem,      \* device memory: buffer -> address -> cell
    status    \* "running", or what execute returned: "success", "failed"

vars == <<cfg, pc, offset, block, mem, status>>

Axes == 0 .. 2
Extent(a) == CASE a = 0 -> cfg.n0 [] a = 1 -> cfg.n1 [] a = 2 -> cfg.n2
CubeSize == cfg.n0 * cfg.n1 * cfg.n2
Total == cfg.batch * CubeSize
Address == 0 .. Total - 1
CeilDiv(x, y) == (x + y - 1) \div y
Larger(x, y) == IF x > y THEN x ELSE y
-----------------------------------------------------------------------------
(* compile_raw_3d_node: the nodes and the shapes they are made for *)

IsCube(c) == c.n0 = c.n1 /\ c.n1 = c.n2
Elements(c) == c.batch * c.n0 * c.n1 * c.n2
Elongated(c) == c.n1 >= 4 * Larger(c.n0, c.n2)

Admits(c) ==
    CASE c.kind = "pair_store" -> IsCube(c)
      [] c.kind = "fused_cube" -> IsCube(c) /\ c.batch <= 4
      [] c.kind = "fused_plane" -> IsCube(c) /\ c.batch <= 4
      [] c.kind = "prime_plane" -> c.batch = 1
      [] c.kind = "final_store" -> IsCube(c) /\ c.batch = 1
      [] c.kind \in {"hybrid", "hybrid_last"} -> Elements(c) > StridedMax
      [] c.kind \in {"hybrid_first", "hybrid_first_last"} ->
            Elongated(c) /\ Elements(c) > StridedMax
      [] c.kind \in {"chain", "chain_last"} -> Elements(c) > StridedMax
      [] c.kind = "strided" -> Elements(c) <= StridedMax
      [] c.kind \in {"rtrt", "rtrt_inverse"} -> TRUE
      [] OTHER -> FALSE
-----------------------------------------------------------------------------
(* The launches a node is made of *)

\* A leaf on lines that lie at the given stride (1: contiguous rows, run by
\* whatever 1D plan the axis has).
Lines(a, stride, src, dst) ==
    [op |-> "fft", axes |-> <<a>>, load |-> "strided", store |-> "strided",
     span |-> stride, src |-> src, dst |-> dst]

Rows(a, src, dst) == Lines(a, 1, src, dst)

\* A leaf on contiguous rows whose store permutes ("outer" or "inner" form).
PermutedStore(form, a, span, src, dst) ==
    [op |-> "fft", axes |-> <<a>>, load |-> "rows", store |-> form,
     span |-> span, src |-> src, dst |-> dst]

\* One block per plane transforms two axes: a square plane of n1 and n2, or
\* a plane of n0 and n2 that is stored with n1 innermost.
SquarePlane(src, dst) ==
    [op |-> "fft", axes |-> <<1, 2>>, load |-> "rows", store |-> "strided",
     span |-> 1, src |-> src, dst |-> dst]

RectPlane(src, dst) ==
    [op |-> "fft", axes |-> <<0, 2>>, load |-> "rect", store |-> "outer",
     span |-> cfg.n1, src |-> src, dst |-> dst]

CubeFft(src, dst) == [op |-> "cube", src |-> src, dst |-> dst]

\* transpose3d of source dimensions d by axis order o.
Transpose(o, d, src, dst) ==
    [op |-> "perm", order |-> o, dims |-> d, src |-> src, dst |-> dst]

n0 == cfg.n0
n1 == cfg.n1
n2 == cfg.n2
Out == IF cfg.inPlace THEN "in" ELSE "out"

\* CompiledRaw3DHybridNode; first, middle and last say which of perm_021,
\* perm_210 and perm_201 it was given.
Hybrid(first, middle, last) ==
    LET a == IF first THEN "t2" ELSE "t1"
        b == IF first THEN "t1" ELSE "t2"
        n0Input == IF middle THEN a ELSE b
        n0Output == IF ~last THEN Out ELSE IF n0Input = "t1" THEN "t2" ELSE "t1"
    IN  (IF first
         THEN <<Rows(2, "in", "t1"),
                Transpose(<<0, 2, 1>>, <<n0, n1, n2>>, "t1", "t2")>>
         ELSE <<PermutedStore("outer", 2, n1, "in", "t1")>>)
        \o (IF middle
            THEN <<Rows(1, a, b),
                   Transpose(<<2, 1, 0>>, <<n0, n2, n1>>, b, a)>>
            ELSE <<PermutedStore("inner", 1, n2, a, b)>>)
        \o (IF last
            THEN <<Rows(0, n0Input, n0Output),
                   Transpose(<<2, 0, 1>>, <<n1, n2, n0>>, n0Output, Out)>>
            ELSE <<PermutedStore("outer", 0, n1 * n2, n0Input, n0Output)>>)

\* Mutant: the caller's output serves as the first temporary.
StridedThroughOutput ==
    <<Rows(2, "in", Out),
      Lines(1, n2, Out, "t2"),
      Lines(0, n1 * n2, "t2", Out)>>

\* CompiledRaw3DStridedNode around three leaves with permuting stores, and
\* around contiguous rows and two strided leaves.
Chain ==
    <<PermutedStore("outer", 2, n1, "in", "t1"),
      PermutedStore("inner", 1, n2, "t1", "t2"),
      PermutedStore("outer", 0, n1 * n2, "t2", Out)>>

Strided ==
    <<Rows(2, "in", "t1"),
      Lines(1, n2, "t1", "t2"),
      Lines(0, n1 * n2, "t2", Out)>>

\* Mutant: the last transpose is compiled for the dimensions of the cube.
ForwardNaturalDims ==
    <<Rows(2, "in", "t1"),
      Transpose(<<0, 2, 1>>, <<n0, n1, n2>>, "t1", "t2"),
      Rows(1, "t2", "t1"),
      Transpose(<<2, 1, 0>>, <<n0, n2, n1>>, "t1", "t2"),
      Rows(0, "t2", "t1"),
      Transpose(<<2, 0, 1>>, <<n0, n1, n2>>, "t1", Out)>>

\* CompiledRaw3DNode: forward, inverse, final_permuted_store and
\* npu_pair_fused_store.
Forward ==
    <<Rows(2, "in", "t1"),
      Transpose(<<0, 2, 1>>, <<n0, n1, n2>>, "t1", "t2"),
      Rows(1, "t2", "t1"),
      Transpose(<<2, 1, 0>>, <<n0, n2, n1>>, "t1", "t2"),
      Rows(0, "t2", "t1"),
      Transpose(<<2, 0, 1>>, <<n1, n2, n0>>, "t1", Out)>>

RtrtInverse ==
    <<Transpose(<<1, 2, 0>>, <<n0, n1, n2>>, "in", "t1"),
      Rows(0, "t1", "t2"),
      Transpose(<<2, 1, 0>>, <<n1, n2, n0>>, "t2", "t1"),
      Rows(1, "t1", "t2"),
      Transpose(<<0, 2, 1>>, <<n0, n2, n1>>, "t2", "t1"),
      Rows(2, "t1", Out)>>

FinalStore ==
    <<Rows(2, "in", "t1"),
      Transpose(<<0, 2, 1>>, <<n0, n1, n2>>, "t1", "t2"),
      Rows(1, "t2", "t1"),
      Transpose(<<2, 1, 0>>, <<n0, n2, n1>>, "t1", "t2"),
      PermutedStore("outer", 0, n1 * n2, "t2", Out)>>

PairStore ==
    <<PermutedStore("outer", 2, n0 * n1, "in", "t1"),
      PermutedStore("outer", 1, n0 * n2, "t1", "t2"),
      PermutedStore("outer", 0, n1 * n2, "t2", Out)>>

\* CompiledRaw3DFusedPlaneNode, CompiledRaw3DFused32PlaneNode
FusedPlane ==
    <<SquarePlane("in", "t1"), Lines(0, n1 * n2, "t1", Out)>>

\* CompiledRaw3DPrimePlaneNode
PrimePlane ==
    <<RectPlane("in", "t1"),
      Rows(1, "t1", "t2"),
      Transpose(<<0, 2, 1>>, <<n0, n2, n1>>, "t2", Out)>>

Program ==
    CASE cfg.kind = "pair_store" -> PairStore
      [] cfg.kind = "fused_cube" -> <<CubeFft("in", Out)>>
      [] cfg.kind = "fused_plane" -> FusedPlane
      [] cfg.kind = "prime_plane" -> PrimePlane
      [] cfg.kind = "final_store" -> FinalStore
      [] cfg.kind = "hybrid" -> Hybrid(FALSE, TRUE, FALSE)
      [] cfg.kind = "hybrid_last" -> Hybrid(FALSE, TRUE, TRUE)
      [] cfg.kind = "hybrid_first" -> Hybrid(TRUE, TRUE, FALSE)
      [] cfg.kind = "hybrid_first_last" -> Hybrid(TRUE, TRUE, TRUE)
      [] cfg.kind = "chain" -> Chain
      [] cfg.kind = "chain_last" -> Hybrid(FALSE, FALSE, TRUE)
      [] cfg.kind = "strided" -> Strided
      [] cfg.kind = "rtrt" -> Forward
      [] cfg.kind = "rtrt_inverse" -> RtrtInverse

Step == Program[pc]
-----------------------------------------------------------------------------
(* Cells *)

Junk == [cube |-> 0, at |-> <<>>, done |-> {}]

\* Element at address a of natural order, transformed along the axes of done.
Natural(a, done) ==
    LET i == a % CubeSize
    IN  [cube |-> a \div CubeSize,
         at |-> [x \in Axes |-> CASE x = 0 -> i \div (n1 * n2)
                                  [] x = 1 -> (i \div n2) % n1
                                  [] x = 2 -> i % n2],
         done |-> done]

\* The coordinates index k of a line or plane of the given axes stands for.
Coordinate(axes, k) ==
    IF Len(axes) = 1 THEN [x \in {axes[1]} |-> k]
    ELSE [x \in {axes[1], axes[2]} |->
            IF x = axes[1] THEN k \div Extent(axes[2]) ELSE k % Extent(axes[2])]

Shifted(c, axes, k) ==
    LET to == Coordinate(axes, k)
    IN  [c EXCEPT !.at = [x \in Axes |-> IF x \in DOMAIN to THEN to[x] ELSE @[x]]]
-----------------------------------------------------------------------------
(* Addresses of the transform kernels *)

Length(s) == IF Len(s.axes) = 1 THEN Extent(s.axes[1])
             ELSE Extent(s.axes[1]) * Extent(s.axes[2])
NBatch(s) == Total \div Length(s)

\* Rows the blocks of one launch work on.  The host launches a block per
\* batch_per_block rows; a block whose batch_id is past the end returns, and
\* in the inner form the slots of a block are span rows apart.  (Children that
\* are not leaves, and planes, take every row.)
Launched(s) ==
    LET pids == 0 .. CeilDiv(NBatch(s), cfg.perBlock) - 1
        slots == 0 .. cfg.pack - 1
        row(pid, slot) ==
            IF s.store = "inner"
            THEN (pid \div s.span) * cfg.pack * s.span + (pid % s.span)
                   + slot * s.span
            ELSE pid * cfg.pack + slot
    IN  {r \in {row(pid, slot) : pid \in {p \in pids : p * cfg.pack < NBatch(s)},
                                 slot \in slots} : r < NBatch(s)}

StridedAddress(s, r, k) ==
    (r \div s.span) * (Length(s) * s.span) + (r % s.span) + k * s.span

OuterAddress(s, r, k) ==
    (r \div s.span) * (Length(s) * s.span) + k * s.span + (r % s.span)

InnerAddress(s, r, k) ==
    k * NBatch(s) + (r % s.span) * (NBatch(s) \div s.span) + r \div s.span

\* A plane of n0 and n2: row r is middle index r % n1 of cube r \div n1.
RectAddress(r, k) ==
    (((r \div n1) * n0 + k \div n2) * n1 + (r % n1)) * n2 + (k % n2)

LoadAddress(s, r, k) ==
    CASE s.load = "rows" -> r * Length(s) + k
      [] s.load = "strided" -> StridedAddress(s, r, k)
      [] s.load = "rect" -> RectAddress(r, k)

StoreAddress(s, r, k) ==
    CASE s.store = "strided" -> StridedAddress(s, r, k)
      [] s.store = "outer" -> OuterAddress(s, r, k)
      [] s.store = "inner" -> InnerAddress(s, r, k)

\* What the kernel stores at index k of row r: a transformed cell when the row
\* is a line (or plane) of the axes in order, junk otherwise.
Transformed(s, r, k) ==
    LET first == mem[s.src][LoadAddress(s, r, 0)]
        over == {s.axes[j] : j \in DOMAIN s.axes}
        isLine ==
            /\ first # Junk
            /\ first.done \cap over = {}
            /\ \A j \in 0 .. Length(s) - 1 :
                  mem[s.src][LoadAddress(s, r, j)] = Shifted(first, s.axes, j)
    IN  IF isLine
        THEN [Shifted(first, s.axes, k) EXCEPT !.done = @ \cup over]
        ELSE Junk

\* Destination buffer after the launch: addresses no row stores to keep what
\* they hold, an address that two stores meet in is undefined.
Stored(s) ==
    LET writes == {<<StoreAddress(s, r, k), r, k>> :
                     r \in Launched(s), k \in 0 .. Length(s) - 1}
    IN  [a \in Address |->
           LET here == {w \in writes : w[1] = a}
           IN  CASE here = {} -> mem[s.dst][a]
                 [] Cardinality(here) = 1 ->
                      LET w == CHOOSE w \in here : TRUE
                      IN  Transformed(s, w[2], w[3])
                 [] OTHER -> Junk]

\* Source address, within a cube, of element a of a transpose's destination.
TransposeSource(s, a) ==
    LET d == [x \in Axes |-> s.dims[x + 1]]
        o == [x \in Axes |-> s.order[x + 1]]
        x0 == a \div (d[o[1]] * d[o[2]])
        x1 == (a \div d[o[2]]) % d[o[1]]
        x2 == a % d[o[2]]
        y == [z \in Axes |-> CASE z = o[0] -> x0 [] z = o[1] -> x1 [] z = o[2] -> x2]
    IN  y[0] * (d[1] * d[2]) + y[1] * d[2] + y[2]
-----------------------------------------------------------------------------
(* execute *)

Blocks == 0 .. cfg.batch * cfg.n0 - 1
Idle == [g \in Blocks |-> "waiting"]

Init ==
    /\ cfg \in {c \in Configs : Admits(c)}
    /\ pc = 1
    /\ offset = 0
    /\ block = Idle
    /\ mem = [b \in {"in", "t1", "t2", "out"} |->
                [a \in Address |-> IF b = "in" THEN Natural(a, {}) ELSE Junk]]
    /\ status = "running"

\* The launch (or child) at pc succeeded.
Advance ==
    /\ pc' = pc + 1
    /\ status' = IF pc = Len(Program) THEN "success" ELSE "running"

At(op) ==
    /\ status = "running"
    /\ Step.op = op

FftLaunch ==
    /\ At("fft")
    /\ mem' = [mem EXCEPT ![Step.dst] = Stored(Step)]
    /\ Advance
    /\ UNCHANGED <<cfg, offset, block>>

\* batch_offset after a round that ended before batch end; every transpose
\* starts its own loop at 0.
NextOffset(end) == IF end = cfg.batch THEN 0 ELSE end

\* One round of the loop in launch_perm3d: the next chunk of batches.
TransposeLaunch ==
    /\ At("perm")
    /\ LET end == IF offset + cfg.chunk < cfg.batch THEN offset + cfg.chunk
                  ELSE cfg.batch
       IN  /\ mem' = [mem EXCEPT ![Step.dst] =
                [a \in Address |->
                   LET b == a \div CubeSize
                   IN  IF b \in offset .. end - 1
                       THEN mem[Step.src][b * CubeSize
                                  + TransposeSource(Step, a % CubeSize)]
                       ELSE @[a]]]
           /\ offset' = NextOffset(end)
           /\ IF end = cfg.batch THEN Advance ELSE UNCHANGED <<pc, status>>
    /\ UNCHANGED <<cfg, block>>

\* Fused cube kernel.  Block g computes plane g % n0 of cube g \div n0 and
\* reads the whole cube first; blocks run in any order and overlap.
CubeLoad(g) ==
    /\ At("cube")
    /\ block[g] = "waiting"
    /\ LET cube == {a \in Address : a \div CubeSize = g \div n0}
           untouched == \A a \in cube : mem[Step.src][a] = Natural(a, {})
       IN  block' = [block EXCEPT ![g] = IF untouched THEN "exact" ELSE "spoilt"]
    /\ UNCHANGED <<cfg, pc, offset, mem, status>>

CubeStore(g) ==
    /\ At("cube")
    /\ block[g] \in {"exact", "spoilt"}
    /\ mem' = [mem EXCEPT ![Step.dst] =
                 [a \in Address |->
                    IF a \div (n1 * n2) # g THEN @[a]
                    ELSE IF block[g] = "exact" THEN Natural(a, Axes) ELSE Junk]]
    /\ block' = [block EXCEPT ![g] = "stored"]
    /\ IF \A h \in Blocks \ {g} : block[h] = "stored" THEN Advance
       ELSE UNCHANGED <<pc, status>>
    /\ UNCHANGED <<cfg, offset>>

\* A child returns an error code, or a launch throws: execute stops there.
\* Blocks of a launched kernel do not fail.
StepFails ==
    /\ status = "running"
    /\ block = Idle
    /\ status' = "failed"
    /\ UNCHANGED <<cfg, pc, offset, block, mem>>

Next ==
    \/ FftLaunch
    \/ TransposeLaunch
    \/ \E g \in Blocks : CubeLoad(g) \/ CubeStore(g)
    \/ StepFails

Spec == Init /\ [][Next]_vars
-----------------------------------------------------------------------------
(* Properties *)

\* Plans NaturalOrder is claimed of.  A kernel has at least the slots its
\* metadata says; the other two name cases the code is known to get wrong: the
\* inner store keeps neither several cubes nor a partial block apart, and the
\* blocks of a fused cube kernel read a cube while others store to it.
Sound(c) ==
    /\ c.perBlock <= c.pack
    /\ c.kind \in {"chain", "chain_last"} => c.batch = 1 /\ c.n0 % c.pack = 0
    /\ c.kind = "fused_cube" => ~c.inPlace

\* The node and its control state keep their types; a cell is junk or names an
\* element of the batch.
TypeOK ==
    /\ cfg \in Configs /\ Admits(cfg)
    /\ pc \in 1 .. Len(Program) + 1
    /\ offset \in 0 .. cfg.batch - 1
    /\ block \in [Blocks -> {"waiting", "exact", "spoilt", "stored"}]
    /\ DOMAIN mem = {"in", "t1", "t2", "out"}
    /\ \A b \in DOMAIN mem : \A a \in Address :
          \/ mem[b][a] = Junk
          \/ /\ mem[b][a].cube \in 0 .. cfg.batch - 1
             /\ mem[b][a].done \subseteq Axes
             /\ \A x \in Axes : mem[b][a].at[x] \in 0 .. Extent(x) - 1
    /\ status \in {"running", "success", "failed"}

\* A successful call leaves every element of every cube of the batch at its
\* natural place, transformed exactly once along each axis, whichever node the
\* compiler chose.
NaturalOrder ==
    /\ TypeOK
    /\ status = "success" => \A a \in Address : mem[Out][a] = Natural(a, Axes)

\* The caller's input, which may also be its output, is intact until the last
\* launch: a call that fails before it can be repeated.
InputKept ==
    pc < Len(Program) => \A a \in Address : mem["in"][a] = Natural(a, {})
=============================================================================
