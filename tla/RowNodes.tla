------------------------------ MODULE RowNodes ------------------------------
(***************************************************************************)
(* The one-dimensional nodes of src/exec/raw_nodes.cpp: leaf, four-step,   *)
(* Stockham, direct DFT, Bluestein, Rader and the real transforms, at the  *)
(* level of buffers, rows, distances and batch loops.                      *)
(*                                                                         *)
(* An address is a real word; a complex value takes two.  A cell names the *)
(* call and the batch row it stems from, the form the row is in ("x" input,*)
(* "y" result, others between kernels) and its word within the row.  A     *)
(* kernel that finds a whole row in the form it expects stores that row in *)
(* its next form; anything else yields junk, as do two stores that meet in *)
(* one word and a store into what another block has still to read.  The    *)
(* row is told by the data found, never by the index, so that a pointer or *)
(* distance that is off moves the data to a wrong place.                   *)
(*                                                                         *)
(* A child transform is one step here; it is a node of this module itself. *)
(* Replay graphs are the subject of GraphExec.                             *)
(***************************************************************************)
EXTENDS Integers, Sequences, FiniteSets

CONSTANTS
    Configs,   \* compiled nodes and the layouts they are called with
    Calls      \* calls made on one node

ASSUME ConfigsType ==
    Configs \subseteq
        [kind : STRING, plan : STRING, n : Nat \ {0}, conv : Nat, stages : Nat,
         batch : Nat \ {0}, chunk : Nat \ {0}, pack : Nat \ {0},
         idist : Nat, odist : Nat, inPlace : BOOLEAN]
\* make_rader_plan convolves over the n - 1 units of a prime, make_bluestein_plan
\* over 2n - 1 elements or more; a Stockham plan has a factor.
ASSUME RaderLength ==
    \A c \in Configs : c.plan \in {"rader_leaf", "rader_deep"} => c.conv = c.n - 1
ASSUME ConvolutionExists ==
    \A c \in Configs :
        c.plan \in {"bluestein_leaf", "bluestein_four", "bluestein_deep",
                   "rader_leaf", "rader_deep"} => c.conv > 0
ASSUME StagesExist == \A c \in Configs : c.plan = "stockham" => c.stages > 0
ASSUME CallsType == Calls \in Nat \ {0}

VARIABLES
    cfg,      \* the node: kind, the plan it was made from, length, convolution
              \* length, Stockham stages, batch, rows per launch and per block,
              \* distances, in place or not
    call,     \* number of the call under way, or just finished
    pc,       \* next kernel or child of execute
    offset,   \* batch_offset (row_offset) of the loop around it
    ready,    \* b_fft_ready
    table,    \* b_fft_buf: "empty", "spectrum", "spoilt"
    mem,      \* buffer -> word -> cell
    status    \* "running", or what execute returned: "success", "failed"

vars == <<cfg, call, pc, offset, ready, table, mem, status>>

n == cfg.n
m == cfg.conv
half == n \div 2 + 1
CeilDiv(x, y) == (x + y - 1) \div y
Least(x, y) == IF x < y THEN x ELSE y
Most(x, y) == IF x > y THEN x ELSE y
Out == IF cfg.inPlace THEN "in" ELSE "out"

R2CKinds == {"r2c", "packed_r2c", "packed_r2c_aiv", "r2c_leaf", "r2c_half_out",
             "r2c_real_in", "bluestein_full_r2c", "bluestein_four_r2c"}
C2RKinds == {"c2r", "packed_c2r", "packed_c2r_leaf", "c2r_leaf", "c2r_real_out",
             "c2r_compact_in", "bluestein_full_c2r", "bluestein_four_c2r"}
ComplexKinds == {"leaf", "four_step", "stockham", "direct", "generic",
                 "bluestein", "bluestein_leaf", "bluestein_full",
                 "bluestein_four", "rader", "rader_leaf", "rader_boundary"}
TableKinds == {"bluestein", "bluestein_leaf", "bluestein_full", "bluestein_four",
               "rader", "rader_leaf", "rader_boundary", "bluestein_full_r2c",
               "bluestein_four_r2c", "bluestein_full_c2r", "bluestein_four_c2r"}
-----------------------------------------------------------------------------
(* compile_raw_node, compile_raw_r2c_node, compile_raw_c2r_node: the nodes a *)
(* plan may become.  Backend, dtype and environment tests are left open.     *)

\* A plan whose kind is "bluestein_leaf", "bluestein_four" or "rader_leaf"
\* convolves with a leaf or with a four-step pair of leaves; "four_step" is a
\* pair of leaves, "four_step_deep" any other pair.
FourStepNodes(c) ==
    CASE c.plan = "four_step" -> {"four_step"}
      [] c.plan = "four_step_deep" -> {"generic"}
      [] OTHER -> {}

BluesteinNodes(c) ==
    CASE c.plan = "bluestein_leaf" -> {"bluestein_leaf", "bluestein_full", "bluestein"}
      [] c.plan = "bluestein_four" -> {"bluestein_four", "bluestein"}
      [] c.plan = "bluestein_deep" -> {"bluestein"}
      [] OTHER -> {}

RaderNodes(c) ==
    CASE c.plan = "rader_leaf" -> {"rader_leaf", "rader_boundary", "rader"}
      [] c.plan = "rader_deep" -> {"rader"}
      [] OTHER -> {}

ComplexNodes(c) ==
    FourStepNodes(c) \cup BluesteinNodes(c) \cup RaderNodes(c)
      \cup ({c.plan} \cap {"leaf", "direct", "stockham"})

\* select_packed_real_child
PackedChild(c) == c.n % 2 = 0

\* The fused Bluestein nodes take a real kind on one backend; a half-length
\* leaf that packs and unpacks in one launch is an r2c_leaf node too.
R2CNodes(c) ==
    {"r2c"}
    \cup (IF c.plan \in {"leaf", "direct"} \/ PackedChild(c) THEN {"r2c_leaf"} ELSE {})
    \cup (IF PackedChild(c) THEN {"packed_r2c", "packed_r2c_aiv"} ELSE {})
    \cup (IF c.plan = "four_step" THEN {"r2c_real_in", "r2c_half_out"} ELSE {})
    \cup (IF c.plan = "bluestein_leaf" THEN {"bluestein_full_r2c"} ELSE {})
    \cup (IF c.plan = "bluestein_four" THEN {"bluestein_four_r2c"} ELSE {})

C2RNodes(c) ==
    {"c2r"}
    \cup (IF c.plan \in {"leaf", "direct"} THEN {"c2r_leaf"} ELSE {})
    \cup (IF PackedChild(c) THEN {"packed_c2r", "packed_c2r_leaf"} ELSE {})
    \cup (IF c.plan = "four_step" THEN {"c2r_compact_in", "c2r_real_out"} ELSE {})
    \cup (IF c.plan = "bluestein_leaf" THEN {"bluestein_full_c2r"} ELSE {})
    \cup (IF c.plan = "bluestein_four" THEN {"bluestein_four_c2r"} ELSE {})

Admits(c) == c.kind \in ComplexNodes(c) \cup R2CNodes(c) \cup C2RNodes(c)
-----------------------------------------------------------------------------
(* Rows in memory and kernels over them *)

\* A row of w words in the given form; rows are dist words apart and the
\* pointer moves by step words per row of the batch loop.  As an output, the
\* words from lo on are stored.
Region(buf, form, w, dist, step) ==
    [buf |-> buf, form |-> form, lo |-> 0, w |-> w, dist |-> dist, step |-> step]

Dense(buf, form, w) == Region(buf, form, w, w, w)
Fixed(buf, form, w) == Region(buf, form, w, w, 0)
Spaced(buf, form, w, dist) == Region(buf, form, w, dist, dist)
From(r, lo) == [r EXCEPT !.lo = lo]

\* A launch over all rows whose blocks share a row; its variants.
Kernel(ins, outs) ==
    [ins |-> ins, outs |-> outs, table |-> FALSE, looped |-> FALSE,
     spread |-> TRUE]
RowKernel(ins, outs) == [Kernel(ins, outs) EXCEPT !.spread = FALSE]
Child(in, out) == RowKernel(<<in>>, <<out>>)
WithTable(k) == [k EXCEPT !.table = TRUE]
InChunks(k) == [k EXCEPT !.looped = TRUE]
Copy(in, out) == RowKernel(<<in>>, <<out>>)

\* What the context's distances mean (in reals or complex values; 0: none
\* given), and the rows of the caller's buffers.
RealIn ==
    IF cfg.inPlace THEN Most(cfg.idist, 2 * half)
    ELSE IF cfg.idist > 0 THEN cfg.idist ELSE n
HalfOut == IF cfg.odist > 0 THEN cfg.odist ELSE half
HalfIn == IF cfg.idist > 0 THEN cfg.idist ELSE half
RealOut ==
    IF cfg.inPlace THEN Most(cfg.odist, 2 * half)
    ELSE IF cfg.odist > 0 THEN cfg.odist ELSE n

X == CASE cfg.kind \in R2CKinds -> Spaced("in", "x", n, RealIn)
       [] cfg.kind \in C2RKinds -> Spaced("in", "x", 2 * half, 2 * HalfIn)
       [] OTHER -> Dense("in", "x", 2 * n)
Y == CASE cfg.kind \in R2CKinds -> Spaced(Out, "y", 2 * half, 2 * HalfOut)
       [] cfg.kind \in C2RKinds -> Spaced(Out, "y", n, RealOut)
       [] OTHER -> Dense(Out, "y", 2 * n)
-----------------------------------------------------------------------------
(* Complex nodes *)

Leaf == <<InChunks(RowKernel(<<X>>, <<Y>>))>>

\* Mutant: the caller's input serves as the stage buffer.
FourStepThroughInput ==
    <<Kernel(<<X>>, <<Dense("in", "rows", 2 * n)>>),
      Kernel(<<Dense("in", "rows", 2 * n)>>, <<Y>>)>>

FourStepFused ==
    <<Kernel(<<X>>, <<Dense("stage1", "rows", 2 * n)>>),
      Kernel(<<Dense("stage1", "rows", 2 * n)>>, <<Y>>)>>

\* Buffer stage s (from 1) writes: the last one goes straight to the output,
\* unless that is the buffer it reads.
StageTarget(s) ==
    LET current == IF s = 1 THEN "in"
                   ELSE IF s % 2 = 0 THEN "first" ELSE "second"
    IN  IF s = cfg.stages /\ current # Out THEN Out
        ELSE IF s % 2 = 1 THEN "first" ELSE "second"

\* Form of the data after s of the stages.
AfterStage(s) == CASE s = 0 -> "x" [] s = cfg.stages -> "y" [] OTHER -> <<"stage", s>>

Stockham ==
    [s \in 1 .. cfg.stages |->
        InChunks(Kernel(
            <<Dense(IF s = 1 THEN "in" ELSE StageTarget(s - 1),
                    AfterStage(s - 1), 2 * n)>>,
            <<Dense(StageTarget(s), AfterStage(s), 2 * n)>>))]
    \o (IF StageTarget(cfg.stages) = Out THEN <<>>
        ELSE <<Copy(Dense(StageTarget(cfg.stages), "y", 2 * n), Y)>>)

\* Input of a node that must not overwrite what it still reads: a copy when
\* the call is in place.
EffectiveInput == IF cfg.inPlace THEN Dense("copy", "x", 2 * n) ELSE X
CopyInput == IF cfg.inPlace THEN <<Copy(X, EffectiveInput)>> ELSE <<>>

DirectDft == CopyInput \o <<Kernel(<<EffectiveInput>>, <<Y>>)>>

FourStepGeneric ==
    <<Kernel(<<X>>, <<Dense("stage1", "reshaped", 2 * n)>>),
      Child(Dense("stage1", "reshaped", 2 * n), Dense("stage2", "rows", 2 * n)),
      Kernel(<<Dense("stage2", "rows", 2 * n)>>, <<Dense("stage1", "twiddled", 2 * n)>>),
      Child(Dense("stage1", "twiddled", 2 * n), Dense("stage2", "columns", 2 * n)),
      Kernel(<<Dense("stage2", "columns", 2 * n)>>, <<Y>>)>>

\* Mutant: the work buffers are indexed by batch like input and output.
BluesteinOffsetWork ==
    <<Kernel(<<X>>, <<Dense("a", "chirped", 2 * m)>>),
      Child(Dense("a", "chirped", 2 * m), Dense("work", "spectrum", 2 * m)),
      WithTable(Kernel(<<Dense("work", "spectrum", 2 * m)>>, <<Dense("a", "product", 2 * m)>>)),
      Child(Dense("a", "product", 2 * m), Dense("work", "convolved", 2 * m)),
      Kernel(<<Dense("work", "convolved", 2 * m)>>, <<Y>>)>>

Bluestein ==
    <<Kernel(<<X>>, <<Fixed("a", "chirped", 2 * m)>>),
      Child(Fixed("a", "chirped", 2 * m), Fixed("work", "spectrum", 2 * m)),
      WithTable(Kernel(<<Fixed("work", "spectrum", 2 * m)>>, <<Fixed("a", "product", 2 * m)>>)),
      Child(Fixed("a", "product", 2 * m), Fixed("work", "convolved", 2 * m)),
      Kernel(<<Fixed("work", "convolved", 2 * m)>>, <<Y>>)>>

BluesteinLeaf ==
    <<RowKernel(<<X>>, <<Dense("work", "spectrum", 2 * m)>>),
      WithTable(RowKernel(<<Dense("work", "spectrum", 2 * m)>>, <<Y>>))>>

BluesteinFullLeaf == <<WithTable(RowKernel(<<X>>, <<Y>>))>>

BluesteinFourStep ==
    <<Kernel(<<X>>, <<Dense("stage1", "chirped", 2 * m)>>),
      Kernel(<<Dense("stage1", "chirped", 2 * m)>>, <<Dense("work", "spectrum", 2 * m)>>),
      WithTable(Kernel(<<Dense("work", "spectrum", 2 * m)>>, <<Dense("stage1", "product", 2 * m)>>)),
      Kernel(<<Dense("stage1", "product", 2 * m)>>, <<Y>>)>>

\* The output's first element is the sum of the input, stored by the pointwise
\* kernel; the finalize kernel stores the others.
Rader ==
    CopyInput
    \o <<Kernel(<<EffectiveInput>>, <<Dense("a", "permuted", 2 * m)>>),
         Child(Dense("a", "permuted", 2 * m), Dense("work", "spectrum", 2 * m)),
         WithTable(Kernel(<<Dense("work", "spectrum", 2 * m), EffectiveInput>>,
                          <<Dense("a", "product", 2 * m), [Y EXCEPT !.w = 2]>>)),
         Child(Dense("a", "product", 2 * m), Dense("work", "convolved", 2 * m)),
         Kernel(<<Dense("work", "convolved", 2 * m), EffectiveInput>>, <<From(Y, 2)>>)>>

RaderLeaf == CopyInput \o <<WithTable(RowKernel(<<EffectiveInput>>, <<Y>>))>>

RaderBoundary ==
    CopyInput
    \o <<RowKernel(<<EffectiveInput>>, <<Dense("a", "spectrum", 2 * m)>>),
         WithTable(RowKernel(<<Dense("a", "spectrum", 2 * m), EffectiveInput>>, <<Y>>))>>
-----------------------------------------------------------------------------
(* Real nodes *)

\* The pack step offsets the output by reals although its rows are complex:
\* the second and later chunks land in the wrong place.  The chunks are
\* those of launch_grid_y_chunks.
R2C ==
    <<InChunks(Kernel(<<X>>, <<Dense("cin", "expanded", 2 * n)>>)),
      Child(Dense("cin", "expanded", 2 * n), Dense("full", "full", 2 * n)),
      InChunks(Kernel(<<Dense("full", "full", 2 * n)>>,
                      <<Region(Out, "y", 2 * half, 2 * HalfOut, HalfOut)>>))>>

C2R ==
    <<InChunks(Kernel(<<X>>, <<Dense("cin", "hermitian", 2 * n)>>)),
      Child(Dense("cin", "hermitian", 2 * n), Dense("full", "full", 2 * n)),
      InChunks(Kernel(<<Dense("full", "full", 2 * n)>>, <<Y>>))>>

PackedR2C ==
    <<Child(Dense("in", "x", n), Dense("packed", "packed", n)),
      Kernel(<<Dense("packed", "packed", n)>>, <<Y>>)>>

PackedC2R ==
    <<Kernel(<<X>>, <<Dense("packed", "packed", n)>>),
      Child(Dense("packed", "packed", n), Dense(Out, "y", n))>>

PackedC2RFusedLeaf == <<RowKernel(<<X>>, <<Dense(Out, "y", n)>>)>>

RealLeaf == <<RowKernel(<<X>>, <<Y>>)>>

\* A four-step transform after an expansion to complex rows, and one that
\* reads the caller's rows itself.
ExpandedFourStep ==
    <<Kernel(<<X>>, <<Dense("cin", "expanded", 2 * n)>>),
      Kernel(<<Dense("cin", "expanded", 2 * n)>>, <<Dense("stage1", "rows", 2 * n)>>),
      Kernel(<<Dense("stage1", "rows", 2 * n)>>, <<Y>>)>>

DirectFourStep ==
    <<Kernel(<<X>>, <<Dense("stage1", "rows", 2 * n)>>),
      Kernel(<<Dense("stage1", "rows", 2 * n)>>, <<Y>>)>>

\* Layouts the fused Bluestein nodes hand to layout_fallback.
SparseBluestein ==
    LET denseIn == IF cfg.kind \in R2CKinds THEN n ELSE half
        denseOut == IF cfg.kind \in R2CKinds THEN half ELSE n
    IN  \/ cfg.inPlace
        \/ cfg.idist > 0 /\ cfg.idist # denseIn
        \/ cfg.odist > 0 /\ cfg.odist # denseOut

\* Mutant: the packed R2C node looks at the distance only.
SparseInputNotInPlace ==
    \/ cfg.kind = "packed_r2c_aiv" /\ HalfOut # half
    \/ cfg.batch > 1 /\ cfg.idist > 0 /\ cfg.idist # n

\* Layouts the packed nodes hand to layout_fallback.
SparseInput ==
    \/ cfg.kind = "packed_r2c_aiv" /\ HalfOut # half
    \/ cfg.batch > 1 /\ (cfg.inPlace \/ (cfg.idist > 0 /\ cfg.idist # n))

SparseOutput ==
    cfg.batch > 1 /\ (cfg.inPlace \/ (cfg.odist > 0 /\ cfg.odist # n))

FallsBack ==
    CASE cfg.kind \in {"bluestein_full_r2c", "bluestein_four_r2c",
                       "bluestein_full_c2r", "bluestein_four_c2r"} -> SparseBluestein
      [] cfg.kind \in {"packed_r2c", "packed_r2c_aiv"} -> SparseInput
      [] cfg.kind \in {"packed_c2r", "packed_c2r_leaf"} -> SparseOutput
      [] OTHER -> FALSE

Program ==
    IF FallsBack THEN IF cfg.kind \in R2CKinds THEN R2C ELSE C2R
    ELSE
    CASE cfg.kind = "leaf" -> Leaf
      [] cfg.kind = "four_step" -> FourStepFused
      [] cfg.kind = "stockham" -> Stockham
      [] cfg.kind = "direct" -> DirectDft
      [] cfg.kind = "generic" -> FourStepGeneric
      [] cfg.kind = "bluestein" -> Bluestein
      [] cfg.kind = "bluestein_leaf" -> BluesteinLeaf
      [] cfg.kind = "rader" -> Rader
      [] cfg.kind = "rader_leaf" -> RaderLeaf
      [] cfg.kind = "rader_boundary" -> RaderBoundary
      [] cfg.kind = "r2c" -> R2C
      [] cfg.kind = "c2r" -> C2R
      [] cfg.kind \in {"packed_r2c", "packed_r2c_aiv"} -> PackedR2C
      [] cfg.kind = "packed_c2r" -> PackedC2R
      [] cfg.kind = "packed_c2r_leaf" -> PackedC2RFusedLeaf
      [] cfg.kind \in {"r2c_leaf", "c2r_leaf"} -> RealLeaf
      [] cfg.kind \in {"r2c_half_out", "c2r_real_out"} -> ExpandedFourStep
      [] cfg.kind \in {"r2c_real_in", "c2r_compact_in"} -> DirectFourStep
      [] cfg.kind \in {"bluestein_full", "bluestein_full_r2c",
                       "bluestein_full_c2r"} -> BluesteinFullLeaf
      [] cfg.kind \in {"bluestein_four", "bluestein_four_r2c",
                       "bluestein_four_c2r"} -> BluesteinFourStep

\* Nodes whose batch loop surrounds the whole sequence.
OuterLoop == cfg.kind \in {"four_step", "bluestein", "generic"}

NeedsTable == cfg.kind \in TableKinds /\ ~FallsBack

\* Words of the convolution buffers: the generic Bluestein node works on one
\* chunk at a time, the others on the whole batch.
BluesteinWork ==
    2 * m * (IF cfg.kind = "bluestein" THEN Least(cfg.chunk, cfg.batch) ELSE cfg.batch)
RaderWork == 2 * (n - 1) * cfg.batch
BatchWork == 2 * n * cfg.batch

\* Words the caller's rows span.
Span(region) == (cfg.batch - 1) * region.dist + region.w

\* Words a buffer is allocated with.
Size(buf) ==
    CASE buf \in {"stage1", "work", "a"} ->
            IF cfg.kind \in {"rader", "rader_leaf", "rader_boundary"} THEN RaderWork
            ELSE IF cfg.kind \in TableKinds THEN BluesteinWork ELSE BatchWork
      [] buf \in {"stage2", "first", "second", "cin", "full", "copy"} -> BatchWork
      [] buf = "packed" -> n * cfg.batch
      [] buf = "in" -> IF cfg.inPlace THEN Most(Span(X), Span(Y)) ELSE Span(X)
      [] buf = "out" -> Span(Y)

Buffers == {"in", "out", "stage1", "stage2", "work", "a", "first", "second",
            "cin", "full", "copy", "packed"}
-----------------------------------------------------------------------------
(* What a launch does *)

Step == Program[pc]
Rows == 0 .. cfg.batch - 1

\* Rows of launch s at the current offset.
Count(s) ==
    IF s.looped \/ OuterLoop THEN Least(cfg.chunk, cfg.batch - offset)
    ELSE cfg.batch

\* A block takes pack rows; rows past the end are masked.
Launched(s) ==
    {r \in 0 .. Count(s) - 1 : r \div cfg.pack < CeilDiv(Count(s), cfg.pack)}

Base(region, r) == offset * region.step + r * region.dist
Words(region) == region.lo .. region.w - 1

Junk == <<0, 0, "junk", 0>>
Cell(c, r, form, i) == <<c, r, form, i>>

Load(buf, a) == IF a \in DOMAIN mem[buf] THEN mem[buf][a] ELSE Junk

\* Some word that row r reads is one that row q stores.
Meets(s, r, q) ==
    \E i \in DOMAIN s.ins, j \in DOMAIN s.outs :
        LET in == s.ins[i]
            out == s.outs[j]
        IN  /\ in.buf = out.buf
            /\ Base(in, r) < Base(out, q) + out.w
            /\ Base(out, q) + out.lo < Base(in, r) + in.w

\* Call and row of the data that row r of launch s reads; <<0, 0>> unless each
\* input holds one whole row of the expected form, all of the same transform,
\* nobody overwrites it meanwhile, and the table it uses is complete.
Found(s, r) ==
    LET head == Load(s.ins[1].buf, Base(s.ins[1], r))
        whole == \A j \in DOMAIN s.ins : \A i \in Words(s.ins[j]) :
                    Load(s.ins[j].buf, Base(s.ins[j], r) + i)
                      = Cell(head[1], head[2], s.ins[j].form, i)
        raced == \E q \in Launched(s) : (q # r \/ s.spread) /\ Meets(s, r, q)
    IN  IF whole /\ ~raced /\ (s.table => table = "spectrum")
        THEN <<head[1], head[2]>> ELSE <<0, 0>>

\* The stores that meet in word a of a buffer: rows and outputs.
Stores(s, buf, a) ==
    {w \in Launched(s) \X DOMAIN s.outs :
        LET out == s.outs[w[2]]
        IN  out.buf = buf /\ a - Base(out, w[1]) \in Words(out)}

Targets(s) == {s.outs[j].buf : j \in DOMAIN s.outs}

\* Memory after the launch.
Stored(s) ==
    LET found == [r \in Launched(s) |-> Found(s, r)]
        word(buf, a, here) ==
            LET w == CHOOSE w \in here : TRUE
                out == s.outs[w[2]]
                row == found[w[1]]
            IN  IF Cardinality(here) > 1 \/ row = <<0, 0>> THEN Junk
                ELSE Cell(row[1], row[2], out.form, a - Base(out, w[1]))
    IN  [b \in Buffers |->
           IF b \notin Targets(s) THEN mem[b]
           ELSE [a \in DOMAIN mem[b] |->
                   LET here == Stores(s, b, a)
                   IN  IF here = {} THEN mem[b][a] ELSE word(b, a, here)]]

\* What the launch leaves when it fails half-way.
Spoiled(s) ==
    [b \in Buffers |->
        IF b \notin Targets(s) THEN mem[b]
        ELSE [a \in DOMAIN mem[b] |->
                IF Stores(s, b, a) = {} THEN mem[b][a] ELSE Junk]]
-----------------------------------------------------------------------------
(* execute *)

\* The caller's input of call c: its rows, junk in the padding.
Given(c) ==
    [a \in 0 .. Size("in") - 1 |->
        IF a \div X.dist \in Rows /\ a % X.dist < X.w
        THEN Cell(c, a \div X.dist, "x", a % X.dist) ELSE Junk]

Init ==
    /\ cfg \in {c \in Configs : Admits(c)}
    /\ call = 1
    /\ pc = 1
    /\ offset = 0
    /\ ready = FALSE
    /\ table = "empty"
    /\ mem = [b \in Buffers |-> IF b = "in" THEN Given(1)
                                ELSE [a \in 0 .. Size(b) - 1 |-> Junk]]
    /\ status = "running"

\* ensure_b_fft: the first call that gets here transforms b_time.
EnsureTable ==
    /\ status = "running" /\ NeedsTable /\ ~ready
    /\ table' = "spectrum"
    /\ ready' = TRUE
    /\ UNCHANGED <<cfg, call, pc, offset, mem, status>>

\* Mutant: the table is marked before its transform is known to be good.
TableFailsReady ==
    /\ status = "running" /\ NeedsTable /\ ~ready
    /\ table' \in {table, "spoilt"}
    /\ ready' = TRUE
    /\ status' = "failed"
    /\ UNCHANGED <<cfg, call, pc, offset, mem>>

TableFails ==
    /\ status = "running" /\ NeedsTable /\ ~ready
    /\ table' \in {table, "spoilt"}
    /\ status' = "failed"
    /\ UNCHANGED <<cfg, call, pc, offset, ready, mem>>

AtLaunch == status = "running" /\ (NeedsTable => ready)

\* Position after a launch: next chunk of a step's own loop, next step, next
\* round of the loop around the sequence, or the end.
Advance ==
    LET rest == offset + cfg.chunk < cfg.batch
        last == pc = Len(Program)
        again == rest /\ Step.looped /\ ~OuterLoop
    IN  \/ again /\ offset' = offset + cfg.chunk /\ UNCHANGED <<pc, status>>
        \/ /\ OuterLoop /\ last /\ rest
           /\ offset' = offset + cfg.chunk /\ pc' = 1 /\ UNCHANGED status
        \/ /\ ~last /\ ~again
           /\ pc' = pc + 1 /\ offset' = (IF OuterLoop THEN offset ELSE 0)
           /\ UNCHANGED status
        \/ /\ last /\ ~again /\ ~(OuterLoop /\ rest)
           /\ status' = "success" /\ UNCHANGED <<pc, offset>>

Launch ==
    /\ AtLaunch
    /\ mem' = Stored(Step)
    /\ Advance
    /\ UNCHANGED <<cfg, call, ready, table>>

\* A launch throws or a child returns an error; its output may be half done.
LaunchFails ==
    /\ AtLaunch
    /\ mem' \in {mem, Spoiled(Step)}
    /\ status' = "failed"
    /\ UNCHANGED <<cfg, call, pc, offset, ready, table>>

\* The next call on the same node, after success or failure.
NextCall ==
    /\ status # "running" /\ call < Calls
    /\ call' = call + 1
    /\ pc' = 1 /\ offset' = 0
    /\ mem' = [mem EXCEPT !["in"] = Given(call + 1)]
    /\ status' = "running"
    /\ UNCHANGED <<cfg, ready, table>>

Next == EnsureTable \/ TableFails \/ Launch \/ LaunchFails \/ NextCall

Spec == Init /\ [][Next]_vars
-----------------------------------------------------------------------------
(* Properties *)

\* The node, its control state and its buffers keep their types and sizes.
TypeOK ==
    /\ cfg \in Configs /\ Admits(cfg)
    /\ call \in 1 .. Calls
    /\ pc \in 1 .. Len(Program)
    /\ offset \in 0 .. cfg.batch - 1
    /\ ready \in BOOLEAN
    /\ table \in {"empty", "spectrum", "spoilt"}
    /\ status \in {"running", "success", "failed"}
    /\ \A b \in Buffers : DOMAIN mem[b] = 0 .. Size(b) - 1

\* Every pointer, distance and chunk offset of every launch stays inside the
\* workspace sizes the compiler allocated and inside the caller's buffers.
AccessInBounds ==
    /\ TypeOK
    /\ AtLaunch =>
        LET s == Step
            regions == {s.ins[j] : j \in DOMAIN s.ins}
                         \cup {s.outs[j] : j \in DOMAIN s.outs}
        IN  \A region \in regions : \A r \in Launched(s) :
               Base(region, r) + region.w <= Size(region.buf)

\* A call that returns success has left each row of its own input, and of no
\* earlier call, transformed at that row's place of the output, whatever
\* happened to the calls before it.
ResultExact ==
    status = "success" =>
        \A r \in Rows : \A i \in 0 .. Y.w - 1 :
            mem[Out][r * Y.dist + i] = Cell(call, r, "y", i)

\* Out of place, no node writes the caller's input, and the gaps between the
\* output's rows are left alone.
CallerMemoryKept ==
    ~cfg.inPlace =>
        /\ mem["in"] = Given(call)
        /\ \A a \in DOMAIN mem["out"] :
              a % Y.dist >= Y.w => mem["out"][a] = Junk

\* A convolution table that is marked ready is the complete spectrum, also
\* after calls that failed while computing it.
ReadyIsComplete == ready => table = "spectrum"
=============================================================================
