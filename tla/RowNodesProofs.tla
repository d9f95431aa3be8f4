--------------------------- MODULE RowNodesProofs ---------------------------
(***************************************************************************)
(* Theorems about RowNodes, for every set of configurations: every address  *)
(* a launch computes lies inside its buffer, the caller's memory is kept, a *)
(* convolution table that is marked ready is complete, and a call that      *)
(* succeeds leaves every row of its input transformed at its place.         *)
(***************************************************************************)
EXTENDS RowNodes, FiniteSetTheorems, TLAPS

-----------------------------------------------------------------------------
(* Arithmetic.                                                             *)

LEMMA Ordered ==
  ASSUME NEW a \in Nat, NEW b \in Nat, NEW d \in Nat, a <= b
  PROVE  a * d <= b * d
<1>1. (b - a) * d >= 0
  OBVIOUS
<1>2. b * d = a * d + (b - a) * d
  OBVIOUS
<1> QED
  BY <1>1, <1>2

\* Row r of a launch that starts at row o ends inside a buffer of k rows.
LEMMA RowEnds ==
  ASSUME NEW o \in Nat, NEW r \in Nat, NEW k \in Nat, o + r <= k,
         NEW s \in Nat, NEW d \in Nat, s <= d
  PROVE  o * s + r * d <= k * d
<1>1. s * o <= d * o
  BY Ordered
<1>2. o * s <= o * d
  BY <1>1
<1>3. (o + r) * d <= k * d
  BY Ordered
<1>4. (o + r) * d = o * d + r * d
  OBVIOUS
<1>5. o * s \in Nat /\ o * d \in Nat /\ r * d \in Nat /\ k * d \in Nat
  OBVIOUS
<1> QED
  BY <1>2, <1>3, <1>4, <1>5

\* Addresses that differ by a whole number of rows have the same place.
LEMMA PlaceInRow ==
  ASSUME NEW k \in Nat, NEW d \in Nat \ {0}, NEW x \in 0 .. d - 1
  PROVE  (k * d + x) % d = x
  OBVIOUS
-----------------------------------------------------------------------------
(* Regions that lie inside their buffers, and stores that keep the caller's  *)
(* memory.                                                                 *)

\* The rows of the region end inside the buffer: those of the whole batch, or
\* those of one chunk when every chunk starts at the same place.
RegionFits(g) ==
  /\ g.buf \in Buffers /\ g.lo \in Nat /\ g.w \in Nat
  /\ g.dist \in Nat /\ g.step \in Nat /\ g.step <= g.dist
  /\ \/ (cfg.batch - 1) * g.dist + g.w <= Size(g.buf)
     \/ /\ OuterLoop /\ g.step = 0
        /\ (Least(cfg.chunk, cfg.batch) - 1) * g.dist + g.w <= Size(g.buf)

\* Out of place, a store spares the input and the gaps of the output.  Only
\* the pack step of a real transform moves its pointer by less than a row.
StoreKept(g) ==
  ~cfg.inPlace =>
    /\ g.buf # "in"
    /\ g.buf = "out" =>
         /\ g.w <= Y.w
         /\ \/ cfg.batch = 1
            \/ g.dist = Y.dist /\ (g.step = Y.dist \/ cfg.kind \in R2CKinds)

RegionsFit(regions) == \A j \in DOMAIN regions : RegionFits(regions[j])
StoresKept(regions) == \A j \in DOMAIN regions : StoreKept(regions[j])
StepFits(s) == RegionsFit(s.ins) /\ RegionsFit(s.outs) /\ StoresKept(s.outs)

\* Control and layout of the node under way.
Configured == cfg \in Configs /\ Admits(cfg)

LEMMA Lengths ==
  ASSUME Configured
  PROVE  /\ n \in Nat \ {0} /\ m \in Nat /\ half \in Nat \ {0}
         /\ cfg.batch \in Nat \ {0} /\ cfg.chunk \in Nat \ {0}
         /\ cfg.pack \in Nat \ {0} /\ cfg.stages \in Nat
         /\ cfg.idist \in Nat /\ cfg.odist \in Nat /\ cfg.inPlace \in BOOLEAN
<1>1. /\ n \in Nat \ {0} /\ m \in Nat
      /\ cfg.batch \in Nat \ {0} /\ cfg.chunk \in Nat \ {0}
      /\ cfg.pack \in Nat \ {0} /\ cfg.stages \in Nat
      /\ cfg.idist \in Nat /\ cfg.odist \in Nat /\ cfg.inPlace \in BOOLEAN
  BY ConfigsType DEF Configured, n, m
<1>2. half \in Nat \ {0}
  BY <1>1 DEF half
<1> QED
  BY <1>1, <1>2

LEMMA Distances ==
  ASSUME Configured
  PROVE  /\ RealIn \in Nat \ {0} /\ RealOut \in Nat \ {0}
         /\ HalfIn \in Nat \ {0} /\ HalfOut \in Nat \ {0}
  BY Lengths DEF RealIn, RealOut, HalfIn, HalfOut, Most

LEMMA Shapes ==
  ASSUME Configured
  PROVE  /\ X.buf = "in" /\ X.lo = 0 /\ X.w \in Nat \ {0} /\ X.dist \in Nat \ {0}
         /\ X.step = X.dist
         /\ Y.buf = Out /\ Y.lo = 0 /\ Y.w \in Nat \ {0} /\ Y.dist \in Nat \ {0}
         /\ Y.step = Y.dist
<1>1. 2 * n \in Nat \ {0} /\ 2 * half \in Nat \ {0} /\ n \in Nat \ {0}
      /\ RealIn \in Nat \ {0} /\ RealOut \in Nat \ {0}
      /\ 2 * HalfIn \in Nat \ {0} /\ 2 * HalfOut \in Nat \ {0}
  BY Lengths, Distances
<1>2. /\ X.buf = "in" /\ X.lo = 0 /\ X.w \in Nat \ {0} /\ X.dist \in Nat \ {0}
      /\ X.step = X.dist
  BY <1>1 DEF X, Spaced, Dense, Region
<1>3. /\ Y.buf = Out /\ Y.lo = 0 /\ Y.w \in Nat \ {0} /\ Y.dist \in Nat \ {0}
      /\ Y.step = Y.dist
  BY <1>1 DEF Y, Spaced, Dense, Region
<1> QED
  BY <1>2, <1>3

LEMMA CallerFits ==
  ASSUME Configured
  PROVE  RegionFits(X) /\ RegionFits(Y) /\ StoreKept(Y) /\ Y.lo = 0
<1>1. Span(X) \in Nat /\ Span(Y) \in Nat
  BY Lengths, Shapes DEF Span
<1>2. Size("in") >= Span(X) /\ Size(Out) >= Span(Y) /\ Out \in {"in", "out"}
  BY <1>1, Lengths DEF Size, Most, Out
<1>3. Size("in") \in Nat /\ Size(Out) \in Nat
  BY <1>1, Lengths DEF Size, Most, Out
<1>4. RegionFits(X) /\ RegionFits(Y)
  BY <1>1, <1>2, <1>3, Lengths, Shapes DEF RegionFits, Span, Buffers
<1>5. StoreKept(Y)
  BY Lengths, Shapes DEF StoreKept, Out
<1> QED
  BY <1>4, <1>5, Shapes

LEMMA DenseFits ==
  ASSUME Configured, NEW b \in Buffers, NEW f, NEW w \in Nat,
         Size(b) \in Nat, w * cfg.batch <= Size(b)
  PROVE  /\ RegionFits(Dense(b, f, w))
         /\ b \notin {"in", "out"} => StoreKept(Dense(b, f, w))
<1>1. (cfg.batch - 1) * w + w = w * cfg.batch
  BY Lengths
<1> QED
  BY <1>1, Lengths DEF RegionFits, StoreKept, Dense, Region

LEMMA KernelFits ==
  ASSUME NEW ins, NEW outs, RegionsFit(ins), RegionsFit(outs), StoresKept(outs)
  PROVE  /\ StepFits(Kernel(ins, outs)) /\ StepFits(RowKernel(ins, outs))
         /\ StepFits(WithTable(Kernel(ins, outs)))
         /\ StepFits(WithTable(RowKernel(ins, outs)))
         /\ StepFits(InChunks(Kernel(ins, outs)))
         /\ StepFits(InChunks(RowKernel(ins, outs)))
  BY DEF StepFits, Kernel, RowKernel, WithTable, InChunks

LEMMA SingleFits ==
  ASSUME NEW g, NEW h, RegionFits(g), RegionFits(h), StoreKept(h)
  PROVE  /\ StepFits(Kernel(<<g>>, <<h>>)) /\ StepFits(RowKernel(<<g>>, <<h>>))
         /\ StepFits(WithTable(Kernel(<<g>>, <<h>>)))
         /\ StepFits(WithTable(RowKernel(<<g>>, <<h>>)))
         /\ StepFits(InChunks(Kernel(<<g>>, <<h>>)))
         /\ StepFits(InChunks(RowKernel(<<g>>, <<h>>)))
         /\ StepFits(Child(g, h)) /\ StepFits(Copy(g, h))
<1>1. RegionsFit(<<g>>) /\ RegionsFit(<<h>>) /\ StoresKept(<<h>>)
  BY DEF RegionsFit, StoresKept
<1> QED
  BY <1>1, KernelFits DEF Child, Copy
-----------------------------------------------------------------------------
(* The programs of the nodes.                                              *)

ProgramFits(p) == Len(p) \in Nat /\ \A i \in 1 .. Len(p) : StepFits(p[i])

LEMMA Appended ==
  ASSUME NEW S, NEW p \in Seq(S), NEW q \in Seq(S),
         ProgramFits(p), ProgramFits(q)
  PROVE  ProgramFits(p \o q)
<1>1. Len(p) \in Nat /\ Len(q) \in Nat /\ Len(p \o q) = Len(p) + Len(q)
  OBVIOUS
<1>2. ASSUME NEW i \in 1 .. Len(p \o q)
      PROVE  StepFits((p \o q)[i])
  <2>1. CASE i <= Len(p)
    <3>1. (p \o q)[i] = p[i] /\ i \in 1 .. Len(p)
      BY <1>1, <1>2, <2>1
    <3> QED
      BY <3>1 DEF ProgramFits
  <2>2. CASE i > Len(p)
    <3>1. (p \o q)[i] = q[i - Len(p)] /\ i - Len(p) \in 1 .. Len(q)
      BY <1>1, <1>2, <2>2
    <3> QED
      BY <3>1 DEF ProgramFits
  <2> QED
    BY <1>1, <1>2, <2>1, <2>2
<1> QED
  BY <1>1, <1>2 DEF ProgramFits

\* What the work buffers hold.
LEMMA BatchBuffers ==
  ASSUME Configured, NEW b \in {"stage2", "first", "second", "cin", "full", "copy"}, NEW f
  PROVE  RegionFits(Dense(b, f, 2 * n)) /\ StoreKept(Dense(b, f, 2 * n))
<1>1. Size(b) = 2 * n * cfg.batch /\ b \in Buffers /\ b \notin {"in", "out"}
  BY DEF Size, BatchWork, Buffers
<1>2. 2 * n \in Nat /\ 2 * n * cfg.batch \in Nat
  BY Lengths
<1> QED
  BY <1>1, <1>2, DenseFits

LEMMA StageBuffer ==
  ASSUME Configured, cfg.kind \notin TableKinds, NEW f
  PROVE  RegionFits(Dense("stage1", f, 2 * n)) /\ StoreKept(Dense("stage1", f, 2 * n))
<1>1. Size("stage1") = 2 * n * cfg.batch
  BY DEF Size, BatchWork, TableKinds
<1>2. 2 * n \in Nat /\ 2 * n * cfg.batch \in Nat /\ "stage1" \in Buffers
  BY Lengths DEF Buffers
<1> QED
  BY <1>1, <1>2, DenseFits

LEMMA PackedBuffer ==
  ASSUME Configured, NEW f
  PROVE  RegionFits(Dense("packed", f, n)) /\ StoreKept(Dense("packed", f, n))
<1>1. Size("packed") = n * cfg.batch
  BY DEF Size
<1>2. n \in Nat /\ n * cfg.batch \in Nat /\ "packed" \in Buffers
  BY Lengths DEF Buffers
<1> QED
  BY <1>1, <1>2, DenseFits

\* Bluestein and Rader nodes that work on the whole batch.
LEMMA ConvolutionBuffers ==
  ASSUME Configured, cfg.kind \in TableKinds \ {"bluestein"},
         NEW b \in {"stage1", "work", "a"}, NEW f
  PROVE  RegionFits(Dense(b, f, 2 * m)) /\ StoreKept(Dense(b, f, 2 * m))
<1>1. Size(b) = 2 * m * cfg.batch
  <2>1. CASE cfg.kind \in {"rader", "rader_leaf", "rader_boundary"}
    <3>1. cfg.kind \notin FourStepNodes(cfg) \cup BluesteinNodes(cfg) \cup {"leaf", "direct", "stockham"}
      BY <2>1 DEF FourStepNodes, BluesteinNodes
    <3>2. cfg.kind \notin R2CNodes(cfg) \cup C2RNodes(cfg)
      BY <2>1 DEF R2CNodes, C2RNodes
    <3>3. cfg.kind \in RaderNodes(cfg)
      BY <2>1, <3>1, <3>2 DEF Configured, Admits, ComplexNodes
    <3>4. cfg.plan \in {"rader_leaf", "rader_deep"}
      BY <3>3 DEF RaderNodes
    <3>5. m = n - 1
      BY <3>4, RaderLength DEF Configured, m, n
    <3> QED
      BY <2>1, <3>5 DEF Size, RaderWork
  <2>2. CASE cfg.kind \notin {"rader", "rader_leaf", "rader_boundary"}
    BY <2>2 DEF Size, BluesteinWork
  <2> QED
    BY <2>1, <2>2
<1>2. 2 * m \in Nat /\ 2 * m * cfg.batch \in Nat /\ b \in Buffers /\ b \notin {"in", "out"}
  BY Lengths DEF Buffers
<1> QED
  BY <1>1, <1>2, DenseFits

\* The generic Bluestein node works on one chunk at a time.
LEMMA ChunkBuffers ==
  ASSUME Configured, cfg.kind = "bluestein", NEW b \in {"work", "a"}, NEW f
  PROVE  RegionFits(Fixed(b, f, 2 * m)) /\ StoreKept(Fixed(b, f, 2 * m))
<1>1. Size(b) = 2 * m * Least(cfg.chunk, cfg.batch)
  BY DEF Size, BluesteinWork, TableKinds
<1>2. 2 * m \in Nat /\ Least(cfg.chunk, cfg.batch) \in Nat \ {0}
  BY Lengths DEF Least
<1>3. (Least(cfg.chunk, cfg.batch) - 1) * (2 * m) + 2 * m = Size(b)
  BY <1>1, <1>2
<1> QED
  BY <1>2, <1>3 DEF RegionFits, StoreKept, Fixed, Region, Buffers, OuterLoop
\* A complex node's rows lie side by side in the caller's buffers.
LEMMA ComplexRows ==
  ASSUME Configured, cfg.kind \notin R2CKinds \cup C2RKinds, NEW f
  PROVE  /\ RegionFits(Dense("in", f, 2 * n))
         /\ RegionFits(Dense(Out, f, 2 * n)) /\ StoreKept(Dense(Out, f, 2 * n))
<1>1. X = Dense("in", "x", 2 * n) /\ Y = Dense(Out, "y", 2 * n)
  BY DEF X, Y
<1>2. RegionFits(Dense("in", "x", 2 * n)) /\ RegionFits(Dense(Out, "y", 2 * n))
      /\ StoreKept(Dense(Out, "y", 2 * n))
  BY <1>1, CallerFits
<1>3. RegionFits(Dense("in", f, 2 * n)) /\ RegionFits(Dense(Out, f, 2 * n))
  BY <1>2 DEF RegionFits, Dense, Region
<1>4. StoreKept(Dense(Out, f, 2 * n))
  BY <1>2 DEF StoreKept, Dense, Region
<1> QED
  BY <1>3, <1>4

LEMMA StockhamFits ==
  ASSUME Configured, cfg.kind = "stockham"
  PROVE  ProgramFits(Stockham) /\ Len(Stockham) > 0
<1> DEFINE Source(s) == Dense(IF s = 1 THEN "in" ELSE StageTarget(s - 1), AfterStage(s - 1), 2 * n)
           Target(s) == Dense(StageTarget(s), AfterStage(s), 2 * n)
           Stage(s) == InChunks(Kernel(<<Source(s)>>, <<Target(s)>>))
           Stages == [s \in 1 .. cfg.stages |-> Stage(s)]
           Last == Copy(Dense(StageTarget(cfg.stages), "y", 2 * n), Y)
           Final == IF StageTarget(cfg.stages) = Out THEN <<>> ELSE <<Last>>
<1>1. cfg.kind \notin R2CKinds \cup C2RKinds
  BY DEF R2CKinds, C2RKinds
<1>2. \A s : StageTarget(s) \in {"first", "second", Out}
  BY DEF StageTarget
<1>3. \A s, f : RegionFits(Dense(StageTarget(s), f, 2 * n))
                /\ StoreKept(Dense(StageTarget(s), f, 2 * n))
  BY <1>1, <1>2, ComplexRows, BatchBuffers
<1>4. ASSUME NEW s
      PROVE  StepFits(Stage(s))
  <2>1. RegionFits(Source(s))
    BY <1>1, <1>3, ComplexRows
  <2>2. RegionFits(Target(s)) /\ StoreKept(Target(s))
    BY <1>3
  <2> HIDE DEF Source, Target
  <2> QED
    BY <2>1, <2>2, SingleFits
<1>5. StepFits(Last)
  BY <1>3, CallerFits, SingleFits
<1>6. Stockham = Stages \o Final
  BY DEF Stockham
<1> HIDE DEF Stage, Last
<1> DEFINE S == {Stage(s) : s \in 1 .. cfg.stages} \cup {Last}
<1>7. cfg.stages \in Nat \ {0}
  <2>1. cfg.kind \notin FourStepNodes(cfg) \cup BluesteinNodes(cfg) \cup RaderNodes(cfg)
                        \cup R2CNodes(cfg) \cup C2RNodes(cfg)
    BY DEF FourStepNodes, BluesteinNodes, RaderNodes, R2CNodes, C2RNodes
  <2>2. cfg.plan = "stockham"
    BY <2>1 DEF Configured, Admits, ComplexNodes
  <2> QED
    BY <2>2, StagesExist, Lengths DEF Configured
<1>8. Stages \in Seq(S) /\ Final \in Seq(S)
  <2>1. Last \in S /\ \A s \in 1 .. cfg.stages : Stage(s) \in S
    OBVIOUS
  <2> HIDE DEF S
  <2>2. Stages \in [1 .. cfg.stages -> S]
    BY <2>1
  <2>3. Stages \in Seq(S)
    BY <1>7, <2>2
  <2>4. <<>> \in Seq(S) /\ <<Last>> \in Seq(S)
    BY <2>1
  <2> QED
    BY <2>3, <2>4
<1>9. ProgramFits(Stages) /\ Len(Stages) = cfg.stages
  BY <1>4, <1>7 DEF ProgramFits
<1>10. ProgramFits(Final)
  BY <1>5 DEF ProgramFits
<1> HIDE DEF Stages, Final, S
<1>11. Len(Stages \o Final) = Len(Stages) + Len(Final)
  BY <1>8
<1> QED
  BY <1>6, <1>7, <1>8, <1>9, <1>10, <1>11, Appended DEF ProgramFits

LEMMA EffectiveFits ==
  ASSUME Configured
  PROVE  /\ RegionFits(EffectiveInput)
         /\ ProgramFits(CopyInput) /\ \E S : CopyInput \in Seq(S)
<1>1. RegionFits(EffectiveInput)
  BY CallerFits, BatchBuffers DEF EffectiveInput
<1>2. cfg.inPlace => StoreKept(EffectiveInput)
  BY DEF StoreKept
<1>3. cfg.inPlace => StepFits(Copy(X, EffectiveInput))
  BY <1>1, <1>2, CallerFits, SingleFits
<1>4. ProgramFits(CopyInput)
  BY <1>3, Lengths DEF ProgramFits, CopyInput
<1>5. <<>> \in Seq({Copy(X, EffectiveInput)})
      /\ <<Copy(X, EffectiveInput)>> \in Seq({Copy(X, EffectiveInput)})
  OBVIOUS
<1>6. CopyInput \in Seq({Copy(X, EffectiveInput)})
  BY <1>5 DEF CopyInput
<1> QED
  BY <1>1, <1>4, <1>6

\* A program that starts with the copy of an in-place input.
LEMMA AfterCopy ==
  ASSUME Configured, NEW S, NEW p \in Seq(S), ProgramFits(p), Len(p) > 0
  PROVE  ProgramFits(CopyInput \o p) /\ Len(CopyInput \o p) > 0
<1>1. PICK C : CopyInput \in Seq(C)
  BY EffectiveFits
<1> DEFINE T == S \cup C
<1>2. S \subseteq T /\ C \subseteq T
  OBVIOUS
<1> HIDE DEF T
<1>3. p \in Seq(T) /\ CopyInput \in Seq(T)
  BY <1>1, <1>2
<1>4. Len(CopyInput \o p) = Len(CopyInput) + Len(p)
  BY <1>3
<1> QED
  BY <1>3, <1>4, EffectiveFits, Appended DEF ProgramFits

\* Programs of one or several kernels, each from one region to another.
LEMMA OneKernel ==
  ASSUME NEW k1, StepFits(k1)
  PROVE  ProgramFits(<<k1>>) /\ Len(<<k1>>) > 0
  BY DEF ProgramFits

LEMMA TwoKernels ==
  ASSUME NEW k1, NEW k2, StepFits(k1), StepFits(k2)
  PROVE  ProgramFits(<<k1, k2>>) /\ Len(<<k1, k2>>) > 0
  BY DEF ProgramFits

LEMMA ThreeKernels ==
  ASSUME NEW k1, NEW k2, NEW k3, StepFits(k1), StepFits(k2), StepFits(k3)
  PROVE  ProgramFits(<<k1, k2, k3>>) /\ Len(<<k1, k2, k3>>) > 0
  BY DEF ProgramFits

LEMMA FourKernels ==
  ASSUME NEW k1, NEW k2, NEW k3, NEW k4,
         StepFits(k1), StepFits(k2), StepFits(k3), StepFits(k4)
  PROVE  ProgramFits(<<k1, k2, k3, k4>>) /\ Len(<<k1, k2, k3, k4>>) > 0
  BY DEF ProgramFits

LEMMA FiveKernels ==
  ASSUME NEW k1, NEW k2, NEW k3, NEW k4, NEW k5,
         StepFits(k1), StepFits(k2), StepFits(k3), StepFits(k4), StepFits(k5)
  PROVE  ProgramFits(<<k1, k2, k3, k4, k5>>) /\ Len(<<k1, k2, k3, k4, k5>>) > 0
  BY DEF ProgramFits

LEMMA SimpleFit ==
  ASSUME Configured
  PROVE  /\ ProgramFits(Leaf) /\ Len(Leaf) > 0
         /\ ProgramFits(RealLeaf) /\ Len(RealLeaf) > 0
         /\ ProgramFits(BluesteinFullLeaf) /\ Len(BluesteinFullLeaf) > 0
         /\ ProgramFits(DirectDft) /\ Len(DirectDft) > 0
         /\ ProgramFits(RaderLeaf) /\ Len(RaderLeaf) > 0
<1>1. /\ StepFits(InChunks(RowKernel(<<X>>, <<Y>>))) /\ StepFits(RowKernel(<<X>>, <<Y>>))
      /\ StepFits(WithTable(RowKernel(<<X>>, <<Y>>)))
  BY CallerFits, SingleFits
<1>2. /\ StepFits(Kernel(<<EffectiveInput>>, <<Y>>))
      /\ StepFits(WithTable(RowKernel(<<EffectiveInput>>, <<Y>>)))
  BY CallerFits, EffectiveFits, SingleFits
<1>3. /\ ProgramFits(Leaf) /\ Len(Leaf) > 0
      /\ ProgramFits(RealLeaf) /\ Len(RealLeaf) > 0
      /\ ProgramFits(BluesteinFullLeaf) /\ Len(BluesteinFullLeaf) > 0
  BY <1>1, OneKernel DEF Leaf, RealLeaf, BluesteinFullLeaf
<1>4. ASSUME NEW k1, StepFits(k1)
      PROVE  ProgramFits(CopyInput \o <<k1>>) /\ Len(CopyInput \o <<k1>>) > 0
  <2> DEFINE p == <<k1>>
  <2>1. p \in Seq({k1})
    OBVIOUS
  <2>2. ProgramFits(p) /\ Len(p) > 0
    BY <1>4, OneKernel
  <2> HIDE DEF p
  <2>3. ProgramFits(CopyInput \o p) /\ Len(CopyInput \o p) > 0
    BY <2>1, <2>2, AfterCopy
  <2> QED
    BY <2>3 DEF p
<1>5. /\ ProgramFits(DirectDft) /\ Len(DirectDft) > 0
      /\ ProgramFits(RaderLeaf) /\ Len(RaderLeaf) > 0
  BY <1>2, <1>4 DEF DirectDft, RaderLeaf
<1> QED
  BY <1>3, <1>5

LEMMA FourStepFit ==
  ASSUME Configured, cfg.kind \notin TableKinds
  PROVE  /\ ProgramFits(FourStepFused) /\ Len(FourStepFused) > 0
         /\ ProgramFits(FourStepGeneric) /\ Len(FourStepGeneric) > 0
         /\ ProgramFits(ExpandedFourStep) /\ Len(ExpandedFourStep) > 0
         /\ ProgramFits(DirectFourStep) /\ Len(DirectFourStep) > 0
<1>1. \A f : /\ RegionFits(Dense("stage1", f, 2 * n)) /\ StoreKept(Dense("stage1", f, 2 * n))
             /\ RegionFits(Dense("stage2", f, 2 * n)) /\ StoreKept(Dense("stage2", f, 2 * n))
             /\ RegionFits(Dense("cin", f, 2 * n)) /\ StoreKept(Dense("cin", f, 2 * n))
  BY StageBuffer, BatchBuffers
<1>2. RegionFits(X) /\ RegionFits(Y) /\ StoreKept(Y)
  BY CallerFits
<1>3. ProgramFits(FourStepFused) /\ Len(FourStepFused) > 0
  BY <1>1, <1>2, SingleFits, TwoKernels DEF FourStepFused
<1>4. ProgramFits(DirectFourStep) /\ Len(DirectFourStep) > 0
  BY <1>1, <1>2, SingleFits, TwoKernels DEF DirectFourStep
<1>5. ProgramFits(ExpandedFourStep) /\ Len(ExpandedFourStep) > 0
  BY <1>1, <1>2, SingleFits, ThreeKernels DEF ExpandedFourStep
<1>6. ProgramFits(FourStepGeneric) /\ Len(FourStepGeneric) > 0
  BY <1>1, <1>2, SingleFits, FiveKernels DEF FourStepGeneric
<1> QED
  BY <1>3, <1>4, <1>5, <1>6

LEMMA ConvolutionFit ==
  ASSUME Configured
  PROVE  /\ cfg.kind = "bluestein" => ProgramFits(Bluestein) /\ Len(Bluestein) > 0
         /\ cfg.kind \in TableKinds \ {"bluestein"} =>
              /\ ProgramFits(BluesteinLeaf) /\ Len(BluesteinLeaf) > 0
              /\ ProgramFits(BluesteinFourStep) /\ Len(BluesteinFourStep) > 0
<1>1. RegionFits(X) /\ RegionFits(Y) /\ StoreKept(Y)
  BY CallerFits
<1>2. CASE cfg.kind = "bluestein"
  <2>1. \A f : /\ RegionFits(Fixed("a", f, 2 * m)) /\ StoreKept(Fixed("a", f, 2 * m))
               /\ RegionFits(Fixed("work", f, 2 * m)) /\ StoreKept(Fixed("work", f, 2 * m))
    BY <1>2, ChunkBuffers
  <2>2. ProgramFits(Bluestein) /\ Len(Bluestein) > 0
    BY <1>1, <2>1, SingleFits, FiveKernels DEF Bluestein
  <2> QED
    BY <1>2, <2>2
<1>3. CASE cfg.kind \in TableKinds \ {"bluestein"}
  <2>1. \A f : /\ RegionFits(Dense("stage1", f, 2 * m)) /\ StoreKept(Dense("stage1", f, 2 * m))
               /\ RegionFits(Dense("work", f, 2 * m)) /\ StoreKept(Dense("work", f, 2 * m))
    BY <1>3, ConvolutionBuffers
  <2>2. ProgramFits(BluesteinLeaf) /\ Len(BluesteinLeaf) > 0
    BY <1>1, <2>1, SingleFits, TwoKernels DEF BluesteinLeaf
  <2>3. ProgramFits(BluesteinFourStep) /\ Len(BluesteinFourStep) > 0
    BY <1>1, <2>1, SingleFits, FourKernels DEF BluesteinFourStep
  <2> QED
    BY <1>3, <2>2, <2>3
<1> QED
  BY <1>2, <1>3
\* Kernels that read or write two regions.
LEMMA DoubleFits ==
  ASSUME NEW g, NEW g2, NEW h, NEW h2, RegionFits(g), RegionFits(g2),
         RegionFits(h), RegionFits(h2), StoreKept(h), StoreKept(h2)
  PROVE  /\ StepFits(Kernel(<<g, g2>>, <<h>>))
         /\ StepFits(WithTable(RowKernel(<<g, g2>>, <<h>>)))
         /\ StepFits(WithTable(Kernel(<<g, g2>>, <<h, h2>>)))
<1>1. RegionsFit(<<g, g2>>) /\ RegionsFit(<<h>>) /\ RegionsFit(<<h, h2>>)
  BY DEF RegionsFit
<1>2. StoresKept(<<h>>) /\ StoresKept(<<h, h2>>)
  BY DEF StoresKept
<1> QED
  BY <1>1, <1>2, KernelFits

LEMMA RaderFit ==
  ASSUME Configured, cfg.kind \in {"rader", "rader_boundary"}
  PROVE  /\ ProgramFits(Rader) /\ Len(Rader) > 0
         /\ ProgramFits(RaderBoundary) /\ Len(RaderBoundary) > 0
<1> DEFINE First == [Y EXCEPT !.w = 2]
           Others == From(Y, 2)
<1>1. Y = Dense(Out, "y", 2 * n)
  BY DEF Y, R2CKinds, C2RKinds
<1>2. RegionFits(Y) /\ StoreKept(Y) /\ n \in Nat \ {0} /\ Size(Out) \in Int
  <2>1. Size(Out) \in Int
    BY Lengths, Shapes DEF Size, Out, Span, Most
  <2> QED
    BY <2>1, CallerFits, Lengths
<1>3. RegionFits(First) /\ StoreKept(First)
  <2>1. /\ First.buf = Y.buf /\ First.lo = Y.lo /\ First.w = 2 /\ First.dist = Y.dist
        /\ First.step = Y.step /\ Y.w = 2 * n /\ Y.dist = 2 * n /\ Y.step = 2 * n
        /\ Y.buf = Out
    BY <1>1 DEF Dense, Region
  <2>2. 2 <= 2 * n /\ (cfg.batch - 1) * (2 * n) \in Int
    BY <1>2, Lengths
  <2>3. RegionFits(First)
    BY <1>2, <2>1, <2>2, Lengths DEF RegionFits, OuterLoop
  <2>4. StoreKept(First)
    BY <1>2, <2>1, <2>2 DEF StoreKept
  <2> QED
    BY <2>3, <2>4
<1>4. RegionFits(Others) /\ StoreKept(Others)
  <2>1. /\ Others.buf = Y.buf /\ Others.lo = 2 /\ Others.w = Y.w /\ Others.dist = Y.dist
        /\ Others.step = Y.step
    BY <1>1 DEF Dense, Region, From
  <2> QED
    BY <1>2, <2>1 DEF RegionFits, StoreKept
<1>5. \A f : /\ RegionFits(Dense("a", f, 2 * m)) /\ StoreKept(Dense("a", f, 2 * m))
             /\ RegionFits(Dense("work", f, 2 * m)) /\ StoreKept(Dense("work", f, 2 * m))
  BY ConvolutionBuffers DEF TableKinds
<1>6. RegionFits(EffectiveInput)
  BY EffectiveFits
<1> HIDE DEF First, Others
<1>7. ProgramFits(Rader) /\ Len(Rader) > 0
  <2> DEFINE k1 == Kernel(<<EffectiveInput>>, <<Dense("a", "permuted", 2 * m)>>)
             k2 == Child(Dense("a", "permuted", 2 * m), Dense("work", "spectrum", 2 * m))
             k3 == WithTable(Kernel(<<Dense("work", "spectrum", 2 * m), EffectiveInput>>,
                                    <<Dense("a", "product", 2 * m), First>>))
             k4 == Child(Dense("a", "product", 2 * m), Dense("work", "convolved", 2 * m))
             k5 == Kernel(<<Dense("work", "convolved", 2 * m), EffectiveInput>>, <<Others>>)
             p == <<k1, k2, k3, k4, k5>>
  <2>1. Rader = CopyInput \o p
    BY DEF Rader, First, Others
  <2>2. StepFits(k1) /\ StepFits(k2) /\ StepFits(k4)
    BY <1>5, <1>6, SingleFits
  <2>3. StepFits(k3) /\ StepFits(k5)
    BY <1>3, <1>4, <1>5, <1>6, DoubleFits
  <2> HIDE DEF k1, k2, k3, k4, k5
  <2>4. ProgramFits(p) /\ Len(p) > 0
    BY <2>2, <2>3, FiveKernels
  <2>5. p \in Seq({k1, k2, k3, k4, k5})
    OBVIOUS
  <2> HIDE DEF p
  <2> QED
    BY <2>1, <2>4, <2>5, AfterCopy
<1>8. ProgramFits(RaderBoundary) /\ Len(RaderBoundary) > 0
  <2> DEFINE k1 == RowKernel(<<EffectiveInput>>, <<Dense("a", "spectrum", 2 * m)>>)
             k2 == WithTable(RowKernel(<<Dense("a", "spectrum", 2 * m), EffectiveInput>>, <<Y>>))
             p == <<k1, k2>>
  <2>1. RaderBoundary = CopyInput \o p
    BY DEF RaderBoundary
  <2>2. StepFits(k1) /\ StepFits(k2)
    BY <1>2, <1>5, <1>6, SingleFits, DoubleFits
  <2> HIDE DEF k1, k2
  <2>3. ProgramFits(p) /\ Len(p) > 0
    BY <2>2, TwoKernels
  <2>4. p \in Seq({k1, k2})
    OBVIOUS
  <2> HIDE DEF p
  <2> QED
    BY <2>1, <2>3, <2>4, AfterCopy
<1> QED
  BY <1>7, <1>8

LEMMA RealFit ==
  ASSUME Configured
  PROVE  /\ cfg.kind \in R2CKinds => ProgramFits(R2C) /\ Len(R2C) > 0
         /\ ProgramFits(C2R) /\ Len(C2R) > 0
<1>1. RegionFits(X) /\ RegionFits(Y) /\ StoreKept(Y)
  BY CallerFits
<1>2. \A f : /\ RegionFits(Dense("cin", f, 2 * n)) /\ StoreKept(Dense("cin", f, 2 * n))
             /\ RegionFits(Dense("full", f, 2 * n)) /\ StoreKept(Dense("full", f, 2 * n))
  BY BatchBuffers
<1>3. ProgramFits(C2R) /\ Len(C2R) > 0
  BY <1>1, <1>2, SingleFits, ThreeKernels DEF C2R
<1>4. ASSUME cfg.kind \in R2CKinds
      PROVE  ProgramFits(R2C) /\ Len(R2C) > 0
  <2> DEFINE Pack == Region(Out, "y", 2 * half, 2 * HalfOut, HalfOut)
  <2>1. /\ Y.buf = Out /\ Y.lo = 0 /\ Y.w = 2 * half /\ Y.dist = 2 * HalfOut
        /\ Y.step = 2 * HalfOut
    <3>1. Y = Spaced(Out, "y", 2 * half, 2 * HalfOut)
      BY <1>4 DEF Y, R2CKinds, C2RKinds
    <3> QED
      BY <3>1 DEF Spaced, Region
  <2>2. /\ Pack.buf = Y.buf /\ Pack.lo = Y.lo /\ Pack.w = Y.w /\ Pack.dist = Y.dist
        /\ Pack.step = HalfOut
    BY <2>1 DEF Region
  <2>3. HalfOut \in Nat /\ HalfOut <= 2 * HalfOut /\ 2 * HalfOut # 0
    BY Distances
  <2>4. RegionFits(Pack)
    BY <1>1, <2>1, <2>2, <2>3 DEF RegionFits
  <2>5. StoreKept(Pack)
    BY <1>1, <1>4, <2>1, <2>2 DEF StoreKept
  <2> HIDE DEF Pack
  <2>6. StepFits(InChunks(Kernel(<<X>>, <<Dense("cin", "expanded", 2 * n)>>)))
    BY <1>1, <1>2, SingleFits
  <2>7. StepFits(Child(Dense("cin", "expanded", 2 * n), Dense("full", "full", 2 * n)))
    BY <1>2, SingleFits
  <2>8. StepFits(InChunks(Kernel(<<Dense("full", "full", 2 * n)>>, <<Pack>>)))
    BY <1>2, <2>4, <2>5, SingleFits
  <2> QED
    BY <2>6, <2>7, <2>8, ThreeKernels DEF R2C, Pack
<1> QED
  BY <1>3, <1>4
\* The packed nodes read and write the caller's rows side by side, and only
\* when these are.
LEMMA PackedFit ==
  ASSUME Configured, ~FallsBack
  PROVE  /\ cfg.kind \in {"packed_r2c", "packed_r2c_aiv"} =>
              ProgramFits(PackedR2C) /\ Len(PackedR2C) > 0
         /\ cfg.kind \in {"packed_c2r", "packed_c2r_leaf"} =>
              /\ ProgramFits(PackedC2R) /\ Len(PackedC2R) > 0
              /\ ProgramFits(PackedC2RFusedLeaf) /\ Len(PackedC2RFusedLeaf) > 0
<1>1. RegionFits(X) /\ RegionFits(Y) /\ StoreKept(Y)
  BY CallerFits
<1>2. \A f : RegionFits(Dense("packed", f, n)) /\ StoreKept(Dense("packed", f, n))
  BY PackedBuffer
<1>3. ASSUME cfg.kind \in {"packed_r2c", "packed_r2c_aiv"}
      PROVE  ProgramFits(PackedR2C) /\ Len(PackedR2C) > 0
  <2>1. cfg.batch = 1 \/ RealIn = n
    BY <1>3, Lengths DEF FallsBack, SparseInput, RealIn
  <2>2. X = Spaced("in", "x", n, RealIn)
    BY <1>3 DEF X, R2CKinds, C2RKinds
  <2>3. RegionFits(Dense("in", "x", n))
    <3>1. CASE RealIn = n
      BY <1>1, <2>2, <3>1 DEF Spaced, Dense
    <3>2. CASE cfg.batch = 1
      <4>1. /\ X.buf = "in" /\ X.w = n /\ X.dist = RealIn /\ (cfg.batch - 1) * RealIn = 0
            /\ (cfg.batch - 1) * n = 0 /\ (Least(cfg.chunk, cfg.batch) - 1) * RealIn = 0
        BY <2>2, <3>2, Lengths, Distances DEF Spaced, Region, Least
      <4>2. n <= Size("in")
        BY <1>1, <4>1, Lengths DEF RegionFits
      <4> QED
        BY <4>1, <4>2, Lengths DEF RegionFits, Dense, Region, Buffers
    <3> QED
      BY <2>1, <3>1, <3>2
  <2>4. StepFits(Child(Dense("in", "x", n), Dense("packed", "packed", n)))
    BY <1>2, <2>3, SingleFits
  <2>5. StepFits(Kernel(<<Dense("packed", "packed", n)>>, <<Y>>))
    BY <1>1, <1>2, SingleFits
  <2> QED
    BY <2>4, <2>5, TwoKernels DEF PackedR2C
<1>4. ASSUME cfg.kind \in {"packed_c2r", "packed_c2r_leaf"}
      PROVE  /\ ProgramFits(PackedC2R) /\ Len(PackedC2R) > 0
             /\ ProgramFits(PackedC2RFusedLeaf) /\ Len(PackedC2RFusedLeaf) > 0
  <2>1. cfg.batch = 1 \/ RealOut = n
    BY <1>4, Lengths DEF FallsBack, SparseOutput, RealOut
  <2>2. Y = Spaced(Out, "y", n, RealOut)
    BY <1>4 DEF Y, R2CKinds, C2RKinds
  <2>3. RegionFits(Dense(Out, "y", n)) /\ StoreKept(Dense(Out, "y", n))
    <3>1. CASE RealOut = n
      BY <1>1, <2>2, <3>1 DEF Spaced, Dense
    <3>2. CASE cfg.batch = 1
      <4>1. /\ Y.buf = Out /\ Y.w = n /\ Y.dist = RealOut /\ (cfg.batch - 1) * RealOut = 0
            /\ (cfg.batch - 1) * n = 0 /\ (Least(cfg.chunk, cfg.batch) - 1) * RealOut = 0
        BY <2>2, <3>2, Lengths, Distances DEF Spaced, Region, Least
      <4>2. n <= Size(Out) /\ Out \in Buffers
        BY <1>1, <4>1, Lengths DEF RegionFits
      <4>3. RegionFits(Dense(Out, "y", n))
        BY <4>1, <4>2, Lengths DEF RegionFits, Dense, Region
      <4>4. StoreKept(Dense(Out, "y", n))
        BY <1>1, <3>2, <4>1, Lengths DEF StoreKept, Dense, Region
      <4> QED
        BY <4>3, <4>4
    <3> QED
      BY <2>1, <3>1, <3>2
  <2>4. StepFits(Kernel(<<X>>, <<Dense("packed", "packed", n)>>))
    BY <1>1, <1>2, SingleFits
  <2>5. StepFits(Child(Dense("packed", "packed", n), Dense(Out, "y", n)))
        /\ StepFits(RowKernel(<<X>>, <<Dense(Out, "y", n)>>))
    BY <1>1, <1>2, <2>3, SingleFits
  <2>6. ProgramFits(PackedC2R) /\ Len(PackedC2R) > 0
    BY <2>4, <2>5, TwoKernels DEF PackedC2R
  <2>7. ProgramFits(PackedC2RFusedLeaf) /\ Len(PackedC2RFusedLeaf) > 0
    BY <2>5, OneKernel DEF PackedC2RFusedLeaf
  <2> QED
    BY <2>6, <2>7
<1> QED
  BY <1>3, <1>4

\* The kinds of node that plans become.
LEMMA KindsListed ==
  ASSUME Configured
  PROVE  cfg.kind \in {"leaf", "r2c_leaf", "c2r_leaf", "bluestein_full", "bluestein_full_r2c",
                       "bluestein_full_c2r", "direct", "rader_leaf", "stockham", "four_step",
                       "generic", "r2c_half_out", "c2r_real_out", "r2c_real_in",
                       "c2r_compact_in", "bluestein_leaf", "bluestein_four",
                       "bluestein_four_r2c", "bluestein_four_c2r", "bluestein", "rader",
                       "rader_boundary", "r2c", "c2r", "packed_r2c", "packed_r2c_aiv",
                       "packed_c2r", "packed_c2r_leaf"}
<1>1. /\ FourStepNodes(cfg) \subseteq {"four_step", "generic"}
      /\ RaderNodes(cfg) \subseteq {"rader_leaf", "rader_boundary", "rader"}
  BY DEF FourStepNodes, RaderNodes
<1>2. BluesteinNodes(cfg) \subseteq {"bluestein_leaf", "bluestein_full", "bluestein",
                                     "bluestein_four"}
  BY DEF BluesteinNodes
<1>3. R2CNodes(cfg) \subseteq R2CKinds /\ C2RNodes(cfg) \subseteq C2RKinds
  BY DEF R2CNodes, C2RNodes, R2CKinds, C2RKinds
<1> QED
  BY <1>1, <1>2, <1>3 DEF Configured, Admits, ComplexNodes, R2CKinds, C2RKinds

\* Every kernel of every node keeps to its buffers.
LEMMA ProgramsFit ==
  ASSUME Configured
  PROVE  ProgramFits(Program) /\ Len(Program) \in Nat \ {0}
<1> DEFINE Goal == ProgramFits(Program) /\ Len(Program) > 0
<1> SUFFICES Goal
  BY DEF ProgramFits
<1>1. CASE FallsBack
  <2>1. Program = IF cfg.kind \in R2CKinds THEN R2C ELSE C2R
    BY <1>1 DEF Program
  <2> QED
    BY <2>1, RealFit
<1>2. CASE ~FallsBack
  <2>1. CASE cfg.kind \in {"leaf", "r2c_leaf", "c2r_leaf", "bluestein_full",
                           "bluestein_full_r2c", "bluestein_full_c2r", "direct", "rader_leaf"}
    <3>1. Program \in {Leaf, RealLeaf, BluesteinFullLeaf, DirectDft, RaderLeaf}
      BY <1>2, <2>1 DEF Program
    <3> QED
      BY <3>1, SimpleFit
  <2>2. CASE cfg.kind = "stockham"
    <3>1. Program = Stockham
      BY <1>2, <2>2 DEF Program
    <3> QED
      BY <2>2, <3>1, StockhamFits
  <2>3. CASE cfg.kind \in {"four_step", "generic", "r2c_half_out", "c2r_real_out",
                           "r2c_real_in", "c2r_compact_in"}
    <3>1. Program \in {FourStepFused, FourStepGeneric, ExpandedFourStep, DirectFourStep}
      BY <1>2, <2>3 DEF Program
    <3>2. cfg.kind \notin TableKinds
      BY <2>3 DEF TableKinds
    <3> QED
      BY <3>1, <3>2, FourStepFit
  <2>4. CASE cfg.kind \in {"bluestein_leaf", "bluestein_four", "bluestein_four_r2c",
                           "bluestein_four_c2r"}
    <3>1. Program \in {BluesteinLeaf, BluesteinFourStep}
      BY <1>2, <2>4 DEF Program
    <3>2. cfg.kind \in TableKinds \ {"bluestein"}
      BY <2>4 DEF TableKinds
    <3> QED
      BY <3>1, <3>2, ConvolutionFit
  <2>5. CASE cfg.kind = "bluestein"
    <3>1. Program = Bluestein
      BY <1>2, <2>5 DEF Program
    <3> QED
      BY <2>5, <3>1, ConvolutionFit
  <2>6. CASE cfg.kind \in {"rader", "rader_boundary"}
    <3>1. Program \in {Rader, RaderBoundary}
      BY <1>2, <2>6 DEF Program
    <3> QED
      BY <2>6, <3>1, RaderFit
  <2>7. CASE cfg.kind \in {"r2c", "c2r"}
    <3>1. Program = IF cfg.kind = "r2c" THEN R2C ELSE C2R
      BY <1>2, <2>7 DEF Program
    <3>2. cfg.kind = "r2c" => cfg.kind \in R2CKinds
      BY DEF R2CKinds
    <3> QED
      BY <3>1, <3>2, RealFit
  <2>8. CASE cfg.kind \in {"packed_r2c", "packed_r2c_aiv"}
    <3>1. Program = PackedR2C
      BY <1>2, <2>8 DEF Program
    <3> QED
      BY <1>2, <2>8, <3>1, PackedFit
  <2>9. CASE cfg.kind \in {"packed_c2r", "packed_c2r_leaf"}
    <3>1. Program \in {PackedC2R, PackedC2RFusedLeaf}
      BY <1>2, <2>9 DEF Program
    <3> QED
      BY <1>2, <2>9, <3>1, PackedFit
  <2> QED
    BY <2>1, <2>2, <2>3, <2>4, <2>5, <2>6, <2>7, <2>8, <2>9, KindsListed
<1> QED
  BY <1>1, <1>2
-----------------------------------------------------------------------------
(* The node under way does not change.                                     *)

LEMMA SameNode ==
  ASSUME UNCHANGED cfg
  PROVE  /\ Program' = Program /\ OuterLoop' = OuterLoop /\ NeedsTable' = NeedsTable
         /\ X' = X /\ Y' = Y /\ Out' = Out /\ Rows' = Rows
         /\ \A b : Size(b)' = Size(b)
         /\ Configured' = Configured
<1> USE UNCHANGED cfg
<1>1. /\ n' = n /\ m' = m /\ half' = half /\ Out' = Out /\ Rows' = Rows
      /\ OuterLoop' = OuterLoop
  BY DEF n, m, half, Out, Rows, OuterLoop
<1>2. RealIn' = RealIn /\ RealOut' = RealOut /\ HalfIn' = HalfIn /\ HalfOut' = HalfOut
  BY <1>1 DEF RealIn, RealOut, HalfIn, HalfOut
<1>3. X' = X /\ Y' = Y
  BY <1>1, <1>2 DEF X, Y, Spaced, Dense, Region
<1>4. \A b : Size(b)' = Size(b)
  BY <1>1, <1>3 DEF Size, Span, RaderWork, BluesteinWork, BatchWork
<1>5. FallsBack' = FallsBack /\ NeedsTable' = NeedsTable
  BY <1>1, <1>2 DEF FallsBack, SparseBluestein, SparseInput, SparseOutput, NeedsTable
<1>6. Configured' = Configured
  BY DEF Configured, Admits, ComplexNodes, R2CNodes, C2RNodes, FourStepNodes, BluesteinNodes,
         RaderNodes, PackedChild
<1>7. EffectiveInput' = EffectiveInput /\ CopyInput' = CopyInput
  BY <1>1, <1>3 DEF EffectiveInput, CopyInput, Dense, Region, Copy, RowKernel, Kernel
<1>8. Stockham' = Stockham
  BY <1>1, <1>3 DEF Stockham, StageTarget, AfterStage, Copy, InChunks, RowKernel, Kernel, Dense, Region
<1>9. Program' = Program
  BY <1>1, <1>2, <1>3, <1>5, <1>7, <1>8 DEF Program, Leaf, FourStepFused, DirectDft,
     FourStepGeneric, Bluestein, BluesteinLeaf, Rader, RaderLeaf, RaderBoundary, R2C, C2R,
     PackedR2C, PackedC2R, PackedC2RFusedLeaf, RealLeaf, ExpandedFourStep, DirectFourStep,
     BluesteinFullLeaf, BluesteinFourStep, InChunks, WithTable, Child, RowKernel, Kernel,
     Dense, Fixed, From, Region
<1> QED
  BY <1>1, <1>3, <1>4, <1>5, <1>6, <1>9
-----------------------------------------------------------------------------
(* The inductive invariant: control, and what it says of the offset.       *)

\* An offset is only left behind by a loop that has more rows to do, and only
\* kernels inside a loop see it.
OffsetInv ==
  /\ offset > 0 => cfg.chunk < cfg.batch
  /\ status = "running" /\ ~OuterLoop /\ ~Step.looped => offset = 0

Sized == DOMAIN mem = Buffers /\ \A b \in Buffers : DOMAIN mem[b] = 0 .. Size(b) - 1

ControlInv ==
  /\ Configured
  /\ call \in 1 .. Calls /\ pc \in 1 .. Len(Program) /\ offset \in 0 .. cfg.batch - 1
  /\ ready \in BOOLEAN /\ table \in {"empty", "spectrum", "spoilt"}
  /\ status \in {"running", "success", "failed"}

IInv == ControlInv /\ OffsetInv /\ Sized /\ ReadyIsComplete

LEMMA GivenSized == \A c : DOMAIN Given(c) = 0 .. Size("in") - 1
  BY DEF Given

LEMMA InitSound == Init => IInv
<1> SUFFICES ASSUME Init PROVE IInv
  OBVIOUS
<1>1. Configured
  BY DEF Init, Configured
<1>2. Len(Program) \in Nat \ {0} /\ cfg.batch \in Nat \ {0}
  BY <1>1, ProgramsFit, Lengths
<1>3. ControlInv
  <2>1. call \in 1 .. Calls /\ pc \in 1 .. Len(Program) /\ offset \in 0 .. cfg.batch - 1
    BY <1>2, CallsType DEF Init
  <2>2. /\ ready \in BOOLEAN /\ table \in {"empty", "spectrum", "spoilt"}
        /\ status \in {"running", "success", "failed"}
    BY DEF Init
  <2> QED
    BY <1>1, <2>1, <2>2 DEF ControlInv
<1>4. OffsetInv /\ ReadyIsComplete
  BY DEF Init, OffsetInv, ReadyIsComplete
<1>5. Sized
  BY GivenSized DEF Init, Sized
<1> QED
  BY <1>3, <1>4, <1>5 DEF IInv

LEMMA StepSound == IInv /\ [Next]_vars => IInv'
<1> SUFFICES ASSUME IInv, [Next]_vars PROVE IInv'
  OBVIOUS
<1>1. UNCHANGED cfg
  BY DEF Next, EnsureTable, TableFails, Launch, LaunchFails, NextCall, vars
<1>2. /\ Configured' /\ Len(Program) \in Nat \ {0} /\ cfg.batch \in Nat \ {0}
      /\ cfg.chunk \in Nat \ {0} /\ Program' = Program /\ OuterLoop' = OuterLoop
      /\ \A b : Size(b)' = Size(b)
  BY <1>1, SameNode, ProgramsFit, Lengths DEF IInv, ControlInv
<1>3. ReadyIsComplete'
  BY DEF Next, EnsureTable, TableFails, Launch, LaunchFails, NextCall, vars, IInv, ReadyIsComplete
<1>4. Sized'
  <2>1. CASE UNCHANGED mem
    BY <1>2, <2>1 DEF IInv, Sized
  <2>2. CASE NextCall
    <3>1. DOMAIN Given(call + 1) = 0 .. Size("in") - 1 /\ "in" \in Buffers
      BY GivenSized DEF Buffers
    <3>2. mem' = [mem EXCEPT !["in"] = Given(call + 1)]
      BY <2>2 DEF NextCall
    <3>3. \A b \in Buffers : DOMAIN mem'[b] = 0 .. Size(b) - 1
      BY <3>1, <3>2 DEF IInv, Sized
    <3> QED
      BY <1>2, <3>2, <3>3 DEF IInv, Sized
  <2>3. CASE mem' \in {Stored(Step), Spoiled(Step)}
    <3>1. DOMAIN mem' = Buffers
      BY <2>3 DEF Stored, Spoiled
    <3>2. \A b \in Buffers : DOMAIN mem'[b] = DOMAIN mem[b]
      BY <2>3 DEF Stored, Spoiled
    <3> QED
      BY <1>2, <3>1, <3>2 DEF IInv, Sized
  <2> QED
    BY <2>1, <2>2, <2>3 DEF Next, EnsureTable, TableFails, Launch, LaunchFails, vars
<1>5. ControlInv' /\ OffsetInv'
  <2> USE <1>2 DEF IInv, ControlInv, OffsetInv, Step
  <2>1. CASE EnsureTable \/ TableFails \/ LaunchFails \/ UNCHANGED vars
    BY <2>1 DEF EnsureTable, TableFails, LaunchFails, vars
  <2>2. CASE NextCall
    BY <2>2, CallsType DEF NextCall
  <2>3. CASE Launch
    <3>1. Advance /\ status = "running" /\ UNCHANGED <<cfg, call, ready, table>>
      BY <2>3 DEF Launch, AtLaunch
    <3>2. ControlInv'
      <4>1. (pc \in 1 .. Len(Program))' /\ (status \in {"running", "success", "failed"})'
        BY <3>1 DEF Advance
      <4>2. (offset \in 0 .. cfg.batch - 1)'
        BY <3>1 DEF Advance
      <4> QED BY <3>1, <4>1, <4>2
    <3>3. OffsetInv'
      <4>1. (offset > 0 => cfg.chunk < cfg.batch)'
        BY <3>1 DEF Advance
      <4>2. (status = "running" /\ ~OuterLoop /\ ~Step.looped => offset = 0)'
        BY <3>1 DEF Advance
      <4> QED BY <4>1, <4>2
    <3> QED BY <3>2, <3>3
  <2> QED
    BY <2>1, <2>2, <2>3 DEF Next
<1> QED
  BY <1>3, <1>4, <1>5 DEF IInv

\* Every behaviour keeps the control, the sizes of the buffers and the state of
\* the convolution table (execute of the one-dimensional nodes, ensure_b_fft).
THEOREM RowsInductive == Spec => []IInv
<1> QED
  BY InitSound, StepSound, PTL DEF Spec
-----------------------------------------------------------------------------
(* Addresses.                                                              *)

\* The rows of a launch are rows of the batch, and of its chunk.
LEMMA RowsOfLaunch ==
  ASSUME IInv, AtLaunch, NEW r \in Launched(Step)
  PROVE  /\ r \in Nat /\ offset \in Nat /\ offset + r <= cfg.batch - 1
         /\ OuterLoop => r <= Least(cfg.chunk, cfg.batch) - 1
<1>1. r \in 0 .. Count(Step) - 1
  BY DEF Launched
<1>2. /\ offset \in 0 .. cfg.batch - 1 /\ cfg.batch \in Nat \ {0} /\ cfg.chunk \in Nat \ {0}
      /\ ~OuterLoop /\ ~Step.looped => offset = 0
  BY Lengths DEF IInv, ControlInv, OffsetInv, AtLaunch
<1>3. CASE Step.looped \/ OuterLoop
  BY <1>1, <1>2, <1>3 DEF Count, Least
<1>4. CASE ~(Step.looped \/ OuterLoop)
  BY <1>1, <1>2, <1>4 DEF Count
<1> QED
  BY <1>3, <1>4

LEMMA AddressFits ==
  ASSUME IInv, AtLaunch, NEW r \in Launched(Step), NEW g, RegionFits(g)
  PROVE  Base(g, r) + g.w <= Size(g.buf)
<1>1. /\ r \in Nat /\ offset \in Nat /\ offset + r <= cfg.batch - 1
      /\ OuterLoop => r <= Least(cfg.chunk, cfg.batch) - 1
  BY RowsOfLaunch
<1>2. cfg.batch - 1 \in Nat /\ Least(cfg.chunk, cfg.batch) - 1 \in Nat
      /\ g.w \in Nat /\ g.dist \in Nat /\ g.step \in Nat /\ g.step <= g.dist
      /\ Configured
  <2>1. Configured
    BY DEF IInv, ControlInv
  <2>2. cfg.batch \in Nat \ {0} /\ cfg.chunk \in Nat \ {0}
    BY <2>1, Lengths
  <2>3. Least(cfg.chunk, cfg.batch) - 1 \in Nat
    BY <2>2 DEF Least
  <2> QED
    BY <2>1, <2>2, <2>3 DEF RegionFits
<1>3. Size(g.buf) \in Nat
  BY <1>2, Lengths, Shapes DEF RegionFits, Size, Buffers, BatchWork, RaderWork, BluesteinWork,
     Span, Most, Least, Out
<1>4. CASE (cfg.batch - 1) * g.dist + g.w <= Size(g.buf)
  <2>1. offset * g.step + r * g.dist <= (cfg.batch - 1) * g.dist
    BY <1>1, <1>2, RowEnds
  <2>2. offset * g.step + r * g.dist \in Nat /\ (cfg.batch - 1) * g.dist \in Nat
    BY <1>1, <1>2
  <2> QED
    BY <1>2, <1>3, <1>4, <2>1, <2>2 DEF Base
<1>5. CASE /\ OuterLoop /\ g.step = 0
           /\ (Least(cfg.chunk, cfg.batch) - 1) * g.dist + g.w <= Size(g.buf)
  <2>1. r * g.dist <= (Least(cfg.chunk, cfg.batch) - 1) * g.dist
    BY <1>1, <1>2, <1>5, Ordered
  <2>2. offset * g.step = 0 /\ r * g.dist \in Nat
        /\ (Least(cfg.chunk, cfg.batch) - 1) * g.dist \in Nat
    BY <1>1, <1>2, <1>5
  <2> QED
    BY <1>2, <1>3, <1>5, <2>1, <2>2 DEF Base
<1> QED
  BY <1>4, <1>5 DEF RegionFits

\* No node, in no layout and at no chunk of the batch, passes a kernel an address
\* outside the workspace the compiler allocated or the caller's rows (execute of
\* the one-dimensional nodes, workspaces of compile_raw_node).
THEOREM AddressesInBounds == Spec => []AccessInBounds
<1>1. IInv => AccessInBounds
  <2> SUFFICES ASSUME IInv PROVE AccessInBounds
    OBVIOUS
  <2>1. TypeOK
    BY DEF IInv, ControlInv, Configured, Sized, TypeOK
  <2>2. StepFits(Step)
    BY ProgramsFit DEF IInv, ControlInv, ProgramFits, Step
  <2>3. ASSUME AtLaunch,
               NEW g \in {Step.ins[j] : j \in DOMAIN Step.ins}
                           \cup {Step.outs[j] : j \in DOMAIN Step.outs},
               NEW r \in Launched(Step)
        PROVE  Base(g, r) + g.w <= Size(g.buf)
    <3>1. RegionFits(g)
      BY <2>2 DEF StepFits, RegionsFit
    <3> QED
      BY <2>3, <3>1, AddressFits
  <2> QED
    BY <2>1, <2>3 DEF AccessInBounds
<1> QED
  BY <1>1, RowsInductive, PTL

\* A convolution table is only marked ready when it holds the whole spectrum, so
\* a call after a failed one computes it again (ensure_b_fft).
THEOREM TablesComplete == Spec => []ReadyIsComplete
<1>1. IInv => ReadyIsComplete
  BY DEF IInv
<1> QED
  BY <1>1, RowsInductive, PTL
-----------------------------------------------------------------------------
(* The caller's memory.                                                    *)

\* The batch of a real-to-complex node fits one launch of its pack step.
Unsplit == \A c \in Configs : c.kind \in R2CKinds => c.batch <= c.chunk

LEMMA BelowWidth ==
  ASSUME NEW d \in Nat \ {0}, NEW w \in Nat, NEW k \in Nat, NEW x \in Nat, x < w
  PROVE  (k * d + x) % d < w
<1>1. CASE x < d
  <2>1. (k * d + x) % d = x
    BY <1>1, PlaceInRow
  <2> QED
    BY <2>1
<1>2. CASE x >= d
  <2>1. k * d + x \in Nat
    OBVIOUS
  <2>2. (k * d + x) % d < d
    BY <2>1
  <2> QED
    BY <1>2, <2>2
<1> QED
  BY <1>1, <1>2

\* Nothing is stored between the rows of the output.
LEMMA GapsSpared ==
  ASSUME IInv, Unsplit, AtLaunch, ~cfg.inPlace, NEW a \in Nat, a % Y.dist >= Y.w
  PROVE  Stores(Step, "out", a) = {}
<1> SUFFICES ASSUME NEW w \in Stores(Step, "out", a) PROVE FALSE
  OBVIOUS
<1> DEFINE g == Step.outs[w[2]]
           r == w[1]
<1>1. /\ r \in Launched(Step) /\ w[2] \in DOMAIN Step.outs
      /\ g.buf = "out" /\ a - Base(g, r) \in g.lo .. g.w - 1
  BY DEF Stores, Words
<1>2. RegionFits(g) /\ StoreKept(g)
  BY <1>1, ProgramsFit DEF IInv, ControlInv, ProgramFits, Step, StepFits, RegionsFit, StoresKept
<1> HIDE DEF g, r
<1>3. /\ r \in Nat /\ offset \in Nat /\ offset + r <= cfg.batch - 1
  BY <1>1, RowsOfLaunch
<1>4. Configured /\ cfg \in Configs
  BY DEF IInv, ControlInv, Configured
<1>5. /\ Y.dist \in Nat \ {0} /\ Y.w \in Nat /\ cfg.batch \in Nat \ {0} /\ cfg.chunk \in Nat \ {0}
      /\ g.lo \in Nat /\ g.w \in Nat /\ g.dist \in Nat /\ g.step \in Nat
  BY <1>2, <1>4, Lengths, Shapes DEF RegionFits
<1>6. PICK k \in Nat : Base(g, r) = k * Y.dist
  <2>1. CASE cfg.batch = 1
    <3>1. r = 0 /\ offset = 0
      BY <1>3, <2>1
    <3>2. Base(g, r) = 0 * Y.dist
      BY <1>5, <3>1 DEF Base
    <3> QED
      BY <3>2
  <2>2. CASE g.dist = Y.dist /\ g.step = Y.dist
    <3>1. Base(g, r) = (offset + r) * Y.dist
      BY <1>3, <1>5, <2>2 DEF Base
    <3> QED
      BY <1>3, <3>1
  <2>3. CASE g.dist = Y.dist /\ cfg.kind \in R2CKinds
    <3>1. cfg.batch <= cfg.chunk
      BY <1>4, <2>3 DEF Unsplit
    <3>2. offset = 0
      BY <1>3, <1>5, <3>1 DEF IInv, OffsetInv
    <3>3. Base(g, r) = r * Y.dist
      BY <1>3, <1>5, <2>3, <3>2 DEF Base
    <3> QED
      BY <1>3, <3>3
  <2> QED
    BY <1>1, <1>2, <2>1, <2>2, <2>3 DEF StoreKept
<1>7. PICK x \in Nat : a = k * Y.dist + x /\ x < Y.w
  <2> DEFINE x == a - Base(g, r)
  <2>1. g.w <= Y.w /\ k * Y.dist \in Nat
    BY <1>1, <1>2, <1>5, <1>6 DEF StoreKept
  <2>2. x \in Nat /\ x < g.w
    BY <1>1, <1>5, <1>6, <2>1
  <2>3. a = k * Y.dist + x /\ x < Y.w
    BY <1>5, <1>6, <2>1, <2>2
  <2> QED
    BY <2>2, <2>3
<1>8. a % Y.dist < Y.w
  BY <1>5, <1>7, BelowWidth
<1> QED
  BY <1>5, <1>8

\* The input of a call, whichever call it is.
LEMMA SameInput ==
  ASSUME UNCHANGED cfg, NEW c, c = call'
  PROVE  Given(call)' = Given(c)
<1>1. X' = X /\ Rows' = Rows /\ Size("in")' = Size("in")
  BY SameNode
<1> QED
  BY <1>1 DEF Given, Cell, Junk

LEMMA InputSpared ==
  ASSUME IInv, AtLaunch, ~cfg.inPlace
  PROVE  "in" \notin Targets(Step)
<1>1. StoresKept(Step.outs)
  BY ProgramsFit DEF IInv, ControlInv, ProgramFits, Step, StepFits
<1> QED
  BY <1>1 DEF StoresKept, StoreKept, Targets

LEMMA KeptStep ==
  ASSUME IInv, Unsplit, CallerMemoryKept, [Next]_vars
  PROVE  CallerMemoryKept'
<1>1. UNCHANGED cfg
  BY DEF Next, EnsureTable, TableFails, Launch, LaunchFails, NextCall, vars
<1> SUFFICES ASSUME ~cfg.inPlace, NEW c, c = call'
             PROVE  /\ mem'["in"] = Given(c)
                    /\ \A a \in DOMAIN mem'["out"] :
                          a % Y.dist >= Y.w => mem'["out"][a] = Junk
  <2>1. Y' = Y /\ Given(call)' = Given(call')
    BY <1>1, SameNode, SameInput
  <2> QED
    BY <1>1, <2>1 DEF CallerMemoryKept, Junk
<1>2. /\ mem["in"] = Given(call)
      /\ \A a \in DOMAIN mem["out"] : a % Y.dist >= Y.w => mem["out"][a] = Junk
      /\ DOMAIN mem = Buffers /\ "in" \in Buffers /\ "out" \in Buffers
  BY DEF CallerMemoryKept, IInv, Sized, Buffers
<1>3. DOMAIN mem["out"] \subseteq Nat
  <2>1. DOMAIN mem["out"] = 0 .. Size("out") - 1
    BY DEF IInv, Sized, Buffers
  <2>2. Size("out") \in Int
    <3>1. Y.w \in Nat /\ Y.dist \in Nat /\ cfg.batch \in Nat
      BY Lengths, Shapes DEF IInv, ControlInv
    <3>2. Span(Y) \in Int
      BY <3>1 DEF Span
    <3> QED
      BY <3>2 DEF Size
  <2> QED
    BY <2>1, <2>2
<1>4. CASE UNCHANGED <<mem, call>>
  BY <1>2, <1>4
<1>5. CASE NextCall
  BY <1>2, <1>5 DEF NextCall
<1>6. CASE AtLaunch /\ mem' \in {Stored(Step), Spoiled(Step)} /\ UNCHANGED call
  <2>1. "in" \notin Targets(Step)
    BY <1>6, InputSpared
  <2>2. mem'["in"] = mem["in"]
    BY <1>2, <1>6, <2>1 DEF Stored, Spoiled
  <2>3. DOMAIN mem'["out"] = DOMAIN mem["out"]
    BY <1>2, <1>6 DEF Stored, Spoiled
  <2>4. ASSUME NEW a \in DOMAIN mem["out"], a % Y.dist >= Y.w
        PROVE  mem'["out"][a] = Junk
    <3>1. Stores(Step, "out", a) = {}
      BY <1>3, <1>6, <2>4, GapsSpared
    <3>2. Stored(Step)["out"][a] = mem["out"][a]
      BY <1>2, <2>4, <3>1 DEF Stored
    <3>3. Spoiled(Step)["out"][a] = mem["out"][a]
      BY <1>2, <2>4, <3>1 DEF Spoiled
    <3> QED
      BY <1>2, <1>6, <2>4, <3>2, <3>3
  <2> QED
    BY <1>2, <1>6, <2>2, <2>3, <2>4
<1> QED
  BY <1>4, <1>5, <1>6 DEF Next, EnsureTable, TableFails, Launch, LaunchFails, vars

\* Out of place, no one-dimensional node writes the caller's input or the gaps of
\* a padded output, as long as no real-to-complex batch is so large that its pack
\* step is split (execute of the one-dimensional nodes).
THEOREM CallersKept ==
  ASSUME Unsplit
  PROVE  Spec => []CallerMemoryKept
<1>1. Init => CallerMemoryKept
  BY DEF Init, CallerMemoryKept, Buffers
<1>2. IInv /\ CallerMemoryKept /\ [Next]_vars => CallerMemoryKept'
  BY KeptStep
<1> QED
  BY <1>1, <1>2, RowsInductive, PTL DEF Spec
-----------------------------------------------------------------------------
(* Rows of data: which regions hold each row while a node works on it.     *)

\* The regions put every row in the same place.
SamePlace(g, h) ==
  \/ cfg.batch = 1
  \/ g.dist = h.dist /\ (g.step = h.step \/ cfg.batch <= cfg.chunk)

\* The regions name the same words in the same form.
Alike(g, h) ==
  g.buf = h.buf /\ g.form = h.form /\ g.lo = h.lo /\ g.w = h.w /\ SamePlace(g, h)

\* Different rows of the two regions have no word in common.
Beside(g, h) ==
  SamePlace(g, h) /\ (cfg.batch = 1 \/ (g.w <= g.dist /\ h.w <= g.dist))

\* A store into h spares g.
Spares(h, g) ==
  g.buf # h.buf \/ (Beside(g, h) /\ (g.w <= h.lo \/ h.w <= g.lo))

\* Word where row q starts when the batch loop is at row o.
Place(g, o, q) == o * g.step + (q - o) * g.dist

\* Memory mm holds row q of call c in region g.
Holds(mm, c, o, g, q) ==
  \A i \in Words(g) :
    /\ Place(g, o, q) + i \in DOMAIN mm[g.buf]
    /\ mm[g.buf][Place(g, o, q) + i] = Cell(c, q, g.form, i)

Typed(g) ==
  g.buf \in Buffers /\ g.lo \in Nat /\ g.w \in Nat /\ g.dist \in Nat /\ g.step \in Nat

\* The sum of a Rader transform's input, and the regions its kernels use once
\* more later.
First == [Y EXCEPT !.w = 2]
Later(p) ==
  IF cfg.kind # "rader" THEN {}
  ELSE {EffectiveInput} \cup (IF p > Len(CopyInput) + 3 THEN {First} ELSE {})

Inputs(s) == {s.ins[j] : j \in DOMAIN s.ins}

\* What a row that waits for step p has to be held in; the step after the last
\* is the caller's.
Needs(p) ==
  IF p = 1 THEN {X}
  ELSE IF p <= Len(Program) THEN Inputs(Program[p]) \cup Later(p)
  ELSE IF cfg.kind = "rader" THEN {First, From(Y, 2)} ELSE {Y}

\* The step row q waits for.
Phase(st, p, o, q) ==
  IF st = "success" THEN Len(Program) + 1
  ELSE IF OuterLoop
  THEN IF q < o THEN Len(Program) + 1
       ELSE IF q < o + Least(cfg.chunk, cfg.batch - o) THEN p ELSE 1
  ELSE IF q < o THEN p + 1 ELSE p

DataOf(mm, c, st, p, o) ==
  st # "failed" =>
    \A q \in Rows : \A g \in Needs(Phase(st, p, o, q)) : Holds(mm, c, o, g, q)

DataInv == DataOf(mem, call, status, pc, offset)

\* What a step finds and leaves, and what it spares: the regions of the rows
\* that wait for it with N, and go on with M.
Finds(s, N) ==
  /\ 1 \in DOMAIN s.ins
  /\ s.table => NeedsTable
  /\ \A j \in DOMAIN s.ins :
        s.ins[j].lo = 0 /\ s.ins[j].w > 0 /\ \E g \in N : Alike(g, s.ins[j])
  /\ \A i \in DOMAIN s.ins, j \in DOMAIN s.outs :
        \/ s.ins[i].buf # s.outs[j].buf
        \/ ~s.spread /\ Beside(s.ins[i], s.outs[j])

Leaves(s, N, M) ==
  /\ \A j \in DOMAIN s.outs : s.outs[j].w > 0 /\ Beside(s.outs[j], s.outs[j])
  /\ \A j, k \in DOMAIN s.outs : j # k => s.outs[j].buf # s.outs[k].buf
  /\ \A g \in M : \/ \E j \in DOMAIN s.outs : Alike(g, s.outs[j])
                  \/ g \in N /\ \A j \in DOMAIN s.outs : Spares(s.outs[j], g)

\* The rows outside the chunk of the launch.
Idle(s, N, M) == IF OuterLoop THEN Needs(1) \cup Needs(Len(Program) + 1)
                 ELSE IF s.looped THEN N \cup M ELSE {}

SparesIdle(s, I) ==
  \A j \in DOMAIN s.outs : \A g \in I : g.buf # s.outs[j].buf \/ Beside(g, s.outs[j])

\* Only the generic Bluestein node has buffers that do not follow the batch.
Steady(p) ==
  \A g \in Needs(p) : Typed(g) /\ (g.step = g.dist \/ (OuterLoop /\ p > 1 /\ p <= Len(Program)))

Chained ==
  /\ \A p \in 1 .. Len(Program) + 1 : Steady(p)
  /\ \A p \in 1 .. Len(Program) :
        LET s == Program[p]
            N == Needs(p)
            M == Needs(p + 1)
        IN  Finds(s, N) /\ Leaves(s, N, M) /\ SparesIdle(s, Idle(s, N, M))

\* The rows of a layout do not overlap, rows that a real leaf transforms in place
\* start at the same place, and the general real node's pack step is one launch:
\* when it is split its chunks are stored at half their offset. SupportedLayout
\* below shows that is_supported_minimal_desc only admits such layouts.
Sound ==
  /\ X.w <= X.dist /\ Y.w <= Y.dist
  /\ cfg.inPlace /\ cfg.kind \in {"r2c_leaf", "c2r_leaf"} => X.dist = Y.dist
  /\ cfg.kind \in R2CKinds /\ (cfg.kind = "r2c" \/ FallsBack) => cfg.batch <= cfg.chunk
-----------------------------------------------------------------------------
(* Where rows lie.                                                         *)

\* Words of different rows differ when no row is wider than its distance.
LEMMA RowsApart ==
  ASSUME NEW q \in Int, NEW r \in Int, q # r, NEW d \in Nat,
         NEW i \in 0 .. d - 1, NEW j \in 0 .. d - 1
  PROVE  q * d + i # r * d + j
<1>1. ASSUME NEW x \in Int, NEW y \in Int, x < y, NEW k \in 0 .. d - 1
      PROVE  x * d + k < y * d
  <2>1. 1 * d <= (y - x) * d
    <3>1. y - x \in Nat /\ 1 <= y - x
      BY <1>1
    <3> QED
      BY <3>1, Ordered
  <2>2. (y - x) * d = y * d - x * d
    BY <1>1
  <2>3. x * d \in Int /\ y * d \in Int
    BY <1>1
  <2> QED
    BY <2>1, <2>2, <2>3
<1>2. q * d \in Int /\ r * d \in Int
  OBVIOUS
<1>3. CASE q < r
  <2>1. q * d + i < r * d
    BY <1>1, <1>3
  <2> QED
    BY <1>2, <2>1
<1>4. CASE r < q
  <2>1. r * d + j < q * d
    BY <1>1, <1>4
  <2> QED
    BY <1>2, <2>1
<1> QED
  BY <1>3, <1>4

\* A batch that fits one chunk has no offset.
LEMMA NoOffset ==
  ASSUME IInv
  PROVE  /\ offset \in Nat /\ cfg.batch \in Nat \ {0} /\ cfg.chunk \in Nat \ {0}
         /\ offset < cfg.batch
         /\ cfg.batch <= cfg.chunk => offset = 0
         /\ cfg.batch = 1 => offset = 0
  BY Lengths DEF IInv, ControlInv, OffsetInv

\* Regions with rows in the same place keep them there at every offset.
LEMMA PlacesAgree ==
  ASSUME IInv, NEW g, NEW h, Typed(g), Typed(h), SamePlace(g, h), NEW q \in Rows
  PROVE  Place(g, offset, q) = Place(h, offset, q)
<1>1. q \in Nat /\ q < cfg.batch
  BY NoOffset DEF Rows
<1>2. CASE cfg.batch = 1
  <2>1. q = 0 /\ offset = 0
    BY <1>1, <1>2, NoOffset
  <2> QED
    BY <2>1 DEF Place, Typed
<1>3. CASE g.dist = h.dist /\ g.step = h.step
  BY <1>3 DEF Place
<1>4. CASE g.dist = h.dist /\ cfg.batch <= cfg.chunk
  <2>1. offset = 0
    BY <1>4, NoOffset
  <2> QED
    BY <1>1, <1>4, <2>1 DEF Place, Typed
<1> QED
  BY <1>2, <1>3, <1>4 DEF SamePlace

\* Rows side by side have no word in common.
LEMMA BesideApart ==
  ASSUME IInv, NEW g, NEW h, Typed(g), Typed(h), Beside(g, h),
         NEW q \in Rows, NEW r \in Rows, q # r,
         NEW i \in Nat, i < g.w, NEW j \in Nat, j < h.w
  PROVE  Place(g, offset, q) + i # Place(h, offset, r) + j
<1>1. q \in Nat /\ q < cfg.batch /\ r \in Nat /\ r < cfg.batch /\ offset \in Nat
  BY NoOffset DEF Rows
<1>2. g.w <= g.dist /\ h.w <= g.dist
  <2>1. cfg.batch # 1
    BY <1>1
  <2> QED
    BY <2>1 DEF Beside
<1>3. Place(h, offset, r) = Place(g, offset, r)
  BY PlacesAgree DEF Beside, SamePlace
<1>4. q * g.dist + i # r * g.dist + j
  <2>1. i \in 0 .. g.dist - 1 /\ j \in 0 .. g.dist - 1 /\ g.dist \in Nat
    BY <1>2 DEF Typed
  <2> QED
    BY <1>1, <2>1, RowsApart
<1>5. /\ Place(g, offset, q) = (offset * g.step - offset * g.dist) + q * g.dist
      /\ Place(g, offset, r) = (offset * g.step - offset * g.dist) + r * g.dist
      /\ offset * g.step - offset * g.dist \in Int
      /\ q * g.dist \in Int /\ r * g.dist \in Int
  BY <1>1 DEF Place, Typed
<1> QED
  BY <1>3, <1>4, <1>5

\* A store into a region that spares another stays out of it.
LEMMA SparesApart ==
  ASSUME IInv, NEW g, NEW h, Typed(g), Typed(h), Spares(h, g), g.buf = h.buf,
         NEW q \in Rows, NEW r \in Rows, NEW i \in Words(g), NEW j \in Words(h)
  PROVE  Place(g, offset, q) + i # Place(h, offset, r) + j
<1>1. /\ i \in Nat /\ i < g.w /\ g.lo <= i /\ j \in Nat /\ j < h.w /\ h.lo <= j
      /\ Beside(g, h) /\ (g.w <= h.lo \/ h.w <= g.lo)
  BY DEF Words, Typed, Spares
<1>2. CASE q # r
  BY <1>1, <1>2, BesideApart
<1>3. CASE q = r
  <2>1. Place(h, offset, r) = Place(g, offset, q)
    BY <1>1, <1>3, PlacesAgree DEF Beside, SamePlace
  <2>2. Place(g, offset, q) \in Int /\ i # j
    BY <1>1, NoOffset DEF Place, Typed, Rows
  <2> QED
    BY <1>1, <2>1, <2>2
<1> QED
  BY <1>2, <1>3
-----------------------------------------------------------------------------
(* The rows of a launch.                                                   *)

\* Row q of the batch is one of this launch.
InChunk(q) == offset <= q /\ (OuterLoop \/ Step.looped => q < offset + cfg.chunk)

\* No row of a launch is masked.
LEMMA Unmasked ==
  ASSUME NEW c \in Nat, NEW p \in Nat \ {0}, NEW r \in 0 .. c - 1
  PROVE  r \div p < CeilDiv(c, p)
<1> DEFINE k == r \div p
<1>1. k \in Nat /\ k * p <= r
  OBVIOUS
<1> HIDE DEF k
<1>2. (k + 1) * p <= c + p - 1
  <2>1. (k + 1) * p = k * p + p
    BY <1>1
  <2>2. k * p \in Nat
    BY <1>1
  <2> QED
    BY <1>1, <2>1, <2>2
<1>3. k + 1 <= (c + p - 1) \div p
  <2> DEFINE t == c + p - 1
  <2>1. t \in Nat
    OBVIOUS
  <2> HIDE DEF t
  <2>2. t \div p \in Nat /\ t < (t \div p + 1) * p
    BY <2>1
  <2>3. ~(t \div p + 1 <= k + 1)
    <3>1. t \div p + 1 \in Nat /\ k + 1 \in Nat
      BY <1>1, <2>2
    <3>2. (k + 1) * p \in Nat /\ (t \div p + 1) * p \in Nat
      BY <3>1
    <3> QED
      BY <1>2, <2>1, <2>2, <3>1, <3>2, Ordered DEF t
  <2> QED
    BY <1>1, <2>2, <2>3 DEF t
<1> QED
  BY <1>1, <1>3 DEF CeilDiv, k

\* Every row of the chunk is one that the launch counts from its offset.
LEMMA RowOfChunk ==
  ASSUME IInv, AtLaunch, NEW r \in Launched(Step)
  PROVE  /\ r \in Nat /\ offset + r \in Rows /\ InChunk(offset + r)
         /\ Phase(status, pc, offset, offset + r) = pc
         /\ \A g : Typed(g) => Place(g, offset, offset + r) = Base(g, r)
<1>1. r \in Nat /\ offset \in Nat /\ offset + r <= cfg.batch - 1 /\ r <= Count(Step) - 1
  BY RowsOfLaunch DEF Launched, Count
<1>2. offset + r \in Rows
  BY <1>1, NoOffset DEF Rows
<1>3. OuterLoop \/ Step.looped => Count(Step) = Least(cfg.chunk, cfg.batch - offset)
  BY DEF Count
<1>4. InChunk(offset + r)
  BY <1>1, <1>3, NoOffset DEF InChunk, Least
<1>5. Phase(status, pc, offset, offset + r) = pc
  BY <1>1, <1>3, NoOffset DEF Phase, AtLaunch, Least
<1>6. \A g : Typed(g) => Place(g, offset, offset + r) = Base(g, r)
  BY <1>1 DEF Place, Base, Typed
<1> QED
  BY <1>1, <1>2, <1>4, <1>5, <1>6

\* A launch runs every row of its chunk.
LEMMA ChunkLaunched ==
  ASSUME IInv, AtLaunch, NEW q \in Rows, InChunk(q)
  PROVE  q - offset \in Launched(Step)
<1>1. q \in Nat /\ q < cfg.batch /\ offset <= q
  BY NoOffset DEF Rows, InChunk
<1>2. OuterLoop \/ Step.looped => q < offset + cfg.chunk
  BY DEF InChunk
<1>3. ~OuterLoop /\ ~Step.looped => offset = 0
  BY DEF IInv, OffsetInv, AtLaunch
<1>4. q - offset \in 0 .. Count(Step) - 1 /\ Count(Step) \in Nat
  BY <1>1, <1>2, <1>3, NoOffset DEF Count, Least
<1>5. cfg.pack \in Nat \ {0}
  BY Lengths DEF IInv, ControlInv
<1> QED
  BY <1>4, <1>5, Unmasked DEF Launched

\* Every buffer of a node has a size.
LEMMA SizeTyped ==
  ASSUME Configured, NEW b \in Buffers
  PROVE  Size(b) \in Nat
<1>1. /\ 2 * (n - 1) * cfg.batch \in Nat /\ 2 * m * cfg.batch \in Nat
      /\ 2 * m * Least(cfg.chunk, cfg.batch) \in Nat /\ 2 * n * cfg.batch \in Nat
      /\ n * cfg.batch \in Nat
  BY Lengths DEF Least
<1>2. Span(X) \in Nat /\ Span(Y) \in Nat
  BY Lengths, Shapes DEF Span
<1> QED
  BY <1>1, <1>2 DEF Size, Buffers, BatchWork, RaderWork, BluesteinWork, Most

\* The regions of a step that fits are typed.
LEMMA StepTyped ==
  ASSUME IInv
  PROVE  /\ \A j \in DOMAIN Step.ins : Typed(Step.ins[j]) /\ RegionFits(Step.ins[j])
         /\ \A j \in DOMAIN Step.outs : Typed(Step.outs[j]) /\ RegionFits(Step.outs[j])
<1>1. StepFits(Step)
  BY ProgramsFit DEF IInv, ControlInv, ProgramFits, Step
<1> QED
  BY <1>1 DEF StepFits, RegionsFit, RegionFits, Typed

\* What the chain says of the step under way.
LEMMA StepLinked ==
  ASSUME IInv, Chained
  PROVE  /\ Finds(Step, Needs(pc)) /\ Leaves(Step, Needs(pc), Needs(pc + 1))
         /\ SparesIdle(Step, Idle(Step, Needs(pc), Needs(pc + 1)))
         /\ pc \in Nat \ {0} /\ pc <= Len(Program) /\ Len(Program) \in Nat \ {0}
         /\ \A p \in 1 .. Len(Program) + 1 : Steady(p)
  BY ProgramsFit DEF IInv, ControlInv, Chained, Step
-----------------------------------------------------------------------------
(* What a launch finds.                                                    *)

\* A row held in a launch's input is what the launch loads.
LEMMA RowRead ==
  ASSUME IInv, DataInv, Chained, AtLaunch, NEW r \in Launched(Step),
         NEW j \in DOMAIN Step.ins, NEW i \in Words(Step.ins[j])
  PROVE  Load(Step.ins[j].buf, Base(Step.ins[j], r) + i)
           = Cell(call, offset + r, Step.ins[j].form, i)
<1> DEFINE h == Step.ins[j]
<1>1. PICK g \in Needs(pc) : Alike(g, h)
  BY StepLinked DEF Finds
<1>2. Typed(g) /\ Typed(h)
  BY StepLinked, StepTyped DEF Steady
<1> HIDE DEF h
<1>3. Holds(mem, call, offset, g, offset + r)
  BY <1>1, RowOfChunk DEF DataInv, DataOf, AtLaunch
<1>4. Place(g, offset, offset + r) = Base(h, r)
  BY <1>1, <1>2, RowOfChunk, PlacesAgree DEF Alike
<1>5. i \in Words(g)
  BY <1>1 DEF Alike, Words, h
<1>6. /\ Place(g, offset, offset + r) + i \in DOMAIN mem[g.buf]
      /\ mem[g.buf][Place(g, offset, offset + r) + i] = Cell(call, offset + r, g.form, i)
  BY <1>3, <1>5 DEF Holds
<1>7. /\ Base(h, r) + i \in DOMAIN mem[h.buf]
      /\ mem[h.buf][Base(h, r) + i] = Cell(call, offset + r, h.form, i)
  BY <1>1, <1>4, <1>6 DEF Alike
<1> QED
  BY <1>7 DEF Load, h

\* No other row of the launch stores where a row is still to be loaded.
LEMMA RowsFree ==
  ASSUME IInv, Chained, AtLaunch, NEW r \in Launched(Step), NEW q \in Launched(Step),
         q # r \/ Step.spread
  PROVE  ~Meets(Step, r, q)
<1> SUFFICES ASSUME NEW i \in DOMAIN Step.ins, NEW j \in DOMAIN Step.outs,
                    Step.ins[i].buf = Step.outs[j].buf
             PROVE  ~(/\ Base(Step.ins[i], r) < Base(Step.outs[j], q) + Step.outs[j].w
                      /\ Base(Step.outs[j], q) + Step.outs[j].lo
                           < Base(Step.ins[i], r) + Step.ins[i].w)
  BY DEF Meets
<1> DEFINE g == Step.ins[i]
           h == Step.outs[j]
<1>1. ~Step.spread /\ Beside(g, h) /\ Typed(g) /\ Typed(h)
  BY StepLinked, StepTyped DEF Finds
<1>2. q # r
  BY <1>1
<1> HIDE DEF g, h
<1>3. /\ offset + r \in Rows /\ offset + q \in Rows
      /\ q \in Nat /\ r \in Nat /\ offset \in Nat
  BY RowOfChunk, NoOffset
<1>4. ASSUME NEW x \in Nat, x < g.w, NEW y \in Nat, y < h.w
      PROVE  Base(g, r) + x # Base(h, q) + y
  <2>1. offset + r # offset + q
    BY <1>2, <1>3
  <2>2. Place(g, offset, offset + r) + x # Place(h, offset, offset + q) + y
    BY <1>1, <1>3, <1>4, <2>1, BesideApart
  <2> QED
    BY <1>1, <2>2, RowOfChunk
<1>5. Base(g, r) \in Int /\ Base(h, q) \in Int /\ g.w \in Nat /\ h.w \in Nat /\ h.lo \in Nat
  BY <1>1, <1>3 DEF Base, Typed
<1>6. g.w > 0 /\ h.w > 0
  BY StepLinked DEF Finds, Leaves, g, h
<1>7. ASSUME Base(g, r) < Base(h, q) + h.w, Base(h, q) + h.lo < Base(g, r) + g.w
      PROVE  FALSE
  <2> DEFINE a == Base(g, r)
             b == Base(h, q)
  <2>1. a \in Int /\ b \in Int /\ a < b + h.w /\ b < a + g.w
    BY <1>5, <1>7
  <2> HIDE DEF a, b
  <2>2. CASE a >= b
    <3>1. a - b \in Nat /\ a - b < h.w /\ a + 0 = b + (a - b)
      BY <1>5, <2>1, <2>2
    <3> QED
      BY <1>4, <1>5, <1>6, <3>1 DEF a, b
  <2>3. CASE a < b
    <3>1. b - a \in Nat /\ b - a < g.w /\ a + (b - a) = b + 0
      BY <1>5, <2>1, <2>3
    <3> QED
      BY <1>4, <1>5, <1>6, <3>1 DEF a, b
  <2> QED
    BY <2>1, <2>2, <2>3
<1> QED
  BY <1>7 DEF g, h

\* A launch finds each of its rows whole, and of the call under way.
LEMMA RowFound ==
  ASSUME IInv, DataInv, Chained, AtLaunch, NEW r \in Launched(Step)
  PROVE  Found(Step, r) = <<call, offset + r>>
<1> DEFINE head == Load(Step.ins[1].buf, Base(Step.ins[1], r))
<1>1. head = Cell(call, offset + r, Step.ins[1].form, 0)
  <2>1. 1 \in DOMAIN Step.ins /\ Step.ins[1].lo = 0 /\ Step.ins[1].w > 0
    BY StepLinked DEF Finds
  <2>2. Typed(Step.ins[1])
    BY <2>1, StepTyped
  <2>3. 0 \in Words(Step.ins[1])
    BY <2>1, <2>2 DEF Words, Typed
  <2>4. Base(Step.ins[1], r) + 0 = Base(Step.ins[1], r)
    BY <2>2, NoOffset, RowOfChunk DEF Base, Typed
  <2>5. Load(Step.ins[1].buf, Base(Step.ins[1], r) + 0)
          = Cell(call, offset + r, Step.ins[1].form, 0)
    BY <2>1, <2>3, RowRead
  <2> QED
    BY <2>4, <2>5
<1>2. head[1] = call /\ head[2] = offset + r
  BY <1>1 DEF Cell
<1> HIDE DEF head
<1>3. \A j \in DOMAIN Step.ins : \A i \in Words(Step.ins[j]) :
         Load(Step.ins[j].buf, Base(Step.ins[j], r) + i)
           = Cell(head[1], head[2], Step.ins[j].form, i)
  BY <1>2, RowRead
<1>4. ~ \E q \in Launched(Step) : (q # r \/ Step.spread) /\ Meets(Step, r, q)
  BY RowsFree
<1>5. Step.table => table = "spectrum"
  BY StepLinked DEF Finds, AtLaunch, IInv, ReadyIsComplete
<1> QED
  BY <1>2, <1>3, <1>4, <1>5 DEF Found, head
-----------------------------------------------------------------------------
(* What a launch stores.                                                   *)

\* Only one row stores in each word.
LEMMA SoleStore ==
  ASSUME IInv, Chained, AtLaunch, NEW r \in Launched(Step),
         NEW j \in DOMAIN Step.outs, NEW i \in Words(Step.outs[j])
  PROVE  Stores(Step, Step.outs[j].buf, Base(Step.outs[j], r) + i) = {<<r, j>>}
<1> DEFINE h == Step.outs[j]
           a == Base(h, r) + i
<1>1. /\ Typed(h) /\ Beside(h, h)
      /\ \A k \in DOMAIN Step.outs : j # k => h.buf # Step.outs[k].buf
  BY StepLinked, StepTyped DEF Leaves
<1>2. /\ offset \in Nat /\ r \in Nat /\ offset + r \in Rows
      /\ Place(h, offset, offset + r) = Base(h, r) /\ Base(h, r) \in Int
  BY <1>1, NoOffset, RowOfChunk DEF Base, Typed
<1>3. i \in Nat /\ i < h.w /\ i \in Words(h) /\ a - Base(h, r) = i
  BY <1>1, <1>2 DEF Words, Typed
<1>4. ASSUME NEW w \in Stores(Step, h.buf, a)
      PROVE  w = <<r, j>>
  <2>1. /\ w \in Launched(Step) \X DOMAIN Step.outs
        /\ Step.outs[w[2]].buf = h.buf
        /\ a - Base(Step.outs[w[2]], w[1]) \in Words(Step.outs[w[2]])
    BY <1>4 DEF Stores
  <2>2. w[2] = j /\ w[1] \in Launched(Step) /\ w = <<w[1], w[2]>>
    BY <1>1, <2>1
  <2> DEFINE q == w[1]
  <2>3. a - Base(h, q) \in Words(h)
    BY <2>1, <2>2
  <2>4. /\ q \in Nat /\ offset + q \in Rows
        /\ Place(h, offset, offset + q) = Base(h, q) /\ Base(h, q) \in Int
    BY <1>1, <1>2, <2>2, RowOfChunk DEF Base, Typed
  <2> HIDE DEF q
  <2>5. a - Base(h, q) \in Nat /\ a - Base(h, q) < h.w
    BY <1>1, <1>2, <1>3, <2>3, <2>4 DEF Words, Typed
  <2>6. ASSUME q # r PROVE FALSE
    <3>1. offset + r # offset + q
      BY <1>2, <2>4, <2>6
    <3>2. Place(h, offset, offset + r) + i # Place(h, offset, offset + q) + (a - Base(h, q))
      BY <1>1, <1>2, <1>3, <2>4, <2>5, <3>1, BesideApart
    <3> QED
      BY <1>2, <1>3, <2>4, <3>2
  <2> QED
    BY <2>2, <2>6 DEF q
<1>5. <<r, j>> \in Stores(Step, h.buf, a)
  BY <1>3 DEF Stores
<1> QED
  BY <1>4, <1>5

\* A launch stores each row it found, whole and at its place, in its next form.
LEMMA RowStored ==
  ASSUME IInv, DataInv, Chained, AtLaunch, NEW r \in Launched(Step),
         NEW j \in DOMAIN Step.outs, NEW i \in Words(Step.outs[j]),
         NEW a, a = Base(Step.outs[j], r) + i
  PROVE  /\ a \in DOMAIN Stored(Step)[Step.outs[j].buf]
         /\ Stored(Step)[Step.outs[j].buf][a]
              = Cell(call, offset + r, Step.outs[j].form, i)
<1> DEFINE h == Step.outs[j]
           b == h.buf
<1>1. Typed(h) /\ RegionFits(h)
  BY StepTyped
<1>2. /\ r \in Nat /\ offset \in Nat /\ Base(h, r) \in Nat /\ a - Base(h, r) = i
      /\ i \in Nat /\ i < h.w
  BY <1>1, NoOffset, RowOfChunk DEF Base, Typed, Words
<1>3. a \in DOMAIN mem[b] /\ b \in Buffers
  <2>1. Base(h, r) + h.w <= Size(b)
    BY <1>1, AddressFits
  <2>2. Size(b) \in Nat
    BY <1>1, SizeTyped DEF Typed, IInv, ControlInv
  <2>3. DOMAIN mem[b] = 0 .. Size(b) - 1 /\ b \in Buffers
    BY <1>1 DEF Typed, IInv, Sized
  <2> QED
    BY <1>1, <1>2, <2>1, <2>2, <2>3 DEF Typed
<1>4. b \in Targets(Step)
  BY DEF Targets
<1>5. Stores(Step, b, a) = {<<r, j>>}
  BY SoleStore
<1>6. Found(Step, r) = <<call, offset + r>> /\ call # 0
  BY RowFound, CallsType DEF IInv, ControlInv
<1>7. Cardinality({<<r, j>>}) = 1 /\ (CHOOSE w \in {<<r, j>>} : TRUE) = <<r, j>>
  BY FS_Singleton
<1> HIDE DEF b
<1>8. Stored(Step)[b][a] = Cell(call, offset + r, h.form, a - Base(h, r))
  <2> DEFINE found == [q \in Launched(Step) |-> Found(Step, q)]
  <2>1. found[r] = <<call, offset + r>>
    BY <1>6
  <2>2. found[r] # <<0, 0>>
    BY <1>6, <2>1
  <2> QED
    BY <1>3, <1>4, <1>5, <1>7, <2>1, <2>2 DEF Stored
<1>9. DOMAIN Stored(Step)[b] = DOMAIN mem[b]
  BY <1>3 DEF Stored
<1> QED
  BY <1>2, <1>3, <1>8, <1>9 DEF b

\* A word no row stores in keeps its value.
LEMMA WordKept ==
  ASSUME NEW b \in Buffers, NEW a \in DOMAIN mem[b], Stores(Step, b, a) = {}
  PROVE  a \in DOMAIN Stored(Step)[b] /\ Stored(Step)[b][a] = mem[b][a]
  BY DEF Stored
-----------------------------------------------------------------------------
(* What the rows are held in after a launch.                               *)

\* After a launch its rows are held in what it stored.
LEMMA RegionStored ==
  ASSUME IInv, DataInv, Chained, AtLaunch, NEW q \in Rows, InChunk(q),
         NEW j \in DOMAIN Step.outs, NEW g, Typed(g), Alike(g, Step.outs[j])
  PROVE  Holds(Stored(Step), call, offset, g, q)
<1> DEFINE h == Step.outs[j]
<1>1. q - offset \in Launched(Step) /\ offset + (q - offset) = q
  BY ChunkLaunched, NoOffset DEF Rows
<1>2. Typed(h)
  BY StepTyped
<1>3. Place(g, offset, q) = Base(h, q - offset)
  <2>1. Place(g, offset, q) = Place(h, offset, q)
    BY <1>2, PlacesAgree DEF Alike
  <2> QED
    BY <2>1 DEF Place, Base
<1>4. ASSUME NEW i \in Words(g)
      PROVE  /\ Place(g, offset, q) + i \in DOMAIN Stored(Step)[g.buf]
             /\ Stored(Step)[g.buf][Place(g, offset, q) + i] = Cell(call, q, g.form, i)
  <2>1. i \in Words(h) /\ g.buf = h.buf /\ g.form = h.form
    BY DEF Alike, Words
  <2>2. Place(g, offset, q) + i = Base(h, q - offset) + i
    BY <1>3
  <2> QED
    BY <1>1, <2>1, <2>2, RowStored
<1> QED
  BY <1>4 DEF Holds

\* After a launch a row is still held in a region the launch spares.
LEMMA RegionKept ==
  ASSUME IInv, Chained, AtLaunch, NEW q \in Rows, NEW g, Typed(g),
         Holds(mem, call, offset, g, q),
         \A j \in DOMAIN Step.outs : \A r \in Launched(Step) :
            Step.outs[j].buf = g.buf =>
              \A i \in Words(g) : \A k \in Words(Step.outs[j]) :
                 Place(g, offset, q) + i # Place(Step.outs[j], offset, offset + r) + k
  PROVE  Holds(Stored(Step), call, offset, g, q)
<1> SUFFICES ASSUME NEW i \in Words(g)
             PROVE  LET a == Place(g, offset, q) + i
                    IN  /\ a \in DOMAIN Stored(Step)[g.buf]
                        /\ Stored(Step)[g.buf][a] = Cell(call, q, g.form, i)
  BY DEF Holds
<1> DEFINE a == Place(g, offset, q) + i
<1>1. a \in DOMAIN mem[g.buf] /\ mem[g.buf][a] = Cell(call, q, g.form, i)
  BY DEF Holds
<1>2. a \in Int
  BY NoOffset DEF Place, Typed, Rows, Words
<1>3. Stores(Step, g.buf, a) = {}
  <2> SUFFICES ASSUME NEW w \in Stores(Step, g.buf, a) PROVE FALSE
    OBVIOUS
  <2>1. /\ w[1] \in Launched(Step) /\ w[2] \in DOMAIN Step.outs
        /\ Step.outs[w[2]].buf = g.buf
        /\ a - Base(Step.outs[w[2]], w[1]) \in Words(Step.outs[w[2]])
    BY DEF Stores
  <2> DEFINE h == Step.outs[w[2]]
             r == w[1]
  <2>2. Typed(h) /\ r \in Launched(Step)
    BY <2>1, StepTyped
  <2>3. Place(h, offset, offset + r) = Base(h, r) /\ Base(h, r) \in Int
    BY <2>2, NoOffset, RowOfChunk DEF Base, Typed
  <2>4. a = Base(h, r) + (a - Base(h, r))
    BY <1>2, <2>3
  <2> QED
    BY <2>1, <2>2, <2>3, <2>4
<1> QED
  BY <1>1, <1>3, WordKept DEF Typed

\* The rows of the chunk go on to the next step.
LEMMA ChunkAdvances ==
  ASSUME IInv, DataInv, Chained, AtLaunch, NEW q \in Rows, InChunk(q),
         NEW g \in Needs(pc + 1)
  PROVE  Holds(Stored(Step), call, offset, g, q)
<1>1. Typed(g)
  BY StepLinked DEF Steady
<1>2. CASE \E j \in DOMAIN Step.outs : Alike(g, Step.outs[j])
  BY <1>1, <1>2, RegionStored
<1>3. CASE g \in Needs(pc) /\ \A j \in DOMAIN Step.outs : Spares(Step.outs[j], g)
  <2>1. Holds(mem, call, offset, g, q)
    <3>1. q - offset \in Launched(Step) /\ offset + (q - offset) = q
      BY ChunkLaunched, NoOffset DEF Rows
    <3>2. Phase(status, pc, offset, q) = pc
      BY <3>1, RowOfChunk
    <3> QED
      BY <1>3, <3>2 DEF DataInv, DataOf, AtLaunch
  <2>2. ASSUME NEW j \in DOMAIN Step.outs, NEW r \in Launched(Step),
               Step.outs[j].buf = g.buf, NEW i \in Words(g), NEW k \in Words(Step.outs[j])
        PROVE  Place(g, offset, q) + i # Place(Step.outs[j], offset, offset + r) + k
    <3>1. Typed(Step.outs[j]) /\ offset + r \in Rows /\ Spares(Step.outs[j], g)
      BY <1>3, StepTyped, RowOfChunk
    <3> QED
      BY <1>1, <2>2, <3>1, SparesApart
  <2> QED
    BY <1>1, <2>1, <2>2, RegionKept
<1> QED
  BY <1>2, <1>3, StepLinked DEF Leaves

\* The other rows stay where they are.
LEMMA OthersKept ==
  ASSUME IInv, DataInv, Chained, AtLaunch, NEW q \in Rows, ~InChunk(q),
         NEW g \in Needs(Phase(status, pc, offset, q))
  PROVE  Holds(Stored(Step), call, offset, g, q)
<1>1. q \in Nat /\ q < cfg.batch
  BY NoOffset DEF Rows
<1>2. /\ g \in Idle(Step, Needs(pc), Needs(pc + 1)) /\ Typed(g)
  <2>1. CASE OuterLoop
    <3>1. Phase(status, pc, offset, q) \in {1, Len(Program) + 1}
      BY <1>1, <2>1, NoOffset DEF InChunk, Phase, Least, AtLaunch
    <3> QED
      BY <2>1, <3>1, StepLinked DEF Idle, Steady
  <2>2. CASE ~OuterLoop /\ Step.looped
    <3>1. Phase(status, pc, offset, q) \in {pc, pc + 1}
      BY <2>2 DEF Phase, AtLaunch
    <3> QED
      BY <2>2, <3>1, StepLinked DEF Idle, Steady
  <2>3. CASE ~OuterLoop /\ ~Step.looped
    BY <1>1, <2>3 DEF IInv, OffsetInv, AtLaunch, InChunk
  <2> QED
    BY <2>1, <2>2, <2>3
<1>3. Holds(mem, call, offset, g, q)
  BY DEF DataInv, DataOf, AtLaunch
<1>4. ASSUME NEW j \in DOMAIN Step.outs, NEW r \in Launched(Step),
             Step.outs[j].buf = g.buf, NEW i \in Words(g), NEW k \in Words(Step.outs[j])
      PROVE  Place(g, offset, q) + i # Place(Step.outs[j], offset, offset + r) + k
  <2>1. Typed(Step.outs[j]) /\ offset + r \in Rows /\ Beside(g, Step.outs[j]) /\ InChunk(offset + r)
    BY <1>2, <1>4, StepTyped, RowOfChunk, StepLinked DEF SparesIdle
  <2>2. q # offset + r
    BY <2>1
  <2>3. i \in Nat /\ i < g.w /\ k \in Nat /\ k < Step.outs[j].w
    BY <1>2, <2>1 DEF Words, Typed
  <2> QED
    BY <1>2, <2>1, <2>2, <2>3, BesideApart
<1> QED
  BY <1>2, <1>3, <1>4, RegionKept

\* The place of a row that follows the batch does not depend on the offset.
LEMMA Resettled ==
  ASSUME NEW mm, NEW c, NEW o \in Nat, NEW o2 \in Nat, NEW q \in Nat, NEW g, Typed(g),
         g.step = g.dist, Holds(mm, c, o, g, q)
  PROVE  Holds(mm, c, o2, g, q)
<1>1. Place(g, o, q) = q * g.dist /\ Place(g, o2, q) = q * g.dist
  BY DEF Place, Typed
<1> QED
  BY <1>1 DEF Holds

\* A launch and the advance after it take every row to its next step.
LEMMA LaunchData ==
  ASSUME IInv, DataInv, Chained, Launch
  PROVE  DataOf(Stored(Step), call, status', pc', offset')
<1>1. /\ AtLaunch /\ status = "running" /\ Advance
      /\ pc \in Nat \ {0} /\ pc <= Len(Program) /\ Len(Program) \in Nat \ {0}
      /\ offset \in Nat /\ offset < cfg.batch
      /\ cfg.batch \in Nat \ {0} /\ cfg.chunk \in Nat \ {0}
      /\ ~OuterLoop /\ ~Step.looped => offset = 0
      /\ OuterLoop \in BOOLEAN /\ Rows = 0 .. cfg.batch - 1
  BY StepLinked, NoOffset DEF Launch, AtLaunch, IInv, OffsetInv, OuterLoop, Rows
<1> SUFFICES ASSUME NEW q \in Rows, NEW g \in Needs(Phase(status', pc', offset', q))
             PROVE  Holds(Stored(Step), call, offset', g, q)
  BY DEF DataOf
<1>2. q \in Nat /\ q < cfg.batch
  BY <1>1
<1> DEFINE new == Phase(status', pc', offset', q)
           now == IF InChunk(q) THEN pc + 1 ELSE Phase(status, pc, offset, q)
<1>3. /\ new = now /\ offset' \in Nat
      /\ offset' # offset => new = 1 \/ new = Len(Program) + 1 \/ ~OuterLoop
  <2>1. CASE /\ offset + cfg.chunk < cfg.batch /\ Step.looped /\ ~OuterLoop
             /\ offset' = offset + cfg.chunk /\ UNCHANGED <<pc, status>>
    BY <1>1, <1>2, <2>1 DEF Phase, InChunk
  <2>2. CASE /\ OuterLoop /\ pc = Len(Program) /\ offset + cfg.chunk < cfg.batch
             /\ offset' = offset + cfg.chunk /\ pc' = 1 /\ UNCHANGED status
    BY <1>1, <1>2, <2>2 DEF Phase, InChunk, Least
  <2>3. CASE /\ pc # Len(Program)
             /\ ~(offset + cfg.chunk < cfg.batch /\ Step.looped /\ ~OuterLoop)
             /\ pc' = pc + 1 /\ offset' = (IF OuterLoop THEN offset ELSE 0)
             /\ UNCHANGED status
    BY <1>1, <1>2, <2>3 DEF Phase, InChunk, Least
  <2>4. CASE /\ pc = Len(Program)
             /\ ~(offset + cfg.chunk < cfg.batch /\ Step.looped /\ ~OuterLoop)
             /\ ~(OuterLoop /\ offset + cfg.chunk < cfg.batch)
             /\ status' = "success" /\ UNCHANGED <<pc, offset>>
    BY <1>1, <1>2, <2>4 DEF Phase, InChunk, Least
  <2> QED
    BY <1>1, <2>1, <2>2, <2>3, <2>4 DEF Advance
<1> HIDE DEF new
<1>4. Holds(Stored(Step), call, offset, g, q)
  BY <1>1, <1>3, ChunkAdvances, OthersKept DEF new
<1>5. CASE offset' = offset
  BY <1>4, <1>5
<1>6. CASE offset' # offset
  <2>1. new \in 1 .. Len(Program) + 1
    BY <1>1, <1>3 DEF Phase
  <2>2. Typed(g) /\ (g.step = g.dist \/ (OuterLoop /\ new > 1 /\ new <= Len(Program)))
    BY <2>1, StepLinked DEF Steady, new
  <2>3. g.step = g.dist
    BY <1>1, <1>3, <1>6, <2>2
  <2> QED
    BY <1>1, <1>2, <1>3, <1>4, <2>2, <2>3, Resettled
<1> QED
  BY <1>5, <1>6
-----------------------------------------------------------------------------
(* Calls.                                                                  *)

\* The regions of a node only depend on its configuration.
LEMMA SameNeeds ==
  ASSUME UNCHANGED cfg
  PROVE  /\ \A p : Needs(p)' = Needs(p)
         /\ Sound' <=> Sound
         /\ EffectiveInput' = EffectiveInput /\ CopyInput' = CopyInput
         /\ First' = First /\ From(Y, 2)' = From(Y, 2)
<1> USE UNCHANGED cfg
<1>1. /\ n' = n /\ m' = m /\ half' = half /\ Program' = Program /\ X' = X /\ Y' = Y
      /\ HalfOut' = HalfOut
  BY SameNode DEF n, m, half, HalfOut
<1>2. EffectiveInput' = EffectiveInput /\ CopyInput' = CopyInput
  BY <1>1 DEF EffectiveInput, CopyInput, Dense, Region, Copy, RowKernel, Kernel
<1>3. First' = First /\ \A p : Later(p)' = Later(p)
  BY <1>1, <1>2 DEF First, Later
<1>4. FallsBack' = FallsBack
  BY <1>1 DEF FallsBack, SparseBluestein, SparseInput, SparseOutput
<1> QED
  BY <1>1, <1>2, <1>3, <1>4 DEF Needs, Inputs, From, Sound

\* The row that a word of the caller's memory belongs to.
LEMMA RowOfPlace ==
  ASSUME NEW k \in Nat, NEW d \in Nat \ {0}, NEW x \in 0 .. d - 1
  PROVE  (k * d + x) \div d = k
<1> DEFINE a == k * d + x
           y == a \div d
<1>1. a \in Nat /\ k * d \in Nat
  OBVIOUS
<1>2. y \in Nat /\ y * d <= a /\ a < (y + 1) * d
  BY <1>1
<1>3. (k + 1) * d = k * d + d /\ (y + 1) * d = y * d + d /\ y * d \in Nat
  BY <1>2
<1> HIDE DEF y
<1>4. ~(y + 1 <= k)
  <2> SUFFICES ASSUME y + 1 <= k PROVE FALSE
    OBVIOUS
  <2>1. (y + 1) * d <= k * d
    BY <1>2, Ordered
  <2> QED
    BY <1>1, <1>2, <1>3, <2>1
<1>5. ~(k + 1 <= y)
  <2> SUFFICES ASSUME k + 1 <= y PROVE FALSE
    OBVIOUS
  <2>1. (k + 1) * d <= y * d
    BY <1>2, Ordered
  <2> QED
    BY <1>1, <1>2, <1>3, <2>1
<1> QED
  BY <1>2, <1>4, <1>5 DEF y

\* The caller gives every row of its input.
LEMMA GivenHolds ==
  ASSUME Configured, Sound, NEW mm, NEW c, mm["in"] = Given(c), NEW q \in Rows
  PROVE  Holds(mm, c, 0, X, q)
<1>1. /\ X.buf = "in" /\ X.form = "x" /\ X.lo = 0 /\ X.w \in Nat \ {0}
      /\ X.dist \in Nat \ {0} /\ X.step = X.dist /\ X.w <= X.dist
  <2>1. X.form = "x"
    BY DEF X, Spaced, Dense, Region
  <2> QED
    BY <2>1, Shapes DEF Sound
<1>2. q \in Nat /\ q <= cfg.batch - 1 /\ cfg.batch \in Nat \ {0}
  BY Lengths DEF Rows
<1> SUFFICES ASSUME NEW i \in Words(X)
             PROVE  /\ Place(X, 0, q) + i \in DOMAIN Given(c)
                    /\ Given(c)[Place(X, 0, q) + i] = Cell(c, q, "x", i)
  BY <1>1 DEF Holds
<1> DEFINE a == q * X.dist + i
<1>3. i \in Nat /\ i < X.w /\ i \in 0 .. X.dist - 1
  BY <1>1 DEF Words
<1>4. Place(X, 0, q) + i = a /\ a \in Nat
  BY <1>1, <1>2, <1>3 DEF Place
<1>5. a % X.dist = i /\ a \div X.dist = q
  <2>1. a % X.dist = i
    BY <1>1, <1>2, <1>3, PlaceInRow
  <2>2. a \div X.dist = q
    BY <1>1, <1>2, <1>3, RowOfPlace
  <2> QED
    BY <2>1, <2>2
<1>6. a \in 0 .. Size("in") - 1
  <2>1. q * X.dist <= (cfg.batch - 1) * X.dist
    BY <1>1, <1>2, Ordered
  <2>2. Span(X) <= Size("in") /\ Span(X) \in Nat /\ Size("in") \in Nat
    <3>1. Span(X) \in Nat /\ Span(Y) \in Nat
      BY Lengths, Shapes DEF Span
    <3> QED
      BY <3>1 DEF Size, Most
  <2>3. (cfg.batch - 1) * X.dist \in Nat /\ q * X.dist \in Nat
    BY <1>1, <1>2
  <2> QED
    BY <1>1, <1>3, <1>4, <2>1, <2>2, <2>3 DEF Span
<1> HIDE DEF a
<1>7. Given(c)[a] = Cell(c, q, "x", i)
  BY <1>1, <1>3, <1>5, <1>6 DEF Given
<1> QED
  BY <1>4, <1>6, <1>7 DEF Given

\* A call starts with all of its rows given.
LEMMA CallData ==
  ASSUME Configured, Sound, NEW mm, NEW c, mm["in"] = Given(c)
  PROVE  DataOf(mm, c, "running", 1, 0)
<1>1. /\ cfg.batch \in Nat \ {0} /\ cfg.chunk \in Nat \ {0}
  BY Lengths
<1>2. ASSUME NEW q \in Rows PROVE Phase("running", 1, 0, q) = 1
  BY <1>1 DEF Phase, Rows
<1>3. Needs(1) = {X}
  BY DEF Needs
<1> QED
  BY <1>2, <1>3, GivenHolds DEF DataOf
-----------------------------------------------------------------------------
(* The kernels of a program pass the rows on.                              *)

\* A launch takes rows from region x, where the step before left them, to region
\* y, where the step after looks for them.
Passed(s, x, y) ==
  LET g == s.ins[1]
      h == s.outs[1]
  IN  /\ s.ins = <<g>> /\ s.outs = <<h>>
      /\ s.table => NeedsTable
      /\ Alike(x, g) /\ Alike(y, h)
      /\ Typed(g) /\ g.lo = 0 /\ g.w > 0 /\ (g.step = g.dist \/ OuterLoop)
      /\ h.w > 0 /\ Beside(h, h)
      /\ g.buf # h.buf \/ (~s.spread /\ Beside(g, h))
      /\ OuterLoop => /\ X.buf # h.buf \/ Beside(X, h)
                      /\ Y.buf # h.buf \/ Beside(Y, h)

\* Rows lie beside those of another region as beside those of a region like it.
LEMMA BesideAlike ==
  ASSUME NEW g, NEW h, NEW x, Beside(g, h), Alike(x, g)
  PROVE  Beside(x, h)
  BY DEF Beside, Alike, SamePlace

\* A launch from one region to another links the two steps.
LEMMA PassedLinks ==
  ASSUME Configured, cfg.kind # "rader", NEW s, NEW x, NEW y, Passed(s, x, y)
  PROVE  /\ Finds(s, {x}) /\ Leaves(s, {x}, {y})
         /\ SparesIdle(s, Idle(s, {x}, {y}))
<1> DEFINE g == s.ins[1]
           h == s.outs[1]
<1>1. /\ DOMAIN s.ins = {1} /\ DOMAIN s.outs = {1}
      /\ s.table => NeedsTable
      /\ Alike(x, g) /\ Alike(y, h)
      /\ Typed(g) /\ g.lo = 0 /\ g.w > 0
      /\ h.w > 0 /\ Beside(h, h)
      /\ g.buf # h.buf \/ (~s.spread /\ Beside(g, h))
      /\ OuterLoop => /\ X.buf # h.buf \/ Beside(X, h)
                      /\ Y.buf # h.buf \/ Beside(Y, h)
  <2>1. s.ins = <<g>> /\ s.outs = <<h>>
    BY DEF Passed
  <2>2. DOMAIN <<g>> = {1} /\ DOMAIN <<h>> = {1}
    OBVIOUS
  <2>3. DOMAIN s.ins = {1} /\ DOMAIN s.outs = {1}
    BY <2>1, <2>2
  <2> QED
    BY <2>3 DEF Passed
<1> HIDE DEF g, h
<1>2. Finds(s, {x})
  BY <1>1 DEF Finds, g, h
<1>3. Leaves(s, {x}, {y})
  BY <1>1 DEF Leaves, g, h
<1>4. SparesIdle(s, Idle(s, {x}, {y}))
  <2>1. CASE OuterLoop
    <3>1. Idle(s, {x}, {y}) = {X, Y}
      <4>1. Len(Program) \in Nat \ {0}
        BY ProgramsFit
      <4>2. Needs(1) = {X} /\ Needs(Len(Program) + 1) = {Y}
        BY <4>1 DEF Needs
      <4> QED
        BY <2>1, <4>2 DEF Idle
    <3> QED
      BY <1>1, <2>1, <3>1 DEF SparesIdle, h
  <2>2. CASE ~OuterLoop
    <3>1. Idle(s, {x}, {y}) \subseteq {x, y}
      BY <2>2 DEF Idle
    <3>2. x.buf = g.buf /\ (Beside(g, h) => Beside(x, h)) /\ Beside(y, h)
      BY <1>1, BesideAlike DEF Alike
    <3> QED
      BY <1>1, <3>1, <3>2 DEF SparesIdle, h
  <2> QED
    BY <2>1, <2>2
<1> QED
  BY <1>2, <1>3, <1>4

\* Where step p gets its rows from, and where the last one leaves them.
Source(p) == IF p = 1 THEN X ELSE IF p > Len(Program) THEN Y ELSE Program[p].ins[1]

\* A program whose every launch passes the rows on is chained.
LEMMA ChainPasses ==
  ASSUME Configured, cfg.kind # "rader",
         \A p \in 1 .. Len(Program) : Passed(Program[p], Source(p), Source(p + 1))
  PROVE  Chained
<1>1. Len(Program) \in Nat \ {0}
  BY ProgramsFit
<1>2. ASSUME NEW p \in 1 .. Len(Program) + 1
      PROVE  Needs(p) = {Source(p)}
  <2>1. CASE p = 1 \/ p > Len(Program)
    BY <1>1, <2>1 DEF Needs, Source
  <2>2. CASE p # 1 /\ p <= Len(Program)
    <3>1. Program[p].ins = <<Program[p].ins[1]>>
      BY <1>2, <2>2, <1>1 DEF Passed
    <3>2. \A a : DOMAIN <<a>> = {1} /\ <<a>>[1] = a
      OBVIOUS
    <3>3. Inputs(Program[p]) = {Program[p].ins[1]}
      BY <3>1, <3>2 DEF Inputs
    <3> QED
      BY <2>2, <3>3, <1>1, <1>2 DEF Needs, Source, Later
  <2> QED
    BY <2>1, <2>2, <1>1
<1>3. ASSUME NEW p \in 1 .. Len(Program) + 1
      PROVE  Steady(p)
  <2>1. CASE p = 1 \/ p > Len(Program)
    <3>1. Source(p) \in {X, Y}
      BY <2>1 DEF Source
    <3>2. Out \in Buffers
      BY DEF Out, Buffers
    <3>3. /\ Typed(X) /\ X.step = X.dist /\ Typed(Y) /\ Y.step = Y.dist
      BY <3>2, Shapes DEF Typed, Buffers
    <3> QED
      BY <1>2, <1>3, <3>1, <3>3 DEF Steady
  <2>2. CASE p # 1 /\ p <= Len(Program)
    <3>1. /\ Typed(Program[p].ins[1])
          /\ Program[p].ins[1].step = Program[p].ins[1].dist \/ OuterLoop
      BY <1>1, <1>3, <2>2 DEF Passed
    <3>2. Needs(p) = {Program[p].ins[1]} /\ p > 1
      BY <1>1, <1>2, <1>3, <2>2 DEF Source
    <3> QED
      BY <2>2, <3>1, <3>2 DEF Steady
  <2> QED
    BY <2>1, <2>2, <1>1
<1>4. ASSUME NEW p \in 1 .. Len(Program)
      PROVE  LET s == Program[p]
                 N == Needs(p)
                 M == Needs(p + 1)
             IN  Finds(s, N) /\ Leaves(s, N, M) /\ SparesIdle(s, Idle(s, N, M))
  <2>1. Needs(p) = {Source(p)} /\ Needs(p + 1) = {Source(p + 1)}
    BY <1>1, <1>2, <1>4
  <2>2. Passed(Program[p], Source(p), Source(p + 1))
    BY <1>4
  <2> DEFINE s == Program[p]
             x == Source(p)
             y == Source(p + 1)
  <2>3. Passed(s, x, y)
    BY <2>2
  <2> HIDE DEF s, x, y
  <2>4. /\ Finds(s, {x}) /\ Leaves(s, {x}, {y})
        /\ SparesIdle(s, Idle(s, {x}, {y}))
    BY <2>3, PassedLinks
  <2> QED
    BY <2>1, <2>4 DEF s, x, y
<1> QED
  BY <1>3, <1>4 DEF Chained
-----------------------------------------------------------------------------
(* Kernels from one region to another.                                     *)

\* Rows side by side or further apart, that follow the batch or start anew with
\* every chunk of it.
Neat(g) ==
  /\ g.buf \in Buffers /\ g.lo = 0 /\ g.w \in Nat \ {0} /\ g.dist \in Nat
  /\ g.w <= g.dist /\ (g.step = g.dist \/ (g.step = 0 /\ OuterLoop))

\* What a neat region is used for.
LEMMA NeatFacts ==
  ASSUME NEW g, Neat(g)
  PROVE  Typed(g) /\ Beside(g, g) /\ Alike(g, g)
  BY DEF Neat, Typed, Beside, Alike, SamePlace

\* A work region whose rows follow each other is neat.
LEMMA NeatDense ==
  ASSUME NEW b \in Buffers, NEW f, NEW w \in Nat \ {0}
  PROVE  Neat(Dense(b, f, w)) /\ Dense(b, f, w).buf = b
  BY DEF Neat, Dense, Region

\* The caller's regions are neat.
LEMMA NeatCaller ==
  ASSUME Configured, Sound
  PROVE  Neat(X) /\ Neat(Y) /\ X.buf = "in" /\ Y.buf = Out /\ Out \in Buffers
<1>1. Out \in Buffers
  BY DEF Out, Buffers
<1> QED
  BY <1>1, Shapes DEF Neat, Sound, Buffers

\* Each variant of a launch passes rows from one neat region to another.
LEMMA KernelPasses ==
  ASSUME NEW g, NEW h, NEW x, NEW y, Alike(x, g), Alike(y, h), Neat(g), h.w > 0, Beside(h, h),
         OuterLoop => /\ X.buf # h.buf \/ Beside(X, h)
                      /\ Y.buf # h.buf \/ Beside(Y, h)
  PROVE  /\ g.buf # h.buf =>
              /\ Passed(Kernel(<<g>>, <<h>>), x, y)
              /\ Passed(InChunks(Kernel(<<g>>, <<h>>)), x, y)
              /\ NeedsTable => Passed(WithTable(Kernel(<<g>>, <<h>>)), x, y)
         /\ g.buf # h.buf \/ Beside(g, h) =>
              /\ Passed(RowKernel(<<g>>, <<h>>), x, y)
              /\ Passed(InChunks(RowKernel(<<g>>, <<h>>)), x, y)
              /\ Passed(Child(g, h), x, y) /\ Passed(Copy(g, h), x, y)
              /\ NeedsTable => Passed(WithTable(RowKernel(<<g>>, <<h>>)), x, y)
<1>1. /\ Typed(g) /\ g.lo = 0 /\ g.w > 0 /\ (g.step = g.dist \/ OuterLoop)
  BY NeatFacts DEF Neat
<1>2. /\ <<g>>[1] = g /\ <<h>>[1] = h
  OBVIOUS
<1>3. ASSUME NEW s, s.ins = <<g>>, s.outs = <<h>>, s.table => NeedsTable,
             g.buf # h.buf \/ (~s.spread /\ Beside(g, h))
      PROVE  Passed(s, x, y)
  BY <1>1, <1>2, <1>3 DEF Passed
<1>4. /\ Kernel(<<g>>, <<h>>).ins = <<g>> /\ Kernel(<<g>>, <<h>>).outs = <<h>>
      /\ ~Kernel(<<g>>, <<h>>).table
      /\ RowKernel(<<g>>, <<h>>).ins = <<g>> /\ RowKernel(<<g>>, <<h>>).outs = <<h>>
      /\ ~RowKernel(<<g>>, <<h>>).table /\ ~RowKernel(<<g>>, <<h>>).spread
  BY DEF Kernel, RowKernel
<1>5. /\ InChunks(Kernel(<<g>>, <<h>>)).ins = <<g>> /\ InChunks(Kernel(<<g>>, <<h>>)).outs = <<h>>
      /\ ~InChunks(Kernel(<<g>>, <<h>>)).table
      /\ InChunks(RowKernel(<<g>>, <<h>>)).ins = <<g>>
      /\ InChunks(RowKernel(<<g>>, <<h>>)).outs = <<h>>
      /\ ~InChunks(RowKernel(<<g>>, <<h>>)).table /\ ~InChunks(RowKernel(<<g>>, <<h>>)).spread
  BY DEF Kernel, RowKernel, InChunks
<1>6. /\ WithTable(Kernel(<<g>>, <<h>>)).ins = <<g>> /\ WithTable(Kernel(<<g>>, <<h>>)).outs = <<h>>
      /\ WithTable(RowKernel(<<g>>, <<h>>)).ins = <<g>>
      /\ WithTable(RowKernel(<<g>>, <<h>>)).outs = <<h>>
      /\ ~WithTable(RowKernel(<<g>>, <<h>>)).spread
  BY DEF Kernel, RowKernel, WithTable
<1> QED
  BY <1>3, <1>4, <1>5, <1>6 DEF Child, Copy

\* A work region that every chunk uses again is neat.
LEMMA NeatFixed ==
  ASSUME OuterLoop, NEW b \in Buffers, NEW f, NEW w \in Nat \ {0}
  PROVE  Neat(Fixed(b, f, w)) /\ Fixed(b, f, w).buf = b
  BY DEF Neat, Fixed, Region

\* The nodes with a batch loop around the sequence are complex.
LEMMA CallerBeside ==
  ASSUME Configured, Sound, OuterLoop
  PROVE  Beside(X, Y) /\ Beside(Y, Y)
<1>1. X = Dense("in", "x", 2 * n) /\ Y = Dense(Out, "y", 2 * n)
  BY DEF X, Y, OuterLoop, R2CKinds, C2RKinds
<1>2. 2 * n \in Nat
  BY Lengths
<1> QED
  BY <1>1, <1>2 DEF Beside, SamePlace, Dense, Region

\* Every kernel from g to h, where the steps around it look for just these.
Carries(g, h) ==
  /\ Passed(Kernel(<<g>>, <<h>>), g, h) /\ Passed(RowKernel(<<g>>, <<h>>), g, h)
  /\ Passed(InChunks(Kernel(<<g>>, <<h>>)), g, h)
  /\ Passed(InChunks(RowKernel(<<g>>, <<h>>)), g, h)
  /\ Passed(Child(g, h), g, h) /\ Passed(Copy(g, h), g, h)
  /\ NeedsTable => /\ Passed(WithTable(Kernel(<<g>>, <<h>>)), g, h)
                   /\ Passed(WithTable(RowKernel(<<g>>, <<h>>)), g, h)

\* Neat regions in different buffers carry the rows.
LEMMA NeatCarries ==
  ASSUME Configured, Sound, NEW g, NEW h, Neat(g), Neat(h), g.buf # h.buf,
         h.buf \notin {"in", "out"} \/ h = Y
  PROVE  Carries(g, h)
<1>1. OuterLoop => /\ X.buf # h.buf \/ Beside(X, h)
                   /\ Y.buf # h.buf \/ Beside(Y, h)
  <2>1. X.buf = "in" /\ Y.buf \in {"in", "out"}
    BY NeatCaller DEF Out
  <2> QED
    BY <2>1, CallerBeside
<1>2. Alike(g, g) /\ Alike(h, h) /\ Beside(h, h) /\ h.w > 0
  BY NeatFacts DEF Neat
<1> QED
  BY <1>1, <1>2, KernelPasses DEF Carries

\* Every variant of a launch loads what it was given to load.
LEMMA KernelSource ==
  ASSUME NEW g, NEW h
  PROVE  /\ Kernel(<<g>>, <<h>>).ins[1] = g /\ RowKernel(<<g>>, <<h>>).ins[1] = g
         /\ InChunks(Kernel(<<g>>, <<h>>)).ins[1] = g
         /\ InChunks(RowKernel(<<g>>, <<h>>)).ins[1] = g
         /\ Child(g, h).ins[1] = g /\ Copy(g, h).ins[1] = g
         /\ WithTable(Kernel(<<g>>, <<h>>)).ins[1] = g
         /\ WithTable(RowKernel(<<g>>, <<h>>)).ins[1] = g
  BY DEF Kernel, RowKernel, InChunks, WithTable, Child, Copy

\* Programs of one to five launches.
LEMMA Chain1 ==
  ASSUME Configured, cfg.kind # "rader", NEW k1, Len(Program) = 1, Program[1] = k1,
         Passed(k1, X, Y)
  PROVE  Chained
<1>1. Source(1) = X /\ Source(2) = Y
  BY DEF Source
<1>2. 1 + 1 = 2 /\ \A p \in 1 .. 1 : p = 1
  OBVIOUS
<1> QED
  BY <1>1, <1>2, ChainPasses

LEMMA Chain2 ==
  ASSUME Configured, cfg.kind # "rader", NEW k1, NEW k2,
         Len(Program) = 2, Program[1] = k1, Program[2] = k2,
         Passed(k1, X, k2.ins[1]), Passed(k2, k2.ins[1], Y)
  PROVE  Chained
<1>1. Source(1) = X /\ Source(2) = k2.ins[1] /\ Source(3) = Y
  BY DEF Source
<1>2. 1 + 1 = 2 /\ 2 + 1 = 3 /\ \A p \in 1 .. 2 : p = 1 \/ p = 2
  OBVIOUS
<1> QED
  BY <1>1, <1>2, ChainPasses

LEMMA Chain3 ==
  ASSUME Configured, cfg.kind # "rader", NEW k1, NEW k2, NEW k3, Program = <<k1, k2, k3>>,
         Passed(k1, X, k2.ins[1]), Passed(k2, k2.ins[1], k3.ins[1]), Passed(k3, k3.ins[1], Y)
  PROVE  Chained
<1>1. Len(Program) = 3 /\ Program[1] = k1 /\ Program[2] = k2 /\ Program[3] = k3
  OBVIOUS
<1>2. Source(1) = X /\ Source(2) = k2.ins[1] /\ Source(3) = k3.ins[1] /\ Source(4) = Y
  BY <1>1 DEF Source
<1>3. 1 + 1 = 2 /\ 2 + 1 = 3 /\ 3 + 1 = 4 /\ \A p \in 1 .. 3 : p = 1 \/ p = 2 \/ p = 3
  OBVIOUS
<1> QED
  BY <1>1, <1>2, <1>3, ChainPasses

LEMMA Chain4 ==
  ASSUME Configured, cfg.kind # "rader", NEW k1, NEW k2, NEW k3, NEW k4,
         Program = <<k1, k2, k3, k4>>,
         Passed(k1, X, k2.ins[1]), Passed(k2, k2.ins[1], k3.ins[1]),
         Passed(k3, k3.ins[1], k4.ins[1]), Passed(k4, k4.ins[1], Y)
  PROVE  Chained
<1>1. /\ Len(Program) = 4 /\ Program[1] = k1 /\ Program[2] = k2 /\ Program[3] = k3
      /\ Program[4] = k4
  OBVIOUS
<1>2. /\ Source(1) = X /\ Source(2) = k2.ins[1] /\ Source(3) = k3.ins[1]
      /\ Source(4) = k4.ins[1] /\ Source(5) = Y
  BY <1>1 DEF Source
<1>3. /\ 1 + 1 = 2 /\ 2 + 1 = 3 /\ 3 + 1 = 4 /\ 4 + 1 = 5
      /\ \A p \in 1 .. 4 : p = 1 \/ p = 2 \/ p = 3 \/ p = 4
  OBVIOUS
<1> QED
  BY <1>1, <1>2, <1>3, ChainPasses

LEMMA Chain5 ==
  ASSUME Configured, cfg.kind # "rader", NEW k1, NEW k2, NEW k3, NEW k4, NEW k5,
         Program = <<k1, k2, k3, k4, k5>>,
         Passed(k1, X, k2.ins[1]), Passed(k2, k2.ins[1], k3.ins[1]),
         Passed(k3, k3.ins[1], k4.ins[1]), Passed(k4, k4.ins[1], k5.ins[1]),
         Passed(k5, k5.ins[1], Y)
  PROVE  Chained
<1>1. /\ Len(Program) = 5 /\ Program[1] = k1 /\ Program[2] = k2 /\ Program[3] = k3
      /\ Program[4] = k4 /\ Program[5] = k5
  OBVIOUS
<1>2. /\ Source(1) = X /\ Source(2) = k2.ins[1] /\ Source(3) = k3.ins[1]
      /\ Source(4) = k4.ins[1] /\ Source(5) = k5.ins[1] /\ Source(6) = Y
  BY <1>1 DEF Source
<1>3. /\ 1 + 1 = 2 /\ 2 + 1 = 3 /\ 3 + 1 = 4 /\ 4 + 1 = 5 /\ 5 + 1 = 6
      /\ \A p \in 1 .. 5 : p = 1 \/ p = 2 \/ p = 3 \/ p = 4 \/ p = 5
  OBVIOUS
<1> QED
  BY <1>1, <1>2, <1>3, ChainPasses
-----------------------------------------------------------------------------
(* The programs.                                                           *)

\* The buffers of a node of length n, at the sizes its programs use.
LEMMA Widths ==
  ASSUME Configured
  PROVE  /\ 2 * n \in Nat \ {0} /\ n \in Nat \ {0}
         /\ cfg.kind \in TableKinds => 2 * m \in Nat \ {0}
<1>1. n \in Nat \ {0} /\ m \in Nat
  BY Lengths
<1>2. ASSUME cfg.kind \in TableKinds PROVE m > 0
  <2>1. cfg.plan \in {"bluestein_leaf", "bluestein_four", "bluestein_deep",
                      "rader_leaf", "rader_deep"}
    BY <1>2 DEF Configured, Admits, ComplexNodes, R2CNodes, C2RNodes, FourStepNodes,
       BluesteinNodes, RaderNodes, TableKinds
  <2> QED
    BY <2>1, ConvolutionExists DEF Configured, m
<1> QED
  BY <1>1, <1>2

\* Nodes of one kernel that take whole rows from the input to the output.
LEMMA RowsChained ==
  ASSUME Configured, Sound, cfg.kind # "rader", ~OuterLoop, Beside(X, Y) \/ ~cfg.inPlace,
         \/ Program \in {Leaf, RealLeaf}
         \/ Program = BluesteinFullLeaf /\ NeedsTable
  PROVE  Chained
<1>1. Neat(X) /\ Neat(Y) /\ X.buf = "in" /\ Y.buf = Out
  BY NeatCaller
<1>2. Alike(X, X) /\ Alike(Y, Y) /\ Beside(Y, Y) /\ Y.w > 0
  BY <1>1, NeatFacts DEF Neat
<1>3. X.buf # Y.buf \/ Beside(X, Y)
  BY <1>1 DEF Out
<1>4. /\ Passed(RowKernel(<<X>>, <<Y>>), X, Y)
      /\ Passed(InChunks(RowKernel(<<X>>, <<Y>>)), X, Y)
      /\ NeedsTable => Passed(WithTable(RowKernel(<<X>>, <<Y>>)), X, Y)
  BY <1>1, <1>2, <1>3, KernelPasses
<1>5. PICK k1 : Program = <<k1>> /\ Passed(k1, X, Y)
  BY <1>4 DEF Leaf, RealLeaf, BluesteinFullLeaf
<1> QED
  BY <1>5, Chain1

\* Nodes of kernels between the input, work buffers and the output.
LEMMA FourStepChained ==
  ASSUME Configured, Sound, cfg.kind # "rader",
         Program \in {FourStepFused, DirectFourStep, ExpandedFourStep, FourStepGeneric}
  PROVE  Chained
<1> DEFINE cin == Dense("cin", "expanded", 2 * n)
           rows == Dense("stage1", "rows", 2 * n)
           reshaped == Dense("stage1", "reshaped", 2 * n)
           first == Dense("stage2", "rows", 2 * n)
           twiddled == Dense("stage1", "twiddled", 2 * n)
           columns == Dense("stage2", "columns", 2 * n)
<1>1. /\ Neat(X) /\ Neat(Y) /\ X.buf = "in" /\ Y.buf \in {"in", "out"}
      /\ Neat(cin) /\ cin.buf = "cin" /\ Neat(rows) /\ rows.buf = "stage1"
      /\ Neat(reshaped) /\ reshaped.buf = "stage1" /\ Neat(first) /\ first.buf = "stage2"
      /\ Neat(twiddled) /\ twiddled.buf = "stage1" /\ Neat(columns) /\ columns.buf = "stage2"
  BY NeatCaller, NeatDense, Widths DEF Out, Buffers
<1> HIDE DEF cin, rows, reshaped, first, twiddled, columns
<1>2. CASE Program \in {FourStepFused, DirectFourStep}
  <2> DEFINE k1 == Kernel(<<X>>, <<rows>>)
             k2 == Kernel(<<rows>>, <<Y>>)
  <2>1. Carries(X, rows) /\ Carries(rows, Y)
    BY <1>1, NeatCarries
  <2>2. Passed(k1, X, rows) /\ Passed(k2, rows, Y) /\ k2.ins[1] = rows
    BY <2>1, KernelSource DEF Carries
  <2>3. Program = <<k1, k2>>
    BY <1>2 DEF FourStepFused, DirectFourStep, rows
  <2> HIDE DEF k1, k2
  <2> QED
    BY <2>2, <2>3, Chain2
<1>3. CASE Program = ExpandedFourStep
  <2> DEFINE k1 == Kernel(<<X>>, <<cin>>)
             k2 == Kernel(<<cin>>, <<rows>>)
             k3 == Kernel(<<rows>>, <<Y>>)
  <2>1. Carries(X, cin) /\ Carries(cin, rows) /\ Carries(rows, Y)
    BY <1>1, NeatCarries
  <2>2. /\ Passed(k1, X, cin) /\ Passed(k2, cin, rows) /\ Passed(k3, rows, Y)
        /\ k2.ins[1] = cin /\ k3.ins[1] = rows
    BY <2>1, KernelSource DEF Carries
  <2>3. Program = <<k1, k2, k3>>
    BY <1>3 DEF ExpandedFourStep, rows, cin
  <2> HIDE DEF k1, k2, k3
  <2> QED
    BY <2>2, <2>3, Chain3
<1>4. CASE Program = FourStepGeneric
  <2> DEFINE k1 == Kernel(<<X>>, <<reshaped>>)
             k2 == Child(reshaped, first)
             k3 == Kernel(<<first>>, <<twiddled>>)
             k4 == Child(twiddled, columns)
             k5 == Kernel(<<columns>>, <<Y>>)
  <2>1. /\ Carries(X, reshaped) /\ Carries(reshaped, first) /\ Carries(first, twiddled)
        /\ Carries(twiddled, columns) /\ Carries(columns, Y)
    BY <1>1, NeatCarries
  <2>2. /\ Passed(k1, X, reshaped) /\ Passed(k2, reshaped, first) /\ Passed(k3, first, twiddled)
        /\ Passed(k4, twiddled, columns) /\ Passed(k5, columns, Y)
        /\ k2.ins[1] = reshaped /\ k3.ins[1] = first /\ k4.ins[1] = twiddled
        /\ k5.ins[1] = columns
    BY <2>1, KernelSource DEF Carries
  <2>3. Program = <<k1, k2, k3, k4, k5>>
    BY <1>4 DEF FourStepGeneric, reshaped, first, twiddled, columns
  <2> HIDE DEF k1, k2, k3, k4, k5
  <2> QED
    BY <2>2, <2>3, Chain5
<1> QED
  BY <1>2, <1>3, <1>4

\* The generic Bluestein node, chunk by chunk.
LEMMA BluesteinChained ==
  ASSUME Configured, Sound, cfg.kind = "bluestein", NeedsTable, Program = Bluestein
  PROVE  Chained
<1> DEFINE chirped == Fixed("a", "chirped", 2 * m)
           spectrum == Fixed("work", "spectrum", 2 * m)
           product == Fixed("a", "product", 2 * m)
           convolved == Fixed("work", "convolved", 2 * m)
<1>1. OuterLoop /\ 2 * m \in Nat \ {0}
  BY Widths DEF OuterLoop, TableKinds
<1>2. /\ Neat(X) /\ Neat(Y) /\ X.buf = "in" /\ Y.buf \in {"in", "out"}
      /\ Neat(chirped) /\ chirped.buf = "a" /\ Neat(spectrum) /\ spectrum.buf = "work"
      /\ Neat(product) /\ product.buf = "a" /\ Neat(convolved) /\ convolved.buf = "work"
  BY <1>1, NeatCaller, NeatFixed DEF Out, Buffers
<1> HIDE DEF chirped, spectrum, product, convolved
<1> DEFINE k1 == Kernel(<<X>>, <<chirped>>)
           k2 == Child(chirped, spectrum)
           k3 == WithTable(Kernel(<<spectrum>>, <<product>>))
           k4 == Child(product, convolved)
           k5 == Kernel(<<convolved>>, <<Y>>)
<1>3. /\ Carries(X, chirped) /\ Carries(chirped, spectrum) /\ Carries(spectrum, product)
      /\ Carries(product, convolved) /\ Carries(convolved, Y)
  BY <1>2, NeatCarries
<1>4. /\ Passed(k1, X, chirped) /\ Passed(k2, chirped, spectrum) /\ Passed(k3, spectrum, product)
      /\ Passed(k4, product, convolved) /\ Passed(k5, convolved, Y)
      /\ k2.ins[1] = chirped /\ k3.ins[1] = spectrum /\ k4.ins[1] = product
      /\ k5.ins[1] = convolved
  BY <1>3, KernelSource DEF Carries
<1>5. Program = <<k1, k2, k3, k4, k5>>
  BY DEF Bluestein, chirped, spectrum, product, convolved
<1> HIDE DEF k1, k2, k3, k4, k5
<1> QED
  BY <1>4, <1>5, Chain5

\* The convolution nodes that work on the whole batch.
LEMMA ConvolutionChained ==
  ASSUME Configured, Sound, cfg.kind # "rader", cfg.kind \in TableKinds, NeedsTable,
         Program \in {BluesteinLeaf, BluesteinFourStep}
  PROVE  Chained
<1> DEFINE chirped == Dense("stage1", "chirped", 2 * m)
           spectrum == Dense("work", "spectrum", 2 * m)
           product == Dense("stage1", "product", 2 * m)
<1>1. /\ Neat(X) /\ Neat(Y) /\ X.buf = "in" /\ Y.buf \in {"in", "out"}
      /\ Neat(chirped) /\ chirped.buf = "stage1" /\ Neat(spectrum) /\ spectrum.buf = "work"
      /\ Neat(product) /\ product.buf = "stage1"
  BY NeatCaller, NeatDense, Widths DEF Out, Buffers
<1> HIDE DEF chirped, spectrum, product
<1>2. CASE Program = BluesteinLeaf
  <2> DEFINE k1 == RowKernel(<<X>>, <<spectrum>>)
             k2 == WithTable(RowKernel(<<spectrum>>, <<Y>>))
  <2>1. Carries(X, spectrum) /\ Carries(spectrum, Y)
    BY <1>1, NeatCarries
  <2>2. Passed(k1, X, spectrum) /\ Passed(k2, spectrum, Y) /\ k2.ins[1] = spectrum
    BY <2>1, KernelSource DEF Carries
  <2>3. Program = <<k1, k2>>
    BY <1>2 DEF BluesteinLeaf, spectrum
  <2> HIDE DEF k1, k2
  <2> QED
    BY <2>2, <2>3, Chain2
<1>3. CASE Program = BluesteinFourStep
  <2> DEFINE k1 == Kernel(<<X>>, <<chirped>>)
             k2 == Kernel(<<chirped>>, <<spectrum>>)
             k3 == WithTable(Kernel(<<spectrum>>, <<product>>))
             k4 == Kernel(<<product>>, <<Y>>)
  <2>1. /\ Carries(X, chirped) /\ Carries(chirped, spectrum) /\ Carries(spectrum, product)
        /\ Carries(product, Y)
    BY <1>1, NeatCarries
  <2>2. /\ Passed(k1, X, chirped) /\ Passed(k2, chirped, spectrum)
        /\ Passed(k3, spectrum, product) /\ Passed(k4, product, Y)
        /\ k2.ins[1] = chirped /\ k3.ins[1] = spectrum /\ k4.ins[1] = product
    BY <2>1, KernelSource DEF Carries
  <2>3. Program = <<k1, k2, k3, k4>>
    BY <1>3 DEF BluesteinFourStep, chirped, spectrum, product
  <2> HIDE DEF k1, k2, k3, k4
  <2> QED
    BY <2>2, <2>3, Chain4
<1> QED
  BY <1>2, <1>3

\* The general real nodes; the pack step of the first is not split.
LEMMA RealChained ==
  ASSUME Configured, Sound, cfg.kind # "rader", ~OuterLoop,
         \/ Program = R2C /\ cfg.kind \in R2CKinds /\ cfg.batch <= cfg.chunk
         \/ Program = C2R
  PROVE  Chained
<1> DEFINE expanded == Dense("cin", "expanded", 2 * n)
           hermitian == Dense("cin", "hermitian", 2 * n)
           full == Dense("full", "full", 2 * n)
           packed == Region(Out, "y", 2 * half, 2 * HalfOut, HalfOut)
<1>1. /\ Neat(X) /\ Neat(Y) /\ X.buf = "in" /\ Y.buf \in {"in", "out"} /\ Y.buf = Out
      /\ Neat(expanded) /\ expanded.buf = "cin" /\ Neat(hermitian) /\ hermitian.buf = "cin"
      /\ Neat(full) /\ full.buf = "full"
  BY NeatCaller, NeatDense, Widths DEF Out, Buffers
<1> HIDE DEF expanded, hermitian, full
<1>2. CASE Program = R2C /\ cfg.kind \in R2CKinds /\ cfg.batch <= cfg.chunk
  <2> DEFINE k1 == InChunks(Kernel(<<X>>, <<expanded>>))
             k2 == Child(expanded, full)
             k3 == InChunks(Kernel(<<full>>, <<packed>>))
  <2>1. Carries(X, expanded) /\ Carries(expanded, full)
    BY <1>1, NeatCarries
  <2>2. Y = Spaced(Out, "y", 2 * half, 2 * HalfOut)
    BY <1>2 DEF Y, R2CKinds, C2RKinds
  <2>3. /\ Alike(Y, packed) /\ packed.w = Y.w /\ packed.dist = Y.dist /\ packed.buf = Y.buf
    BY <1>2, <2>2 DEF Alike, SamePlace, Spaced, Region
  <2>4. Beside(packed, packed) /\ packed.w > 0 /\ full.buf # packed.buf
    BY <1>1, <2>3 DEF Beside, SamePlace, Neat
  <2> HIDE DEF packed
  <2>5. Passed(k3, full, Y)
    <3>1. Alike(full, full)
      BY <1>1, NeatFacts
    <3> QED
      BY <1>1, <2>3, <2>4, <3>1, KernelPasses
  <2>6. /\ Passed(k1, X, expanded) /\ Passed(k2, expanded, full)
        /\ k2.ins[1] = expanded /\ k3.ins[1] = full
    BY <2>1, KernelSource DEF Carries
  <2>7. Program = <<k1, k2, k3>>
    BY <1>2 DEF R2C, expanded, full, packed
  <2> HIDE DEF k1, k2, k3
  <2> QED
    BY <2>5, <2>6, <2>7, Chain3
<1>3. CASE Program = C2R
  <2> DEFINE k1 == InChunks(Kernel(<<X>>, <<hermitian>>))
             k2 == Child(hermitian, full)
             k3 == InChunks(Kernel(<<full>>, <<Y>>))
  <2>1. Carries(X, hermitian) /\ Carries(hermitian, full) /\ Carries(full, Y)
    BY <1>1, NeatCarries
  <2>2. /\ Passed(k1, X, hermitian) /\ Passed(k2, hermitian, full) /\ Passed(k3, full, Y)
        /\ k2.ins[1] = hermitian /\ k3.ins[1] = full
    BY <2>1, KernelSource DEF Carries
  <2>3. Program = <<k1, k2, k3>>
    BY <1>3 DEF C2R, hermitian, full
  <2> HIDE DEF k1, k2, k3
  <2> QED
    BY <2>2, <2>3, Chain3
<1> QED
  BY <1>2, <1>3

\* The packed nodes only see rows side by side.
LEMMA PackedChained ==
  ASSUME Configured, Sound, ~FallsBack,
         \/ cfg.kind \in {"packed_r2c", "packed_r2c_aiv"} /\ Program = PackedR2C
         \/ /\ cfg.kind \in {"packed_c2r", "packed_c2r_leaf"}
            /\ Program \in {PackedC2R, PackedC2RFusedLeaf}
  PROVE  Chained
<1> DEFINE source == Dense("in", "x", n)
           packed == Dense("packed", "packed", n)
           target == Dense(Out, "y", n)
<1>1. /\ Neat(X) /\ Neat(Y) /\ X.buf = "in" /\ Y.buf \in {"in", "out"} /\ Y.buf = Out
      /\ Neat(packed) /\ packed.buf = "packed" /\ Neat(source) /\ source.buf = "in"
      /\ Neat(target) /\ target.buf = Out
  BY NeatCaller, NeatDense, Widths DEF Out, Buffers
<1>2. ~OuterLoop /\ cfg.kind # "rader"
  BY DEF OuterLoop
<1>3. cfg.batch \in Nat \ {0} /\ n \in Nat \ {0} /\ cfg.inPlace \in BOOLEAN
      /\ cfg.idist \in Nat /\ cfg.odist \in Nat
  BY Lengths
<1>4. /\ Alike(packed, packed) /\ Alike(Y, Y) /\ Beside(packed, packed) /\ Beside(target, target)
      /\ Alike(X, X) /\ packed.w > 0 /\ target.w > 0
  BY <1>1, NeatFacts DEF Neat
<1>5. CASE cfg.kind \in {"packed_r2c", "packed_r2c_aiv"} /\ Program = PackedR2C
  <2> DEFINE k1 == Child(source, packed)
             k2 == Kernel(<<packed>>, <<Y>>)
  <2>1. Alike(X, source)
    <3>1. X = Spaced("in", "x", n, RealIn)
      BY <1>5 DEF X, R2CKinds, C2RKinds
    <3>2. cfg.batch = 1 \/ RealIn = n
      <4>1. ~(cfg.batch > 1 /\ (cfg.inPlace \/ (cfg.idist > 0 /\ cfg.idist # n)))
        BY <1>5 DEF FallsBack, SparseInput
      <4> QED
        BY <1>3, <4>1 DEF RealIn
    <3> QED
      BY <3>1, <3>2 DEF Alike, SamePlace, Spaced, Dense, Region
  <2> HIDE DEF source, packed, target
  <2>2. Passed(k1, X, packed)
    BY <1>1, <1>2, <1>4, <2>1, KernelPasses
  <2>3. Carries(packed, Y)
    BY <1>1, NeatCarries
  <2>4. Passed(k2, packed, Y) /\ k2.ins[1] = packed
    BY <2>3, KernelSource DEF Carries
  <2>5. Program = <<k1, k2>>
    BY <1>5 DEF PackedR2C, source, packed
  <2> HIDE DEF k1, k2
  <2> QED
    BY <1>2, <2>2, <2>4, <2>5, Chain2
<1>6. CASE cfg.kind \in {"packed_c2r", "packed_c2r_leaf"}
  <2>1. cfg.batch = 1 \/ (RealOut = n /\ ~cfg.inPlace)
    <3>1. ~(cfg.batch > 1 /\ (cfg.inPlace \/ (cfg.odist > 0 /\ cfg.odist # n)))
      BY <1>6 DEF FallsBack, SparseOutput
    <3> QED
      BY <1>3, <3>1 DEF RealOut
  <2>2. Alike(Y, target)
    <3>1. Y = Spaced(Out, "y", n, RealOut)
      BY <1>6 DEF Y, R2CKinds, C2RKinds
    <3> QED
      BY <2>1, <3>1 DEF Alike, SamePlace, Spaced, Dense, Region
  <2>3. X.buf # target.buf \/ Beside(X, target)
    BY <1>1, <2>1 DEF Beside, SamePlace, Out
  <2> HIDE DEF source, packed, target
  <2>4. CASE Program = PackedC2R
    <3> DEFINE k1 == Kernel(<<X>>, <<packed>>)
               k2 == Child(packed, target)
    <3>1. Carries(X, packed)
      BY <1>1, NeatCarries
    <3>2. Passed(k1, X, packed) /\ k2.ins[1] = packed
      BY <3>1, KernelSource DEF Carries
    <3>3. Passed(k2, packed, Y)
      <4>1. packed.buf # target.buf
        BY <1>1
      <4> QED
        BY <1>1, <1>2, <1>4, <2>2, <4>1, KernelPasses
    <3>4. Program = <<k1, k2>>
      BY <2>4 DEF PackedC2R, packed, target
    <3> HIDE DEF k1, k2
    <3> QED
      BY <1>2, <3>2, <3>3, <3>4, Chain2
  <2>5. CASE Program = PackedC2RFusedLeaf
    <3> DEFINE k1 == RowKernel(<<X>>, <<target>>)
    <3>1. Passed(k1, X, Y)
      BY <1>1, <1>2, <1>4, <2>2, <2>3, KernelPasses
    <3>2. Program = <<k1>>
      BY <2>5 DEF PackedC2RFusedLeaf, target
    <3> HIDE DEF k1
    <3> QED
      BY <1>2, <3>1, <3>2, Chain1
  <2> QED
    BY <1>5, <1>6, <2>4, <2>5
<1> QED
  BY <1>5, <1>6

\* Nodes that copy an in-place input first.
LEMMA CopyFirst ==
  ASSUME Configured, NEW p, Program = CopyInput \o p, NEW S, p \in Seq(S)
  PROVE  /\ Len(CopyInput) = (IF cfg.inPlace THEN 1 ELSE 0)
         /\ Len(Program) = Len(CopyInput) + Len(p)
         /\ \A i \in 1 .. Len(p) : Program[Len(CopyInput) + i] = p[i]
         /\ cfg.inPlace => Program[1] = Copy(X, EffectiveInput)
<1>1. CASE cfg.inPlace
  <2> DEFINE k == Copy(X, EffectiveInput)
             T == S \cup {k}
  <2>1. CopyInput = <<k>> /\ <<k>> \in Seq(T) /\ p \in Seq(T)
    BY <1>1 DEF CopyInput
  <2> HIDE DEF k, T
  <2>2. Len(<<k>>) = 1 /\ <<k>>[1] = k
    OBVIOUS
  <2>3. /\ Len(<<k>> \o p) = 1 + Len(p)
        /\ \A i \in 1 .. Len(p) : (<<k>> \o p)[1 + i] = p[i]
        /\ (<<k>> \o p)[1] = k
    BY <2>1, <2>2
  <2> QED
    BY <1>1, <2>1, <2>2, <2>3 DEF k
<1>2. CASE ~cfg.inPlace
  <2>1. CopyInput = <<>>
    BY <1>2 DEF CopyInput
  <2>2. <<>> \o p = p /\ Len(p) \in Nat
    OBVIOUS
  <2> QED
    BY <1>2, <2>1, <2>2
<1> QED
  BY <1>1, <1>2

\* The input a node works on, copied or not, is neat.
LEMMA NeatEffective ==
  ASSUME Configured, Sound
  PROVE  /\ Neat(EffectiveInput)
         /\ EffectiveInput.buf = (IF cfg.inPlace THEN "copy" ELSE "in")
         /\ EffectiveInput.buf # Out
         /\ ~cfg.inPlace => EffectiveInput = X
<1>1. CASE cfg.inPlace
  <2>1. EffectiveInput = Dense("copy", "x", 2 * n) /\ "copy" \in Buffers
    BY <1>1 DEF EffectiveInput, Buffers
  <2>2. Neat(EffectiveInput) /\ EffectiveInput.buf = "copy"
    BY <2>1, NeatDense, Widths
  <2> QED
    BY <1>1, <2>2 DEF Out
<1>2. CASE ~cfg.inPlace
  <2>1. EffectiveInput = X
    BY <1>2 DEF EffectiveInput
  <2> QED
    BY <1>2, <2>1, NeatCaller DEF Out
<1> QED
  BY <1>1, <1>2

\* The nodes of one kernel after the copy.
LEMMA CopiedChained ==
  ASSUME Configured, Sound, cfg.kind # "rader",
         Program = DirectDft \/ (Program = RaderLeaf /\ NeedsTable)
  PROVE  Chained
<1> DEFINE copied == EffectiveInput
<1>1. /\ Neat(X) /\ Neat(Y) /\ X.buf = "in" /\ Y.buf \in {"in", "out"} /\ Y.buf = Out
      /\ Neat(copied) /\ copied.buf = (IF cfg.inPlace THEN "copy" ELSE "in")
      /\ copied.buf # Out /\ (~cfg.inPlace => copied = X)
  BY NeatCaller, NeatEffective DEF Out
<1>2. PICK k : /\ Program = CopyInput \o <<k>>
               /\ k = Kernel(<<copied>>, <<Y>>)
                    \/ (k = WithTable(RowKernel(<<copied>>, <<Y>>)) /\ NeedsTable)
  BY DEF DirectDft, RaderLeaf
<1> HIDE DEF copied
<1>3. Passed(k, copied, Y) /\ k.ins[1] = copied
  <2>1. Carries(copied, Y)
    BY <1>1, NeatCarries
  <2> QED
    BY <1>2, <2>1, KernelSource DEF Carries
<1>4. /\ Len(Program) = (IF cfg.inPlace THEN 2 ELSE 1)
      /\ Program[IF cfg.inPlace THEN 2 ELSE 1] = k
      /\ cfg.inPlace => Program[1] = Copy(X, EffectiveInput)
  <2> DEFINE p == <<k>>
  <2>1. p \in Seq({k}) /\ Len(p) = 1 /\ p[1] = k
    OBVIOUS
  <2>2. Program = CopyInput \o p
    BY <1>2
  <2> HIDE DEF p
  <2>3. /\ Len(CopyInput) = (IF cfg.inPlace THEN 1 ELSE 0)
        /\ Len(Program) = Len(CopyInput) + Len(p)
        /\ \A i \in 1 .. Len(p) : Program[Len(CopyInput) + i] = p[i]
        /\ cfg.inPlace => Program[1] = Copy(X, EffectiveInput)
    BY <2>1, <2>2, CopyFirst
  <2> QED
    BY <2>1, <2>3
<1>5. CASE cfg.inPlace
  <2> DEFINE k1 == Copy(X, copied)
  <2>1. Carries(X, copied)
    BY <1>1, <1>5, NeatCarries
  <2>2. Passed(k1, X, k.ins[1])
    BY <1>3, <2>1 DEF Carries
  <2>3. Len(Program) = 2 /\ Program[1] = k1 /\ Program[2] = k
    BY <1>4, <1>5 DEF copied
  <2> HIDE DEF k1
  <2> QED
    BY <1>3, <2>2, <2>3, Chain2
<1>6. CASE ~cfg.inPlace
  <2>1. Len(Program) = 1 /\ Program[1] = k /\ Passed(k, X, Y)
    BY <1>1, <1>3, <1>4, <1>6
  <2> QED
    BY <2>1, Chain1
<1> QED
  BY <1>5, <1>6 DEF Configured

\* The Stockham stages, as many as the plan has, alternate between two buffers.
LEMMA StockhamChained ==
  ASSUME Configured, Sound, cfg.kind = "stockham", Program = Stockham
  PROVE  Chained
<1> DEFINE K == cfg.stages
           In(s) == Dense(IF s = 1 THEN "in" ELSE StageTarget(s - 1), AfterStage(s - 1), 2 * n)
           To(s) == Dense(StageTarget(s), AfterStage(s), 2 * n)
           Stage(s) == InChunks(Kernel(<<In(s)>>, <<To(s)>>))
           Stages == [s \in 1 .. K |-> Stage(s)]
           Done == Dense(StageTarget(K), "y", 2 * n)
           Last == Copy(Done, Y)
           Final == IF StageTarget(K) = Out THEN <<>> ELSE <<Last>>
<1>1. K \in Nat \ {0}
  <2>1. cfg.kind \notin FourStepNodes(cfg) \cup BluesteinNodes(cfg) \cup RaderNodes(cfg)
                        \cup R2CNodes(cfg) \cup C2RNodes(cfg)
    BY DEF FourStepNodes, BluesteinNodes, RaderNodes, R2CNodes, C2RNodes
  <2>2. cfg.plan = "stockham"
    BY <2>1 DEF Configured, Admits, ComplexNodes
  <2> QED
    BY <2>2, StagesExist, Lengths DEF Configured
<1>2. /\ X = Dense("in", "x", 2 * n) /\ Y = Dense(Out, "y", 2 * n) /\ ~OuterLoop
      /\ Out \in {"in", "out"} /\ 2 * n \in Nat \ {0}
  BY Widths DEF X, Y, Out, OuterLoop, R2CKinds, C2RKinds
<1>3. \A s : StageTarget(s) \in {"first", "second", Out}
  BY DEF StageTarget
<1>4. ASSUME NEW s \in 1 .. K
      PROVE  /\ In(s).buf # To(s).buf
             /\ Neat(In(s)) /\ Neat(To(s))
             /\ To(s).buf \in {"in", "out"} => To(s) = Y
  <2>1. s \in Nat \ {0} /\ s <= K
    BY <1>1, <1>4
  <2>2. (IF s = 1 THEN "in" ELSE StageTarget(s - 1)) # StageTarget(s)
    <3>1. CASE s = 1
      BY <2>1, <1>1, <1>2, <3>1 DEF StageTarget
    <3>2. CASE s # 1
      <4>1. s - 1 \in Nat \ {0} /\ s - 1 # K
        BY <1>1, <2>1, <3>2
      <4>2. StageTarget(s - 1) = (IF (s - 1) % 2 = 1 THEN "first" ELSE "second")
        BY <4>1 DEF StageTarget
      <4>3. StageTarget(s) \in {Out, IF s % 2 = 1 THEN "first" ELSE "second"}
        BY DEF StageTarget
      <4>4. ((s - 1) % 2 = 1) # (s % 2 = 1)
        BY <4>1, <2>1
      <4> QED
        BY <1>2, <3>2, <4>2, <4>3, <4>4
    <3> QED
      BY <3>1, <3>2
  <2>3. /\ (IF s = 1 THEN "in" ELSE StageTarget(s - 1)) \in Buffers
        /\ StageTarget(s) \in Buffers
    BY <1>2, <1>3 DEF Buffers
  <2>4. /\ In(s).buf = (IF s = 1 THEN "in" ELSE StageTarget(s - 1))
        /\ To(s).buf = StageTarget(s) /\ Neat(In(s)) /\ Neat(To(s))
    BY <1>2, <2>3, NeatDense
  <2>5. ASSUME StageTarget(s) \in {"in", "out"} PROVE To(s) = Y
    <3>1. s = K /\ StageTarget(s) = Out
      BY <1>2, <2>5 DEF StageTarget
    <3>2. AfterStage(s) = "y"
      BY <1>1, <3>1 DEF AfterStage
    <3> QED
      BY <1>2, <3>1, <3>2
  <2> QED
    BY <2>2, <2>4, <2>5
<1>5. In(1) = X /\ To(K) = Done
  BY <1>1, <1>2 DEF AfterStage
<1>6. \A s \in 1 .. K : s < K => To(s) = In(s + 1)
  <2> SUFFICES ASSUME NEW s \in 1 .. K PROVE To(s) = In(s + 1)
    OBVIOUS
  <2>1. s + 1 # 1 /\ (s + 1) - 1 = s
    BY <1>1
  <2> QED
    BY <2>1
<1>7. ASSUME StageTarget(K) # Out
      PROVE  /\ Neat(Done) /\ Neat(Y) /\ Done.buf # Y.buf
  <2>1. StageTarget(K) \in Buffers
    BY <1>3, <1>7 DEF Buffers
  <2> QED
    BY <1>2, <1>7, <2>1, NeatCaller, NeatDense
<1>8. StageTarget(K) = Out => Done = Y
  BY <1>2
<1>9. Stockham = Stages \o Final
  BY DEF Stockham
<1> HIDE DEF In, To, Done
<1>10. ASSUME NEW s \in 1 .. K
       PROVE  Passed(Stage(s), In(s), To(s)) /\ Stage(s).ins[1] = In(s)
  <2>1. Carries(In(s), To(s))
    BY <1>4, NeatCarries
  <2> QED
    BY <2>1, KernelSource DEF Carries
<1>11. StageTarget(K) # Out => Passed(Last, Done, Y) /\ Last.ins[1] = Done
  <2>1. StageTarget(K) # Out => Carries(Done, Y)
    BY <1>7, NeatCarries
  <2> QED
    BY <2>1, KernelSource DEF Carries
<1> HIDE DEF Stage, Last
<1>12. /\ Len(Program) = IF StageTarget(K) = Out THEN K ELSE K + 1
       /\ \A s \in 1 .. K : Program[s] = Stage(s)
       /\ StageTarget(K) # Out => Program[K + 1] = Last
  <2> DEFINE S == {Stage(s) : s \in 1 .. K} \cup {Last}
  <2>1. Stages \in Seq(S) /\ Final \in Seq(S)
    <3>1. Last \in S /\ \A s \in 1 .. K : Stage(s) \in S
      OBVIOUS
    <3> HIDE DEF S
    <3>2. Stages \in [1 .. K -> S]
      BY <3>1
    <3>3. Stages \in Seq(S)
      BY <1>1, <3>2
    <3>4. <<>> \in Seq(S) /\ <<Last>> \in Seq(S)
      BY <3>1
    <3> QED
      BY <3>3, <3>4
  <2>2. Len(Stages) = K /\ \A s \in 1 .. K : Stages[s] = Stage(s)
    BY <1>1
  <2>3. /\ Len(<<Last>>) = 1 /\ <<Last>>[1] = Last
    OBVIOUS
  <2>4. /\ Len(Final) = IF StageTarget(K) = Out THEN 0 ELSE 1
        /\ StageTarget(K) # Out => Final[1] = Last
    BY <2>3
  <2> HIDE DEF Stages, Final, S
  <2>5. /\ Len(Stages \o Final) = K + Len(Final)
        /\ \A s \in 1 .. K : (Stages \o Final)[s] = Stages[s]
        /\ Len(Final) = 1 => (Stages \o Final)[K + 1] = Final[1]
    BY <1>1, <2>1, <2>2
  <2> QED
    BY <1>1, <1>9, <2>2, <2>4, <2>5
<1>13. ASSUME NEW p \in 1 .. Len(Program)
       PROVE  Passed(Program[p], Source(p), Source(p + 1))
  <2>1. CASE p <= K
    <3>1. p \in 1 .. K /\ Program[p] = Stage(p)
      BY <1>1, <1>12, <1>13, <2>1
    <3>2. Source(p) = In(p)
      BY <1>1, <1>5, <1>10, <1>12, <1>13, <2>1, <3>1 DEF Source
    <3>3. Source(p + 1) = To(p)
      <4>1. CASE p < K
        <5>1. p + 1 \in 1 .. K /\ p + 1 # 1 /\ p + 1 <= Len(Program)
          BY <1>1, <1>12, <3>1, <4>1
        <5> QED
          BY <1>6, <1>10, <1>12, <3>1, <4>1, <5>1 DEF Source
      <4>2. CASE p = K
        <5>1. p + 1 # 1
          BY <1>1, <4>2
        <5> QED
          BY <1>1, <1>5, <1>8, <1>11, <1>12, <4>2, <5>1 DEF Source
      <4> QED
        BY <1>1, <2>1, <3>1, <4>1, <4>2
    <3> QED
      BY <1>10, <3>1, <3>2, <3>3
  <2>2. CASE p > K
    <3>1. p = K + 1 /\ StageTarget(K) # Out /\ Program[p] = Last /\ p # 1
          /\ Len(Program) = K + 1 /\ p + 1 > Len(Program) /\ p + 1 # 1
      BY <1>1, <1>12, <1>13, <2>2
    <3>2. Source(p) = Done /\ Source(p + 1) = Y
      BY <1>11, <3>1, <1>13 DEF Source
    <3> QED
      BY <1>11, <3>1, <3>2
  <2> QED
    BY <1>1, <1>13, <2>1, <2>2
<1> QED
  BY <1>13, ChainPasses
-----------------------------------------------------------------------------
(* The Rader nodes, whose kernels read and write two regions.              *)

Linked(s, N, M) ==
  Finds(s, N) /\ Leaves(s, N, M) /\ SparesIdle(s, Idle(s, N, M))

\* A launch over all rows whose regions are in different buffers.
LEMMA PlainLinks ==
  ASSUME ~OuterLoop, NEW s, ~s.looped, s.table => NeedsTable, NEW N, NEW M,
         1 \in DOMAIN s.ins,
         \A i \in DOMAIN s.ins : Neat(s.ins[i]) /\ s.ins[i] \in N,
         \A i \in DOMAIN s.ins, j \in DOMAIN s.outs : s.ins[i].buf # s.outs[j].buf,
         \A j \in DOMAIN s.outs : s.outs[j].w > 0 /\ Beside(s.outs[j], s.outs[j]),
         \A j, k \in DOMAIN s.outs : j # k => s.outs[j].buf # s.outs[k].buf,
         \A g \in M : \/ \E j \in DOMAIN s.outs : g = s.outs[j]
                      \/ g \in N /\ \A j \in DOMAIN s.outs : Spares(s.outs[j], g)
  PROVE  Linked(s, N, M)
<1>1. \A g : Alike(g, g)
  BY DEF Alike, SamePlace
<1>2. Finds(s, N)
  BY <1>1 DEF Finds, Neat
<1>3. Leaves(s, N, M)
  BY <1>1 DEF Leaves
<1>4. SparesIdle(s, Idle(s, N, M))
  BY DEF SparesIdle, Idle
<1> QED
  BY <1>2, <1>3, <1>4 DEF Linked

\* Launches that load and store one or two regions.
LEMMA LinkOneToOne ==
  ASSUME ~OuterLoop, NEW g, NEW h, NEW s, s.ins = <<g>>, s.outs = <<h>>, ~s.looped,
         s.table => NeedsTable, NEW N, NEW M, g \in N, Neat(g), g.buf # h.buf,
         h.w > 0, Beside(h, h), \A x \in M : x = h \/ (x \in N /\ Spares(h, x))
  PROVE  Linked(s, N, M)
<1>1. /\ DOMAIN <<g>> = {1} /\ DOMAIN <<h>> = {1} /\ <<g>>[1] = g /\ <<h>>[1] = h
  OBVIOUS
<1>2. /\ DOMAIN s.ins = {1} /\ DOMAIN s.outs = {1} /\ s.ins[1] = g /\ s.outs[1] = h
  BY <1>1
<1> QED
  BY <1>2, PlainLinks

LEMMA LinkTwoToOne ==
  ASSUME ~OuterLoop, NEW g, NEW g2, NEW h, NEW s, s.ins = <<g, g2>>, s.outs = <<h>>, ~s.looped,
         s.table => NeedsTable, NEW N, NEW M, g \in N, Neat(g), g.buf # h.buf,
         g2 \in N, Neat(g2), g2.buf # h.buf,
         h.w > 0, Beside(h, h), \A x \in M : x = h \/ (x \in N /\ Spares(h, x))
  PROVE  Linked(s, N, M)
<1>1. /\ DOMAIN <<g, g2>> = {1, 2} /\ DOMAIN <<h>> = {1} /\ <<g, g2>>[1] = g
      /\ <<g, g2>>[2] = g2 /\ <<h>>[1] = h
  OBVIOUS
<1>2. /\ DOMAIN s.ins = {1, 2} /\ DOMAIN s.outs = {1} /\ s.ins[1] = g /\ s.ins[2] = g2
      /\ s.outs[1] = h
  BY <1>1
<1> QED
  BY <1>2, PlainLinks

LEMMA LinkTwoToTwo ==
  ASSUME ~OuterLoop, NEW g, NEW g2, NEW h, NEW h2, NEW s, s.ins = <<g, g2>>, s.outs = <<h, h2>>,
         ~s.looped, s.table => NeedsTable, NEW N, NEW M,
         g \in N, Neat(g), g.buf # h.buf, g.buf # h2.buf,
         g2 \in N, Neat(g2), g2.buf # h.buf, g2.buf # h2.buf, h.buf # h2.buf,
         h.w > 0, Beside(h, h), h2.w > 0, Beside(h2, h2),
         \A x \in M : x \in {h, h2} \/ (x \in N /\ Spares(h, x) /\ Spares(h2, x))
  PROVE  Linked(s, N, M)
<1>1. /\ DOMAIN <<g, g2>> = {1, 2} /\ DOMAIN <<h, h2>> = {1, 2} /\ <<g, g2>>[1] = g
      /\ <<g, g2>>[2] = g2 /\ <<h, h2>>[1] = h /\ <<h, h2>>[2] = h2
  OBVIOUS
<1>2. /\ DOMAIN s.ins = {1, 2} /\ DOMAIN s.outs = {1, 2} /\ s.ins[1] = g /\ s.ins[2] = g2
      /\ s.outs[1] = h /\ s.outs[2] = h2
  BY <1>1
<1> QED
  BY <1>2, PlainLinks

\* The regions a launch loads.
LEMMA InputsAre ==
  ASSUME NEW s, NEW a, NEW b
  PROVE  /\ s.ins = <<a>> => Inputs(s) = {a}
         /\ s.ins = <<a, b>> => Inputs(s) = {a, b}
<1>1. ASSUME s.ins = <<a>> PROVE Inputs(s) = {a}
  <2>1. DOMAIN <<a>> = {1} /\ <<a>>[1] = a
    OBVIOUS
  <2>2. DOMAIN s.ins = {1} /\ s.ins[1] = a
    BY <1>1, <2>1
  <2> QED
    BY <2>2 DEF Inputs
<1>2. ASSUME s.ins = <<a, b>> PROVE Inputs(s) = {a, b}
  <2>1. DOMAIN <<a, b>> = {1, 2} /\ <<a, b>>[1] = a /\ <<a, b>>[2] = b
    OBVIOUS
  <2>2. DOMAIN s.ins = {1, 2} /\ s.ins[1] = a /\ s.ins[2] = b
    BY <1>2, <2>1
  <2> QED
    BY <2>2 DEF Inputs
<1> QED
  BY <1>1, <1>2

\* The fields of a launch.
LEMMA KernelFields ==
  ASSUME NEW ins, NEW outs
  PROVE  /\ Kernel(ins, outs).ins = ins /\ Kernel(ins, outs).outs = outs
         /\ ~Kernel(ins, outs).looped /\ ~Kernel(ins, outs).table
         /\ RowKernel(ins, outs).ins = ins /\ RowKernel(ins, outs).outs = outs
         /\ ~RowKernel(ins, outs).looped /\ ~RowKernel(ins, outs).table
         /\ WithTable(Kernel(ins, outs)).ins = ins /\ WithTable(Kernel(ins, outs)).outs = outs
         /\ ~WithTable(Kernel(ins, outs)).looped
         /\ WithTable(RowKernel(ins, outs)).ins = ins
         /\ WithTable(RowKernel(ins, outs)).outs = outs
         /\ ~WithTable(RowKernel(ins, outs)).looped
  BY DEF Kernel, RowKernel, WithTable

\* What both nodes share: the copy of an in-place input, if there is one.
LEMMA CopyLinks ==
  ASSUME Configured, Sound, ~OuterLoop, cfg.inPlace
  PROVE  Linked(Copy(X, EffectiveInput), {X}, {EffectiveInput})
<1>1. /\ Neat(X) /\ Neat(EffectiveInput) /\ X.buf # EffectiveInput.buf
  BY NeatCaller, NeatEffective
<1>2. EffectiveInput.w > 0 /\ Beside(EffectiveInput, EffectiveInput)
  BY <1>1, NeatFacts DEF Neat
<1> QED
  BY <1>1, <1>2, KernelFields, LinkOneToOne DEF Copy

\* The Rader node with boundary kernels.
LEMMA RaderBoundaryChained ==
  ASSUME Configured, Sound, cfg.kind = "rader_boundary", NeedsTable, Program = RaderBoundary
  PROVE  Chained
<1> DEFINE E == EffectiveInput
           A == Dense("a", "spectrum", 2 * m)
           k1 == RowKernel(<<E>>, <<A>>)
           k2 == WithTable(RowKernel(<<A, E>>, <<Y>>))
           c == Len(CopyInput)
<1>1. ~OuterLoop /\ cfg.kind # "rader" /\ 2 * m \in Nat \ {0}
  BY Widths DEF OuterLoop, TableKinds
<1>2. /\ Neat(X) /\ Neat(Y) /\ Neat(E) /\ Neat(A) /\ A.buf = "a" /\ E.buf \in {"in", "copy"}
      /\ E.buf # Out /\ Y.buf = Out /\ Out \in {"in", "out"} /\ X.buf = "in"
  BY <1>1, NeatCaller, NeatEffective, NeatDense DEF Out, Buffers
<1>3. /\ Beside(A, A) /\ Beside(Y, Y) /\ A.w > 0 /\ Y.w > 0
  BY <1>2, NeatFacts DEF Neat
<1>4. /\ c = (IF cfg.inPlace THEN 1 ELSE 0) /\ Len(Program) = c + 2
      /\ Program[c + 1] = k1 /\ Program[c + 2] = k2
      /\ cfg.inPlace => Program[1] = Copy(X, E)
  <2> DEFINE p == <<k1, k2>>
  <2>1. p \in Seq({k1, k2}) /\ Len(p) = 2 /\ p[1] = k1 /\ p[2] = k2
    OBVIOUS
  <2>2. Program = CopyInput \o p
    BY DEF RaderBoundary
  <2> HIDE DEF p, k1, k2
  <2>3. /\ c = (IF cfg.inPlace THEN 1 ELSE 0)
        /\ Len(Program) = c + Len(p)
        /\ \A i \in 1 .. Len(p) : Program[c + i] = p[i]
        /\ cfg.inPlace => Program[1] = Copy(X, E)
    BY <2>1, <2>2, CopyFirst
  <2> QED
    BY <2>1, <2>3
<1>5. /\ k1.ins = <<E>> /\ k1.outs = <<A>> /\ ~k1.looped /\ ~k1.table
      /\ k2.ins = <<A, E>> /\ k2.outs = <<Y>> /\ ~k2.looped
  BY KernelFields
<1>6. Inputs(k1) = {E} /\ Inputs(k2) = {A, E} /\ (cfg.inPlace => Inputs(Copy(X, E)) = {X})
  <2>1. Copy(X, E).ins = <<X>>
    BY KernelFields DEF Copy
  <2> HIDE DEF k1, k2, E, A
  <2> QED
    BY <1>5, <2>1, InputsAre
<1>7. ~cfg.inPlace => E = X
  BY NeatEffective
<1> HIDE DEF E, A, k1, k2, c
<1>8. /\ Needs(1) = {X} /\ Needs(c + 1) = {E} /\ Needs(c + 2) = {A, E} /\ Needs(c + 3) = {Y}
  BY <1>1, <1>4, <1>6, <1>7 DEF Needs, Later
<1>9. Linked(k1, {E}, {A, E}) /\ Linked(k2, {A, E}, {Y})
  <2>1. A.buf # E.buf /\ Y.buf # E.buf /\ A.buf # Y.buf /\ Spares(A, E)
    BY <1>2 DEF Spares
  <2>2. Linked(k1, {E}, {A, E})
    BY <1>1, <1>2, <1>3, <1>5, <2>1, LinkOneToOne
  <2>3. Linked(k2, {A, E}, {Y})
    BY <1>1, <1>2, <1>3, <1>5, <2>1, LinkTwoToOne
  <2> QED
    BY <2>2, <2>3
<1>10. cfg.inPlace => Linked(Copy(X, E), {X}, {E})
  BY <1>1, CopyLinks DEF E
<1>11. \A g \in {X, E, A, Y} : Typed(g) /\ g.step = g.dist
  BY <1>1, <1>2, NeatFacts DEF Neat
<1>12. ASSUME NEW p \in 1 .. Len(Program) + 1
       PROVE  Needs(p) \subseteq {X, E, A, Y}
  <2>1. p \in {1, c + 1, c + 2, c + 3}
    BY <1>4
  <2> QED
    BY <1>8, <2>1
<1>13. ASSUME NEW p \in 1 .. Len(Program)
       PROVE  Linked(Program[p], Needs(p), Needs(p + 1))
  <2>1. CASE p = c + 1
    BY <1>4, <1>8, <1>9, <2>1
  <2>2. CASE p = c + 2
    BY <1>4, <1>8, <1>9, <2>2
  <2>3. CASE cfg.inPlace /\ p = 1
    BY <1>4, <1>8, <1>10, <2>3
  <2> QED
    BY <1>4, <2>1, <2>2, <2>3
<1> QED
  BY <1>11, <1>12, <1>13 DEF Chained, Steady, Linked

\* The generic Rader node, which stores the first word early and the input's
\* sum once more.
LEMMA RaderChained ==
  ASSUME Configured, Sound, cfg.kind = "rader", NeedsTable, Program = Rader
  PROVE  Chained
<1> DEFINE E == EffectiveInput
           permuted == Dense("a", "permuted", 2 * m)
           spectrum == Dense("work", "spectrum", 2 * m)
           product == Dense("a", "product", 2 * m)
           convolved == Dense("work", "convolved", 2 * m)
           rest == From(Y, 2)
           k1 == Kernel(<<E>>, <<permuted>>)
           k2 == Child(permuted, spectrum)
           k3 == WithTable(Kernel(<<spectrum, E>>, <<product, First>>))
           k4 == Child(product, convolved)
           k5 == Kernel(<<convolved, E>>, <<rest>>)
           c == Len(CopyInput)
<1>1. ~OuterLoop /\ 2 * m \in Nat \ {0} /\ Y = Dense(Out, "y", 2 * n) /\ 2 * n \in Nat \ {0}
  BY Widths DEF OuterLoop, TableKinds, Y, R2CKinds, C2RKinds
<1>2. /\ Neat(X) /\ Neat(E) /\ E.buf \in {"in", "copy"} /\ X.buf = "in"
      /\ E.buf # Out /\ Out \in {"in", "out"}
  BY NeatCaller, NeatEffective DEF Out
<1>3. /\ Neat(permuted) /\ permuted.buf = "a" /\ Neat(spectrum) /\ spectrum.buf = "work"
      /\ Neat(product) /\ product.buf = "a" /\ Neat(convolved) /\ convolved.buf = "work"
  BY <1>1, NeatDense DEF Buffers
<1>4. /\ permuted.w > 0 /\ Beside(permuted, permuted) /\ spectrum.w > 0
      /\ Beside(spectrum, spectrum) /\ product.w > 0 /\ Beside(product, product)
      /\ convolved.w > 0 /\ Beside(convolved, convolved)
  BY <1>3, NeatFacts DEF Neat
<1>5. /\ First.buf = Out /\ First.lo = 0 /\ First.w = 2 /\ First.dist = 2 * n /\ First.step = 2 * n
      /\ rest.buf = Out /\ rest.lo = 2 /\ rest.w = 2 * n /\ rest.dist = 2 * n /\ rest.step = 2 * n
      /\ 2 <= 2 * n
  <2>1. n \in Nat \ {0}
    BY Lengths
  <2> QED
    BY <1>1, <2>1 DEF First, From, Dense, Region
<1>6. /\ Beside(First, First) /\ Beside(rest, rest) /\ Spares(rest, First)
      /\ Typed(First) /\ Typed(rest)
  <2>1. Out \in Buffers
    BY <1>2 DEF Buffers
  <2> HIDE DEF rest
  <2> QED
    BY <1>1, <1>5, <2>1 DEF Beside, SamePlace, Spares, Typed
<1>7. /\ c = (IF cfg.inPlace THEN 1 ELSE 0) /\ Len(Program) = c + 5
      /\ Program[c + 1] = k1 /\ Program[c + 2] = k2 /\ Program[c + 3] = k3
      /\ Program[c + 4] = k4 /\ Program[c + 5] = k5
      /\ cfg.inPlace => Program[1] = Copy(X, E)
  <2> DEFINE p == <<k1, k2, k3, k4, k5>>
  <2>1. /\ p \in Seq({k1, k2, k3, k4, k5}) /\ Len(p) = 5 /\ p[1] = k1 /\ p[2] = k2 /\ p[3] = k3
        /\ p[4] = k4 /\ p[5] = k5
    <3> HIDE DEF k1, k2, k3, k4, k5
    <3> QED
      OBVIOUS
  <2>2. Program = CopyInput \o p
    BY DEF Rader, First
  <2> HIDE DEF p, k1, k2, k3, k4, k5
  <2>3. /\ c = (IF cfg.inPlace THEN 1 ELSE 0)
        /\ Len(Program) = c + Len(p)
        /\ \A i \in 1 .. Len(p) : Program[c + i] = p[i]
        /\ cfg.inPlace => Program[1] = Copy(X, E)
    BY <2>1, <2>2, CopyFirst
  <2> QED
    BY <2>1, <2>3
<1> HIDE DEF E, permuted, spectrum, product, convolved, rest
<1>8. /\ k1.ins = <<E>> /\ k1.outs = <<permuted>> /\ ~k1.looped /\ ~k1.table
      /\ k2.ins = <<permuted>> /\ k2.outs = <<spectrum>> /\ ~k2.looped /\ ~k2.table
      /\ k3.ins = <<spectrum, E>> /\ k3.outs = <<product, First>> /\ ~k3.looped
      /\ k4.ins = <<product>> /\ k4.outs = <<convolved>> /\ ~k4.looped /\ ~k4.table
      /\ k5.ins = <<convolved, E>> /\ k5.outs = <<rest>> /\ ~k5.looped /\ ~k5.table
  <2>1. k1.ins = <<E>> /\ k1.outs = <<permuted>> /\ ~k1.looped /\ ~k1.table
    BY DEF Kernel, WithTable
  <2>2. k2.ins = <<permuted>> /\ k2.outs = <<spectrum>> /\ ~k2.looped /\ ~k2.table
    BY DEF Kernel, RowKernel, Child
  <2>3. k3.ins = <<spectrum, E>> /\ k3.outs = <<product, First>> /\ ~k3.looped
    BY DEF Kernel, WithTable
  <2>4. k4.ins = <<product>> /\ k4.outs = <<convolved>> /\ ~k4.looped /\ ~k4.table
    BY DEF Kernel, RowKernel, Child
  <2>5. k5.ins = <<convolved, E>> /\ k5.outs = <<rest>> /\ ~k5.looped /\ ~k5.table
    BY DEF Kernel, WithTable
  <2> HIDE DEF k1, k2, k3, k4, k5
  <2> QED
    BY <2>1, <2>2, <2>3, <2>4, <2>5
<1> HIDE DEF k1, k2, k3, k4, k5, c
<1>9. /\ Inputs(k1) = {E} /\ Inputs(k2) = {permuted} /\ Inputs(k3) = {spectrum, E}
      /\ Inputs(k4) = {product} /\ Inputs(k5) = {convolved, E}
  BY <1>8, InputsAre
<1>10. ~cfg.inPlace => E = X
  BY NeatEffective DEF E
<1>11. ASSUME NEW p \in Nat
       PROVE  Later(p) = {E} \cup (IF p > c + 3 THEN {First} ELSE {})
  BY DEF Later, E, c
<1>12. /\ Needs(1) = {X} /\ Needs(c + 1) = {E} /\ Needs(c + 2) = {permuted, E}
       /\ Needs(c + 3) = {spectrum, E} /\ Needs(c + 4) = {product, E, First}
       /\ Needs(c + 5) = {convolved, E, First} /\ Needs(c + 6) = {First, rest}
  <2>1. Needs(1) = {X} /\ Needs(c + 6) = {First, rest}
    BY <1>7 DEF Needs, rest
  <2>2. Needs(c + 1) = {E}
    BY <1>7, <1>9, <1>10, <1>11 DEF Needs
  <2>3. Needs(c + 2) = {permuted, E} /\ Needs(c + 3) = {spectrum, E}
    BY <1>7, <1>9, <1>11 DEF Needs
  <2>4. Needs(c + 4) = {product, E, First} /\ Needs(c + 5) = {convolved, E, First}
    BY <1>7, <1>9, <1>11 DEF Needs
  <2> QED
    BY <2>1, <2>2, <2>3, <2>4
<1>13. /\ Linked(k1, {E}, {permuted, E})
       /\ Linked(k2, {permuted, E}, {spectrum, E})
       /\ Linked(k3, {spectrum, E}, {product, E, First})
       /\ Linked(k4, {product, E, First}, {convolved, E, First})
       /\ Linked(k5, {convolved, E, First}, {First, rest})
  <2>1. /\ Spares(permuted, E) /\ Spares(spectrum, E) /\ Spares(product, E)
        /\ Spares(First, E) /\ Spares(convolved, E) /\ Spares(convolved, First)
    BY <1>2, <1>3, <1>5 DEF Spares
  <2>2. Linked(k1, {E}, {permuted, E})
    BY <1>1, <1>2, <1>3, <1>4, <1>8, <2>1, LinkOneToOne
  <2>3. Linked(k2, {permuted, E}, {spectrum, E})
    BY <1>1, <1>2, <1>3, <1>4, <1>8, <2>1, LinkOneToOne
  <2>4. Linked(k3, {spectrum, E}, {product, E, First})
    <3>1. /\ spectrum.buf # product.buf /\ spectrum.buf # First.buf /\ E.buf # product.buf
          /\ E.buf # First.buf /\ product.buf # First.buf /\ First.w > 0
      BY <1>2, <1>3, <1>5
    <3> QED
      BY <1>1, <1>2, <1>3, <1>4, <1>6, <1>8, <2>1, <3>1, LinkTwoToTwo
  <2>5. Linked(k4, {product, E, First}, {convolved, E, First})
    BY <1>1, <1>2, <1>3, <1>4, <1>8, <2>1, LinkOneToOne
  <2>6. Linked(k5, {convolved, E, First}, {First, rest})
    <3>1. convolved.buf # rest.buf /\ E.buf # rest.buf /\ rest.w > 0
      BY <1>1, <1>2, <1>3, <1>5
    <3> QED
      BY <1>1, <1>2, <1>3, <1>4, <1>6, <1>8, <3>1, LinkTwoToOne
  <2> QED
    BY <2>2, <2>3, <2>4, <2>5, <2>6
<1>14. cfg.inPlace => Linked(Copy(X, E), {X}, {E})
  BY <1>1, CopyLinks DEF E
<1>15. \A g \in {X, E, permuted, spectrum, product, convolved, First, rest} :
          Typed(g) /\ g.step = g.dist
  BY <1>1, <1>2, <1>3, <1>5, <1>6, NeatFacts DEF Neat
<1>16. ASSUME NEW p \in 1 .. Len(Program) + 1
       PROVE  Needs(p) \subseteq {X, E, permuted, spectrum, product, convolved, First, rest}
  <2>1. p \in {1, c + 1, c + 2, c + 3, c + 4, c + 5, c + 6}
    BY <1>7
  <2> QED
    BY <1>12, <2>1
<1>17. ASSUME NEW p \in 1 .. Len(Program)
       PROVE  Linked(Program[p], Needs(p), Needs(p + 1))
  <2>1. CASE p = c + 1
    BY <1>7, <1>12, <1>13, <2>1
  <2>2. CASE p = c + 2
    BY <1>7, <1>12, <1>13, <2>2
  <2>3. CASE p = c + 3
    BY <1>7, <1>12, <1>13, <2>3
  <2>4. CASE p = c + 4
    BY <1>7, <1>12, <1>13, <2>4
  <2>5. CASE p = c + 5
    BY <1>7, <1>12, <1>13, <2>5
  <2>6. CASE cfg.inPlace /\ p = 1
    BY <1>7, <1>12, <1>14, <2>6
  <2> QED
    BY <1>7, <2>1, <2>2, <2>3, <2>4, <2>5, <2>6
<1> QED
  BY <1>15, <1>16, <1>17 DEF Chained, Steady, Linked
-----------------------------------------------------------------------------
(* Results.                                                                *)

\* Every node's program passes the rows on from the input to the output.
LEMMA ProgramChained ==
  ASSUME Configured, Sound
  PROVE  Chained
<1>1. CASE FallsBack
  <2>1. cfg.kind \in {"bluestein_full_r2c", "bluestein_four_r2c", "bluestein_full_c2r",
                      "bluestein_four_c2r", "packed_r2c", "packed_r2c_aiv", "packed_c2r",
                      "packed_c2r_leaf"}
    BY <1>1 DEF FallsBack
  <2>2. Program = IF cfg.kind \in R2CKinds THEN R2C ELSE C2R
    BY <1>1 DEF Program
  <2>3. cfg.kind # "rader" /\ ~OuterLoop
    BY <2>1 DEF OuterLoop
  <2>4. cfg.kind \in R2CKinds => cfg.batch <= cfg.chunk
    BY <1>1 DEF Sound
  <2> QED
    BY <2>2, <2>3, <2>4, RealChained
<1>2. CASE ~FallsBack
  <2>1. CASE cfg.kind \in {"leaf", "r2c_leaf", "c2r_leaf", "bluestein_full",
                           "bluestein_full_r2c", "bluestein_full_c2r"}
    <3>1. \/ Program \in {Leaf, RealLeaf}
          \/ Program = BluesteinFullLeaf /\ NeedsTable
      BY <1>2, <2>1 DEF Program, NeedsTable, TableKinds
    <3>2. cfg.kind # "rader" /\ ~OuterLoop
      BY <2>1 DEF OuterLoop
    <3>3. Beside(X, Y) \/ ~cfg.inPlace
      <4>1. CASE cfg.kind \in {"leaf", "bluestein_full"}
        <5>1. X = Dense("in", "x", 2 * n) /\ Y = Dense(Out, "y", 2 * n) /\ 2 * n \in Nat
          BY <4>1, Widths DEF X, Y, R2CKinds, C2RKinds
        <5> QED
          BY <5>1 DEF Beside, SamePlace, Dense, Region
      <4>2. CASE cfg.kind \in {"r2c_leaf", "c2r_leaf"}
        <5>1. cfg.inPlace => X.dist = Y.dist
          BY <4>2 DEF Sound
        <5>2. X.w <= X.dist /\ Y.w <= Y.dist /\ X.step = X.dist /\ Y.step = Y.dist
          BY Shapes DEF Sound
        <5> QED
          BY <5>1, <5>2 DEF Beside, SamePlace
      <4>3. CASE cfg.kind \in {"bluestein_full_r2c", "bluestein_full_c2r"}
        <5>1. ~SparseBluestein
          BY <1>2, <4>3 DEF FallsBack
        <5> QED
          BY <5>1 DEF SparseBluestein
      <4> QED
        BY <2>1, <4>1, <4>2, <4>3
    <3> QED
      BY <3>1, <3>2, <3>3, RowsChained
  <2>2. CASE cfg.kind \in {"direct", "rader_leaf"}
    <3>1. /\ cfg.kind # "rader"
          /\ Program = DirectDft \/ (Program = RaderLeaf /\ NeedsTable)
      BY <1>2, <2>2 DEF Program, NeedsTable, TableKinds
    <3> QED
      BY <3>1, CopiedChained
  <2>3. CASE cfg.kind = "stockham"
    <3>1. Program = Stockham
      BY <1>2, <2>3 DEF Program
    <3> QED
      BY <2>3, <3>1, StockhamChained
  <2>4. CASE cfg.kind \in {"four_step", "generic", "r2c_half_out", "c2r_real_out",
                           "r2c_real_in", "c2r_compact_in"}
    <3>1. /\ cfg.kind # "rader"
          /\ Program \in {FourStepFused, FourStepGeneric, ExpandedFourStep, DirectFourStep}
      BY <1>2, <2>4 DEF Program
    <3> QED
      BY <3>1, FourStepChained
  <2>5. CASE cfg.kind \in {"bluestein_leaf", "bluestein_four", "bluestein_four_r2c",
                           "bluestein_four_c2r"}
    <3>1. /\ cfg.kind # "rader" /\ cfg.kind \in TableKinds /\ NeedsTable
          /\ Program \in {BluesteinLeaf, BluesteinFourStep}
      BY <1>2, <2>5 DEF Program, NeedsTable, TableKinds
    <3> QED
      BY <3>1, ConvolutionChained
  <2>6. CASE cfg.kind = "bluestein"
    <3>1. Program = Bluestein /\ NeedsTable
      BY <1>2, <2>6 DEF Program, NeedsTable, TableKinds
    <3> QED
      BY <2>6, <3>1, BluesteinChained
  <2>7. CASE cfg.kind = "rader"
    <3>1. Program = Rader /\ NeedsTable
      BY <1>2, <2>7 DEF Program, NeedsTable, TableKinds
    <3> QED
      BY <2>7, <3>1, RaderChained
  <2>8. CASE cfg.kind = "rader_boundary"
    <3>1. Program = RaderBoundary /\ NeedsTable
      BY <1>2, <2>8 DEF Program, NeedsTable, TableKinds
    <3> QED
      BY <2>8, <3>1, RaderBoundaryChained
  <2>9. CASE cfg.kind \in {"r2c", "c2r"}
    <3>1. Program = IF cfg.kind = "r2c" THEN R2C ELSE C2R
      BY <1>2, <2>9 DEF Program
    <3>2. /\ cfg.kind = "r2c" => cfg.kind \in R2CKinds /\ cfg.batch <= cfg.chunk
          /\ cfg.kind # "rader" /\ ~OuterLoop
      BY <2>9 DEF Sound, OuterLoop, R2CKinds
    <3> QED
      BY <3>1, <3>2, RealChained
  <2>10. CASE cfg.kind \in {"packed_r2c", "packed_r2c_aiv"}
    <3>1. Program = PackedR2C
      BY <1>2, <2>10 DEF Program
    <3> QED
      BY <1>2, <2>10, <3>1, PackedChained
  <2>11. CASE cfg.kind \in {"packed_c2r", "packed_c2r_leaf"}
    <3>1. Program \in {PackedC2R, PackedC2RFusedLeaf}
      BY <1>2, <2>11 DEF Program
    <3> QED
      BY <1>2, <2>11, <3>1, PackedChained
  <2> QED
    BY <2>1, <2>2, <2>3, <2>4, <2>5, <2>6, <2>7, <2>8, <2>9, <2>10, <2>11, KindsListed
<1> QED
  BY <1>1, <1>2

\* Every layout that is_supported_minimal_desc admits: complex rows follow each
\* other, real rows may be padded to the length of their complex rows.
LEMMA SupportedLayout ==
  ASSUME Configured,
         cfg.kind \in R2CKinds => cfg.idist \in {0, n, 2 * half} /\ cfg.odist \in {0, half},
         cfg.kind \in C2RKinds => cfg.idist \in {0, half} /\ cfg.odist \in {0, n, 2 * half}
  PROVE  /\ X.w <= X.dist /\ Y.w <= Y.dist
         /\ cfg.inPlace /\ cfg.kind \in R2CKinds \cup C2RKinds => X.dist = Y.dist
<1>1. n \in Nat \ {0} /\ half \in Nat \ {0} /\ n <= 2 * half
  BY Lengths DEF half
<1>2. CASE cfg.kind \in R2CKinds
  <2>1. n <= RealIn /\ HalfOut = half /\ (cfg.inPlace => RealIn = 2 * half)
    BY <1>1, <1>2 DEF RealIn, HalfOut, Most
  <2>2. /\ X.w = n /\ X.dist = RealIn /\ Y.w = 2 * half /\ Y.dist = 2 * HalfOut
    BY <1>2 DEF X, Y, Spaced, Region, R2CKinds, C2RKinds
  <2> QED
    BY <1>1, <2>1, <2>2
<1>3. CASE cfg.kind \in C2RKinds
  <2>1. n <= RealOut /\ HalfIn = half /\ (cfg.inPlace => RealOut = 2 * half)
    BY <1>1, <1>3 DEF RealOut, HalfIn, Most
  <2>2. /\ X.w = 2 * half /\ X.dist = 2 * HalfIn /\ Y.w = n /\ Y.dist = RealOut
    BY <1>3 DEF X, Y, Spaced, Region, R2CKinds, C2RKinds
  <2> QED
    BY <1>1, <2>1, <2>2
<1>4. CASE cfg.kind \notin R2CKinds \cup C2RKinds
  <2>1. X = Dense("in", "x", 2 * n) /\ Y = Dense(Out, "y", 2 * n)
    BY <1>4 DEF X, Y
  <2> QED
    BY <1>1, <1>4, <2>1 DEF Dense, Region
<1> QED
  BY <1>2, <1>3, <1>4

\* Every step keeps the rows where the node needs them.
LEMMA DataStep ==
  ASSUME IInv, Sound, DataInv, [Next]_vars
  PROVE  DataInv'
<1>1. UNCHANGED cfg
  BY DEF Next, EnsureTable, TableFails, Launch, LaunchFails, NextCall, vars
<1>2. Configured /\ Chained
  BY ProgramChained DEF IInv, ControlInv
<1> SUFFICES ASSUME NEW mm, mm = mem', NEW c, c = call', NEW st, st = status',
                    NEW p, p = pc', NEW o, o = offset'
             PROVE  DataOf(mm, c, st, p, o)
  <2>1. /\ Rows' = Rows /\ (\A q : Needs(q)' = Needs(q))
        /\ OuterLoop' = OuterLoop /\ Program' = Program /\ X' = X /\ Y' = Y
        /\ First' = First /\ From(Y, 2)' = From(Y, 2)
        /\ EffectiveInput' = EffectiveInput /\ CopyInput' = CopyInput
    BY <1>1, SameNode, SameNeeds
  <2>2. DataOf(mem', call', status', pc', offset')
    OBVIOUS
  <2> SUFFICES ASSUME status' # "failed", NEW q \in Rows,
                      NEW g \in Needs(Phase(status, pc, offset, q))'
               PROVE  Holds(mem, call, offset, g, q)'
    BY <2>1 DEF DataInv, DataOf
  <2>3. Phase(status, pc, offset, q)' = Phase(status', pc', offset', q)
    BY <1>1, <2>1 DEF Phase, Least
  <2>4. Needs(Phase(status, pc, offset, q))' = Needs(Phase(status', pc', offset', q))
    <3> HIDE DEF Phase
    <3> QED
      BY <1>1, <2>1, <2>3 DEF Needs, Inputs, Later
  <2>5. Holds(mem', call', offset', g, q)
    BY <2>2, <2>4 DEF DataOf
  <2> QED
    BY <1>1, <2>5 DEF Holds, Place, Words, Cell
<1>3. CASE Launch
  <2>1. DataOf(Stored(Step), call, status', pc', offset')
    BY <1>2, <1>3, LaunchData
  <2> QED
    BY <1>3, <2>1 DEF Launch
<1>4. CASE NextCall
  <2>1. mm["in"] = Given(c) /\ st = "running" /\ p = 1 /\ o = 0
    BY <1>4 DEF NextCall, IInv, Sized, Buffers
  <2> QED
    BY <1>2, <2>1, CallData
<1>5. CASE st = "failed"
  BY <1>5 DEF DataOf
<1>6. CASE UNCHANGED <<mem, call, status, pc, offset>>
  BY <1>6 DEF DataInv
<1> QED
  BY <1>3, <1>4, <1>5, <1>6 DEF Next, EnsureTable, TableFails, LaunchFails, vars

\* At the end of a call the output is the transform of every row.
LEMMA DataExact ==
  ASSUME IInv, Sound, DataInv
  PROVE  ResultExact
<1> SUFFICES ASSUME status = "success", NEW r \in Rows, NEW i \in 0 .. Y.w - 1
             PROVE  mem[Out][r * Y.dist + i] = Cell(call, r, "y", i)
  BY DEF ResultExact
<1>1. /\ Y.buf = Out /\ Y.lo = 0 /\ Y.w \in Nat /\ Y.dist \in Nat /\ Y.step = Y.dist
      /\ Len(Program) \in Nat \ {0} /\ r \in Nat /\ offset \in Nat
  BY Shapes, ProgramsFit, NoOffset DEF IInv, ControlInv, Rows
<1>2. Y.form = "y"
  BY DEF Y, Spaced, Dense, Region
<1>3. \A g \in Needs(Len(Program) + 1) : Holds(mem, call, offset, g, r)
  BY DEF DataInv, DataOf, Phase
<1>4. PICK g \in Needs(Len(Program) + 1) :
        /\ g.buf = Out /\ g.form = "y" /\ g.dist = Y.dist /\ g.step = Y.step /\ i \in Words(g)
  <2>1. CASE cfg.kind # "rader"
    <3>1. Y \in Needs(Len(Program) + 1) /\ i \in Words(Y)
      BY <1>1, <2>1 DEF Needs, Words
    <3> QED
      BY <1>1, <1>2, <3>1
  <2>2. CASE cfg.kind = "rader"
    <3>1. First \in Needs(Len(Program) + 1) /\ From(Y, 2) \in Needs(Len(Program) + 1)
      BY <1>1, <2>2 DEF Needs
    <3>2. Y = Dense(Out, "y", 2 * n)
      BY <2>2 DEF Y, R2CKinds, C2RKinds
    <3>3. /\ First.buf = Out /\ First.form = "y" /\ First.dist = Y.dist /\ First.step = Y.step
          /\ First.lo = 0 /\ First.w = 2
          /\ From(Y, 2).buf = Out /\ From(Y, 2).form = "y" /\ From(Y, 2).dist = Y.dist
          /\ From(Y, 2).step = Y.step /\ From(Y, 2).lo = 2 /\ From(Y, 2).w = Y.w
      BY <3>2 DEF First, From, Dense, Region
    <3>4. i \in Words(First) \/ i \in Words(From(Y, 2))
      BY <1>1, <3>3 DEF Words
    <3> QED
      BY <3>1, <3>3, <3>4
  <2> QED
    BY <2>1, <2>2
<1>5. Place(g, offset, r) = r * Y.dist
  BY <1>1, <1>4 DEF Place
<1> QED
  BY <1>3, <1>4, <1>5 DEF Holds

\* The configuration of a node does not change.
LEMMA SoundStep == Sound /\ [Next]_vars => Sound'
<1> SUFFICES ASSUME Sound, [Next]_vars PROVE Sound'
  OBVIOUS
<1>1. UNCHANGED cfg
  BY DEF Next, EnsureTable, TableFails, Launch, LaunchFails, NextCall, vars
<1> QED
  BY <1>1, SameNeeds

\* The first call starts with all of its rows given.
LEMMA DataInit == Init /\ Sound => DataInv
<1> SUFFICES ASSUME Init, Sound PROVE DataInv
  OBVIOUS
<1>1. Configured /\ mem["in"] = Given(1)
  BY DEF Init, Configured, Buffers
<1>2. DataOf(mem, 1, "running", 1, 0)
  BY <1>1, CallData
<1> QED
  BY <1>2 DEF DataInv, Init

\* A call that returns success has left every row of its own input transformed at
\* its place, for every node kind, length, batch, chunk, pack and sequence of
\* calls, for the layouts of Sound (execute of the one-dimensional nodes).
THEOREM RowResultExact == Spec /\ Sound => []ResultExact
<1>1. IInv /\ Sound /\ DataInv /\ [Next]_vars => (Sound /\ DataInv)'
  BY DataStep, SoundStep
<1>2. IInv /\ Sound /\ DataInv => ResultExact
  BY DataExact
<1>3. Spec => []IInv
  BY RowsInductive
<1>4. Init /\ Sound => DataInv
  BY DataInit
<1> QED
  BY <1>1, <1>2, <1>3, <1>4, PTL DEF Spec
=============================================================================
