---------------------------- MODULE MCPlanBuilder ----------------------------
(* PlanBuilder with radices 4, 3 and 2 and leaves of at most 32 points: 16   *)
(* stands for 2048, 8 for 256 and 64, 5 for 997, 32 for 4096, 8 lanes for 256. *)
EXTENDS PlanBuilder

MCRadices == <<4, 3, 2>>
MCNaturalRadices == <<3, 2>>
AnyBatch == 1..1000
Scope(dev, ranks, dtypes, kinds, batches, n, direct) ==
  [dev |-> dev, ranks |-> ranks, dtypes |-> dtypes, kinds |-> kinds, batches |-> batches,
   n |-> n, direct |-> direct]
With(scope, row) == [x \in DOMAIN scope \cup DOMAIN row |->
                       IF x \in DOMAIN row THEN row[x] ELSE scope[x]]
Fp == {"fp32", "fp64"}
Kinds == {"c2c", "r2c", "c2r"}

MCLeafOrders ==
  <<With(Scope("hcu", {3}, {"fp64"}, {"r2c", "c2r"}, AnyBatch, 16, TRUE), [factors |-> <<2, 4, 2>>]),
    With(Scope("maca", {3}, Fp, Kinds, AnyBatch, 16, TRUE), [factors |-> <<2, 2, 4>>]),
    With(Scope("hcu", {3}, Fp, Kinds, AnyBatch, 6, FALSE), [factors |-> <<3, 2>>])>>
MCWideRows == <<With(Scope("ix", {1, 2, 3}, {"fp32"}, Kinds, {1}, 32, FALSE), [lanes |-> 8])>>
MCHeuristicOrder == [n \in {8} |-> <<2, 2, 2>>]
MCConvRows == <<With(Scope("maca", {3}, {"fp64"}, Kinds, AnyBatch, 5, FALSE), [conv |-> 16])>>
MCBalancedRows == <<With(Scope("maca", {1}, {"fp64"}, Kinds, {4}, 11, FALSE), [first |-> 4, second |-> 8])>>
MCRaderRows == <<With(Scope("maca", {1}, Fp, Kinds, {4}, 13, TRUE), [first |-> 3, second |-> 4])>>
MCPreferRows == <<Scope("musa", {1}, {"fp64"}, Kinds, {4}, 7, FALSE)>>
MCRootRows ==
  <<With(Scope("hcu", {1}, Fp, {"c2r"}, AnyBatch, 18, TRUE), [first |-> 3, second |-> 6]),
    With(Scope("npu", {1}, {"fp32"}, Kinds, AnyBatch, 36, TRUE), [first |-> 4, second |-> 9]),
    With(Scope("maca", {1}, {"fp32"}, {"c2c"}, {4}, 16, TRUE), [first |-> 8, second |-> 2])>>
Tail3(how, first, second, name, auto, dtype, n) ==
  With(Scope("maca", {1}, {dtype}, Kinds, {1}, n, TRUE),
       [how |-> how, first |-> first, second |-> second, name |-> name, auto |-> auto])
MCTailRows ==
  <<Tail3("bluestein", 16, 0, "bs16", TRUE, "fp64", 5),
    Tail3("rader", 6, 0, "rader6", FALSE, "fp32", 7),
    Tail3("bluestein", 16, 0, "bs16", FALSE, "fp32", 7),
    Tail3("split", 4, 6, "ct4x6", FALSE, "fp32", 24),
    Tail3("split", 3, 8, "ct3x8", FALSE, "fp32", 24)>>
MCNpuLengths == [aiv |-> {4}, leaf3 |-> {4, 16}, leaf2 |-> 8, cube |-> {4, 8}, split |-> 6,
                 leaf2Factors |-> <<2, 4>>]
MCNpuBatch == [direct |-> 4, cube |-> 8]

Unset == [form |-> "unset"]
Malformed == [form |-> "malformed"]
Setting(target, n1) == [form |-> "split", target |-> target, n1 |-> n1]
Default ==
  [hcuSplit |-> Unset, npuSplit |-> Unset, npu2dSplit |-> Unset, npu3dSplit |-> Unset,
   leafMode |-> FALSE, aiv64 |-> FALSE, npuLeaf3d |-> FALSE, npuAivSmall |-> FALSE,
   npuCube |-> FALSE, npuLeaf2d |-> 0, npuLeafFactors |-> <<>>, npuDirectMax |-> 6,
   npuFactorSplit |-> FALSE, npuSmoothConv |-> FALSE, npuPrime |-> FALSE, npuMalformed |-> FALSE,
   tail |-> "unset", tailReady |-> TRUE, badFactors |-> {}]
Job(dev, dtype, kind, shape, batch, e, limit) ==
  [plan |-> [dev |-> dev, dtype |-> dtype, kind |-> kind, shape |-> shape, batch |-> batch],
   env |-> e, limit |-> limit]

GpuJobs ==
  {Job("cuda", "fp32", "c2c", <<10>>, 1, Default, 0),
   Job("cuda", "fp64", "c2c", <<25>>, 1, Default, 0),     \* no split has a cost
   Job("cuda", "fp64", "c2c", <<7>>, 2, Default, 0),      \* Bluestein or Rader
   Job("cuda", "fp64", "c2c", <<7>>, 1, Default, 0),
   Job("musa", "fp64", "c2c", <<7>>, 4, Default, 0),
   Job("cuda", "fp32", "c2c", <<8>>, 1, Default, 0),      \* the batch-1 order
   Job("cuda", "fp32", "c2c", <<32>>, 1, Default, 0),
   Job("cuda", "fp32", "c2c", <<8, 1>>, 1, Default, 0),
   Job("ix", "fp32", "c2c", <<32>>, 1, Default, 0),     \* the wide leaf
   Job("ix", "fp32", "c2c", <<64>>, 1, Default, 0),     \* and as a child
   Job("ix", "fp32", "c2c", <<32, 1>>, 1, Default, 0),  \* after an axis of another batch
   Job("hcu", "fp64", "r2c", <<5, 3, 16>>, 1, Default, 0),  \* 16 as an axis, then inside 5
   Job("hcu", "fp32", "c2c", <<12, 6, 6>>, 1, [Default EXCEPT !.badFactors = {4}], 0),
   Job("hcu", "fp32", "c2c", <<1, 1, 4>>, 1, [Default EXCEPT !.badFactors = {4}], 0),
   Job("hcu", "fp32", "c2r", <<18>>, 1, Default, 0),
   Job("hcu", "fp32", "c2r", <<18>>, 1, [Default EXCEPT !.hcuSplit = Setting(18, 9)], 0),
   Job("hcu", "fp32", "c2r", <<18>>, 1, [Default EXCEPT !.hcuSplit = Setting(18, 4)], 0),
   Job("hcu", "fp32", "c2r", <<18>>, 1, [Default EXCEPT !.hcuSplit = Malformed], 0)}
MacaJobs ==
  {Job("maca", "fp64", "c2c", <<2, 5, 16>>, 1, Default, 0),
   Job("maca", "fp64", "c2c", <<11>>, 4, Default, 0),
   Job("maca", "fp32", "c2c", <<13>>, 4, Default, 0),
   Job("maca", "fp32", "c2c", <<16>>, 4, Default, 0),
   Job("maca", "fp64", "c2c", <<5>>, 1, Default, 0),
   Job("maca", "fp32", "c2c", <<7>>, 1, [Default EXCEPT !.tail = "rader6"], 0),
   Job("maca", "fp32", "c2c", <<7>>, 1, [Default EXCEPT !.tail = "default"], 0),
   Job("maca", "fp32", "c2c", <<24>>, 1, [Default EXCEPT !.tail = "ct3x8", !.tailReady = FALSE], 0)}
TuneJobs ==
  {Job("maca", "fp32", "c2c", <<24>>, 1, [Default EXCEPT !.tail = "compare"], 2),
   Job("maca", "fp32", "c2c", <<7>>, 1, [Default EXCEPT !.tail = "compare"], 1),
   Job("maca", "fp32", "c2c", <<11>>, 1, Default, 5),
   Job("cuda", "fp64", "c2c", <<7>>, 2, Default, 2),
   Job("cuda", "fp32", "c2c", <<12>>, 1, Default, 3)}
NpuJobs ==
  {Job("npu", "fp32", "c2c", <<10>>, 1, Default, 0),
   Job("npu", "fp32", "c2c", <<36>>, 1, Default, 0),
   Job("npu", "fp32", "c2c", <<18>>, 1, [Default EXCEPT !.npuSplit = Setting(18, 3), !.leafMode = TRUE], 0),
   Job("npu", "fp32", "c2c", <<18>>, 1, [Default EXCEPT !.npuSplit = Malformed], 0),
   Job("npu", "fp32", "r2c", <<8, 12>>, 1, [Default EXCEPT !.npuFactorSplit = TRUE], 0),
   Job("npu", "fp32", "c2c", <<7, 12>>, 1, [Default EXCEPT !.npu2dSplit = Setting(12, 3), !.npuSmoothConv = TRUE], 0),
   Job("npu", "fp32", "c2c", <<8, 4>>, 1, [Default EXCEPT !.npuCube = TRUE], 0),
   Job("npu", "fp32", "c2c", <<6, 12>>, 1, [Default EXCEPT !.npuLeaf2d = 12, !.npuLeafFactors = <<4, 3>>], 0),
   Job("npu", "fp32", "c2c", <<6, 12>>, 1, [Default EXCEPT !.npuLeaf2d = 12, !.npuLeafFactors = <<4, 4>>], 0),
   Job("npu", "fp32", "c2c", <<4, 16, 8>>, 1, [Default EXCEPT !.aiv64 = TRUE, !.npuAivSmall = TRUE,
                                                !.npu3dSplit = Setting(16, 8)], 0),
   Job("npu", "fp32", "c2c", <<4, 16, 9>>, 1, [Default EXCEPT !.npuLeaf3d = TRUE, !.npuPrime = TRUE], 0),
   Job("npu", "fp64", "c2c", <<4>>, 1, [Default EXCEPT !.npuMalformed = TRUE], 0)}
MCJobs == GpuJobs \cup MacaJobs \cup TuneJobs \cup NpuJobs
=============================================================================
