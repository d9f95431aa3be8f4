----------------------------- MODULE PlanBuilder -----------------------------
(***************************************************************************)
(* How FlagFFT chooses the algorithm of each axis of a transform            *)
(* (src/plan/).  PlanBuilder::build takes the axes of one plan in turn; for  *)
(* a length it collects candidates (a radix leaf, a direct DFT, four-step    *)
(* splits, Bluestein, Rader), builds the lengths these need by calling       *)
(* itself, and keeps what it built in tables indexed by length alone.        *)
(*                                                                         *)
(* The mutual recursion of build_auto_node, cost_for and                     *)
(* build_auto_candidates is a stack of frames.  A frame lists the nodes and  *)
(* costs it still needs; a need that no table meets pushes a frame.  An      *)
(* exception unwinds the stack up to a loop over divisors, which drops the   *)
(* divisor, or out of build.                                                *)
(*                                                                         *)
(* The estimated cost of a candidate is not modelled: any candidate may be   *)
(* the cheapest.  Measured lengths and factor orders are constants, so that  *)
(* small lengths can play the part of 256, 997 or 2048.                      *)
(***************************************************************************)
EXTENDS Integers, Sequences, FiniteSets, SequencesExt

CONSTANTS
  MaxN,            \* bound: the largest length any job meets
  Radices,         \* kSupportedRadices, in the order they are tried
  DirectDftMaxN, LeafMaxN,
  MaxLanes,        \* kMaxLanes
  WideRows,        \* leaves with a lane limit of their own (ix_wide_4096)
  SmemLimit,       \* max_dynamic_smem_bytes, in elements of single precision
  MaxRaderPrime,
  Window,          \* kBluesteinConvolutionSearchWindow
  Pow2ConvMax,     \* kBluesteinPow2ConvMaxLength
  CrossRadix, ColLength, RegisterRadices,   \* the thread-local four-step
  LeafOrders,      \* factor orders measured for some device: rows in the order tested
  HeuristicOrder,  \* length -> factors of the batch-1 heuristic
  ConvRows,        \* measured convolution lengths of Bluestein
  BalancedRows,    \* measured splits of such a convolution
  RaderRows,       \* measured splits of Rader's convolution
  PreferRows,      \* lengths measured faster with Bluestein than with Rader
  RootRows,        \* measured four-step roots
  TailRows,        \* FLAGFFT_MACA_TAIL_PLAN: experiments and automatic policy
  NpuLengths,      \* lengths measured on the NPU: fields aiv, leaf3, leaf2, cube, split;
                   \* leaf2Factors are the factors of leaf2
  NpuBatch,        \* fields direct (512) and cube (1024)
  NpuRefused,      \* 13, 17, 19: radices kept off the NPU Stockham route
  NaturalRadices,  \* the radices of natural-order codelets, largest first
  Jobs             \* what a builder is asked: an environment, a plan and a tuning limit

VARIABLES
  job,          \* the environment and the plan this builder works for
  context,      \* request_context_
  nodes,        \* node_cache_
  costs,        \* the lengths in cost_cache_
  leafFactors,  \* best_leaf_factors_cache_
  flag,         \* parallel_leaf_heuristic_enabled_
  stack,        \* calls in progress, the innermost last
  raised,       \* an exception is travelling up the stack
  done          \* the axes built, or the candidates of the tuner

vars == <<job, context, nodes, costs, leafFactors, flag, stack, raised, done>>

-----------------------------------------------------------------------------
(* Arithmetic of lengths.                                                  *)

RadixSet == {Radices[i] : i \in DOMAIN Radices}
Divisors(n) == {d \in 1..n : n % d = 0}
(* Mutant: the length counts among its own proper divisors.                *)
ProperDivisorsToSelf(n) == SetToSortSeq({d \in Divisors(n) : d > 1 /\ d <= n}, <)
(* enumerate_divisors without 1 and n, in ascending order.                 *)
ProperDivisors(n) == SetToSortSeq({d \in Divisors(n) : d > 1 /\ d < n}, <)

CeilPowerOfTwo(n) == 2^(CHOOSE k \in 0..n : 2^k >= n /\ \A j \in 0..(k - 1) : 2^j < n)

(* factorize_supported_radices: the greedy factors, and what is left.      *)
GreedyFactors[n \in 1..MaxN] ==
  LET fits == SelectSeq(Radices, LAMBDA r : n % r = 0)
  IN  IF fits = <<>> THEN <<>> ELSE <<fits[1]>> \o GreedyFactors[n \div fits[1]]
Product(s) == FoldSeq(LAMBDA a, b : a * b, 1, s)
IsSmooth(n) == n > 1 /\ Product(GreedyFactors[n]) = n

(* enumerate_supported_factorizations: every ordered product of radices.   *)
Factorizations[n \in 1..MaxN] ==
  UNION {IF n = r THEN {<<r>>} ELSE {<<r>> \o t : t \in Factorizations[n \div r]} :
           r \in {q \in RadixSet : n % q = 0}}

IsPrime(n) == n > 1 /\ \A d \in 2..(n - 1) : n % d # 0
PrimeFactors(n) == {p \in Divisors(n) : IsPrime(p)}
(* modpow by squaring.                                                     *)
ModPow[base \in 0..MaxN, e \in 0..MaxN, m \in 1..MaxN] ==
  IF e = 0 THEN 1 % m
  ELSE LET half == ModPow[(base * base) % m, e \div 2, m]
       IN  IF e % 2 = 1 THEN (half * base) % m ELSE half
FindPrimitiveRoot(p) ==
  IF p = 2 THEN 1
  ELSE CHOOSE r \in 2..(p - 1) :
         /\ \A q \in PrimeFactors(p - 1) : ModPow[r, (p - 1) \div q, p] # 1
         /\ \A s \in 2..(r - 1) : \E q \in PrimeFactors(p - 1) : ModPow[s, (p - 1) \div q, p] = 1
BuildRaderIndexTable(p, root) == [i \in 1..(p - 1) |-> ModPow[root, i - 1, p]]

-----------------------------------------------------------------------------
(* Requests.  A plan of one, two or three axes asks for each axis with the   *)
(* number of transforms along it as the batch, the innermost axis first.     *)

Half(n) == n \div 2 + 1
Axes(p) ==
  LET s == p.shape
      real == p.kind # "c2c"
      width == IF real THEN Half(s[Len(s)]) ELSE s[Len(s)]
      axis(n, batch) == [dev |-> p.dev, dtype |-> p.dtype, rank |-> Len(s), n |-> n,
                         batch |-> batch, kind |-> p.kind]
  IN  CASE Len(s) = 1 -> <<axis(s[1], p.batch)>>
        [] Len(s) = 2 -> <<axis(s[2], p.batch * s[1]), axis(s[1], p.batch * Half(s[2]))>>
        [] Len(s) = 3 -> <<axis(s[3], p.batch * s[1] * s[2]), axis(s[2], p.batch * s[1] * width),
                           axis(s[1], p.batch * s[2] * width)>>

env == job.env
Double == context.dtype = "fp64"

(* A row of a measured table, and whether the request is the one it was      *)
(* measured for; a "direct" row only speaks of the requested length itself.  *)
Matches(row, n) ==
  /\ row.n = n /\ row.dev = context.dev /\ context.rank \in row.ranks
  /\ context.dtype \in row.dtypes /\ context.kind \in row.kinds
  /\ context.batch \in row.batches
  /\ row.direct => context.n = n
Row(table, n) == SelectSeq(table, LAMBDA row : Matches(row, n))

-----------------------------------------------------------------------------
(* Leaves.                                                                 *)

(* Mutant: the heuristic does not ask whose leaf it is.                    *)
HeuristicAppliesAnywhere(n) ==
  /\ context.dev # "maca" /\ context.batch = 1 /\ n \in DOMAIN HeuristicOrder
HeuristicApplies(n) ==
  /\ context.dev # "maca" /\ context.batch = 1 /\ flag /\ n \in DOMAIN HeuristicOrder

(* score_leaf_factorization, abstracted: the fewest stages win.            *)
BestFactors(n) ==
  CHOOSE f \in Factorizations[n] : \A g \in Factorizations[n] : Len(f) <= Len(g)

(* select_leaf_factors throws: a malformed override, or no factorization.  *)
FactorsRefused(n) ==
  \/ n \in env.badFactors /\ context.dev = "hcu" /\ context.rank = 3
  \/ Row(LeafOrders, n) = <<>> /\ n \notin DOMAIN leafFactors /\ ~IsSmooth(n)
SelectLeafFactors(n) ==
  IF Row(LeafOrders, n) # <<>> THEN Row(LeafOrders, n)[1].factors
  ELSE IF n \in DOMAIN leafFactors THEN leafFactors[n]
  ELSE IF context.dev = "maca" /\ n \in RadixSet THEN <<n>>
  ELSE IF HeuristicApplies(n) THEN HeuristicOrder[n]
  ELSE BestFactors(n)
(* A measured order is returned before the table is consulted and is not     *)
(* entered in it.                                                            *)
LeafFactorsAfter(lengths) ==
  LET fresh == {n \in lengths : Row(LeafOrders, n) = <<>>} \cup DOMAIN leafFactors
  IN  [n \in fresh |-> IF n \in DOMAIN leafFactors THEN leafFactors[n] ELSE SelectLeafFactors(n)]

ChooseLanes(n, factors) ==
  LET limit == IF Row(WideRows, n) # <<>> THEN Row(WideRows, n)[1].lanes ELSE MaxLanes
      common == {d \in 1..limit : \A i \in DOMAIN factors : (n \div factors[i]) % d = 0}
  IN  CHOOSE d \in common : \A e \in common : e <= d
LeafSmem(n, factors) ==
  IF Len(factors) <= 1 THEN 0 ELSE CeilPowerOfTwo(n) * (IF Double THEN 2 ELSE 1)
ShouldUseLeaf(n, factors) == n <= LeafMaxN /\ LeafSmem(n, factors) <= SmemLimit

Leaf(n, factors) ==
  [op |-> "leaf", n |-> n, factors |-> factors, lanes |-> ChooseLanes(n, factors),
   smem |-> LeafSmem(n, factors)]
ThreadLocalLeaf(register) ==
  LET n == register * CrossRadix
  IN  [op |-> "local", n |-> n, factors |-> <<register, CrossRadix>>, lanes |-> register,
       smem |-> LeafSmem(n, <<register, CrossRadix>>)]
Direct(n) == [op |-> "direct", n |-> n]
Stockham(n, factors) == [op |-> "stockham", n |-> n, factors |-> factors]
FourStep(row, col) == [op |-> "four_step", n |-> row.n * col.n, row |-> row, col |-> col]
Bluestein(n, child) == [op |-> "bluestein", n |-> n, child |-> child]
Rader(n, child) ==
  LET root == FindPrimitiveRoot(n)
  IN  [op |-> "rader", n |-> n, child |-> child, idx |-> BuildRaderIndexTable(n, root)]

-----------------------------------------------------------------------------
(* Convolution lengths of Bluestein.                                       *)

(* Mutant: the local search starts one short of the linear convolution.    *)
LocalSearchShort(minimum, limit) == {c \in (minimum - 1)..limit : IsSmooth(c)}
LocalSearch(minimum, limit) == {c \in minimum..limit : IsSmooth(c)}
(* next_supported_convolution_length: the lengths it chooses from.         *)
ConvLengths(minimum) ==
  LET power == CeilPowerOfTwo(minimum)
      limit == IF power - minimum > Window THEN minimum + Window ELSE power
  IN  IF context.dev = "npu"
      THEN {power} \cup IF context.rank = 2 /\ env.npuSmoothConv
                        THEN {c \in minimum..power :
                                IsSmooth(c) /\ PrimeFactors(c) \subseteq {2, 3, 5, 7}} ELSE {}
      ELSE IF ~Double /\ power <= Pow2ConvMax THEN {power}
      ELSE {power} \cup LocalSearch(minimum, limit)

NodeNeed(n, heuristic) == [kind |-> "node", n |-> n, heuristic |-> heuristic]
CostNeed(n) == [kind |-> "cost", n |-> n, heuristic |-> FALSE]

(* Unless the power of two is taken outright, every length is costed.      *)
Searches(minimum) ==
  IF context.dev = "npu" THEN context.rank = 2 /\ env.npuSmoothConv
  ELSE Double \/ CeilPowerOfTwo(minimum) > Pow2ConvMax
ConvNeeds(minimum) ==
  LET lengths == SetToSortSeq(ConvLengths(minimum), <)
  IN  IF Searches(minimum) THEN [i \in DOMAIN lengths |-> CostNeed(lengths[i])] ELSE <<>>

(* make_bluestein_plan after the length is chosen.                         *)
ConvChosen(n, c) == IF Row(ConvRows, n) # <<>> THEN Row(ConvRows, n)[1].conv ELSE c
Balanced(n, conv) ==
  SelectSeq(BalancedRows, LAMBDA row : Matches(row, n) /\ row.first * row.second = conv)
BluesteinNeeds(n, conv) ==
  (IF Balanced(n, conv) # <<>>
   THEN <<NodeNeed(Balanced(n, conv)[1].first, FALSE), NodeNeed(Balanced(n, conv)[1].second, FALSE)>>
   ELSE <<NodeNeed(conv, FALSE)>>)
  \o IF context.dev = "npu" THEN <<>> ELSE <<CostNeed(conv)>>
MakeBluestein(n, conv) ==
  Bluestein(n, IF Balanced(n, conv) # <<>>
               THEN FourStep(nodes[Balanced(n, conv)[1].first], nodes[Balanced(n, conv)[1].second])
               ELSE nodes[conv])

(* make_rader_plan, and when the candidate list asks for it.               *)
RaderNeeds(n) ==
  (IF Row(RaderRows, n) # <<>>
   THEN <<NodeNeed(Row(RaderRows, n)[1].first, FALSE), NodeNeed(Row(RaderRows, n)[1].second, FALSE)>>
   ELSE <<NodeNeed(n - 1, FALSE)>>) \o <<CostNeed(n - 1)>>
MakeRader(n) ==
  Rader(n, IF Row(RaderRows, n) # <<>>
           THEN FourStep(nodes[Row(RaderRows, n)[1].first], nodes[Row(RaderRows, n)[1].second])
           ELSE nodes[n - 1])
PrefersBluestein(n, bluestein) ==
  \/ context.dev # "maca" /\ ~Double
  \/ /\ Double /\ context.batch = 1 /\ context.dev \in {"cuda", "musa"}
     /\ bluestein.child.op = "leaf"
  \/ Row(PreferRows, n) # <<>>
TriesRader(n, bluestein) ==
  ~PrefersBluestein(n, bluestein) /\ IsPrime(n) /\ n <= MaxRaderPrime

-----------------------------------------------------------------------------
(* Roots chosen before the candidates are looked at (PlanBuilder::build).   *)

Pass == [how |-> "pass"]
Refuse == [how |-> "refuse"]
Auto == [how |-> "auto"]
Split(first, second) == [how |-> "split", first |-> first, second |-> second]

(* <length>:<n1>, as the split settings are written.                       *)
SplitSetting(setting, n, split) ==
  IF setting.form = "unset" THEN Pass
  ELSE IF setting.form = "malformed" THEN Refuse
  ELSE IF setting.target # n THEN Pass
  ELSE IF setting.n1 \notin 2..(n - 1) \/ n % setting.n1 # 0 THEN Refuse
  ELSE [Split(setting.n1, n \div setting.n1) EXCEPT !.how = split]

HcuC2rRoot(n) ==
  IF ~(context.dev = "hcu" /\ context.rank = 1 /\ context.kind = "c2r" /\ context.n = n) THEN Pass
  ELSE SplitSetting(env.hcuSplit, n, "split")
NpuSplitRoot(n) ==
  IF ~(context.dev = "npu" /\ context.rank = 1) THEN Pass
  ELSE SplitSetting(env.npuSplit, n, IF env.leafMode THEN "leaves" ELSE "split")
Npu2dSplitRoot(n) ==
  IF ~(context.dev = "npu" /\ context.rank = 2 /\ context.n = n /\ ~Double) THEN Pass
  ELSE SplitSetting(env.npu2dSplit, n, IF env.leafMode THEN "leaves" ELSE "split")
Aiv64(n) == context.dev = "npu" /\ context.rank = 3 /\ ~Double /\ env.aiv64 /\ n = NpuLengths.leaf2
NpuAivRoot(n) ==
  IF Aiv64(n) /\ ShouldUseLeaf(n, SelectLeafFactors(n)) THEN [how |-> "leaf"] ELSE Pass
Npu3dSplitRoot(n) ==
  IF ~(context.dev = "npu" /\ context.rank = 3 /\ context.n = n /\ ~Double) THEN Pass
  ELSE SplitSetting(env.npu3dSplit, n, IF env.leafMode THEN "leaves" ELSE "split")
MeasuredRoot(n) ==
  IF Row(RootRows, n) = <<>> THEN Pass
  ELSE Split(Row(RootRows, n)[1].first, Row(RootRows, n)[1].second)

(* maca_tail_plans: the automatic policy, or an explicit experiment.       *)
TailPlans(n, tuning) ==
  LET rows == Row(TailRows, n)
      policy == SelectSeq(rows, LAMBDA row : row.auto)
      named == SelectSeq(rows, LAMBDA row : row.name = env.tail)
      choices(rs) == [i \in DOMAIN rs |-> [how |-> rs[i].how, first |-> rs[i].first,
                                           second |-> rs[i].second]]
  IN  IF env.tail = "unset" THEN choices(IF policy = <<>> THEN <<>> ELSE <<policy[1]>>)
      ELSE IF context.dev # "maca" \/ context.batch # 1 \/ n # context.n THEN <<>>
      ELSE IF ~env.tailReady \/ rows = <<>> THEN <<Refuse>>
      ELSE IF env.tail = "compare" THEN IF tuning THEN choices(rows) ELSE <<Refuse>>
      ELSE IF env.tail = "default" THEN <<Auto>>
      ELSE IF named = <<>> THEN <<Refuse>> ELSE choices(<<named[1]>>)
TailRoot(n) == IF TailPlans(n, FALSE) = <<>> THEN Pass ELSE TailPlans(n, FALSE)[1]

(* The first of these that speaks decides.                                 *)
RootChoice(n) ==
  LET opinions == <<HcuC2rRoot(n), NpuSplitRoot(n), Npu2dSplitRoot(n), NpuAivRoot(n),
                    Npu3dSplitRoot(n), TailRoot(n), MeasuredRoot(n), Auto>>
  IN  SelectSeq(opinions, LAMBDA c : c.how # "pass")[1]

-----------------------------------------------------------------------------
(* The NPU takes one route per length: the first that applies.             *)

NaturalFactors[n \in 1..MaxN] ==
  LET fits == SelectSeq(NaturalRadices, LAMBDA r : n % r = 0)
  IN  IF fits = <<>> THEN <<>> ELSE <<fits[1]>> \o NaturalFactors[n \div fits[1]]
StockhamFactors(n) == FlattenSeq([i \in DOMAIN GreedyFactors[n] |-> NaturalFactors[GreedyFactors[n][i]]])

NpuLeaf3d(n) ==
  /\ context.rank = 3 /\ ~Double
  /\ \/ env.npuAivSmall /\ n \in NpuLengths.aiv
     \/ env.npuLeaf3d /\ n \in NpuLengths.leaf3 /\ ShouldUseLeaf(n, SelectLeafFactors(n))
NpuCube(n) ==
  /\ env.npuCube /\ context.rank = 2 /\ ~Double /\ context.kind = "c2c"
  /\ n \in NpuLengths.cube /\ IsSmooth(n)
  /\ context.batch >= NpuBatch.cube \/ (n = NpuLengths.leaf2 /\ context.batch <= NpuBatch.direct)
NpuLeaf2dLength == IF env.npuLeaf2d # 0 THEN env.npuLeaf2d ELSE NpuLengths.leaf2
NpuLeaf2d(n) == context.rank = 2 /\ ~Double /\ n = NpuLeaf2dLength
NpuLeaf2dFactors(n) ==
  IF env.npuLeafFactors # <<>> THEN env.npuLeafFactors
  ELSE IF n = NpuLengths.leaf2 THEN NpuLengths.leaf2Factors ELSE SelectLeafFactors(n)
NpuLeaf2dRefused(n) ==
  \/ FactorsRefused(n) \/ Product(NpuLeaf2dFactors(n)) # n
  \/ ~ShouldUseLeaf(n, NpuLeaf2dFactors(n))
NpuDirect2d(n) ==
  context.rank = 2 /\ ~Double /\ context.batch <= NpuBatch.direct /\ n \in 2..env.npuDirectMax
(* FLAGFFT_NPU_2D_FACTOR_SPLIT: the most balanced pair, smaller factor first. *)
FactorSplits(n) == {d \in Divisors(n) : d > 1 /\ d < n \div d /\ IsSmooth(d) /\ IsSmooth(n \div d)}
NpuFactorSplit(n) ==
  /\ env.npuFactorSplit /\ context.rank = 2 /\ ~Double /\ n >= NpuLengths.split /\ IsSmooth(n)
  /\ \E i \in DOMAIN GreedyFactors[n] : GreedyFactors[n][i] # 2
  /\ FactorSplits(n) # {}
NpuStockham(n) ==
  IsSmooth(n) /\ (env.npuPrime \/ \A r \in NpuRefused : n % r # 0)

(* The candidate of a length on the NPU; none: Bluestein.                  *)
NpuCandidate(n) ==
  IF NpuLeaf3d(n) THEN {Leaf(n, SelectLeafFactors(n))}
  ELSE IF NpuCube(n) THEN {Direct(n)}
  ELSE IF NpuLeaf2d(n) THEN {Leaf(n, NpuLeaf2dFactors(n))}
  ELSE IF NpuDirect2d(n) THEN {Direct(n)}
  ELSE IF NpuFactorSplit(n)
       THEN LET n1 == CHOOSE d \in FactorSplits(n) : \A e \in FactorSplits(n) : e <= d
            IN  {FourStep(Stockham(n1, GreedyFactors[n1]), Stockham(n \div n1, GreedyFactors[n \div n1]))}
  ELSE IF NpuStockham(n) THEN {Stockham(n, StockhamFactors(n))}
  ELSE IF n <= DirectDftMaxN THEN {Direct(n)} ELSE {}

-----------------------------------------------------------------------------
(* Frames.  phase "choose" belongs to build, the others to                  *)
(* build_auto_candidates; todo are the divisors, or the alternatives of the  *)
(* tuner, still to be looked at.                                            *)

Tuning == job.limit > 0
Frame(kind, n, choice) ==
  [kind |-> kind, n |-> n, choice |-> choice, saved |-> flag, phase |-> "begin",
   need |-> <<>>, todo |-> <<>>, cands |-> {}, conv |-> 0]
Top == stack[Len(stack)]
Below == SubSeq(stack, 1, Len(stack) - 1)
Replaced(f) == Append(Below, f)
At(phase) == stack # <<>> /\ ~raised /\ Top.need = <<>> /\ Top.phase = phase

Init ==
  /\ job \in Jobs
  /\ context = <<>> /\ nodes = <<>> /\ costs = {} /\ leafFactors = <<>>
  /\ flag = FALSE /\ stack = <<>> /\ raised = FALSE /\ done = <<>>

(* Mutant: the tables survive a change of request.                         *)
SetRequestContextKeeps(request) == context' = request /\ UNCHANGED <<nodes, costs>>
SetRequestContext(request) ==
  /\ context' = request
  /\ nodes' = IF context = request THEN nodes ELSE <<>>
  /\ costs' = IF context = request THEN costs ELSE {}

(* build, or build_decomposition_tune_candidates, is called for the next     *)
(* axis; lookup_or_build_root found no tuned plan.                          *)
StartAxis ==
  /\ stack = <<>> /\ ~raised
  /\ IF Tuning THEN done = <<>> ELSE Len(done) < Len(Axes(job.plan))
  /\ LET request == Axes(job.plan)[Len(done) + 1]
     IN  /\ SetRequestContext(request)
         /\ stack' = <<[Frame(IF Tuning THEN "tune" ELSE "root", request.n, Pass)
                          EXCEPT !.phase = "choose"]>>
  /\ UNCHANGED <<job, leafFactors, flag, raised, done>>

Raise == raised' = TRUE /\ UNCHANGED <<job, context, nodes, costs, leafFactors, flag, stack, done>>
(* The innermost frame becomes f; leaf factors of the lengths are looked up. *)
Becomes(f, lengths) ==
  /\ stack' = Replaced(f)
  /\ leafFactors' = LeafFactorsAfter(lengths)
  /\ UNCHANGED <<job, context, nodes, costs, flag, raised, done>>

(* A need that a table meets is ticked off; any other is a call.           *)
MeetNeed ==
  /\ stack # <<>> /\ ~raised /\ Top.need # <<>>
  /\ LET d == Head(Top.need)
         met == IF d.kind = "node" THEN d.n \in DOMAIN nodes ELSE d.n \in costs
     IN  IF met
         THEN stack' = Replaced([Top EXCEPT !.need = Tail(@)]) /\ UNCHANGED flag
         ELSE stack' = Append(stack, Frame(d.kind, d.n, Pass)) /\ flag' = d.heuristic
  /\ UNCHANGED <<job, context, nodes, costs, leafFactors, raised, done>>

(* The child of a forced split: a leaf when the settings say so.           *)
LeafChild(choice, n) ==
  choice.how = "leaves" \/ (choice.how = "split" /\ Aiv64(n) /\ ShouldUseLeaf(n, SelectLeafFactors(n)))
ChildRefused(n) == FactorsRefused(n) \/ ~ShouldUseLeaf(n, SelectLeafFactors(n))
ChildNeeds(choice, n) == IF LeafChild(choice, n) THEN <<>> ELSE <<NodeNeed(n, FALSE)>>
Child(choice, n) == IF LeafChild(choice, n) THEN Leaf(n, SelectLeafFactors(n)) ELSE nodes[n]
SplitCosts(choice) == IF Tuning THEN <<CostNeed(choice.first), CostNeed(choice.second)>> ELSE <<>>

(* A root of a known form: what has to be built for it.                    *)
RootFrame(n, choice) ==
  LET f == Frame("root", n, choice)
  IN  CASE choice.how = "auto" -> [f EXCEPT !.phase = "given", !.need = <<NodeNeed(n, TRUE)>>]
        [] choice.how = "leaf" -> [f EXCEPT !.phase = "given"]
        [] choice.how \in {"split", "leaves"} ->
             [f EXCEPT !.phase = "given",
                       !.need = ChildNeeds(choice, choice.first) \o ChildNeeds(choice, choice.second)
                                \o SplitCosts(choice)]
        [] choice.how = "balanced" ->
             [f EXCEPT !.phase = "given", !.need = <<NodeNeed(choice.first, FALSE),
                                                     NodeNeed(choice.second, FALSE)>>]
        [] choice.how = "bluestein" ->
             [f EXCEPT !.phase = "bluestein", !.conv = choice.first,
                       !.need = <<NodeNeed(choice.first, FALSE)>>]
        [] choice.how = "search" -> [f EXCEPT !.phase = "conv", !.need = ConvNeeds(2 * n - 1)]
        [] choice.how = "rader" -> [f EXCEPT !.phase = "rader", !.need = RaderNeeds(n)]

(* build: pick the form of the root.                                       *)
ChooseRoot ==
  /\ At("choose") /\ Top.kind = "root"
  /\ LET n == Top.n
         choice == RootChoice(n)
         leaves == IF choice.how = "leaves" THEN {choice.first, choice.second}
                   ELSE IF choice.how = "leaf" THEN {n} ELSE {}
     IN  IF choice.how = "refuse" \/ \E m \in leaves : ChildRefused(m)
         THEN Raise
         ELSE Becomes(RootFrame(n, choice), leaves)

(* The root of the chosen form is put together.                            *)
AssembleRoot ==
  /\ At("given")
  /\ LET c == Top.choice
         bothLeaves == nodes[c.first].op = "leaf" /\ nodes[c.second].op = "leaf"
         made == CASE c.how = "auto" -> {nodes[Top.n]}
                   [] c.how = "leaf" -> {Leaf(Top.n, SelectLeafFactors(Top.n))}
                   [] c.how \in {"split", "leaves"} -> {FourStep(Child(c, c.first), Child(c, c.second))}
                   [] c.how = "balanced" ->
                        IF bothLeaves
                        THEN {Bluestein(Top.n, FourStep(nodes[c.first], nodes[c.second]))} ELSE {}
     IN  Becomes([Top EXCEPT !.phase = "select", !.cands = made], {})

(* After a divisor: the next one, or Bluestein when nothing was found.     *)
DivideNext(f) ==
  IF f.todo # <<>>
  THEN LET n1 == Head(f.todo) n2 == f.n \div Head(f.todo)
       IN  [f EXCEPT !.phase = "divide",
                     !.need = <<NodeNeed(n1, FALSE), NodeNeed(n2, FALSE), CostNeed(n1), CostNeed(n2)>>]
  ELSE IF f.cands = {} /\ f.n > DirectDftMaxN
  THEN [f EXCEPT !.phase = "conv", !.need = ConvNeeds(2 * f.n - 1)]
  ELSE [f EXCEPT !.phase = "select"]

(* The candidates that need no other length, and the thread-local split.   *)
LocalSplit(n) ==
  LET n1 == n \div ColLength
  IN  /\ context.dev # "maca" /\ n % ColLength = 0
      /\ n1 % CrossRadix = 0 /\ n1 \div CrossRadix \in RegisterRadices
BeginCandidates ==
  /\ At("begin") /\ context.dev # "npu"
  /\ LET n == Top.n
         leaf == IsSmooth(n) /\ ShouldUseLeaf(n, GreedyFactors[n])
         cands == (IF leaf THEN {Leaf(n, SelectLeafFactors(n))} ELSE {})
                  \cup IF n <= DirectDftMaxN THEN {Direct(n)} ELSE {}
     IN  IF leaf /\ FactorsRefused(n)
         THEN Raise
         ELSE Becomes([Top EXCEPT !.phase = "local", !.cands = cands,
                                  !.need = IF LocalSplit(n)
                                           THEN <<CostNeed(n \div ColLength), CostNeed(ColLength)>>
                                           ELSE <<>>],
                      IF leaf THEN {n} ELSE {})
(* four_step_cost looks up the row's leaf factors in double precision.     *)
RowLeaves(n1) == IF Double THEN {n1} ELSE {}
AddLocalSplit ==
  /\ At("local")
  /\ LET n == Top.n
         n1 == n \div ColLength
         local == IF LocalSplit(n)
                  THEN {FourStep(ThreadLocalLeaf(n1 \div CrossRadix),
                                 ThreadLocalLeaf(ColLength \div CrossRadix))}
                  ELSE {}
     IN  Becomes(DivideNext([Top EXCEPT !.cands = @ \cup local, !.todo = ProperDivisors(n)]),
                 IF LocalSplit(n) THEN RowLeaves(n1) ELSE {})

(* One divisor of the loop: a candidate, or nothing when its cost throws.  *)
AddSplit ==
  /\ At("divide")
  /\ LET n1 == Head(Top.todo)
         refused == Double /\ FactorsRefused(n1)
         split == FourStep(nodes[n1], nodes[Top.n \div n1])
     IN  Becomes(DivideNext([Top EXCEPT !.todo = Tail(@),
                                        !.cands = IF refused THEN @ ELSE @ \cup {split}]),
                 IF refused THEN {} ELSE RowLeaves(n1))

BeginNpu ==
  /\ At("begin") /\ context.dev = "npu"
  /\ LET n == Top.n
         leaf == NpuLeaf3d(n) \/ (~NpuCube(n) /\ NpuLeaf2d(n))
     IN  IF env.npuMalformed \/ (leaf /\ NpuLeaf2d(n) /\ NpuLeaf2dRefused(n))
         THEN Raise
         ELSE Becomes(DivideNext([Top EXCEPT !.cands = NpuCandidate(n)]), IF leaf THEN {n} ELSE {})

(* next_supported_convolution_length returns.                              *)
ChooseConvolution ==
  /\ At("conv")
  /\ \E c \in ConvLengths(2 * Top.n - 1) :
       LET conv == ConvChosen(Top.n, c)
       IN  Becomes([Top EXCEPT !.phase = "bluestein", !.conv = conv,
                               !.need = BluesteinNeeds(Top.n, conv)], {})
AddBluestein ==
  /\ At("bluestein")
  /\ LET given == Top.choice.how = "bluestein"
         node == IF given THEN Bluestein(Top.n, nodes[Top.conv]) ELSE MakeBluestein(Top.n, Top.conv)
         rader == Top.kind # "root" /\ context.dev # "npu" /\ TriesRader(Top.n, node)
     IN  Becomes([Top EXCEPT !.cands = @ \cup {node},
                             !.phase = IF rader THEN "rader" ELSE "select",
                             !.need = IF rader THEN RaderNeeds(Top.n) ELSE <<>>], {})
AddRader ==
  /\ At("rader")
  /\ Becomes([Top EXCEPT !.cands = @ \cup {MakeRader(Top.n)}, !.phase = "select"], {})

CostsWith(f) == costs \cup {f.n}
(* build_auto_node and cost_for return: the cheapest candidate is entered    *)
(* in the tables and the flag of the caller is put back.                    *)
Memoise ==
  /\ At("select") /\ Top.kind \in {"node", "cost"}
  /\ \E c \in Top.cands :
       nodes' = IF Top.kind = "node" THEN [m \in DOMAIN nodes \cup {Top.n} |->
                                             IF m = Top.n THEN c ELSE nodes[m]]
                ELSE nodes
  /\ costs' = CostsWith(Top)
  /\ flag' = Top.saved /\ stack' = Below
  /\ UNCHANGED <<job, context, leafFactors, raised, done>>

AppendUnique(list, node) == IF node \in ToSet(list) THEN list ELSE Append(list, node)
(* build returns, or the tuner has one more candidate.                     *)
FinishRoot ==
  /\ At("select") /\ Top.kind = "root"
  /\ done' = IF Top.cands = {} THEN done
             ELSE LET node == CHOOSE c \in Top.cands : TRUE
                  IN  IF Tuning THEN AppendUnique(done, node) ELSE Append(done, node)
  /\ stack' = Below
  /\ UNCHANGED <<job, context, nodes, costs, leafFactors, flag, raised>>

-----------------------------------------------------------------------------
(* build_decomposition_tune_candidates.                                    *)

(* Mutant: a comparison longer than the limit is cut short.                *)
TuneBeginCuts ==
  /\ At("choose") /\ Top.kind = "tune"
  /\ LET tail == TailPlans(Top.n, TRUE)
     IN  IF tail # <<>> /\ tail[1].how = "refuse" THEN Raise
         ELSE Becomes([Top EXCEPT !.phase = IF tail = <<>> THEN "begin" ELSE "more", !.todo = tail], {})
TuneBegin ==
  /\ At("choose") /\ Top.kind = "tune"
  /\ LET tail == TailPlans(Top.n, TRUE)
     IN  IF tail # <<>> /\ (tail[1].how = "refuse" \/ job.limit < Len(tail)) THEN Raise
         ELSE Becomes([Top EXCEPT !.phase = IF tail = <<>> THEN "begin" ELSE "more", !.todo = tail], {})

(* What is measured beside the automatic candidate: other algorithms for a   *)
(* prime, other splits, the most balanced first, for a composite length.     *)
PrimeAlternatives(n) ==
  LET power == CeilPowerOfTwo(2 * n - 1)
      n1 == CHOOSE d \in Divisors(power) : d * d <= power /\ \A e \in Divisors(power) : e * e <= power => e <= d
  IN  <<[how |-> "search"]>>
      \o (IF n <= MaxRaderPrime THEN <<[how |-> "rader"]>> ELSE <<>>)
      \o IF context.dev = "maca" /\ context.batch = 1
         THEN <<[how |-> "bluestein", first |-> power],
                [how |-> "balanced", first |-> n1, second |-> power \div n1, of |-> power]>>
         ELSE <<>>
SplitAlternatives(n, automatic) ==
  LET wider(d) == IF d * d >= n THEN d ELSE n \div d
      before(d, e) == wider(d) < wider(e) \/ (wider(d) = wider(e) /\ d < e)
      same == IF automatic.op = "four_step" THEN {automatic.row.n} ELSE {}
      order == SetToSortSeq({d \in Divisors(n) : d > 1 /\ d < n} \ same, before)
  IN  [i \in DOMAIN order |-> Split(order[i], n \div order[i])]
TuneAutomatic ==
  /\ At("select") /\ Top.kind = "tune"
  /\ \E c \in Top.cands :
       /\ done' = <<c>>
       /\ stack' = Replaced([Top EXCEPT !.phase = "more",
                                        !.todo = IF IsPrime(Top.n) /\ Top.n > DirectDftMaxN
                                                 THEN PrimeAlternatives(Top.n)
                                                 ELSE SplitAlternatives(Top.n, c)])
  /\ UNCHANGED <<job, context, nodes, costs, leafFactors, flag, raised>>
(* A balanced convolution is only tried where the plain one was split.     *)
Skipped(choice) ==
  choice.how = "balanced" /\ (choice.of \notin DOMAIN nodes \/ nodes[choice.of].op # "four_step")
(* Mutant: the loop runs until the limit is reached.                       *)
AlternativesAgain(f) == f
AlternativesLeft(f) == [f EXCEPT !.todo = Tail(@)]
TuneMore ==
  /\ At("more")
  /\ IF Top.todo = <<>> \/ Len(done) >= job.limit
     THEN stack' = Below
     ELSE LET rest == AlternativesLeft(Top)
          IN  stack' = IF Skipped(Head(Top.todo)) THEN Replaced(rest)
                       ELSE Append(Replaced(rest), RootFrame(Top.n, Head(Top.todo)))
  /\ UNCHANGED <<job, context, nodes, costs, leafFactors, flag, raised, done>>

-----------------------------------------------------------------------------
UnwoundFlag == Top.saved
(* catch: every frame puts the flag back and rethrows, except that the loop  *)
(* over divisors goes on with the next divisor.                             *)
Unwind ==
  /\ raised /\ stack # <<>>
  /\ flag' = UnwoundFlag
  /\ IF Below # <<>> /\ Below[Len(Below)].phase = "divide"
     THEN LET loop == Below[Len(Below)]
          IN  /\ stack' = Append(SubSeq(Below, 1, Len(Below) - 1),
                                 DivideNext([loop EXCEPT !.todo = Tail(@), !.need = <<>>]))
              /\ raised' = FALSE
     ELSE stack' = Below /\ UNCHANGED raised
  /\ UNCHANGED <<job, context, nodes, costs, leafFactors, done>>

(* The plan is handed on, or plan creation reports the exception.          *)
Ended ==
  /\ stack = <<>>
  /\ raised \/ IF Tuning THEN done # <<>> ELSE Len(done) = Len(Axes(job.plan))
Rest == Ended /\ UNCHANGED vars

Next ==
  \/ StartAxis \/ MeetNeed \/ ChooseRoot \/ AssembleRoot
  \/ BeginCandidates \/ AddLocalSplit \/ AddSplit \/ BeginNpu
  \/ ChooseConvolution \/ AddBluestein \/ AddRader \/ Memoise \/ FinishRoot
  \/ TuneBegin \/ TuneAutomatic \/ TuneMore \/ Unwind \/ Rest

Spec == Init /\ [][Next]_vars
(* One thread runs the builder and nothing blocks it.                      *)
FairSpec == Spec /\ WF_vars(Next)

-----------------------------------------------------------------------------
(* Properties.                                                             *)

Children(node) ==
  CASE node.op = "four_step" -> {node.row, node.col}
    [] node.op \in {"bluestein", "rader"} -> {node.child}
    [] OTHER -> {}
(* The nodes at most three levels below a set of nodes.                    *)
Below1(S) == S \cup UNION {Children(x) : x \in S}
Parts(S) == Below1(Below1(Below1(S)))
(* Everything the builder holds or has handed on.                          *)
Built == {nodes[m] : m \in DOMAIN nodes} \cup ToSet(done)
         \cup UNION {stack[i].cands : i \in DOMAIN stack}

Phases == {"choose", "begin", "given", "local", "divide", "conv", "bluestein", "rader", "select", "more"}
(* Variables have their types; a length with a node has a cost.            *)
TypeOK ==
  /\ job \in Jobs /\ flag \in BOOLEAN /\ raised \in BOOLEAN
  /\ context \in {<<>>} \cup ToSet(Axes(job.plan))
  /\ DOMAIN nodes \subseteq costs /\ costs \subseteq 1..MaxN /\ DOMAIN leafFactors \subseteq 1..MaxN
  /\ \A i \in DOMAIN stack :
       /\ stack[i].kind \in {"root", "tune", "node", "cost"} /\ stack[i].phase \in Phases
       /\ stack[i].n \in 1..MaxN /\ stack[i].conv \in 0..MaxN
       /\ (stack[i].kind \in {"root", "tune"}) => i <= 2

(* More than kMaxLanes lanes only for a length and backend that was measured. *)
LaneLimit(n) ==
  LET wide == {r \in ToSet(WideRows) : r.n = n /\ r.dev = job.plan.dev}
  IN  Max({MaxLanes} \cup {r.lanes : r \in wide})

(* What the run-time relies on for one node: factors that multiply to the    *)
(* length and lanes that divide every stage, a leaf that fits in shared       *)
(* memory, children of the right lengths, a convolution no circular wrap       *)
(* can spoil, and for Rader a table that visits every residue once.            *)
WellFormed(node) ==
  CASE node.op = "leaf" -> /\ Product(node.factors) = node.n /\ node.smem <= SmemLimit
                           /\ node.lanes <= LaneLimit(node.n)
                           /\ \A i \in DOMAIN node.factors :
                                (node.n \div node.factors[i]) % node.lanes = 0
    [] node.op = "local" -> Product(node.factors) = node.n /\ node.smem <= SmemLimit
    [] node.op = "stockham" -> Product(node.factors) = node.n
    [] node.op = "direct" -> node.n <= DirectDftMaxN \/ context.dev = "npu"
    [] node.op = "four_step" -> node.row.n * node.col.n = node.n /\ node.row.n > 1 /\ node.col.n > 1
    [] node.op = "bluestein" -> node.child.n >= 2 * node.n - 1
    [] node.op = "rader" -> /\ IsPrime(node.n) /\ node.child.n = node.n - 1
                            /\ ToSet(node.idx) = 1..(node.n - 1)

(* Every node the builder holds, and every axis it hands on, is well-formed  *)
(* and has the length it was built for, whatever was built before it with    *)
(* the same tables (build, build_auto_candidates, make_*_plan).              *)
PlanWellFormed ==
  /\ TypeOK
  /\ \A x \in Parts(Built) : WellFormed(x)
  /\ \A m \in DOMAIN nodes : nodes[m].n = m
  /\ \A i \in DOMAIN done : done[i].n = Axes(job.plan)[IF Tuning THEN 1 ELSE i].n

(* A factor order measured for a requested length is never used inside        *)
(* another algorithm, where the comment of select_leaf_factors says it fails  *)
(* its accuracy check: not through a table filled for an earlier axis either.  *)
DirectOrderKept ==
  \A x \in Parts(UNION {Children(c) : c \in Built}) :
    ~(x.op = "leaf" /\ \E i \in DOMAIN LeafOrders :
        LeafOrders[i].direct /\ LeafOrders[i].n = x.n /\ LeafOrders[i].factors = x.factors)

(* parallel_leaf_heuristic_enabled_ is set exactly while the candidates of an  *)
(* automatic root are collected, also after an exception below that root was   *)
(* caught, and never between two axes.                                         *)
FlagFollowsFrame ==
  flag <=> Len(stack) > 1 /\ Top.kind = "node" /\ Below[Len(Below)].choice.how = "auto"

(* The batch-1 order of a leaf is only chosen for the root of a plan: the      *)
(* children of four-step and convolution roots run many rows at once and keep  *)
(* the scored order, although both are looked up in one table by length and    *)
(* exceptions are caught half-way through a root.                              *)
HeuristicAtRoot ==
  /\ FlagFollowsFrame
  /\ \A x \in Parts(UNION {Children(c) : c \in Built}) :
       ~(x.op = "leaf" /\ x.n \in DOMAIN HeuristicOrder /\ x.factors = HeuristicOrder[x.n])

(* The tuner measures distinct plans, no more than asked for, and a requested  *)
(* comparison is complete or refused ("Never silently truncate").              *)
TuneListSound ==
  Tuning =>
    /\ Len(done) <= job.limit
    /\ \A i, j \in DOMAIN done : done[i] = done[j] => i = j
    /\ Ended /\ ~raised /\ env.tail = "compare" => Len(done) = Len(TailPlans(context.n, TRUE))

(* build_auto_node and cost_for are never entered for a length they are      *)
(* already at work on, through divisors, convolution lengths, p - 1 and what   *)
(* the loop over divisors catches: the recursion cannot run away.             *)
NeverReentered ==
  \A i, j \in DOMAIN stack : i # j /\ stack[i].kind = stack[j].kind => stack[i].n # stack[j].n

(* Plan building ends, with a plan or with an exception.                   *)
Terminates == <>Ended
=============================================================================
