# FlagFFT: a TLA+ verification project

FlagFFT is an FFT library with a cuFFT-like C API. A plan is built for a
descriptor (rank, extents, batch, type); the plan builder chooses a
decomposition; the raw compiler turns it into a tree of compiled nodes whose
kernels are generated by a Python program, compiled by Triton and kept in a
cache; executing a plan launches the kernels of its nodes on the caller's
stream. This directory models that machinery in TLA+, checks it with TLC on
small instances and proves part of it with TLAPS for every instance.

Source paths below are relative to the repository root.

## 1. Inventory

| Component | State | Operations | What is hard | What makes it correct | Module |
|---|---|---|---|---|---|
| JIT kernel cache (`src/codegen/jit_cache.cpp`, `jit_kernel.cpp`, `python/flagfft_codegen/artifacts.py`, `cli.py`) | in-memory table, counters, lock files, request directories | `compile_kernel`, `clear_kernel_cache`, the generator's writes | threads and processes that want the same kernel, processes that die with the lock, orphaned generators, failures under the lock | one builder per request, no kernel built twice, all callers share it, no partial module is loaded, every call returns | `JitCache`, `KernelMemo` |
| Kernel keys and policies (`src/utils/kernel_key.cpp`, `src/codegen/compiler.cpp`, `jit_cache.cpp`) | policies and scopes of the compiler | one key per kernel, its cache text and its command line | a field the generator uses and the text leaves out; policies left behind by a child or an exception | a kernel found is the one that would have been generated | `KernelRequests` |
| Replay graphs (`src/exec/raw_nodes.cpp`, `CudaGraph`) | stored graph, its pointers, the failed flag, the stream's capture state | `execute` of the graph node, the 2D nodes and the leaf | a capture that fails half-way, stale graphs, in-place buffers, asynchronous launches | every successful call applies the transform once; a stored graph is whole; no stream stays in capture mode (the 2D node breaks each of these, section 4) | `GraphExec` |
| Plan construction and entry points (`src/exec/c_api_plan.cpp`, `c_api_internal.cpp`, `c_api_exec.cpp`) | the plan behind a handle, its mutex, stream and description | `flagfftPlan1d/2d/3d/Many`, `Exec*`, `SetStream`, `GetPlanDescription`, `Destroy` | calls from several threads, C integer products, failures half-way through creation | an accepted descriptor is one the executor supports, a plan has its executable, nobody uses a freed plan | `PlanApi` |
| NPU SiP branch (`src/adaptor/backend/npu/sip_executor.cpp`) | vendor plans and tensors behind the handle | configure, execute, set the stream, release | partial failure, cached tensors | executors owned once, stream and buffers are the caller's | `PlanApi` |
| 1D pipelines (`src/exec/raw_nodes.cpp`, `src/codegen/tables.cpp`) | work buffers, lazily computed convolution tables | leaf, four-step, Stockham, direct DFT, Bluestein, Rader, real transforms | chunks of a batch, distances in different units, lazy tables, in-place copies | each row is processed once, stays inside its buffers, with a complete table | `RowNodes` |
| 2D and 3D pipelines (`src/exec/raw_nodes.cpp`, chosen in `src/codegen/compiler.cpp`) | plan-owned temporaries | `execute` of some thirty node types | axis order after permutations, half spectra, aliasing of input, output and temporaries | each axis is transformed once, along the right stride, in natural order | `Cube3D`, `Grid` |
| Plan builder (`src/plan/*`) | memo tables, heuristic flag | candidates, factorisation, Rader and Bluestein parameters, the tuner's list | tables indexed by length only, mutual recursion, exceptions caught half-way | factors multiply out, convolutions are long enough, the choice depends on the request, no length needs itself | `PlanBuilder` |
| Tuning (`src/cli_tools/tune/tune.cpp`, `src/exec/tuned_plan.cpp`, `src/utils/plan_json.cpp`) | SQLite database | tune a length, persist the winner, look a plan up | two tuners, a lookup between the statements, a crash inside the transaction | a lookup sees one verified winner or none | `TuneDb` |
| Other adaptors, benchmark CLI, test scheduler, kernel text, packaging | - | - | - | - | section 7 |

The components interact through calls: construction calls the builder (after a
look at the tuned-plan database) and then the raw compiler, which asks
`compile_kernel` for each kernel; execution calls nodes, nodes launch kernels on
the plan's stream. Shared state is the kernel table of the process, the cache
directory and the database on disk, and the streams and buffers of the caller.
The modules cut the system along these calls: the planner's answer is an open
choice in `PlanApi`, a child transform is one step in `RowNodes` and `Grid`, the
kernel behind a key is one number in `JitCache`.

The hazards the code is exposed to, each at its line, are listed in
`PROJECT.json`, with the properties that watch over them.

## 2. Modules

| Module | Role |
|---|---|
| `KernelMemo` | abstract specification: `compile_kernel` is a memo table |
| `JitCache`, `MCJitCache` | the kernel cache with threads, processes, lock files, generators and crashes; implements `KernelMemo` |
| `KernelRequests`, `MCKernelRequests` | keys, cache texts, command lines, policies and scopes |
| `GraphExec`, `MCGraphExec` | calls on plans, streams, graph capture and replay, device memory |
| `RowNodes`, `MCRowNodes` | the 1D nodes at the level of words, rows and batch loops |
| `Cube3D`, `MCCube3D` | the complex 3D nodes at the level of addresses, slots and blocks |
| `Grid`, `MCGrid` | the 2D nodes and the real 3D nodes at the level of addresses |
| `PlanApi`, `MCPlanApi` | the C interface with threads, the plan mutex, creation and SiP |
| `PlanBuilder`, `MCPlanBuilder` | the recursion that chooses algorithms, with its tables |
| `TuneDb`, `MCTuneDb` | tuners and readers on one database file |
| `JitCacheProofs`, `KernelRequestsProofs` | theorems about `JitCache` and `KernelRequests` |
| `GraphExecProofs` | theorems about `GraphExec`: what is stored and captured; what the device computes |
| `PlanApiProofs`, `RowNodesProofs`, `Cube3DProofs`, `GridProofs`, `TuneDbProofs` | theorems about the module of that name |

An operator whose comment begins with "Mutant" is a deliberately wrong variant of
the definition below it; no specification uses it. It shows that the property it
is listed for in `PROJECT.json` would notice the mistake.

### JitCache

Each thread of each process has a program point in `compile_kernel`. Points and
code: `find` (first lookup, `jit_cache.cpp` 265-273), `lock` (the switch on the
kernel kind and the constructor of `KernelFileLock`), `recheck` (470-478),
`spawn` and `codegen` (the command, 479-619), `compile` (657), `publish`
(659-661), `unlock` (destructor). Every access to the table is one critical
section of `state.mutex`, hence one step. An exception at any point settles the
call's result as 0 and goes to `unlock` if the lock file is held: this is what
unwinding does.

The lock file is opened by each call, so `flock` excludes threads of the same
process too, and with `O_CLOEXEC`, so the code generator does not inherit it.
`Crash` therefore frees the locks of a dying process while the generators it
started keep taking steps. A generator stages its text in a temporary file,
replaces the module file, then writes the metadata: `write_text_atomic`. Because of
the replace no action makes a module file `torn`, which `TypeOK` admits: the mutant
`ChildStagesInPlace` writes without a temporary file and shows that
`CompileReadsWholeModule` would see it.

Abstractions: a key is a model value that stands for the whole cache key, and
different keys have different request ids (two 64-bit FNV hashes; collisions are
not modelled). Kernels are numbers, unique in their process. `meta` is written
but, as in the code, read by nobody: the artifact comes from standard output.

### GraphExec

A plan stands for one direction of a plan handle with its compiled node. Its
program point follows `execute`: `replay`, `direct`, `begin`, `record`, `first`
(launch of the new graph), with `broken` for a recording whose sequence returned
an error. The four node kinds differ where the code differs:

| | stores without launching | checks the recorded result | launches that throw |
|---|---|---|---|
| `leaf` (`capture_leaf_graph`) | yes | - | its own |
| `rc` (`CompiledRaw2DRCNode`) | no | no | none (children return codes) |
| `2d` (`CompiledRaw2DNode`) | no | no | the two transposes |
| `graph` (`CompiledRawGraphNode`) | no | yes | none (the 3D node catches) |

A stream is a queue of launches; while captured, launches go to the recording.
Device memory maps each buffer to the data it was loaded with followed by the
operations applied since; a launch appends its operation to the contents of its
source and puts them into its destination. `want` is what successful calls have
promised. The constant `Faults` says, for each plan, which
backend calls may fail.

The caller's rules are guards: no two calls at a time on one stream, buffers and
plans change streams only when the old stream is idle. The code enforces none of
them; the C API has no document that promises anything when they are broken.

### Cube3D

`compile_raw_3d_node` has a dozen ways to build a 3D transform. Each is a short
program of launches over the caller's input and output and two temporaries
(`Program`); the programs are those of the `execute` functions:

| Kind | Node | Code |
|---|---|---|
| `rtrt`, `rtrt_inverse` | `CompiledRaw3DNode` | rows and transposes, `raw_nodes.cpp` 3583-3630 |
| `final_store` | the same, last transpose fused | 3568-3581 |
| `pair_store` | the same, NPU, three transposed stores | `compiler.cpp` 3674-3734 |
| `strided` | `CompiledRaw3DStridedNode` | strided leaves on the natural layout |
| `chain` | the same with three permuting stores | `compiler.cpp` 4176-4232 |
| `hybrid*`, `chain_last` | `CompiledRaw3DHybridNode` | any of the three transposes left out or kept |
| `fused_plane` | `CompiledRaw3DFusedPlaneNode`, `...Fused32PlaneNode`, with a strided or column outer axis | |
| `prime_plane` | `CompiledRaw3DPrimePlaneNode` | |
| `fused_cube` | `CompiledRaw3DFusedCubeNode` | one launch, blocks interleaved |

A cell of memory records which element it is and along which axes it has been
transformed. A transform launch loads and stores at the addresses the generated
kernel computes (`StridedAddress`, `OuterAddress`, `InnerAddress`,
`RectAddress`), for the rows its blocks reach (`Launched`: grid from
`batch_per_block`, early return, slots of a block). If the cells of a row are
not a line of the axis in order, or it was transformed already, the result is
junk. A transpose moves cells by its compiled dimensions, in rounds of the loop
of `launch_perm3d`. Only the fused cube kernel can have its source and its
destination in the same buffer, so only there blocks are separate actors; a
block's loads are one step.

The tests on backend, dtype and environment are left open, so a node may be
built wherever its shape, batch and size conditions allow (`Admits`). The tuned
extents (16, 32, 256) stand for any cube. One-dimensional children are taken to
transform every row they are given.

### RowNodes

A configuration is a compiled node with the layout it is called with: kind, the
plan it came from, length, convolution length, batch, rows per launch (`chunk`,
the launch limit of the code made small), rows per block, distances, in place or
not. `Program` is the sequence of kernels and children of the node's `execute`,
with the batch loop around each; `Launch` does one of them for one chunk.

An address is a real word. A cell names the call and the row it stems from, the
form the row is in between kernels, and its word in the row. A kernel that finds
a whole row in the form it expects stores that row in its next form; anything
else, two stores that meet in one word and a store into what another block has
still to read give junk. The row is told by the data found and never by an index,
so a pointer or distance that is off moves data to the wrong place and is seen.
`EnsureTable` is `ensure_b_fft`; it and every launch may fail, and the node is
then called again. The padded layouts of the packed real nodes go to their
fallback node as in the code.

### Grid

The same approach for two and three axes. A matrix is a cube with `n0 = 1`. An
element of a real array takes one word, of a full or half spectrum two; half rows
hold `n2 \div 2 + 1` elements. `Admits` holds the shape, batch and size conditions
under which `compile_raw_2d_*` and the real `compile_raw_3d_*` functions make a
node; tests on backend, dtype and environment are left open. `Program` lists the
steps of `execute` with their strides, spans and transposes; each step is split
into rounds as `launch_grid_y_chunks` and the batch loops do.

### PlanApi

A call is a small program run by a thread: entered, checks before the mutex, work
under `plan->mutex`, return. A creating call goes through descriptor checks (with
products wrapped at `IntMax`, the code's `INT_MAX`), the attempts of `build_plan` per axis (database or builder,
Rader, Bluestein), compilation per direction, the HCU graph wrapper, the SiP
executors per direction, and publishes the plan in the handle at the very end.
What the planner, compiler, device and SiP library answer is chosen freely.

The ghosts `wanted` (the stream of the last successful `SetStream`) and `given`
(description pointers handed out) serve the properties only. The caller's side of
the contract is in the guards: nobody enters a call on a handle once
`flagfftDestroy` was entered, and `flagfftDestroy` is entered when all other calls
on the handle hold or have held the mutex. The code takes the mutex after a look
at `plan->destroyed`, which protects against nothing more than that, and no
document promises more.

### PlanBuilder

The mutual recursion of `build_auto_node`, `cost_for` and `build_auto_candidates`
is a stack of frames. A frame lists what it still needs; a need that no table
meets pushes a frame; `raised` unwinds the stack up to a loop over divisors or
out of `build`. Estimated costs are left open, so any candidate may be the
cheapest: what holds here holds whatever the cost model says. The lengths and
factor orders measured for devices are constants, so that small lengths play the
part of 256, 997 or 2048 in every table row the code has. `WideRows` is the one length
for which `choose_lanes` goes beyond `kMaxLanes` (`ix_wide_4096`), and `leaf2Factors`
the order forced on the measured NPU leaf of 2D axes (`auto_candidates.cpp` 312).

### TuneDb

Each tuner runs `run_decomposition_tune_impl` (screening, final phase, verification) and
`persist_results` statement by statement; each reader runs
`lookup_tuned_plan_json` and the choice of `lookup_or_build_root`. SQLite is
external: one writer (RESERVED), shared readers, a commit that first keeps new
readers out (PENDING) and fails as busy when one is still there; the code sets no
busy timeout, so a lock that is not free is an error at once. `Crash` may hit a
tuner at any step, and its open transaction is gone. Rows of an earlier
installation may hold a plan text nobody can read.

### KernelRequests

A key is its kind and the one parameter in which it differs from a fixed key of
that kind. `CacheKey` and `Command` say what of key, backend and policies enters
the text of the table and the generator's command line. `EnterNode`, `EnterRow`
and `Enter2D` are the `compile_raw_*` functions, which set the policies of their
node (`configure_single_transform_policies`, not restored afterwards) and the
`Maca2dPolicyScope` (restored on return and on exceptions, `Return` and `Fail`).
`NewCompiler` starts the next plan, the table stays.

## 3. Runs

| Run | Instance | What holds |
|---|---|---|
| `jit` | 2 processes, 3 threads, 1 key, crashes, 1 clear per process | `RequestExclusive`, `NoDuplicateBuild`, `SharedKernel`, `CompileReadsWholeModule`; `CallReturns`; `ImplementsMemo` |
| `graph_plans` | `CompiledRawGraphNode` around the 3D node, every failure of capture, recording and replay, 2 calls; a leaf plan also in place, its direct launch may fail, 1 call; 2 streams | `ResultExact`, `GraphComplete`, `CaptureEnds`; `ResultsArrive` |
| `cube_all` | 14 kinds, 9 shapes, batch 1-3, pack 1, 2, 4, failures | `NaturalOrder`, `InputKept` |
| `rows` | every 1D node, n 3 and 4, batch 1-3, chunks of 1-2 rows, dense and padded, in and out of place, 2 calls, failures | `AccessInBounds`, `ResultExact`, `CallerMemoryKept`, `ReadyIsComplete` |
| `grid` | every 2D and real 3D node, 6 and 5 shapes, batch up to 3 and 2, chunks of 1 and 4, failures | `AccessInBounds`, `ResultExact`, `CallerInputKept` |
| `plan_api` | 2 threads, 1 handle, 2 streams, 3 buffers, 10 creating calls, HCU, NPU with and without SiP by choice | `SipOwned`, `StreamHonoured`, `BuffersHonoured`, `LayoutHonoured`, `NoUseAfterFree` |
| `plan_builder` | 43 jobs that reach every root rule, lengths up to 64, radices 4, 3, 2 | `PlanWellFormed`, `DirectOrderKept`, `HeuristicAtRoot`, `TuneListSound`, `NeverReentered`; `Terminates` |
| `tune_db` | 2 tuners, 1 reader, 2 runs, 2 batches, an unreadable old row, crashes and busy locks | `LockOwned`, `OneRowPerKey`, `PairConsistent`, `ServedVerified`, `ReportedIsStored`; `AlwaysPlanned`, `TuneEnds` |
| `kernel_requests` | 61 kinds, 5 backends, sets of up to two policies, ranks 1-3 | `KernelFits`, `ScopeHonoured` |
| `graph_in_place` | `CompiledRaw2DNode` in place, no failures | `ResultExact` is violated |
| `graph_record_throws` | `CompiledRaw2DNode` out of place, a launch fails while recording | `FallsBack` is violated |
| `rows_split_pack` | generic R2C node, pack step split | `ResultExact` is violated |

The type invariants of `Cube3D`, `Grid` and `PlanBuilder` are conjuncts of the first
invariant of their run; those of all modules but `PlanBuilder` are proved (section 5).

**Bounds.** All are constants of the modules or definitions of the MC modules.

- `JitCache`: contention on a key needs two threads; a same-process and a
  cross-process waiter need the third. Safety is proved for every instance.
- `GraphExec`: the first call on the 3D plan builds a graph, the second replays it,
  comes with other pointers or on another stream, or finds what a failed capture has
  left; the leaf plan works beside it, on the same stream or the other. Longer
  histories, failures of the direct launches of the 3D plan, `rc` and `2d` nodes are
  left to the theorems, which hold for any plans, nodes, streams, buffers and calls.
- `Cube3D`, `Grid`, `RowNodes`: extents are pairwise different wherever the node
  allows it, with extents of 1, row counts that are and are not multiples of the
  chunk or the pack, odd and even lengths for the half spectra. Addresses are
  affine in the mixed-radix digits of the row, so larger extents add no new case.
  Two calls show what a failed call leaves for the next. The invariants are proved
  for every shape, length, batch, pack and chunk.
- `PlanApi`: one plan and two threads are enough for every pair of calls; with 31
  for `INT_MAX` 8 x 5 overflows where 2 x 4 does not. The invariants are proved
  for every instance.
- `PlanBuilder`: a child of a child of a convolution fits into 64; each table of
  measured lengths has an entry in the range, and jobs meet it with and without
  the environment settings that override it.
- `TuneDb`: two writers and a reader give every conflict of locks; two batches
  give two buckets; the invariants are proved for every instance.
- `KernelRequests`: `KernelFits` compares two keys, so one entry in the table and
  every possible asker suffice; three frames nest a row in a 2D node in another.

**Deadlock checking** is on for `PlanApi`, `PlanBuilder`, `TuneDb` and
`KernelRequests`. It is off where the bounded calls are made at last and the
system rightly stops: `JitCache`, `GraphExec`, `Cube3D`, `RowNodes`, `Grid`.

**Fairness.** `JitCache`: threads inside `compile_kernel` are scheduled, a thread
waiting in `flock` gets a lock that stays free, and a code generator ends, in
success or failure; `flock` blocks without a timeout and need never fail, so
nothing less gives `CallReturns`. `GraphExec`: a thread inside a call is
scheduled and the device works off its queues. `PlanBuilder`: the one thread
runs. `TuneDb`: a process that runs goes on, as no step of it waits for another.
Callers, clears and crashes have no fairness anywhere. `PlanApi` states none: its
calls wait for a `std::mutex`, and C++ does not promise that a waiter ever gets
one that others keep taking.

## 4. Disagreements and open cases

Shown by a run:

1. **In-place calls that build a graph transform twice** (`graph_in_place`).
   `CompiledRaw2DNode` (`raw_nodes.cpp` 2505-2526), `CompiledRaw2DRCNode` and
   `CompiledRawGraphNode` run the sequence directly, capture it, and launch the
   captured graph at once. Out of place the second run repeats the first; in place
   it transforms the output. The README lists in-place transforms as supported.
2. **A split pack step stores at half its offset** (`rows_split_pack`). The pack
   step of `CompiledRawR2CNode` (`raw_nodes.cpp` 1768) converts its row offset
   with `real_bytes` although the distance counts complex elements.
3. **An exception while recording leaves the stream captured**
   (`graph_record_throws`). The comment in `CompiledRaw2DNode` says "Any
   capture/instantiation failure falls back to direct launches for the lifetime of
   the plan" (`raw_nodes.cpp` 2513-2516). A transpose that throws between
   `begin_capture` and `end_capture` (2520-2522) is caught at 2527, which ends no
   capture; nor does the destructor of `CudaGraph`. The direct launches of the next
   call are recorded and do not run, or are refused by a driver that has
   invalidated the capture.

No 2D plan is therefore in `graph_plans`, and `rows` does not split that pack step.

Met while modelling and left out of the passing runs; each is excluded by a definition
of an MC module, by `Sound` (of `Cube3D` and of `GridProofs`) or by a hypothesis of
`GraphExecProofs`:

- An error code while a 2D node records is dropped (`raw_nodes.cpp` 2521 ignores what
  `run_sequence` returns). With a driver that lets the capture go on, the truncated
  graph is launched, kept and replayed by calls that report success; `GraphComplete`
  fails for `CompiledRaw2DNode` with the fault `record`. `graph_plans` has this fault
  and shows that checking the result, as `CompiledRawGraphNode` does, is enough
  (`Checked`).

- The middle store of the fused chain strides by the whole row count, batch
  included (`compiler.cpp` 4204, `kernels_leaf.py` 3266), so cubes of a batch
  mix. `MCGrid!BatchedInnerStore` is the same store in the real 3D nodes. With
  `batch * n0` no multiple of the pack the store also leaves rows out
  (`kernels_leaf.py` 3232, `raw_nodes.cpp` 517). `Sound` asks for one cube and whole
  blocks.
- The fused cube kernel in place: blocks overwrite what others read
  (`raw_nodes.cpp` 3819; `Sound`, `MCGrid!InPlaceCube`).
- `CompiledRaw1DAs2DNode` in place, real, batch above 1
  (`MCGrid!InPlaceUnitAxis`): dense items of input and output have different
  sizes and overlap.

Observations without a model of their own:

- `NpuAivFFTSmall` chunks its launches by 65535 blocks without aligning the
  chunks to its stride (`raw_nodes.cpp` 568-622).
- "Reject padded layouts" (`c_api_internal.cpp` 139, 170) is said of ranks 2 and 3,
  but `inembed` and `onembed` are compared with nothing there; only distances
  are. The benchmark runner (`cli_tools/bench/runner.cpp` 152-190) passes padded
  distances for in-place real plans of rank 2 and 3, which are always rejected.
- Dead code: the nodes `R2CFourStepHalfOut` and `C2RFourStepRealOut`,
  `build_tune_candidates`, `build_leaf_tune_candidates`, the grouped AIV child
  under Bluestein, and the HCU branch for length 2048 in rank 3.
- `FLAGFFT_NPU_FOURSTEP_SPLIT` is documented as "never a convolution child";
  nothing checks it.
- The tuner builds its "automatic" candidate with the batch-1 heuristic switched
  off, so it may differ from what plan creation would build.
- The fingerprint of the maca backend leaves `FLAGFFT_EXECUTION_POLICY` out;
  `TuneDb` models the other backends.
- `configure_single_transform_policies` is not undone when a child returns, so
  later kernels of a node are generated under the child's policies. `KernelFits`
  shows that this never hands out a kernel generated otherwise.

## 5. Proofs

`JitCacheProofs`, for any sets of processes, threads and keys and any bounds, from
the assumptions that `ProcOf` is a function into `Process` and that `NoKey` and
`NoThread` are fresh:

| Theorem | States |
|---|---|
| `TypeCorrect` | `Spec => []TypeOK` |
| `Inductive` | `Spec => []IInv` |
| `BuildsSerialised`, `NoWastedBuild`, `KernelShared`, `OnlyWholeModules` | `RequestExclusive`, `NoDuplicateBuild`, `SharedKernel`, `CompileReadsWholeModule` always |
| `MemoRefinement` | `Spec => ImplementsMemo` |

None of the four properties is inductive. `RequestExclusive` needs that a thread
past the lock holds the lock file of its key and that a dead one holds none
(`LockInv`). `NoDuplicateBuild` needs that nobody else can publish an entry
meanwhile, which is `RequestExclusive` again, across a clear. `SharedKernel`
needs that epochs never exceed the process's epoch (`EpochInv`) and that a
thread in `publish` carries a kernel no table holds (`FreshInv`), which is also
what the refinement needs for `ReturnNew`. `CompileReadsWholeModule` needs that
a generator past its replace has left a whole module and that module files never
become torn (`ChildInv`). `MemoRefinement` maps program points to idle, pending
and dead; the settling steps map to answers, everything else to stuttering.

`TuneDbProofs`, for any tuners, readers, plans, requests and bounds, from
`TuneDbAssumption` (special values are fresh, an old row is unreadable and unique
for its key):

| Theorem | States |
|---|---|
| `TuneTypeCorrect` | `Spec => []TypeOK` |
| `TuneInductive` | `Spec => []IInv` |
| `LockAlwaysOwned`, `OneRowAlways`, `PairAlways`, `ReportsTrue`, `OnlyVerifiedServed` | `LockOwned`, `OneRowPerKey`, `PairConsistent`, `ReportedIsStored`, `ServedVerified` always |

The committed rows change in one step, the commit, so what must be known is the
draft: `DraftOf` says that it is the committed table with the holder's key
deleted and re-inserted as far as its statements have come; by `LockOwned` nobody
else has one. From it follow `OneRowPerKey` and `PairConsistent` at the commit.
`RunSound` says that a run's winner is among the plans it verified, `RowsVouched`
that every readable row has a committed trial that was accurate, and
`ReaderSound` that a plan in a reader's hands came from such a row of its key.

`KernelRequestsProofs`, for any configurations, table size and depth of nodes, from
`ConfigsType` (the kinds asked for are kinds of the code) and `BoundsType`:

| Theorem | States |
|---|---|
| `RequestsInductive` | `Spec => []IInv` |
| `KernelsFit` | `KernelFits` always |
| `ScopesHonoured` | `ScopeHonoured` always |

For `KernelFits` every parameter in which two keys of a kind can differ is shown,
kind by kind, to be among the options of that kind and to reach the cache text.
`ScopeHonoured` speaks of the innermost scope only; what is kept is that every
frame remembers the policy of the frames below it (`Nested`), so that leaving a
frame, by return or by exception, brings back the right one.

`GraphExecProofs`, for any plans, streams, buffers, data,
faults and number of calls, from the type assumptions of `GraphExec` and
`BuffersApart` (the temporaries of a plan are no buffers of a caller):

| Theorem | States | Hypothesis |
|---|---|---|
| `GraphInductive` | `Spec => []IInv` | - |
| `GraphsAlwaysBegin` | a stored graph is a beginning of its node's sequence for its pointers | - |
| `GraphsComplete` | `GraphComplete` always | `Checked`: no launch fails while recording, or the node looks at the recorded result |
| `OwnerInductive`, `CapturesEnd` | a captured stream belongs to the plan that records on it; `CaptureEnds` always | `Caught`: no launch that fails while recording throws out of the node |
| `ResultInductive`, `ResultsExact` | `ResultExact` always | `Unbroken`: no recording loses a launch; `Repeatable`: nodes that launch a new graph after the direct run are used out of place |

The hypotheses leave out what section 4 reports. Each is about the constants, and
`graph_plans` satisfies it: only its `graph` node may fail while recording, and only
its leaf works in place. A 2D node without the fault `record` and out of place
satisfies it too. Launches are asynchronous, so memory is seldom what was promised. The
invariant therefore speaks of the memory the device will end in: `Yields(q, m, f)` says that running queue
`q` on memory `m` leaves the cells it uses as in `f`, and `ResultInv` that there is
such an `f` for all streams together, in which every buffer holds what its last
call promised and every call in progress is as far as its next launch. A step of
the device keeps `f`; a launch moves `f` on by one operation; a replay moves it by
the whole sequence, for which `GraphInv` is needed. That streams do not disturb
each other rests on `OwnInv`: a cell that is in use belongs to one stream.

`PlanApiProofs`, for any threads, handles, streams, buffers, creating calls and
INT_MAX, from `PlanApiAssumption`, `RequestsAssumption` (extents and distances are
integers; only `flagfftPlanMany` takes distances from the caller) and `NullApart`:

| Theorem | States |
|---|---|
| `PlanApiInductive` | `Spec => []IInv` |
| `PlansOutliveCalls` | `NoUseAfterFree` always |
| `ExecutorsAreOwned` | `SipOwned` always |
| `StreamsAreHonoured`, `BuffersAreHonoured`, `LayoutsAreHonoured` | `StreamHonoured`, `BuffersHonoured`, `LayoutHonoured` always |

`IInv` has four parts beside the types. `ProtocolInv` is the mutex protocol: a
mutex is held by the call at work under it, a creating call is alone with its
handle, and a destroying call has none beside it once it got the mutex. `PlanInv`
says what a plan behind a handle has (`Whole`, `Fitting`, `Streamed` while `wanted`
is known) and how far a plan in the making has come (`Formed`). `OwnerInv` gives every executor one owner, handle or thread.
`ExecInv` is what an execution did, and is what the three last theorems read off.
`LayoutHonoured` holds because a dense request whose distance wrapped is refused:
the descriptor check compares with the exact product.

`RowNodesProofs`, for any lengths, convolution lengths, stages, batches, chunks,
packs and distances and any number of calls, from `ConfigsType`, `RaderLength`
(a Rader plan convolves over `n - 1` points), `ConvolutionExists` (no convolution is
empty), `StagesExist` and `CallsType`:

| Theorem | States | Hypothesis |
|---|---|---|
| `RowsInductive` | `Spec => []IInv` | - |
| `AddressesInBounds` | `AccessInBounds` always | - |
| `TablesComplete` | `ReadyIsComplete` always | - |
| `CallersKept` | `CallerMemoryKept` always | `Unsplit`: no batch of a real-to-complex node, or of the node it falls back to, exceeds one chunk |
| `RowResultExact` | `ResultExact` always | `Sound`: no row is wider than its distance, an in-place real leaf has equal row distances, and the pack step of the general real-to-complex node fits one chunk |

Every region of every program is shown to fit its buffer (`ProgramFits`): its rows,
at their distance, end inside the words the compiler allocated or the caller
described. The base of a launch is the batch offset times the step of the region,
so `OffsetInv` is needed: the offset is zero where the step is not chunked.
`CallerMemoryKept` needs in addition that a store stays off the gaps between padded rows
(`StoreKept`), which is arithmetic modulo the distance and fails for the split
pack step of section 4; `Unsplit` excludes just that, and the configurations of
`rows` satisfy it.

`ResultExact` needs to know where every row is. `Needs(p)` names the regions a row
must be held in when it waits for step `p` of the program: the caller's input, then
what the kernel loads, and for the Rader nodes also the input and the first word of
the output, which later kernels use once more; at the end, the caller's output.
`Phase` gives the step each row waits for. With a loop inside the step, rows before
the offset are a step ahead; with the loop around the sequence they are done, the
rows of the chunk wait for the step under way, and the others for the first. The
inductive invariant `DataInv` says that every row is held (`Holds`), of the call
under way, in all its regions. `LaunchData` shows that a launch and the advance
after it keep `DataInv` in any program that is `Chained`: each step loads what its
rows are held in, leaves them where the next one looks, in pairwise different
buffers, and spares the rows it does not launch (`RowFound`, `SoleStore`,
`RowStored`, `WordKept`, `OthersKept`). `ProgramChained` then shows it of the
program of every node kind, by composing launches between regions whose rows lie
apart (`Carries`, `Linked`), and by parity of the stage for the Stockham node, whose
number of kernels is a parameter. `SupportedLayout` shows that every layout
`is_supported_minimal_desc` admits meets the first two parts of `Sound`; the third
leaves out the split pack step, where `rows_split_pack` violates the property.

`Cube3DProofs`, for any shapes, batches, packs, blocks and chunks, from `ConfigsType`:

| Theorem | States | Hypothesis |
|---|---|---|
| `NaturalOrderHolds` | `NaturalOrder` always, with the types | every plan is `Sound` |
| `InputKeptHolds` | `InputKept` always | - |

`Sound` names the two cases of section 4, and that a kernel has at least the slots
its metadata says (`perBlock <= pack`), without which a grid would reach too few rows.
The argument follows the order in which the axes lie in a buffer. `Holds(b, o, D)`
says that buffer `b` keeps the cubes with their axes in order `o`, the axes in `D`
transformed; `Carries` that a transform launch takes order `o` to order `p`, and
`Permutes` that a transpose does. For each of the fourteen nodes `Held` lists the
orders between its launches, and `NodeRoute` shows that its program goes through
them: this is where the strides, spans, dimensions and rectangles the compiler passes
are compared with what the next launch expects. `CarriedOver` is the one theorem
about transforms: the rows of a launch partition the source into lines of one axis,
the blocks reach each row (this is what the pack and the grid enter), and what is
stored lies in order `p`. Its arithmetic is the uniqueness of quotients and
remainders, one mixed-radix digit at a time (`Digits`, `SameDigits`). The inductive
invariant adds to `Held` what a transpose in rounds has moved so far
(`PartMoved`), and for the fused cube which blocks have loaded and stored
(`CubeKept`): out of place no store touches what another block has to load.
`InputKept` needs less: only the last launch of a program may store to `in`
(`Spares`).

`GridProofs`, for any shapes, batches and chunks, from `ConfigsType` and `BoundsType`:

| Theorem | States | Hypothesis |
|---|---|---|
| `GridInBounds` | `AccessInBounds` always, with the types | - |
| `GridInputKept` | `CallerInputKept` always | - |
| `GridResultExact` | `ResultExact` always | `Sound`: the node is none of the three of section 4 |

`StepFits` says of a step what makes its launches stay inside: both buffers have room
for as many words as the form they are used in takes (`RoomFor`), and the rows, the
spans and the words a pointer advances by belong to that form. `StepInside` derives
the bounds of every address from it, through the four ways a step is launched (in one
go, in chunks, item by item, in padded rows). `ProgramsWellFormed` then walks through
the programs: a half spectrum in a compact workspace, a full one only in the row
buffer, the caller's output as a workspace only while it holds the half form, and the
item loops of `rtrt_outer` going back to a step of their own. The inductive invariant
is these facts of the current step, the range of the offset and the input as given:
out of place no step's destination is `in`.

`ResultExact` needs to know where every element is. An array is told by its buffer,
the order of its axes, its form and the axes transformed (`Layout`); `Has` says that a
buffer keeps one element of one item where the array has it. `Takes` says that a step
reads one such array and stores another: a permutation reorders the axes, a launch
along lines reads rows that lie in the order `Lies` gives for its layout (`rows`,
`padded`, `strided`, `outer`, `inner`) and asks for the form and the axes its kernel
needs. `LinesLaunched` and `PermuteLaunched` show that such a launch leaves each
element that is due in the next array and touches no other, since no two stores meet;
as in `Cube3DProofs` that is the uniqueness of mixed-radix digits, with one extent
that depends on the form. `ProgramDelivers` walks through the programs of all nodes
and finds the chain of arrays from the caller's input to the result. The inductive
invariant (`RInv`) says for each element, by the round of the loop it belongs to,
which of these arrays has it: what earlier rounds left, what is due now, and what
later rounds take up (`Before`, `After`). In the item loop of `rtrt_outer` for
inverse transforms, later items wait in the very buffer the second step stores to,
so `Relocates` also shows that a launch spoils no item but its own. `Sound` leaves out the batched
inner store, the cube in place and the unit-axis node in place, as `SoundConfigs` does
in the run; every other node the compiler makes is covered.

Only model-checked:

- liveness (`CallReturns`, `ResultsArrive`, `Terminates`,
  `AlwaysPlanned`, `TuneEnds`): out of the prover's reach;
- `PlanBuilder` (`PlanWellFormed`, `DirectOrderKept`, `HeuristicAtRoot`,
  `TuneListSound`, `NeverReentered`): the factorisations are recursive functions over data, whose values
  for every input cannot be proved without induction over an operator.

## 6. Plan

1. Proofs: `DirectOrderKept` and `HeuristicAtRoot` of `PlanBuilder`, which are about
   the stack and not about the numbers.
2. The grouped AIV nodes of the NPU on the machinery of `RowNodes`.
3. Environment variables that change within a process, once the repository says
   what is meant to happen.

## 7. Not modelled

- Numerical contents of kernels and tables: floating point is out of TLC's reach.
- The text the code generator produces, beyond its row and address arithmetic.
- Driver wrappers other than `CudaGraph`: one call of the driver each.
- Benchmark timing, comparison with vendor libraries, the JSON report, printing.
- `tools/run_tests.py` hands commands to devices and keeps nothing that outlives
  them; `tools/numpy_fft_validation/capture.cpp` is a test aid that writes arrays
  to files.
- Grouped AIV variants, and `FLAGFFT_MACA_3D_R2C_FIRST_STORE=1` on inverse
  transforms, which the code does not guard.
- Packaging and CI.
