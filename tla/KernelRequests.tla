--------------------------- MODULE KernelRequests ---------------------------
(***************************************************************************)
(* How TritonCompiler asks for kernels.  While it walks a plan it sets the *)
(* code generation policies of the node it is at, builds a KernelKey per   *)
(* kernel and hands it to compile_kernel, which looks the kernel up under  *)
(* a text made of the key and the policies and, on a miss, runs the        *)
(* generator with a command line made of the same key and policies.  Both  *)
(* conversions are modelled by what they keep of the key: two keys with    *)
(* one text share a kernel, and the generator sees only what the command   *)
(* line passes.                                                            *)
(*                                                                         *)
(* A key is its kind and the parameter in which it differs from a fixed    *)
(* key of that kind: texts and command lines are put together field by     *)
(* field, so keys that differ in more are told apart whenever these are.   *)
(* The locks and files of compile_kernel are in JitCache; environment      *)
(* variables keep their values.                                            *)
(***************************************************************************)
EXTENDS Integers, Sequences, FiniteSets, SequencesExt

CONSTANTS
    Configs,      \* records [device, kinds, requests]: the backend of the
                  \* process, the kernel kinds and the sets of policies
                  \* tried on it
    MaxKernels,   \* bound on the kernels in the table
    MaxDepth      \* bound on the nesting of nodes

VARIABLES
    cfg,          \* the configuration
    table,        \* KernelCacheState::cache, with the key of each entry
    rank,         \* origin_rank of the compiler's plan
    frames,       \* compile_raw_* calls under way, outermost first
    policies,     \* the policies configure_single_transform_policies set
    policy2d      \* maca_2d_single_policy_

vars == <<cfg, table, rank, frames, policies, policy2d>>

-----------------------------------------------------------------------------
(* The kinds, grouped by the fields their keys set.                        *)

PlainLeafKinds ==
    {"Leaf", "LeafStrided", "LeafR2C", "LeafC2R", "LeafPackedR2C", "LeafPackedC2R"}
StoreLeafKinds ==
    {"LeafPermutedStore", "LeafStridedPermutedStore", "LeafR2CPermutedStore"}
BluesteinLeafKinds == {"LeafBluestein", "LeafBluesteinPrepare", "LeafBluesteinFinish"}
RaderLeafKinds == {"LeafRaderFull", "LeafRaderPrepare", "LeafRaderFinish"}
FourStepRowKinds ==
    {"FourStepRow", "FourStepRowStrided", "FourStepRealRow", "FourStepHermitianRow"}
FourStepColKinds ==
    {"FourStepCol", "FourStepColStrided", "FourStepR2CCol", "FourStepC2RCol"}
BluesteinFourStepKinds ==
    {"BluesteinFourStepPrepareRow", "BluesteinFourStepPointwiseRow",
     "BluesteinFourStepFinishCol"}
DirectKinds ==
    {"DirectDft", "DirectDftStrided", "DirectDftCube", "DirectDftCubeTransposed",
     "DirectDftCubeStrided", "DirectDftCube2DRow", "DirectDftCube2DCol",
     "DirectDftR2C", "DirectDftC2R"}
BluesteinKinds == {"BluesteinPrepare", "BluesteinPointwise", "BluesteinFinalize"}
RaderKinds == {"RaderPrepare", "RaderPointwise", "RaderFinalize"}
ReshapeKinds == {"ReshapePack", "TwiddleReshapePack", "TiledTranspose"}
BoundaryKinds ==
    {"RealToComplex", "R2CHalfPack", "R2CPackedPostprocess", "C2RPackedPreprocess",
     "CompactToHermitianFull", "ComplexToReal"}
FixedPlaneKinds == {"Fused16Plane", "Fused32RealPlane", "Fused16RealPlane", "Fused32Plane"}
FixedCubeKinds == {"Fused16Cube", "Fused16RealCube"}

FourStepKinds == FourStepRowKinds \union FourStepColKinds
FusedKinds ==
    FixedPlaneKinds \union FixedCubeKinds \union {"FusedRectPlane", "Fused32Column", "Fused2D"}
LeafKinds ==
    PlainLeafKinds \union StoreLeafKinds \union BluesteinLeafKinds \union RaderLeafKinds
        \union FourStepKinds \union BluesteinFourStepKinds
AllKinds ==
    LeafKinds \union DirectKinds \union BluesteinKinds \union RaderKinds
        \union ReshapeKinds \union BoundaryKinds \union FusedKinds
        \union {"StockhamStage", "Transpose3D"}

ASSUME ConfigsType ==
    \A c \in Configs : c.kinds \subseteq AllKinds
ASSUME BoundsType == MaxKernels \in Nat /\ MaxDepth \in Nat

(* Kernels that convert or move data are the same in both directions: the  *)
(* factories leave their direction at its default.                         *)
Undirected ==
    BluesteinKinds \union RaderKinds \union ReshapeKinds \union BoundaryKinds
        \union {"Transpose3D"}

LeafFields ==
    {"length", "factors", "lanes", "num_warps", "generic_radices", "smem_size"}

Singles(fields) == {{f} : f \in fields}

(* The length of a Bluestein or Rader leaf is also its convolution length. *)
LeafParameters(kind) ==
    CASE kind \in BluesteinLeafKinds ->
            Singles((LeafFields \ {"length"}) \union {"bluestein_n"})
                \union {{"length", "bluestein_m"}}
      [] kind \in RaderLeafKinds ->
            Singles((LeafFields \ {"length"}) \union {"rader_n"})
                \union {{"length", "rader_m"}}
      [] kind \in FourStepKinds ->
            Singles(LeafFields \union {"four_step_n1", "four_step_n2"})
      [] kind \in BluesteinFourStepKinds ->
            Singles(LeafFields \union {"four_step_n1", "four_step_n2",
                                       "bluestein_n", "bluestein_m"})
      [] OTHER -> Singles(LeafFields)

OtherParameters(kind) ==
    CASE kind \in DirectKinds \union BoundaryKinds \union {"Fused32Column", "Fused2D"} ->
            {{"length"}}
      [] kind = "StockhamStage" -> Singles({"length", "factors"})
      [] kind \in BluesteinKinds -> Singles({"bluestein_n", "bluestein_m"})
      [] kind \in RaderKinds -> Singles({"rader_n", "rader_m"})
      [] kind \in ReshapeKinds -> Singles({"reshape_n1", "reshape_n2"})
      [] kind = "Transpose3D" ->
            Singles({"transpose3d_n0", "transpose3d_n1", "transpose3d_n2", "order"})
      [] kind = "FusedRectPlane" ->
            Singles({"fused_plane_n0", "fused_plane_n1", "fused_plane_middle"})
      [] OTHER -> {}

(* Kinds whose store address, real boundary or transposition is chosen by  *)
(* perm_form.                                                              *)
Formed ==
    StoreLeafKinds \union {"LeafBluestein", "BluesteinFourStepPrepareRow",
                           "BluesteinFourStepFinishCol", "Fused2D"}

(* Marks that some backends put on a key after it was made.                *)
PortableMarks(device, kind) ==
    IF device = "npu" /\ kind \in {"Leaf", "LeafStrided", "LeafPermutedStore",
                                   "LeafStridedPermutedStore", "LeafR2C", "LeafC2R"}
    THEN {"npu_portable_leaf"} ELSE {}
SmemMarks(device, kind) ==
    IF device = "hcu" /\ kind \in {"LeafPermutedStore", "LeafStridedPermutedStore"}
    THEN {"hcu_full_smem"} ELSE {}
PackMarks(device, kind) ==
    IF device = "hcu" /\ kind = "Leaf" THEN {"hcu_3d_middle_batch_pack"} ELSE {}

Parameters(device, kind) ==
    Singles({"target", "dtype"})
        \union (IF kind \in Undirected THEN {} ELSE {{"direction"}})
        \union (IF kind \in LeafKinds THEN LeafParameters(kind) ELSE OtherParameters(kind))
        \union (IF kind \in Formed THEN {{"perm_form"}} ELSE {})
        \union Singles(PortableMarks(device, kind) \union SmemMarks(device, kind)
                          \union PackMarks(device, kind))

Keys ==
    [c \in Configs |->
        UNION {[kind : {k}, alt : {{}} \union Parameters(c.device, k)] : k \in c.kinds}]

-----------------------------------------------------------------------------
(* The policies.                                                           *)

SingleRoots == {"real-direct", "p4w4"}
BatchRoots ==
    {"batch-vecio", "batch-real-pack2", "batch-c2c-pack2", "batch-prime-vecio",
     "batch-c2c-tree"}
Roots == SingleRoots \union BatchRoots

(* Rank 1 takes at most one root of the tail policy, and batch 1 and batch *)
(* 64 exclude each other; the axes of a plan of higher rank keep its rank. *)
MacaPolicies(n) ==
    CASE n = 1 ->
            {P \in SUBSET (Roots \union {"1d-single", "1d-batch"}) :
                /\ Cardinality(P \intersect Roots) <= 1
                /\ "1d-single" \in P => P \intersect (BatchRoots \union {"1d-batch"}) = {}
                /\ "1d-batch" \in P => P \intersect SingleRoots = {}}
      [] n = 2 -> SUBSET {"1d-single"}
      [] n = 3 -> {{"3d"} \union P : P \in SUBSET {"1d-single", "3d-c2c32-single-cube"}}

(* Each of these is for lengths or a batch that none of the others has.    *)
IxPolicies(n) ==
    {{}} \union Singles({"ct-single", "ct-batch", "tle-1", "tle-2"}
                            \union (IF n = 1 THEN {"real-single-pack"} ELSE {}))

PoliciesOf(device, n) ==
    CASE device = "maca" -> MacaPolicies(n)
      [] device = "ix" -> IxPolicies(n)
      [] OTHER -> {{}}

(* The mode of the tail policy for one key: the keys of the root's own     *)
(* kinds, lengths and types.                                               *)
FourStepMode(root, key) ==
    /\ key.kind \in {"FourStepRow", "FourStepCol"}
    /\ root \in BatchRoots \union {"p4w4"} /\ root # "batch-c2c-tree"
    /\ key.alt \intersect {"length", "four_step_n1", "four_step_n2"} = {}
    /\ root \in {"p4w4", "batch-real-pack2", "batch-c2c-pack2"} => "dtype" \notin key.alt

TailMode(root, key) ==
    CASE FourStepMode(root, key) -> root
      [] root = "real-direct" /\ key.kind \in {"DirectDftR2C", "DirectDftC2R"}
            /\ "length" \notin key.alt -> root
      [] root = "batch-c2c-tree" /\ key.kind = "DirectDft"
            /\ key.alt \intersect {"dtype", "length"} = {} -> root
      [] root = "batch-prime-vecio" /\ key.kind \in {"RaderPrepare", "RaderFinalize"} ->
            "batch-prime-rader-vecio"
      [] OTHER -> "off"

Flags(key) ==
    (policies \ Roots)
        \union ({TailMode(r, key) : r \in policies \intersect Roots} \ {"off"})
        \union (IF policy2d THEN {"2d-single"} ELSE {})

-----------------------------------------------------------------------------
(* The two texts made of a key.                                            *)

(* Mutant: the radices of a key are not in its text.                       *)
NamedWithoutFactors ==
    {"target", "dtype", "direction", "length", "lanes", "num_warps", "generic_radices",
     "smem_size", "four_step_n1", "four_step_n2", "bluestein_n", "bluestein_m",
     "rader_n", "rader_m", "reshape_n1", "reshape_n2", "order", "perm_form"}

(* Fields named by KernelKey::repr, besides the kind.                      *)
Named ==
    {"target", "dtype", "direction", "four_step_n1", "four_step_n2", "bluestein_n",
     "bluestein_m", "rader_n", "rader_m", "reshape_n1", "reshape_n2", "transpose3d_n0",
     "transpose3d_n1", "transpose3d_n2", "fused_plane_n0", "fused_plane_n1",
     "fused_plane_middle", "order", "perm_form", "npu_portable_leaf", "hcu_full_smem",
     "hcu_3d_middle_batch_pack"} \union LeafFields

CacheKey(key) == [kind |-> key.kind, named |-> key.alt \intersect Named, flags |-> Flags(key)]

(* Options of the generator, by kind; perm_form is an option or a part of  *)
(* the kernel's name.                                                      *)
Options ==
  [kind \in AllKinds |->
    {"target", "dtype", "hcu_full_smem", "hcu_3d_middle_batch_pack"}
    \union (IF kind \in LeafKinds
            THEN LeafFields \union {"direction", "npu_portable_leaf"} ELSE {})
    \union (IF kind \in DirectKinds THEN {"length", "direction"} ELSE {})
    \union (IF kind = "StockhamStage" THEN {"length", "factors", "direction"} ELSE {})
    \union (IF kind \in FourStepKinds \union BluesteinFourStepKinds
            THEN {"four_step_n1", "four_step_n2"} ELSE {})
    \union (IF kind \in BluesteinLeafKinds \union BluesteinFourStepKinds \union BluesteinKinds
            THEN {"bluestein_n", "bluestein_m"} ELSE {})
    \union (IF kind \in RaderLeafKinds \union RaderKinds THEN {"rader_n", "rader_m"} ELSE {})
    \union (IF kind \in ReshapeKinds THEN {"reshape_n1", "reshape_n2"} ELSE {})
    \union (IF kind = "Transpose3D"
            THEN {"transpose3d_n0", "transpose3d_n1", "transpose3d_n2", "order"} ELSE {})
    \union (IF kind \in FusedKinds THEN {"direction"} ELSE {})
    \union (IF kind = "FusedRectPlane"
            THEN {"fused_plane_n0", "fused_plane_n1", "fused_plane_middle"} ELSE {})
    \union (IF kind \in BoundaryKinds
                \union {"Fused16Plane", "Fused32RealPlane", "Fused16Cube", "Fused32Column",
                        "Fused2D"}
            THEN {"length"} ELSE {})
    \union (IF kind \in Formed THEN {"perm_form"} ELSE {})]

Command(key) ==
    [kernel |-> key.kind, options |-> key.alt \intersect Options[key.kind],
     flags |-> Flags(key)]

-----------------------------------------------------------------------------
Init ==
    /\ cfg \in Configs
    /\ table = {}
    /\ rank \in 1..3
    /\ frames = <<>>
    /\ policies = {}
    /\ policy2d = FALSE

(* A call of compile_raw_*: MaxDepth bounds the depth of the plan.          *)
Open(scoped, on) ==
    /\ Len(frames) < MaxDepth
    /\ frames' = Append(frames, [scoped |-> scoped, on |-> on, previous |-> policy2d])
    /\ policy2d' = on

Configure(r) ==
    /\ r \in PoliciesOf(cfg.device, rank)
    /\ policies' = r
    /\ UNCHANGED <<cfg, table, rank>>

(* A 1D or 3D node: its policies replace those of the node above and stay. *)
EnterNode(r) ==
    /\ Open(FALSE, policy2d)
    /\ Configure(r)

(* The three 2D nodes hold Maca2dPolicyScope until they return; they have  *)
(* no policy of the 1D lengths.                                            *)
Enter2D(on) ==
    /\ rank = 2
    /\ \A i \in DOMAIN frames : ~frames[i].scoped
    /\ on => cfg.device = "maca"
    /\ Open(TRUE, on)
    /\ Configure({})

(* compile_raw_2d_rc_row: a batched row may keep its own code.             *)
EnterRow(r, preserve) ==
    /\ frames # <<>> /\ Last(frames).scoped
    /\ Open(TRUE, policy2d /\ ~preserve)
    /\ Configure(r)

(* compile_kernel finds the kernel or generates it.                        *)
Ask(key) ==
    /\ frames # <<>>
    /\ \A e \in table : e.id # CacheKey(key)
    /\ Cardinality(table) < MaxKernels
    /\ table' = table \union {[id |-> CacheKey(key), key |-> key, command |-> Command(key)]}
    /\ UNCHANGED <<cfg, rank, frames, policies, policy2d>>

Return ==
    /\ frames # <<>>
    /\ frames' = Front(frames)
    /\ policy2d' = Last(frames).previous
    /\ UNCHANGED <<cfg, table, rank, policies>>

(* Mutant: the policy is reset by hand at the end of a node                *)
(* and not when an exception passes.                                       *)
FailUnscoped ==
    /\ frames # <<>>
    /\ frames' = <<>>
    /\ UNCHANGED <<cfg, table, rank, policies, policy2d>>

(* An exception leaves every node; the scopes are unwound.                 *)
Fail ==
    /\ frames # <<>>
    /\ frames' = <<>>
    /\ policy2d' = Head(frames).previous
    /\ UNCHANGED <<cfg, table, rank, policies>>

(* Every plan, tuning run and late fallback has a compiler of its own.     *)
NewCompiler ==
    /\ frames = <<>>
    /\ rank' \in 1..3
    /\ policies' = {}
    /\ policy2d' = FALSE
    /\ UNCHANGED <<cfg, table, frames>>

ClearKernelCache ==
    /\ table' = {}
    /\ UNCHANGED <<cfg, rank, frames, policies, policy2d>>

Next ==
    \/ \E r \in cfg.requests : EnterNode(r) \/ \E preserve \in BOOLEAN : EnterRow(r, preserve)
    \/ \E on \in BOOLEAN : Enter2D(on)
    \/ \E key \in Keys[cfg] : Ask(key)
    \/ Return
    \/ Fail
    \/ NewCompiler
    \/ ClearKernelCache

Spec == Init /\ [][Next]_vars

-----------------------------------------------------------------------------
(* A kernel the table serves is the one the asker would have generated:    *)
(* whatever the node and its policies, a key that finds an entry has the   *)
(* entry's command line, and command lines of different keys differ, so    *)
(* the generator is told everything in which keys differ.                  *)
KernelFits ==
    \A e \in table, key \in Keys[cfg] :
        /\ CacheKey(key) = e.id => Command(key) = e.command
        /\ Command(key) = e.command => key = e.key

(* Kernels are generated with the 2D policy of the innermost enclosing     *)
(* scope, and without it outside of 2D nodes: rows that return or throw    *)
(* leave no policy behind for the next plan of the same compiler.          *)
ScopeHonoured ==
    LET scopes == {i \in DOMAIN frames : frames[i].scoped}
    IN  policy2d = (scopes # {} /\ frames[CHOOSE i \in scopes : \A j \in scopes : j <= i].on)
=============================================================================
