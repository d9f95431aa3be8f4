------------------------ MODULE KernelRequestsProofs ------------------------
(***************************************************************************)
(* KernelRequests for any configurations, table size and depth of nodes:   *)
(* kernels are shared only by requests for the same kernel, and the 2D     *)
(* policy follows the nodes.                                               *)
(***************************************************************************)
EXTENDS KernelRequests, TLAPS, SequenceTheorems

-----------------------------------------------------------------------------
(* Keys: every parameter in which two keys can differ reaches both texts.  *)

Passed(kind, fields) == fields \subseteq Options[kind] /\ fields \subseteq Named

(* Options of the leaf kinds.                                              *)
LEMMA LeafOptions ==
  ASSUME NEW kind \in LeafKinds
  PROVE  /\ Passed(kind, LeafFields \cup {"direction", "npu_portable_leaf"})
         /\ kind \in BluesteinLeafKinds \cup BluesteinFourStepKinds =>
              Passed(kind, {"bluestein_n", "bluestein_m"})
         /\ kind \in RaderLeafKinds => Passed(kind, {"rader_n", "rader_m"})
         /\ kind \in FourStepKinds \cup BluesteinFourStepKinds =>
              Passed(kind, {"four_step_n1", "four_step_n2"})
<1>1. kind \in AllKinds
  BY DEF AllKinds
<1>2. LeafFields \cup {"direction", "npu_portable_leaf"} \subseteq Options[kind]
  BY <1>1 DEF Options
<1>3. kind \in BluesteinLeafKinds \cup BluesteinFourStepKinds =>
        {"bluestein_n", "bluestein_m"} \subseteq Options[kind]
  BY <1>1 DEF Options
<1>4. kind \in RaderLeafKinds => {"rader_n", "rader_m"} \subseteq Options[kind]
  BY <1>1 DEF Options
<1>5. kind \in FourStepKinds \cup BluesteinFourStepKinds =>
        {"four_step_n1", "four_step_n2"} \subseteq Options[kind]
  BY <1>1 DEF Options
<1>6. LeafFields \cup {"direction", "npu_portable_leaf", "bluestein_n", "bluestein_m", "rader_n",
                      "rader_m", "four_step_n1", "four_step_n2"} \subseteq Named
  BY DEF Named
<1> QED
  BY <1>2, <1>3, <1>4, <1>5, <1>6 DEF Passed

(* The groups of leaf kinds with parameters of their own are disjoint.     *)
LEMMA LeafGroups ==
  /\ BluesteinLeafKinds \cap (RaderLeafKinds \cup FourStepKinds \cup BluesteinFourStepKinds) = {}
  /\ RaderLeafKinds \cap (FourStepKinds \cup BluesteinFourStepKinds) = {}
  /\ FourStepKinds \cap BluesteinFourStepKinds = {}
  BY DEF BluesteinLeafKinds, RaderLeafKinds, FourStepKinds, FourStepRowKinds, FourStepColKinds,
         BluesteinFourStepKinds

(* A parameter of a leaf kind is passed on.                                *)
LEMMA LeafParametersPassed ==
  ASSUME NEW kind \in LeafKinds, NEW alt \in LeafParameters(kind)
  PROVE  Passed(kind, alt)
<1> "length" \in LeafFields
  BY DEF LeafFields
<1>1. CASE kind \in BluesteinLeafKinds
  <2>1. alt \in Singles((LeafFields \ {"length"}) \cup {"bluestein_n"}) \cup {{"length", "bluestein_m"}}
    BY <1>1, LeafGroups DEF LeafParameters
  <2>2. alt \subseteq LeafFields \cup {"bluestein_n", "bluestein_m"}
    BY <2>1 DEF Singles
  <2>3. Passed(kind, LeafFields) /\ Passed(kind, {"bluestein_n", "bluestein_m"})
    BY <1>1, LeafOptions DEF Passed
  <2> QED
    BY <2>2, <2>3 DEF Passed
<1>2. CASE kind \in RaderLeafKinds
  <2>1. alt \in Singles((LeafFields \ {"length"}) \cup {"rader_n"}) \cup {{"length", "rader_m"}}
    BY <1>2, LeafGroups DEF LeafParameters
  <2>2. alt \subseteq LeafFields \cup {"rader_n", "rader_m"}
    BY <2>1 DEF Singles
  <2>3. Passed(kind, LeafFields) /\ Passed(kind, {"rader_n", "rader_m"})
    BY <1>2, LeafOptions DEF Passed
  <2> QED
    BY <2>2, <2>3 DEF Passed
<1>3. CASE kind \in FourStepKinds
  <2>1. alt \in Singles(LeafFields \cup {"four_step_n1", "four_step_n2"})
    BY <1>3, LeafGroups DEF LeafParameters
  <2>2. alt \subseteq LeafFields \cup {"four_step_n1", "four_step_n2"}
    BY <2>1 DEF Singles
  <2>3. Passed(kind, LeafFields) /\ Passed(kind, {"four_step_n1", "four_step_n2"})
    BY <1>3, LeafOptions DEF Passed
  <2> QED
    BY <2>2, <2>3 DEF Passed
<1>4. CASE kind \in BluesteinFourStepKinds
  <2>1. alt \in Singles(LeafFields \cup {"four_step_n1", "four_step_n2", "bluestein_n", "bluestein_m"})
    BY <1>4, LeafGroups DEF LeafParameters
  <2>2. alt \subseteq LeafFields \cup {"four_step_n1", "four_step_n2", "bluestein_n", "bluestein_m"}
    BY <2>1 DEF Singles
  <2> QED
    BY <1>4, <2>2, LeafOptions DEF Passed
<1>5. CASE kind \notin BluesteinLeafKinds \cup RaderLeafKinds \cup FourStepKinds \cup BluesteinFourStepKinds
  <2>1. alt \in Singles(LeafFields)
    BY <1>5 DEF LeafParameters
  <2>2. alt \subseteq LeafFields
    BY <2>1 DEF Singles
  <2> QED
    BY <2>2, LeafOptions DEF Passed
<1> QED
  BY <1>1, <1>2, <1>3, <1>4, <1>5

(* Options of the other kinds.                                             *)
LEMMA OtherOptions ==
  ASSUME NEW kind \in AllKinds
  PROVE  /\ kind \in DirectKinds \cup BoundaryKinds \cup {"Fused32Column", "Fused2D", "StockhamStage"} =>
              Passed(kind, {"length"})
         /\ kind = "StockhamStage" => Passed(kind, {"factors"})
         /\ kind \in BluesteinKinds => Passed(kind, {"bluestein_n", "bluestein_m"})
         /\ kind \in RaderKinds => Passed(kind, {"rader_n", "rader_m"})
         /\ kind \in ReshapeKinds => Passed(kind, {"reshape_n1", "reshape_n2"})
         /\ kind = "Transpose3D" =>
              Passed(kind, {"transpose3d_n0", "transpose3d_n1", "transpose3d_n2", "order"})
         /\ kind = "FusedRectPlane" =>
              Passed(kind, {"fused_plane_n0", "fused_plane_n1", "fused_plane_middle"})
         /\ kind \in Formed => Passed(kind, {"perm_form"})
         /\ kind \notin Undirected => Passed(kind, {"direction"})
         /\ Passed(kind, {"target", "dtype", "hcu_full_smem", "hcu_3d_middle_batch_pack"})
<1>1. /\ kind \in DirectKinds \cup BoundaryKinds \cup {"Fused32Column", "Fused2D", "StockhamStage"} =>
           "length" \in Options[kind]
      /\ kind = "StockhamStage" => "factors" \in Options[kind]
  BY DEF Options
<1>2. /\ kind \in BluesteinKinds => {"bluestein_n", "bluestein_m"} \subseteq Options[kind]
      /\ kind \in RaderKinds => {"rader_n", "rader_m"} \subseteq Options[kind]
      /\ kind \in ReshapeKinds => {"reshape_n1", "reshape_n2"} \subseteq Options[kind]
  BY DEF Options
<1>3. /\ kind = "Transpose3D" =>
           {"transpose3d_n0", "transpose3d_n1", "transpose3d_n2", "order"} \subseteq Options[kind]
      /\ kind = "FusedRectPlane" =>
           {"fused_plane_n0", "fused_plane_n1", "fused_plane_middle"} \subseteq Options[kind]
  BY DEF Options
<1>4. /\ kind \in Formed => "perm_form" \in Options[kind]
      /\ {"target", "dtype", "hcu_full_smem", "hcu_3d_middle_batch_pack"} \subseteq Options[kind]
  BY DEF Options
<1>5. kind \notin Undirected => "direction" \in Options[kind]
  <2>1. kind \notin Undirected => kind \in LeafKinds \cup DirectKinds \cup FusedKinds \cup {"StockhamStage"}
    BY DEF AllKinds, Undirected
  <2> QED
    BY <2>1 DEF Options
<1>6. {"length", "factors"} \subseteq LeafFields
  BY DEF LeafFields
<1>7. {"length", "factors", "direction", "target", "dtype", "perm_form"} \subseteq Named
  BY <1>6 DEF Named
<1>8. {"bluestein_n", "bluestein_m", "rader_n", "rader_m", "reshape_n1", "reshape_n2"} \subseteq Named
  BY DEF Named
<1>9. {"transpose3d_n0", "transpose3d_n1", "transpose3d_n2", "order", "fused_plane_n0", "fused_plane_n1",
       "fused_plane_middle", "hcu_full_smem", "hcu_3d_middle_batch_pack"} \subseteq Named
  BY DEF Named
<1> QED
  BY <1>1, <1>2, <1>3, <1>4, <1>5, <1>7, <1>8, <1>9 DEF Passed

Lengthy == DirectKinds \cup BoundaryKinds \cup {"Fused32Column", "Fused2D"}

(* The groups of the other kinds are disjoint.                             *)
LEMMA OtherGroups ==
  /\ BluesteinKinds \cap (RaderKinds \cup ReshapeKinds \cup Lengthy) = {}
  /\ RaderKinds \cap (ReshapeKinds \cup Lengthy) = {}
  /\ ReshapeKinds \cap Lengthy = {}
  /\ {"StockhamStage", "Transpose3D", "FusedRectPlane"} \cap
       (BluesteinKinds \cup RaderKinds \cup ReshapeKinds \cup Lengthy) = {}
<1> USE DEF BluesteinKinds, RaderKinds, ReshapeKinds, Lengthy, DirectKinds, BoundaryKinds
<1>1. BluesteinKinds \cap (RaderKinds \cup ReshapeKinds \cup Lengthy) = {}
  OBVIOUS
<1>2. RaderKinds \cap (ReshapeKinds \cup Lengthy) = {}
  OBVIOUS
<1>3. ReshapeKinds \cap Lengthy = {}
  OBVIOUS
<1>4. {"StockhamStage", "Transpose3D", "FusedRectPlane"} \cap
        (BluesteinKinds \cup RaderKinds \cup ReshapeKinds \cup Lengthy) = {}
  OBVIOUS
<1> QED
  BY <1>1, <1>2, <1>3, <1>4

(* A parameter of another kind is passed on.                               *)
LEMMA OtherParametersPassed ==
  ASSUME NEW kind \in AllKinds, NEW alt \in OtherParameters(kind)
  PROVE  Passed(kind, alt)
<1>1. CASE kind \in Lengthy
  <2>1. alt \in {{"length"}}
    BY <1>1, OtherGroups DEF OtherParameters, Lengthy
  <2> QED
    BY <1>1, <2>1, OtherOptions DEF Lengthy
<1>2. CASE kind = "StockhamStage"
  <2>1. alt \in Singles({"length", "factors"})
    BY <1>2, OtherGroups DEF OtherParameters, Lengthy
  <2>2. Passed(kind, {"length"}) /\ Passed(kind, {"factors"})
    BY <1>2, OtherOptions
  <2> QED
    BY <2>1, <2>2 DEF Singles, Passed
<1>3. CASE kind \in BluesteinKinds
  <2>1. alt \in Singles({"bluestein_n", "bluestein_m"})
    BY <1>3, OtherGroups DEF OtherParameters, Lengthy
  <2> QED
    BY <1>3, <2>1, OtherOptions DEF Singles, Passed
<1>4. CASE kind \in RaderKinds
  <2>1. alt \in Singles({"rader_n", "rader_m"})
    BY <1>4, OtherGroups DEF OtherParameters, Lengthy
  <2> QED
    BY <1>4, <2>1, OtherOptions DEF Singles, Passed
<1>5. CASE kind \in ReshapeKinds
  <2>1. alt \in Singles({"reshape_n1", "reshape_n2"})
    BY <1>5, OtherGroups DEF OtherParameters, Lengthy
  <2> QED
    BY <1>5, <2>1, OtherOptions DEF Singles, Passed
<1>6. CASE kind = "Transpose3D"
  <2>1. alt \in Singles({"transpose3d_n0", "transpose3d_n1", "transpose3d_n2", "order"})
    BY <1>6, OtherGroups DEF OtherParameters, Lengthy
  <2>2. Passed(kind, {"transpose3d_n0", "transpose3d_n1", "transpose3d_n2", "order"})
    BY <1>6, OtherOptions
  <2> QED
    BY <2>1, <2>2 DEF Singles, Passed
<1>7. CASE kind = "FusedRectPlane"
  <2>1. alt \in Singles({"fused_plane_n0", "fused_plane_n1", "fused_plane_middle"})
    BY <1>7, OtherGroups DEF OtherParameters, Lengthy
  <2>2. Passed(kind, {"fused_plane_n0", "fused_plane_n1", "fused_plane_middle"})
    BY <1>7, OtherOptions
  <2> QED
    BY <2>1, <2>2 DEF Singles, Passed
<1> QED
  BY <1>1, <1>2, <1>3, <1>4, <1>5, <1>6, <1>7 DEF OtherParameters, Lengthy

(* Whatever two keys of a kind may differ in is in the cache text and on   *)
(* the generator's command line: no field is used and left unnamed.        *)
LEMMA ParametersPassed ==
  ASSUME NEW device, NEW kind \in AllKinds, NEW alt \in {{}} \cup Parameters(device, kind)
  PROVE  Passed(kind, alt)
<1>1. Passed(kind, {})
  BY DEF Passed
<1>2. CASE alt \in Singles({"target", "dtype"})
  BY <1>2, OtherOptions DEF Singles, Passed
<1>3. CASE kind \notin Undirected /\ alt = {"direction"}
  BY <1>3, OtherOptions
<1>4. CASE kind \in LeafKinds /\ alt \in LeafParameters(kind)
  BY <1>4, LeafParametersPassed
<1>5. CASE kind \notin LeafKinds /\ alt \in OtherParameters(kind)
  BY <1>5, OtherParametersPassed
<1>6. CASE kind \in Formed /\ alt = {"perm_form"}
  BY <1>6, OtherOptions
<1>7. CASE alt \in Singles(PortableMarks(device, kind))
  <2>1. kind \in LeafKinds /\ alt = {"npu_portable_leaf"}
    BY <1>7 DEF Singles, PortableMarks, LeafKinds, PlainLeafKinds, StoreLeafKinds
  <2> QED
    BY <2>1, LeafOptions DEF Passed
<1>8. CASE alt \in Singles(SmemMarks(device, kind) \cup PackMarks(device, kind))
  BY <1>8, OtherOptions DEF Singles, SmemMarks, PackMarks, Passed
<1> QED
  BY <1>1, <1>2, <1>3, <1>4, <1>5, <1>6, <1>7, <1>8 DEF Parameters, Singles

-----------------------------------------------------------------------------
(* Scopes: what the frames know of the 2D policy.                          *)

Frame == [scoped : BOOLEAN, on : BOOLEAN, previous : BOOLEAN]

(* Frame j is the innermost scope among the first i frames.                *)
Innermost(fs, j, i) ==
  /\ j \in 1..i /\ fs[j].scoped
  /\ \A k \in 1..i : k > j => ~fs[k].scoped

(* Frame i runs under the policy of the innermost scope, or under none.    *)
Governed(fs, i) ==
  \/ \E j \in 1..i : Innermost(fs, j, i) /\ fs[i].on = fs[j].on
  \/ (\A k \in 1..i : ~fs[k].scoped) /\ ~fs[i].on

(* A frame remembers the policy of the frame around it.                    *)
Nested(fs) ==
  \A i \in 1..Len(fs) :
    /\ fs[i].previous = (i # 1 /\ fs[i - 1].on)
    /\ ~fs[i].scoped => fs[i].on = fs[i].previous
    /\ Governed(fs, i)

PolicyOf(fs) == fs # <<>> /\ fs[Len(fs)].on

ScopeInv ==
  /\ frames \in Seq(Frame) /\ policy2d \in BOOLEAN
  /\ Nested(frames)
  /\ policy2d = PolicyOf(frames)

(* Entering a node nests.                                                  *)
LEMMA EnterNests ==
  ASSUME NEW fs \in Seq(Frame), Nested(fs), NEW scoped \in BOOLEAN, NEW on \in BOOLEAN,
         ~scoped => on = PolicyOf(fs),
         NEW gs, gs = Append(fs, [scoped |-> scoped, on |-> on, previous |-> PolicyOf(fs)])
  PROVE  gs \in Seq(Frame) /\ Nested(gs) /\ PolicyOf(gs) = on
<1> DEFINE f == [scoped |-> scoped, on |-> on, previous |-> PolicyOf(fs)]
<1>1. f \in Frame
  <2>1. PolicyOf(fs) \in BOOLEAN
    BY DEF PolicyOf, Frame
  <2> QED
    BY <2>1 DEF Frame
<1>2. /\ gs \in Seq(Frame) /\ Len(gs) = Len(fs) + 1 /\ gs # <<>> /\ Len(fs) \in Nat
      /\ \A i \in 1..Len(fs) : gs[i] = fs[i]
      /\ gs[Len(gs)] = f
  BY <1>1
<1>3. \A i \in 1..Len(fs) :
        /\ gs[i].previous = (i # 1 /\ gs[i - 1].on)
        /\ ~gs[i].scoped => gs[i].on = gs[i].previous
        /\ Governed(gs, i)
  <2> SUFFICES ASSUME NEW i \in 1..Len(fs)
               PROVE  /\ gs[i].previous = (i # 1 /\ gs[i - 1].on)
                      /\ ~gs[i].scoped => gs[i].on = gs[i].previous
                      /\ Governed(gs, i)
    OBVIOUS
  <2>1. \A k \in 1..i : gs[k] = fs[k]
    BY <1>2
  <2>2. \A j \in 1..i : Innermost(gs, j, i) = Innermost(fs, j, i)
    BY <2>1 DEF Innermost
  <2>3. i # 1 => i - 1 \in 1..i
    OBVIOUS
  <2>4. i \in 1..i
    OBVIOUS
  <2> QED
    BY <2>1, <2>2, <2>3, <2>4 DEF Nested, Governed
<1>4. /\ f.previous = (Len(gs) # 1 /\ gs[Len(gs) - 1].on)
      /\ ~f.scoped => f.on = f.previous
  <2>1. Len(gs) # 1 <=> fs # <<>>
    BY <1>2
  <2>2. fs # <<>> => gs[Len(gs) - 1] = fs[Len(fs)]
    BY <1>2
  <2> QED
    BY <2>1, <2>2 DEF PolicyOf
<1>5. Governed(gs, Len(gs))
  <2>1. CASE scoped
    <3>1. Len(gs) \in 1..Len(gs) /\ gs[Len(gs)].scoped
      BY <1>2, <2>1
    <3>2. Innermost(gs, Len(gs), Len(gs))
      BY <1>2, <3>1 DEF Innermost
    <3> QED
      BY <3>1, <3>2 DEF Governed
  <2>2. CASE ~scoped /\ fs = <<>>
    <3>1. Len(gs) = 1 /\ ~gs[1].scoped /\ ~gs[1].on
      BY <1>2, <2>2 DEF PolicyOf
    <3> QED
      BY <3>1 DEF Governed
  <2>3. CASE ~scoped /\ fs # <<>>
    <3>1. Len(fs) \in 1..Len(fs) /\ f.on = fs[Len(fs)].on
      <4>1. Len(fs) \in 1..Len(fs)
        BY <1>2, <2>3
      <4>2. fs[Len(fs)] \in Frame
        BY <4>1
      <4>3. f.on = PolicyOf(fs)
        BY <2>3
      <4> QED
        BY <2>3, <4>1, <4>2, <4>3 DEF PolicyOf, Frame
    <3>2. Governed(fs, Len(fs)) /\ gs[Len(gs)].on = fs[Len(fs)].on /\ ~gs[Len(gs)].scoped
      BY <1>2, <2>3, <3>1 DEF Nested
    <3>3. ASSUME NEW j \in 1..Len(fs), Innermost(fs, j, Len(fs))
          PROVE  j \in 1..Len(gs) /\ Innermost(gs, j, Len(gs)) /\ gs[j] = fs[j]
      BY <1>2, <3>2, <3>3 DEF Innermost
    <3>4. (\A k \in 1..Len(fs) : ~fs[k].scoped) => (\A k \in 1..Len(gs) : ~gs[k].scoped)
      BY <1>2, <3>2
    <3> QED
      BY <3>2, <3>3, <3>4 DEF Governed
  <2> QED
    BY <2>1, <2>2, <2>3
<1>6. Nested(gs)
  <2> SUFFICES ASSUME NEW i \in 1..Len(gs)
               PROVE  /\ gs[i].previous = (i # 1 /\ gs[i - 1].on)
                      /\ ~gs[i].scoped => gs[i].on = gs[i].previous
                      /\ Governed(gs, i)
    BY DEF Nested
  <2>1. CASE i \in 1..Len(fs)
    BY <1>3, <2>1
  <2>2. CASE i = Len(gs)
    BY <1>2, <1>4, <1>5, <2>2
  <2> QED
    BY <1>2, <2>1, <2>2
<1> QED
  BY <1>2, <1>6 DEF PolicyOf

(* The sequence without its last element.                                  *)
LEMMA FrontProperties ==
  ASSUME NEW S, NEW seq \in Seq(S), seq # <<>>
  PROVE  /\ Front(seq) \in Seq(S) /\ Len(Front(seq)) = Len(seq) - 1
         /\ \A i \in 1..Len(Front(seq)) : Front(seq)[i] = seq[i]
         /\ Len(seq) \in Nat \ {0}
         /\ Front(seq) = <<>> <=> Len(seq) = 1
<1>1. PICK n \in Nat : Len(seq) = n + 1
  <2>1. Len(seq) \in Nat \ {0}
    OBVIOUS
  <2> QED
    BY <2>1
<1>2. SubSeq(seq, 1, n) \in Seq(S) /\ Len(SubSeq(seq, 1, n)) = n
  BY <1>1
<1>3. \A i \in 1..n : SubSeq(seq, 1, n)[i] = seq[i]
  BY <1>1
<1>4. Front(seq) = SubSeq(seq, 1, n)
  BY <1>1 DEF Front
<1> QED
  BY <1>1, <1>2, <1>3, <1>4

(* Leaving the innermost node brings its frame's policy back.              *)
LEMMA LeaveNests ==
  ASSUME NEW fs \in Seq(Frame), Nested(fs), fs # <<>>
  PROVE  /\ Front(fs) \in Seq(Frame) /\ Nested(Front(fs))
         /\ PolicyOf(Front(fs)) = Last(fs).previous
<1> DEFINE gs == Front(fs)
<1>1. /\ gs \in Seq(Frame) /\ Len(gs) = Len(fs) - 1 /\ Len(fs) \in Nat \ {0}
      /\ \A i \in 1..Len(gs) : gs[i] = fs[i]
      /\ gs = <<>> <=> Len(fs) = 1
  BY FrontProperties DEF gs
<1> HIDE DEF gs
<1>2. Nested(gs)
  <2> SUFFICES ASSUME NEW i \in 1..Len(gs)
               PROVE  /\ gs[i].previous = (i # 1 /\ gs[i - 1].on)
                      /\ ~gs[i].scoped => gs[i].on = gs[i].previous
                      /\ Governed(gs, i)
    BY DEF Nested
  <2>1. i \in 1..Len(fs) /\ \A k \in 1..i : gs[k] = fs[k]
    BY <1>1
  <2>2. \A j \in 1..i : Innermost(gs, j, i) = Innermost(fs, j, i)
    BY <2>1 DEF Innermost
  <2>3. (i # 1 => i - 1 \in 1..i) /\ i \in 1..i
    OBVIOUS
  <2>4. Governed(fs, i)
    BY <2>1 DEF Nested
  <2>5. Governed(gs, i)
    <3>1. CASE \E j \in 1..i : Innermost(fs, j, i) /\ fs[i].on = fs[j].on
      <4>1. PICK j \in 1..i : Innermost(fs, j, i) /\ fs[i].on = fs[j].on
        BY <3>1
      <4>2. Innermost(gs, j, i) /\ gs[i].on = gs[j].on
        BY <2>1, <2>2, <2>3, <4>1
      <4> QED
        BY <4>2 DEF Governed
    <3>2. CASE (\A k \in 1..i : ~fs[k].scoped) /\ ~fs[i].on
      BY <2>1, <2>3, <3>2 DEF Governed
    <3> QED
      BY <2>4, <3>1, <3>2 DEF Governed
  <2> QED
    BY <2>1, <2>3, <2>5 DEF Nested
<1>3. PolicyOf(gs) = Last(fs).previous
  <2>1. Last(fs) = fs[Len(fs)] /\ Len(fs) \in 1..Len(fs)
    BY <1>1 DEF Last
  <2>2. fs[Len(fs)].previous = (Len(fs) # 1 /\ fs[Len(fs) - 1].on)
    BY <2>1 DEF Nested
  <2> QED
    BY <1>1, <2>1, <2>2 DEF PolicyOf
<1> QED
  BY <1>1, <1>2, <1>3 DEF gs

-----------------------------------------------------------------------------
(* The table: an entry's texts are those of its key, under some flags.     *)

Sound(e) ==
  /\ e.key \in Keys[cfg]
  /\ \E flags :
       /\ e.id = [kind |-> e.key.kind, named |-> e.key.alt \cap Named, flags |-> flags]
       /\ e.command = [kernel |-> e.key.kind, options |-> e.key.alt \cap Options[e.key.kind],
                       flags |-> flags]

IInv ==
  /\ cfg \in Configs
  /\ ScopeInv
  /\ \A e \in table : Sound(e)

(* Outside of all nodes no policy is in force.                             *)
LEMMA EmptyNests == <<>> \in Seq(Frame) /\ Nested(<<>>) /\ PolicyOf(<<>>) = FALSE
  BY DEF Nested, PolicyOf

(* Initially there are no frames and no kernels.                           *)
LEMMA InitInv == Init => IInv
<1> SUFFICES ASSUME Init PROVE IInv
  OBVIOUS
<1>1. frames \in Seq(Frame) /\ Nested(frames) /\ PolicyOf(frames) = FALSE
  BY EmptyNests DEF Init
<1> QED
  BY <1>1 DEF Init, IInv, ScopeInv

(* Steps that leave the table alone.                                       *)
LEMMA FrameStep ==
  ASSUME IInv, UNCHANGED <<cfg, table>>, ScopeInv'
  PROVE  IInv'
  BY DEF IInv, Sound

(* Steps that open a node.                                                 *)
LEMMA OpenStep ==
  ASSUME ScopeInv, NEW scoped \in BOOLEAN, NEW on \in BOOLEAN, Open(scoped, on),
         ~scoped => on = policy2d
  PROVE  ScopeInv'
<1> on = PolicyOf(frames) \/ scoped
  BY DEF ScopeInv
<1>1. frames' = Append(frames, [scoped |-> scoped, on |-> on, previous |-> PolicyOf(frames)])
  BY DEF Open, ScopeInv
<1> QED
  BY <1>1, EnterNests DEF Open, ScopeInv

(* Every step keeps the invariant.                                         *)
LEMMA NextInv == IInv /\ [Next]_vars => IInv'
<1> SUFFICES ASSUME IInv, [Next]_vars PROVE IInv'
  OBVIOUS
<1>0. ScopeInv /\ policy2d \in BOOLEAN /\ frames \in Seq(Frame)
  BY DEF IInv, ScopeInv
<1>1. ASSUME NEW r, EnterNode(r) PROVE IInv'
  BY <1>0, <1>1, OpenStep, FrameStep DEF EnterNode, Configure
<1>2. ASSUME NEW r, NEW preserve \in BOOLEAN, EnterRow(r, preserve) PROVE IInv'
  <2> (policy2d /\ ~preserve) \in BOOLEAN
    OBVIOUS
  <2> QED
    BY <1>0, <1>2, OpenStep, FrameStep DEF EnterRow, Configure
<1>3. ASSUME NEW on \in BOOLEAN, Enter2D(on) PROVE IInv'
  BY <1>0, <1>3, OpenStep, FrameStep DEF Enter2D, Configure
<1>4. ASSUME NEW key \in Keys[cfg], Ask(key) PROVE IInv'
  <2> DEFINE entry == [id |-> CacheKey(key), key |-> key, command |-> Command(key)]
  <2>1. table' = table \cup {entry} /\ UNCHANGED <<cfg, frames, policy2d>>
    BY <1>4 DEF Ask
  <2>2. Sound(entry)
    <3>1. /\ CacheKey(key) = [kind |-> key.kind, named |-> key.alt \cap Named, flags |-> Flags(key)]
          /\ Command(key) = [kernel |-> key.kind, options |-> key.alt \cap Options[key.kind],
                             flags |-> Flags(key)]
      BY DEF CacheKey, Command
    <3> HIDE DEF CacheKey, Command, Flags
    <3> QED
      BY <3>1 DEF Sound
  <2> HIDE DEF entry
  <2>3. \A e : Sound(e) => Sound(e)'
    BY <2>1 DEF Sound
  <2>4. \A e \in table' : Sound(e)'
    BY <2>1, <2>2, <2>3 DEF IInv
  <2>5. ScopeInv'
    BY <1>0, <2>1 DEF ScopeInv
  <2> QED
    BY <2>1, <2>4, <2>5 DEF IInv
<1>5. CASE Return
  <2>1. ScopeInv'
    <3>1. frames # <<>> /\ frames' = Front(frames) /\ policy2d' = Last(frames).previous
      BY <1>5 DEF Return
    <3>2. Last(frames) \in Frame
      BY <1>0, <3>1, LenProperties DEF Last
    <3>3. frames' \in Seq(Frame) /\ Nested(frames') /\ PolicyOf(frames') = policy2d'
      BY <1>0, <3>1, LeaveNests DEF ScopeInv
    <3> QED
      BY <3>1, <3>2, <3>3 DEF ScopeInv, Frame
  <2> QED
    BY <1>5, <2>1, FrameStep DEF Return
<1>6. CASE Fail
  <2>1. frames # <<>> /\ Head(frames) = frames[1] /\ 1 \in 1..Len(frames)
    BY <1>0, <1>6 DEF Fail
  <2>2. frames[1].previous = FALSE
    BY <1>0, <2>1 DEF ScopeInv, Nested
  <2>3. frames' = <<>> /\ policy2d' = FALSE
    BY <1>6, <2>1, <2>2 DEF Fail
  <2>4. ScopeInv'
    BY <2>3, EmptyNests DEF ScopeInv
  <2> QED
    BY <1>6, <2>4, FrameStep DEF Fail
<1>7. CASE NewCompiler
  <2>1. ScopeInv'
    BY <1>0, <1>7 DEF NewCompiler, ScopeInv, PolicyOf
  <2> QED
    BY <1>7, <2>1, FrameStep DEF NewCompiler
<1>8. CASE ClearKernelCache
  <2>1. ScopeInv'
    BY <1>0, <1>8 DEF ClearKernelCache, ScopeInv
  <2> QED
    BY <1>8, <2>1 DEF ClearKernelCache, IInv
<1>9. CASE UNCHANGED vars
  <2>1. ScopeInv'
    BY <1>0, <1>9 DEF vars, ScopeInv
  <2> QED
    BY <1>9, <2>1, FrameStep DEF vars
<1> QED
  BY <1>1, <1>2, <1>3, <1>4, <1>5, <1>6, <1>7, <1>8, <1>9 DEF Next

(* An entry that a key finds has the key's command line, and entries with   *)
(* one command line have one key.                                          *)
LEMMA InvKernelFits == IInv => KernelFits
<1> SUFFICES ASSUME IInv, NEW e \in table, NEW key \in Keys[cfg]
             PROVE  /\ CacheKey(key) = e.id => Command(key) = e.command
                    /\ Command(key) = e.command => key = e.key
  BY DEF KernelFits
<1>1. Sound(e) /\ e.key \in Keys[cfg]
  BY DEF IInv, Sound
<1>2. ASSUME NEW k \in Keys[cfg]
      PROVE  /\ k = [kind |-> k.kind, alt |-> k.alt]
             /\ k.alt \subseteq Named /\ k.alt \subseteq Options[k.kind]
  <2>1. cfg \in Configs /\ cfg.kinds \subseteq AllKinds
    BY ConfigsType DEF IInv
  <2>2. PICK kind \in cfg.kinds : k \in [kind : {kind}, alt : {{}} \cup Parameters(cfg.device, kind)]
    BY <1>2, <2>1 DEF Keys
  <2>3. kind \in AllKinds /\ k.kind = kind /\ k.alt \in {{}} \cup Parameters(cfg.device, kind)
    BY <2>1, <2>2
  <2>4. Passed(kind, k.alt)
    BY <2>3, ParametersPassed
  <2> QED
    BY <2>2, <2>3, <2>4 DEF Passed
<1>3. PICK flags :
        /\ e.id = [kind |-> e.key.kind, named |-> e.key.alt \cap Named, flags |-> flags]
        /\ e.command = [kernel |-> e.key.kind, options |-> e.key.alt \cap Options[e.key.kind],
                        flags |-> flags]
  BY <1>1 DEF Sound
<1>4. /\ e.key = [kind |-> e.key.kind, alt |-> e.key.alt]
      /\ e.key.alt \cap Named = e.key.alt /\ e.key.alt \cap Options[e.key.kind] = e.key.alt
  BY <1>1, <1>2
<1>5. /\ key = [kind |-> key.kind, alt |-> key.alt]
      /\ key.alt \cap Named = key.alt /\ key.alt \cap Options[key.kind] = key.alt
  BY <1>2
<1>6. CacheKey(key) = e.id => Command(key) = e.command
  <2> HAVE CacheKey(key) = e.id
  <2>1. key.kind = e.key.kind /\ key.alt = e.key.alt /\ Flags(key) = flags
    BY <1>3, <1>4, <1>5 DEF CacheKey
  <2> QED
    BY <1>3, <2>1 DEF Command
<1>7. Command(key) = e.command => key = e.key
  <2> HAVE Command(key) = e.command
  <2>1. Command(key).kernel = key.kind /\ Command(key).options = key.alt
    BY <1>5 DEF Command
  <2>2. e.command.kernel = e.key.kind /\ e.command.options = e.key.alt
    BY <1>3, <1>4
  <2> QED
    BY <1>4, <1>5, <2>1, <2>2
<1> QED
  BY <1>6, <1>7

(* The innermost scope is the largest index of a scoped frame.             *)
LEMMA InvScopeHonoured == IInv => ScopeHonoured
<1> SUFFICES ASSUME IInv PROVE ScopeHonoured
  OBVIOUS
<1> DEFINE scopes == {i \in DOMAIN frames : frames[i].scoped}
<1>0. ScopeInv /\ frames \in Seq(Frame) /\ DOMAIN frames = 1..Len(frames) /\ Len(frames) \in Nat
  BY DEF IInv, ScopeInv
<1>1. CASE frames = <<>>
  <2>1. DOMAIN frames = {}
    BY <1>0, <1>1
  <2>2. scopes = {} /\ policy2d = FALSE
    BY <1>0, <1>1, <2>1 DEF ScopeInv, PolicyOf
  <2> QED
    BY <2>2 DEF ScopeHonoured
<1>2. CASE frames # <<>>
  <2>1. Len(frames) \in 1..Len(frames) /\ Governed(frames, Len(frames))
    BY <1>0, <1>2 DEF ScopeInv, Nested
  <2>2. policy2d = frames[Len(frames)].on
    <3>1. frames[Len(frames)] \in Frame
      BY <1>0, <2>1
    <3> QED
      BY <1>0, <1>2, <3>1 DEF ScopeInv, PolicyOf, Frame
  <2>3. CASE \E j \in 1..Len(frames) :
               Innermost(frames, j, Len(frames)) /\ frames[Len(frames)].on = frames[j].on
    <3>1. PICK j \in 1..Len(frames) :
            Innermost(frames, j, Len(frames)) /\ frames[Len(frames)].on = frames[j].on
      BY <2>3
    <3>2. j \in scopes /\ \A i \in scopes : i <= j
      BY <1>0, <3>1 DEF Innermost
    <3>3. \A i \in scopes : (\A k \in scopes : k <= i) => i = j
      <4> SUFFICES ASSUME NEW i \in scopes, \A k \in scopes : k <= i PROVE i = j
        OBVIOUS
      <4>1. i <= j /\ j <= i /\ i \in Nat /\ j \in Nat
        BY <1>0, <3>2
      <4> QED
        BY <4>1
    <3>4. (CHOOSE i \in scopes : \A k \in scopes : k <= i) = j
      <4> HIDE DEF scopes
      <4> QED
        BY <3>2, <3>3
    <3>5. frames[j] \in Frame
      BY <1>0, <3>1
    <3> QED
      BY <2>2, <3>1, <3>2, <3>4, <3>5 DEF ScopeHonoured, Frame
  <2>4. CASE (\A k \in 1..Len(frames) : ~frames[k].scoped) /\ ~frames[Len(frames)].on
    <3>1. scopes = {} /\ policy2d = FALSE
      BY <1>0, <2>2, <2>4 DEF ScopeInv
    <3> QED
      BY <3>1 DEF ScopeHonoured
  <2> QED
    BY <2>1, <2>3, <2>4 DEF Governed
<1> QED
  BY <1>1, <1>2

-----------------------------------------------------------------------------
(* The table holds the texts of its keys and the frames nest, whatever the  *)
(* order in which nodes are entered, left or abandoned.                    *)
THEOREM RequestsInductive == Spec => []IInv
  BY InitInv, NextInv, PTL DEF Spec

(* Two requests share a kernel only if the generator would make the same   *)
(* kernel for both, for every set of configurations.                       *)
THEOREM KernelsFit == Spec => []KernelFits
  BY RequestsInductive, InvKernelFits, PTL

(* Maca2dPolicyScope: the 2D policy in force is that of the innermost       *)
(* scope, also after exceptions, at every depth of nodes.                  *)
THEOREM ScopesHonoured == Spec => []ScopeHonoured
  BY RequestsInductive, InvScopeHonoured, PTL
=============================================================================
