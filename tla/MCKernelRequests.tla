-------------------------- MODULE MCKernelRequests --------------------------
(***************************************************************************)
(* Instances of KernelRequests for TLC: every kind on every backend with   *)
(* the policies that every request has, and on the two backends with       *)
(* policies each of them alone and in the pairs that occur, on the kinds   *)
(* that a policy singles out, next to one that none does.                  *)
(***************************************************************************)
EXTENDS KernelRequests

Tried(device, kinds, requests) == [device |-> device, kinds |-> kinds, requests |-> requests]

Groups ==
    {PlainLeafKinds, StoreLeafKinds, BluesteinLeafKinds \union RaderLeafKinds, FourStepKinds,
     BluesteinFourStepKinds, DirectKinds \union {"StockhamStage"},
     BluesteinKinds \union RaderKinds \union ReshapeKinds,
     BoundaryKinds \union FusedKinds \union {"Transpose3D"}}

EveryKind ==
    {Tried(d, g, IF d = "maca" THEN {{}, {"3d"}} ELSE {{}}) :
        d \in {"maca", "ix", "npu", "hcu", "cuda"}, g \in Groups}

MacaRequests ==
    {P \in UNION {MacaPolicies(n) : n \in 1..3} : Cardinality(P) <= 2}

EveryPolicy ==
    {Tried("maca", {k}, MacaRequests) :
        k \in {"FourStepRow", "FourStepCol", "DirectDft", "DirectDftR2C", "DirectDftC2R",
               "RaderPrepare", "RaderFinalize", "StockhamStage"}}
      \union {Tried("ix", {k}, IxPolicies(1)) : k \in {"LeafPermutedStore", "StockhamStage"}}

MCConfigs == EveryKind \union EveryPolicy
=============================================================================
