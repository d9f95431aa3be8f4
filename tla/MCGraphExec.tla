---------------------------- MODULE MCGraphExec ----------------------------
(* Instances of GraphExec for TLC. *)
EXTENDS GraphExec, TLC

CONSTANTS p1, p2, b1, b2

TwoPlans == {p1, p2}
OnePlan == {p1}

\* A 3D plan that may fail at every call of its capture and a leaf plan that
\* may fail at its direct launch.
GraphAndLeaf == p1 :> "graph" @@ p2 :> "leaf"
CaptureFaults == p1 :> {"begin", "record", "end", "launch"} @@ p2 :> {"direct"}
TwoAndOne == p1 :> 2 @@ p2 :> 1

\* A 2D plan whose own launches may throw while they are recorded, or none.
All2D == [p \in Plan |-> "2d"]
RecordFaults == [p \in Plan |-> {"record"}]
NoFaults == [p \in Plan |-> {}]
Twice == [p \in Plan |-> 2]
=============================================================================
