------------------------------ MODULE MCPlanApi ------------------------------
(* PlanApi with two threads and one handle: dense, padded, overflowing and  *)
(* malformed creating calls, with and without SiP, on three back ends.      *)
EXTENDS PlanApi

Many(n, type, idist, odist, batch) ==
  [n |-> n, inembed |-> Null, onembed |-> Null, istride |-> 1, ostride |-> 1,
   idist |-> idist, odist |-> odist, type |-> type, batch |-> batch, many |-> TRUE]

MCRequests ==
  {Plan1d(7, "R2C", 2), Plan1d(6, "R2C", 2), Plan2d(8, 5, "C2C"), Plan2d(2, 4, "C2C"),
   Plan3d(2, 2, 4, "R2C"), Plan1d(4, "Z2Z", 1), Plan1d(0, "C2C", 1),
   Many(<<6>>, "R2C", 8, 4, 2),          \* rows padded for an in-place transform
   Many(<<2, 4>>, "C2C", 9, 8, 2),       \* padded planes
   [Many(<<4>>, "C2C", 4, 4, 2) EXCEPT !.inembed = <<6>>]}

CONSTANTS b1, b2, b3
MCDataArguments == {<<b1, b2>>, <<b1, b3>>, <<b1, b1>>, <<Null, b1>>}

MCEnvironments ==
  {[backend |-> "hcu", sip |-> "off"],
   [backend |-> "npu", sip |-> "auto"], [backend |-> "npu", sip |-> "sip"]}
=============================================================================
