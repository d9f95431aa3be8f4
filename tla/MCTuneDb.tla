------------------------------ MODULE MCTuneDb ------------------------------
(* TuneDb with two tune processes and one plan creation, two runs, two       *)
(* batches of one length, and an unreadable row from an earlier version.     *)
EXTENDS TuneDb

CONSTANTS t1, t2, r1
MCPolicy == [p \in Processes |-> IF p = t2 THEN "native" ELSE "legacy"]
MCOldRows ==
  {[key |-> [n |-> 8, bucket |-> 2, dtype |-> "complex64", policy |-> "legacy"],
    dir |-> "forward", plan |-> Garbage, run |-> 0]}
=============================================================================
