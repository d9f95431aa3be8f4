----------------------------- MODULE MCRowNodes -----------------------------
(* Instances of RowNodes: every 1D node with batches of 1 to 3 rows, one or   *)
(* two rows per launch and per block, padded and dense real rows, in and out  *)
(* of place.                                                                  *)
EXTENDS RowNodes

Kinds == R2CKinds \cup C2RKinds \cup ComplexKinds
Plans == {"leaf", "direct", "stockham", "four_step", "four_step_deep",
          "bluestein_leaf", "bluestein_four", "bluestein_deep", "rader_leaf",
          "rader_deep"}
Looped == {"leaf", "four_step", "stockham", "generic", "bluestein", "r2c", "c2r"}

\* A plan stands for its node here: a leaf if that may become it.
PlanOf(k) ==
    LET mayBecome == {p \in Plans : Admits([kind |-> k, plan |-> p, n |-> 4])}
    IN  IF "leaf" \in mayBecome THEN "leaf" ELSE CHOOSE p \in mayBecome : TRUE

Node(k, len, b, h, p, di, do, i, s) ==
    [kind |-> k, plan |-> PlanOf(k), n |-> len,
     conv |-> IF k \in {"rader", "rader_leaf", "rader_boundary"} THEN len - 1
              ELSE IF k \in TableKinds THEN 2 * len ELSE 0,
     stages |-> s, batch |-> b, chunk |-> h, pack |-> p,
     idist |-> di, odist |-> do, inPlace |-> i]

InDistances(k, len) ==
    IF k \in R2CKinds THEN {len, 2 * (len \div 2 + 1)}
    ELSE IF k \in C2RKinds THEN {0, len \div 2 + 1} ELSE {0}
OutDistances(k, len) ==
    IF k \in C2RKinds THEN {len, 2 * (len \div 2 + 1)}
    ELSE IF k \in R2CKinds THEN {0, len \div 2 + 1} ELSE {0}

AllConfigs ==
    UNION {{Node(k, len, b, h, p, di, do, i, s) :
              di \in InDistances(k, len), do \in OutDistances(k, len),
              h \in IF k \in Looped THEN {hh \in {1, 2} : hh <= b} ELSE {b},
              s \in IF k = "stockham" THEN 1 .. 4 ELSE {0}} :
             k \in Kinds, len \in {3, 4}, b \in 1 .. 3, p \in {1, 2},
             i \in BOOLEAN}

\* launch_grid_y_chunks splits the generic R2C node's pack step.
SplitPack(c) == c.kind = "r2c" /\ c.chunk < c.batch

\* Bluestein and Rader plans are for primes.
Admitted(c) == c.kind \in TableKinds => c.n = 3

SoundConfigs == {c \in AllConfigs : Admitted(c) /\ ~SplitPack(c)}
SplitPackConfigs == {c \in AllConfigs : SplitPack(c) /\ c.odist > 0}
=============================================================================
