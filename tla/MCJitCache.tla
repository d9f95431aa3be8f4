----------------------------- MODULE MCJitCache -----------------------------
(* Instances of JitCache.  Shared directory: process p1 with threads t1 and *)
(* t2, process p2 with thread t3.                                           *)
EXTENDS JitCache, TLC

CONSTANTS p1, p2, t1, t2, t3

TwoProcesses == {p1, p2}
ThreeThreads == {t1, t2, t3}
TwoInOne == t1 :> p1 @@ t2 :> p1 @@ t3 :> p2
=============================================================================
