----------------------------- MODULE KernelMemo -----------------------------
(***************************************************************************)
(* What TritonCompiler::compile_kernel promises its callers: within one    *)
(* process it is a memo table.  A call that succeeds returns the kernel    *)
(* the table holds for its key, and a kernel enters the table exactly when *)
(* a call returns it for the first time.  Calls may also fail (throw),     *)
(* the table may be emptied (clear_kernel_cache) and a process may die.    *)
(* Locks, files and code generation do not appear here: JitCache is the    *)
(* specification that has them and that implements this one.               *)
(***************************************************************************)
EXTENDS Naturals

CONSTANTS
    Process,    \* operating-system processes
    Thread,     \* threads, each of one process
    ProcOf,     \* the process of a thread
    Key,        \* cache keys: kernel key, device profile and policies
    NoKey       \* a thread that has made no call yet

VARIABLES
    memo,       \* memo[p][k]: kernel process p holds for key k, 0 if none
    status,     \* status[t]: "idle", "pending" or "dead"
    wanted,     \* wanted[t]: key of thread t's current or last call
    answer      \* answer[t]: kernel of t's last finished call, 0 if it threw

vars == <<memo, status, wanted, answer>>

Init ==
    /\ memo = [p \in Process |-> [k \in Key |-> 0]]
    /\ status = [t \in Thread |-> "idle"]
    /\ wanted = [t \in Thread |-> NoKey]
    /\ answer = [t \in Thread |-> 0]

Request(t, k) ==
    /\ status[t] = "idle"
    /\ status' = [status EXCEPT ![t] = "pending"]
    /\ wanted' = [wanted EXCEPT ![t] = k]
    /\ UNCHANGED <<memo, answer>>

\* A call answers with the kernel g; 0 stands for an exception.
Answer(t, g) ==
    /\ status[t] = "pending"
    /\ status' = [status EXCEPT ![t] = "idle"]
    /\ answer' = [answer EXCEPT ![t] = g]
    /\ UNCHANGED wanted

Throw(t) == Answer(t, 0) /\ UNCHANGED memo

ReturnKnown(t) ==
    LET known == memo[ProcOf[t]][wanted[t]]
    IN  status[t] = "pending" /\ known # 0 /\ Answer(t, known) /\ UNCHANGED memo

\* A new kernel differs from every kernel the process holds.
ReturnNew(t) ==
    LET new == answer'[t]
        held == memo[ProcOf[t]]
    IN  /\ status[t] = "pending"
        /\ held[wanted[t]] = 0
        /\ new \in Nat \ ({0} \cup {held[k] : k \in Key})
        /\ Answer(t, new)
        /\ memo' = [memo EXCEPT ![ProcOf[t]][wanted[t]] = new]

Forget(p) ==
    /\ memo' = [memo EXCEPT ![p] = [k \in Key |-> 0]]
    /\ UNCHANGED <<status, wanted, answer>>

Die(p) ==
    /\ status' = [t \in Thread |-> IF ProcOf[t] = p THEN "dead" ELSE status[t]]
    /\ UNCHANGED <<memo, wanted, answer>>

Next ==
    \/ \E t \in Thread :
          \/ \E k \in Key : Request(t, k)
          \/ Throw(t)
          \/ ReturnKnown(t)
          \/ ReturnNew(t)
    \/ \E p \in Process : Forget(p) \/ Die(p)

Spec == Init /\ [][Next]_vars
=============================================================================
