------------------------------ MODULE JitCache ------------------------------
(***************************************************************************)
(* The JIT kernel cache: TritonCompiler::compile_kernel and                *)
(* clear_kernel_cache (src/codegen/jit_cache.cpp), JitKernel::compile      *)
(* (src/codegen/jit_kernel.cpp) and the Python code generator they start   *)
(* (python/flagfft_codegen), run by several threads of several processes   *)
(* that share one cache directory.                                         *)
(*                                                                         *)
(*  - Each process has an in-memory table guarded by a mutex.  Every use   *)
(*    of the table is one critical section, so it is one step here.        *)
(*  - A miss takes flock(2) on .locks/<request id>.lock.  Each call opens  *)
(*    the file itself, so the lock excludes threads of the same process as *)
(*    well as other processes, and the system drops it when its holder     *)
(*    dies.                                                                *)
(*  - The code generator is a child process (popen).  The lock file is     *)
(*    opened O_CLOEXEC, so the child does not hold the lock: when its      *)
(*    parent dies, the child goes on writing without it.                   *)
(*                                                                         *)
(* A key stands for a whole cache key; two keys have different request     *)
(* ids, hence different directories and lock files.  A process that died   *)
(* does not come back: a restarted program is another member of Process.   *)
(***************************************************************************)
EXTENDS Naturals

CONSTANTS
    Process,    \* operating-system processes that share the cache directory
    Thread,     \* all their threads
    ProcOf,     \* ProcOf[t]: the process thread t runs in
    Key,        \* kernel cache keys
    NoKey,      \* key of a thread that has not called yet
    NoThread,   \* holder of a free lock file
    MaxCalls,   \* bound: compile_kernel calls per thread
    MaxClears   \* bound: clear_kernel_cache calls per process

ASSUME ProcOfType == ProcOf \in [Thread -> Process]
ASSUME NoKeyFresh == NoKey \notin Key
ASSUME NoThreadFresh == NoThread \notin Thread
ASSUME BoundsType == MaxCalls \in Nat /\ MaxClears \in Nat

VARIABLES
    pc,         \* pc[t]: where thread t stands in compile_kernel
    key,        \* key[t]: the key it asks for
    got,        \* got[t]: kernel of its last call, 0 after an exception
    gotEpoch,   \* gotEpoch[t]: epoch of its process when got[t] was chosen
    calls,      \* calls[t]: calls made so far
    cache,      \* cache[p][k]: KernelCacheState::cache, 0 when k is absent
    hits,       \* hits[p], misses[p]: the counters next to the cache
    misses,
    made,       \* made[p]: JitKernel objects process p has created
    kernel,     \* kernel[t]: the JitKernel object t created last
    epoch,      \* epoch[p]: how often its cache was cleared
    flock,      \* flock[k]: thread that holds the lock file of k
    child,      \* child[t]: state of the code generator t started last
    module,     \* module[k]: the generated .py file of k
    meta        \* meta[k]: whether the .json file next to it exists

memVars == <<cache, hits, misses, made, kernel, epoch>>
callVars == <<key, got, gotEpoch, calls>>
fileVars == <<child, module, meta>>
vars == <<pc, callVars, memVars, flock, fileVars>>

\* Program points: "find" first lookup, "lock" waiting in KernelFileLock,
\* "recheck" second lookup, "spawn" about to popen, "codegen" waiting in
\* fgets/pclose, "compile" JitKernel::compile, "publish" about to emplace,
\* "unlock" result known, ~KernelFileLock still to run.
Locked == {"recheck", "spawn", "codegen", "compile", "publish", "unlock"}
Building == {"spawn", "codegen", "compile", "publish"}
Points == {"idle", "find", "lock", "dead"} \cup Locked

Running == {"started", "staged", "moduled"}
ChildStates == {"none", "ok", "failed"} \cup Running

TypeOK ==
    /\ pc \in [Thread -> Points]
    /\ key \in [Thread -> Key \cup {NoKey}]
    /\ got \in [Thread -> Nat]
    /\ gotEpoch \in [Thread -> Nat]
    /\ calls \in [Thread -> Nat]
    /\ cache \in [Process -> [Key -> Nat]]
    /\ hits \in [Process -> Nat]
    /\ misses \in [Process -> Nat]
    /\ made \in [Process -> Nat]
    /\ kernel \in [Thread -> Nat]
    /\ epoch \in [Process -> Nat]
    /\ flock \in [Key -> Thread \cup {NoThread}]
    /\ child \in [Thread -> ChildStates]
    /\ module \in [Key -> {"none", "torn", "whole"}]
    /\ meta \in [Key -> BOOLEAN]

Init ==
    /\ pc = [t \in Thread |-> "idle"]
    /\ key = [t \in Thread |-> NoKey]
    /\ got = [t \in Thread |-> 0]
    /\ gotEpoch = [t \in Thread |-> 0]
    /\ calls = [t \in Thread |-> 0]
    /\ cache = [p \in Process |-> [k \in Key |-> 0]]
    /\ hits = [p \in Process |-> 0]
    /\ misses = [p \in Process |-> 0]
    /\ made = [p \in Process |-> 0]
    /\ kernel = [t \in Thread |-> 0]
    /\ epoch = [p \in Process |-> 0]
    /\ flock = [k \in Key |-> NoThread]
    /\ child = [t \in Thread |-> "none"]
    /\ module = [k \in Key |-> "none"]
    /\ meta = [k \in Key |-> FALSE]

Goto(t, from, to) ==
    /\ pc[t] = from
    /\ pc' = [pc EXCEPT ![t] = to]

\* The result of t's call is settled now: kernel g, or 0 for an exception.
Settle(t, g) ==
    /\ got' = [got EXCEPT ![t] = g]
    /\ gotEpoch' = [gotEpoch EXCEPT ![t] = epoch[ProcOf[t]]]
    /\ UNCHANGED <<key, calls>>

Entry(t) == cache[ProcOf[t]][key[t]]

CountHit(t) == hits' = [hits EXCEPT ![ProcOf[t]] = @ + 1]
CountMiss(t) == misses' = [misses EXCEPT ![ProcOf[t]] = @ + 1]
-----------------------------------------------------------------------------
(* compile_kernel, up to the lock file *)

\* A caller asks for k; the cache key has been put together.
Call(t, k) ==
    /\ calls[t] < MaxCalls
    /\ Goto(t, "idle", "find")
    /\ key' = [key EXCEPT ![t] = k]
    /\ calls' = [calls EXCEPT ![t] = @ + 1]
    /\ UNCHANGED <<got, gotEpoch, memVars, flock, fileVars>>

FindHit(t) ==
    /\ Goto(t, "find", "idle")
    /\ Entry(t) # 0
    /\ CountHit(t)
    /\ Settle(t, Entry(t))
    /\ UNCHANGED <<cache, misses, made, kernel, epoch, flock, fileVars>>

FindMiss(t) ==
    /\ Goto(t, "find", "lock")
    /\ Entry(t) = 0
    /\ UNCHANGED <<callVars, memVars, flock, fileVars>>

\* Unsupported kernel kind, or the lock file cannot be created, opened or
\* locked: the call throws with no lock held.
LockFails(t) ==
    /\ Goto(t, "lock", "idle")
    /\ Settle(t, 0)
    /\ UNCHANGED <<memVars, flock, fileVars>>

\* Mutant: flock's result is ignored, so two callers may get the lock.
AcquireFlockUnchecked(t) ==
    /\ Goto(t, "lock", "recheck")
    /\ flock' = [flock EXCEPT ![key[t]] = t]
    /\ UNCHANGED <<callVars, memVars, fileVars>>

\* KernelFileLock's constructor; flock(LOCK_EX) blocks while another holds it.
AcquireFlock(t) ==
    /\ Goto(t, "lock", "recheck")
    /\ flock[key[t]] = NoThread
    /\ flock' = [flock EXCEPT ![key[t]] = t]
    /\ UNCHANGED <<callVars, memVars, fileVars>>
-----------------------------------------------------------------------------
(* compile_kernel, under the lock file *)

RecheckHit(t) ==
    /\ Goto(t, "recheck", "unlock")
    /\ Entry(t) # 0
    /\ CountHit(t)
    /\ Settle(t, Entry(t))
    /\ UNCHANGED <<cache, misses, made, kernel, epoch, flock, fileVars>>

\* Mutant: no second lookup under the lock file.
RecheckSkipped(t) ==
    /\ Goto(t, "recheck", "spawn")
    /\ CountMiss(t)
    /\ UNCHANGED <<callVars, cache, hits, made, kernel, epoch, flock, fileVars>>

RecheckMiss(t) ==
    /\ Goto(t, "recheck", "spawn")
    /\ Entry(t) = 0
    /\ CountMiss(t)
    /\ UNCHANGED <<callVars, cache, hits, made, kernel, epoch, flock, fileVars>>

\* popen in run_command_capture_stdout
StartCodegen(t) ==
    /\ Goto(t, "spawn", "codegen")
    /\ child' = [child EXCEPT ![t] = "started"]
    /\ UNCHANGED <<callVars, memVars, flock, module, meta>>

\* pclose reported success and the fields of the artifact were read.
CodegenDone(t) ==
    /\ Goto(t, "codegen", "compile")
    /\ child[t] = "ok"
    /\ child' = [child EXCEPT ![t] = "none"]
    /\ made' = [made EXCEPT ![ProcOf[t]] = @ + 1]
    /\ kernel' = [kernel EXCEPT ![t] = made[ProcOf[t]] + 1]
    /\ UNCHANGED <<callVars, cache, hits, misses, epoch, flock, module, meta>>

\* pclose reported failure, or the output lacks a field: compile_kernel throws.
CodegenThrows(t) ==
    /\ Goto(t, "codegen", "unlock")
    /\ child[t] \in {"ok", "failed"}
    /\ child' = [child EXCEPT ![t] = "none"]
    /\ Settle(t, 0)
    /\ UNCHANGED <<memVars, flock, module, meta>>

\* popen itself failed: no child was started.
PopenFails(t) ==
    /\ Goto(t, "spawn", "unlock")
    /\ Settle(t, 0)
    /\ UNCHANGED <<memVars, flock, fileVars>>

\* JitKernel::compile loads the module file of the request.
CompileDone(t) ==
    /\ Goto(t, "compile", "publish")
    /\ UNCHANGED <<callVars, memVars, flock, fileVars>>

CompileThrows(t) ==
    /\ Goto(t, "compile", "unlock")
    /\ Settle(t, 0)
    /\ UNCHANGED <<memVars, flock, fileVars>>

\* Mutant: the new kernel is returned and not put into the table.
PublishForgotten(t) ==
    /\ Goto(t, "publish", "unlock")
    /\ Settle(t, kernel[t])
    /\ UNCHANGED <<memVars, flock, fileVars>>

\* emplace keeps an entry that is there already, and the call returns it.
Publish(t) ==
    LET kept == IF Entry(t) = 0 THEN kernel[t] ELSE Entry(t)
    IN  /\ Goto(t, "publish", "unlock")
        /\ cache' = [cache EXCEPT ![ProcOf[t]][key[t]] = kept]
        /\ Settle(t, kept)
        /\ UNCHANGED <<hits, misses, made, kernel, epoch, flock, fileVars>>

\* Mutant: the lock file stays locked when compile_kernel ends.
ReleaseFlockForgotten(t) ==
    /\ Goto(t, "unlock", "idle")
    /\ UNCHANGED <<callVars, memVars, flock, fileVars>>

\* ~KernelFileLock, on return and on unwinding alike.
ReleaseFlock(t) ==
    /\ Goto(t, "unlock", "idle")
    /\ flock' = [flock EXCEPT ![key[t]] = NoThread]
    /\ UNCHANGED <<callVars, memVars, fileVars>>
-----------------------------------------------------------------------------
(* The code generator: emit.py / cli.py publish with write_text_atomic *)

ChildGoto(t, from, to) ==
    /\ child[t] = from
    /\ child' = [child EXCEPT ![t] = to]

\* Mutant: the text is written straight into the module file.
ChildStagesInPlace(t) ==
    /\ ChildGoto(t, "started", "staged")
    /\ module' = [module EXCEPT ![key[t]] = "torn"]
    /\ UNCHANGED <<pc, callVars, memVars, flock, meta>>

\* mkstemp and write: the new text is in a temporary file of its own.
ChildStages(t) ==
    /\ ChildGoto(t, "started", "staged")
    /\ UNCHANGED <<pc, callVars, memVars, flock, module, meta>>

\* os.replace puts the module file in place.
ChildWritesModule(t) ==
    /\ ChildGoto(t, "staged", "moduled")
    /\ module' = [module EXCEPT ![key[t]] = "whole"]
    /\ UNCHANGED <<pc, callVars, memVars, flock, meta>>

\* The metadata file follows, then the artifact is printed and the child exits.
ChildWritesMeta(t) ==
    /\ ChildGoto(t, "moduled", "ok")
    /\ meta' = [meta EXCEPT ![key[t]] = TRUE]
    /\ UNCHANGED <<pc, callVars, memVars, flock, module>>

\* An exception in the generator; finally removes the temporary file.
ChildFails(t) ==
    /\ child[t] \in Running
    /\ child' = [child EXCEPT ![t] = "failed"]
    /\ UNCHANGED <<pc, callVars, memVars, flock, module, meta>>
-----------------------------------------------------------------------------
Alive(p) == \A t \in Thread : ProcOf[t] = p => pc[t] # "dead"

\* clear_kernel_cache
ClearKernelCache(p) ==
    /\ Alive(p)
    /\ epoch[p] < MaxClears
    /\ cache' = [cache EXCEPT ![p] = [k \in Key |-> 0]]
    /\ hits' = [hits EXCEPT ![p] = 0]
    /\ misses' = [misses EXCEPT ![p] = 0]
    /\ epoch' = [epoch EXCEPT ![p] = @ + 1]
    /\ UNCHANGED <<pc, callVars, made, kernel, flock, fileVars>>

\* A process is killed.  The system releases its lock files; a code generator
\* it started keeps running.
Crash(p) ==
    /\ Alive(p)
    /\ pc' = [t \in Thread |-> IF ProcOf[t] = p THEN "dead" ELSE pc[t]]
    /\ flock' = [k \in Key |->
                   IF flock[k] \in Thread /\ ProcOf[flock[k]] = p
                   THEN NoThread ELSE flock[k]]
    /\ UNCHANGED <<callVars, memVars, fileVars>>

ThreadStep(t) ==
    \/ FindHit(t) \/ FindMiss(t) \/ LockFails(t) \/ AcquireFlock(t)
    \/ RecheckHit(t) \/ RecheckMiss(t) \/ StartCodegen(t) \/ PopenFails(t)
    \/ CodegenDone(t) \/ CodegenThrows(t) \/ CompileDone(t)
    \/ CompileThrows(t) \/ Publish(t) \/ ReleaseFlock(t)

ChildStep(t) ==
    \/ ChildStages(t) \/ ChildWritesModule(t) \/ ChildWritesMeta(t)
    \/ ChildFails(t)

Next ==
    \/ \E t \in Thread :
          (\E k \in Key : Call(t, k)) \/ ThreadStep(t) \/ ChildStep(t)
    \/ \E p \in Process : ClearKernelCache(p) \/ Crash(p)

Spec == Init /\ [][Next]_vars

\* A thread inside compile_kernel is scheduled, one that waits in flock(2) gets
\* a lock that stays free, and the code generator ends.  Nothing is assumed
\* about callers, clears or crashes, and a blocked flock need not fail.
Fairness ==
    /\ \A t \in Thread : WF_vars(pc[t] # "lock" /\ ThreadStep(t))
    /\ \A t \in Thread : WF_vars(AcquireFlock(t))
    /\ \A t \in Thread : WF_vars(ChildStep(t))

FairSpec == Spec /\ Fairness
-----------------------------------------------------------------------------
(* Properties *)

\* At most one live call, over all processes, works on the request directory
\* of a key: KernelFileLock is held from the second lookup until return.
RequestExclusive ==
    \A t, u \in Thread :
        pc[t] \in Locked /\ pc[u] \in Locked /\ key[t] = key[u] => t = u

\* A kernel is generated and compiled only while the table of the process has
\* no entry for its key, so the emplace at the end of compile_kernel always
\* inserts and no compilation is thrown away.
NoDuplicateBuild ==
    \A t \in Thread : pc[t] \in Building => Entry(t) = 0

\* Every call that succeeded since the last clear_kernel_cache returned the
\* very kernel the table holds: all callers of a key share one JitKernel.
SharedKernel ==
    \A t \in Thread :
        /\ pc[t] \in {"idle", "unlock"}
        /\ got[t] # 0
        /\ gotEpoch[t] = epoch[ProcOf[t]]
        => Entry(t) = got[t]

\* JitKernel::compile finds a complete module file, whatever an orphaned code
\* generator of a killed process is still writing for the same request.
CompileReadsWholeModule ==
    \A t \in Thread : pc[t] = "compile" => module[key[t]] = "whole"

\* Every call of compile_kernel returns or throws, unless its process dies.
CallReturns ==
    \A t \in Thread : pc[t] = "find" ~> pc[t] \in {"idle", "dead"}

\* What callers see is the memo table of KernelMemo.
Memo == INSTANCE KernelMemo WITH
    memo <- cache,
    status <- [t \in Thread |->
                 CASE pc[t] = "dead" -> "dead"
                   [] pc[t] \in {"idle", "unlock"} -> "idle"
                   [] OTHER -> "pending"],
    wanted <- key,
    answer <- got

\* compile_kernel, with its locks, files, failures and crashes, implements
\* the memo table.
ImplementsMemo == Memo!Spec
=============================================================================
