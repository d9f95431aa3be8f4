--------------------------- MODULE JitCacheProofs ---------------------------
(***************************************************************************)
(* Proofs about JitCache for every set of processes, threads and keys.     *)
(*                                                                         *)
(* The safety properties rest on one inductive invariant, IInv: the lock   *)
(* file of a key belongs to the one thread that works on it, the table has *)
(* no entry for a key that is being built, a code generator belongs to a   *)
(* thread that waits for it or is dead, and kernels not yet published are  *)
(* new to their process.                                                   *)
(***************************************************************************)
EXTENDS JitCache, TLAPS

\* A thread inside compile_kernel asks for a key.
KeyInv == \A t \in Thread : pc[t] \notin {"idle", "dead"} => key[t] \in Key

TypeInv == TypeOK /\ KeyInv

\* Between acquiring and releasing, the lock file is the thread's own.
LockInv == \A t \in Thread : pc[t] \in Locked => flock[key[t]] = t

\* A code generator in progress belongs to a waiting or to a dead thread, and
\* once it is past os.replace the module file is complete.
ChildInv ==
    \A t \in Thread :
        /\ child[t] # "none" => pc[t] \in {"codegen", "dead"} /\ key[t] \in Key
        /\ child[t] \in {"moduled", "ok"} => module[key[t]] = "whole"

EpochInv == \A t \in Thread : gotEpoch[t] <= epoch[ProcOf[t]]

Holds(t) == pc[t] \in {"compile", "publish"}

\* The kernel a thread holds but has not published is new to its process.
FreshInv ==
    /\ \A p \in Process, k \in Key : cache[p][k] <= made[p]
    /\ \A t \in Thread : Holds(t) =>
          /\ kernel[t] \in 1..made[ProcOf[t]]
          /\ \A k \in Key : cache[ProcOf[t]][k] # kernel[t]
    /\ \A t, u \in Thread :
          Holds(t) /\ Holds(u) /\ ProcOf[t] = ProcOf[u] /\ kernel[t] = kernel[u]
          => t = u

IInv ==
    /\ TypeInv
    /\ LockInv
    /\ ChildInv
    /\ EpochInv
    /\ FreshInv
    /\ NoDuplicateBuild
    /\ SharedKernel
    /\ CompileReadsWholeModule

\* The states of JitCache are well typed: no action of a thread, of a code
\* generator or of the system leaves the types of TypeOK, and in particular
\* a module file is never anything but absent or whole.
LEMMA TypeStep == TypeInv /\ [Next]_vars => TypeInv'
<1> SUFFICES ASSUME TypeInv, [Next]_vars PROVE TypeInv'
  OBVIOUS
<1> USE ProcOfType DEF TypeInv, TypeOK, KeyInv, Points, Locked, ChildStates, Running, Entry,
                       memVars, callVars, fileVars
<1>1. ASSUME NEW t \in Thread, NEW k \in Key, Call(t, k) PROVE TypeInv'
  BY <1>1 DEF Call, Goto
<1>2. ASSUME NEW t \in Thread, FindHit(t) PROVE TypeInv'
  <2>1. key[t] \in Key /\ ProcOf[t] \in Process
    BY <1>2 DEF FindHit, Goto
  <2>2. hits' \in [Process -> Nat] /\ got' \in [Thread -> Nat]
    BY <1>2, <2>1 DEF FindHit, CountHit, Settle
  <2> QED
    BY <1>2, <2>2 DEF FindHit, Goto, Settle
<1>3. ASSUME NEW t \in Thread, FindMiss(t) PROVE TypeInv'
  BY <1>3 DEF FindMiss, Goto
<1>4. ASSUME NEW t \in Thread, LockFails(t) PROVE TypeInv'
  BY <1>4 DEF LockFails, Goto, Settle
<1>5. ASSUME NEW t \in Thread, AcquireFlock(t) PROVE TypeInv'
  BY <1>5 DEF AcquireFlock, Goto
<1>6. ASSUME NEW t \in Thread, RecheckHit(t) PROVE TypeInv'
  <2>1. key[t] \in Key /\ ProcOf[t] \in Process
    BY <1>6 DEF RecheckHit, Goto
  <2>2. hits' \in [Process -> Nat] /\ got' \in [Thread -> Nat]
    BY <1>6, <2>1 DEF RecheckHit, CountHit, Settle
  <2> QED
    BY <1>6, <2>2 DEF RecheckHit, Goto, Settle
<1>7. ASSUME NEW t \in Thread, RecheckMiss(t) PROVE TypeInv'
  <2>1. misses' \in [Process -> Nat]
    BY <1>7 DEF RecheckMiss, CountMiss
  <2> QED
    BY <1>7, <2>1 DEF RecheckMiss, Goto
<1>8. ASSUME NEW t \in Thread, StartCodegen(t) PROVE TypeInv'
  BY <1>8 DEF StartCodegen, Goto
<1>9. ASSUME NEW t \in Thread, PopenFails(t) PROVE TypeInv'
  BY <1>9 DEF PopenFails, Goto, Settle
<1>10. ASSUME NEW t \in Thread, CodegenDone(t) PROVE TypeInv'
  BY <1>10 DEF CodegenDone, Goto
<1>11. ASSUME NEW t \in Thread, CodegenThrows(t) PROVE TypeInv'
  BY <1>11 DEF CodegenThrows, Goto, Settle
<1>12. ASSUME NEW t \in Thread, CompileDone(t) PROVE TypeInv'
  BY <1>12 DEF CompileDone, Goto
<1>13. ASSUME NEW t \in Thread, CompileThrows(t) PROVE TypeInv'
  BY <1>13 DEF CompileThrows, Goto, Settle
<1>14. ASSUME NEW t \in Thread, Publish(t) PROVE TypeInv'
  BY ZenonT(40), <1>14 DEF Publish, Goto, Settle
<1>15. ASSUME NEW t \in Thread, ReleaseFlock(t) PROVE TypeInv'
  BY <1>15 DEF ReleaseFlock, Goto
<1>16. ASSUME NEW t \in Thread, ChildStep(t) PROVE TypeInv'
  BY <1>16 DEF ChildStep, ChildGoto, ChildStages, ChildWritesModule,
               ChildWritesMeta, ChildFails
<1>17. ASSUME NEW p \in Process, ClearKernelCache(p) PROVE TypeInv'
  BY <1>17 DEF ClearKernelCache
<1>18. ASSUME NEW p \in Process, Crash(p) PROVE TypeInv'
  BY <1>18 DEF Crash
<1>19. CASE UNCHANGED vars
  BY <1>19 DEF vars
<1> QED
  BY <1>1, <1>2, <1>3, <1>4, <1>5, <1>6, <1>7, <1>8, <1>9, <1>10, <1>11,
     <1>12, <1>13, <1>14, <1>15, <1>16, <1>17, <1>18, <1>19
     DEF Next, ThreadStep

\* JitCache keeps its types in every behaviour.
THEOREM TypeCorrect == Spec => []TypeOK
<1>1. Init => TypeInv
  BY DEF Init, TypeInv, TypeOK, KeyInv, Points, Locked, ChildStates
<1>2. TypeInv => TypeOK
  BY DEF TypeInv
<1> QED
  BY <1>1, <1>2, TypeStep, PTL DEF Spec
-----------------------------------------------------------------------------
(* The conjuncts of IInv, one lemma each *)

\* The lock file of a key changes hands only through NoThread, so a thread
\* between AcquireFlock and ReleaseFlock keeps it.
LEMMA LockStep == TypeInv /\ LockInv /\ [Next]_vars => LockInv'
<1> SUFFICES ASSUME TypeInv, LockInv, [Next]_vars PROVE LockInv'
  OBVIOUS
<1> USE ProcOfType, NoThreadFresh
    DEF TypeInv, TypeOK, KeyInv, LockInv, Locked, Points, memVars, callVars,
        fileVars
<1>1. ASSUME NEW t \in Thread, NEW k \in Key, Call(t, k) PROVE LockInv'
  BY <1>1 DEF Call, Goto
<1>2. ASSUME NEW t \in Thread,
             FindHit(t) \/ FindMiss(t) \/ LockFails(t)
      PROVE  LockInv'
  BY <1>2 DEF FindHit, FindMiss, LockFails, Goto, Settle
<1>3. ASSUME NEW t \in Thread, AcquireFlock(t) PROVE LockInv'
  BY <1>3 DEF AcquireFlock, Goto
<1>4. ASSUME NEW t \in Thread,
             \/ RecheckHit(t) \/ RecheckMiss(t) \/ StartCodegen(t)
             \/ PopenFails(t) \/ CodegenDone(t) \/ CodegenThrows(t)
             \/ CompileDone(t) \/ CompileThrows(t) \/ Publish(t)
      PROVE  LockInv'
  <2>1. /\ pc[t] \in Locked
        /\ pc' = [pc EXCEPT ![t] = pc'[t]]
        /\ UNCHANGED <<key, flock>>
    BY <1>4 DEF RecheckHit, RecheckMiss, StartCodegen, PopenFails, CodegenDone,
         CodegenThrows, CompileDone, CompileThrows, Publish, Goto, Settle
  <2> QED
    BY <2>1
<1>5. ASSUME NEW t \in Thread, ReleaseFlock(t) PROVE LockInv'
  BY <1>5 DEF ReleaseFlock, Goto
<1>6. ASSUME NEW t \in Thread, ChildStep(t) PROVE LockInv'
  BY <1>6 DEF ChildStep, ChildGoto, ChildStages, ChildWritesModule,
              ChildWritesMeta, ChildFails
<1>7. ASSUME NEW p \in Process, ClearKernelCache(p) PROVE LockInv'
  BY <1>7 DEF ClearKernelCache
<1>8. ASSUME NEW p \in Process, Crash(p) PROVE LockInv'
  BY <1>8 DEF Crash
<1>9. CASE UNCHANGED vars
  BY <1>9 DEF vars
<1> QED
  BY <1>1, <1>2, <1>3, <1>4, <1>5, <1>6, <1>7, <1>8, <1>9 DEF Next, ThreadStep

\* Two threads in the locked part of compile_kernel for one key are the same
\* thread.
LEMMA LockExcludes == LockInv => RequestExclusive
BY DEF LockInv, RequestExclusive

\* Code generators and the files they write.
LEMMA ChildInvStep == TypeInv /\ ChildInv /\ [Next]_vars => ChildInv'
<1> SUFFICES ASSUME TypeInv, ChildInv, [Next]_vars PROVE ChildInv'
  OBVIOUS
<1> USE DEF TypeInv, TypeOK, KeyInv, ChildInv, ChildStates, Running,
            Locked, Points, memVars, callVars, fileVars
<1>1. ASSUME NEW t \in Thread, NEW k \in Key, Call(t, k) PROVE ChildInv'
  BY <1>1 DEF Call, Goto
<1>2. ASSUME NEW t \in Thread,
             \/ FindHit(t) \/ FindMiss(t) \/ LockFails(t) \/ AcquireFlock(t)
             \/ RecheckHit(t) \/ RecheckMiss(t) \/ PopenFails(t)
             \/ CompileDone(t) \/ CompileThrows(t) \/ Publish(t)
             \/ ReleaseFlock(t)
      PROVE  ChildInv'
  <2>1. /\ pc[t] \notin {"codegen", "dead"}
        /\ pc' = [pc EXCEPT ![t] = pc'[t]]
        /\ UNCHANGED <<key, child, module>>
    BY <1>2 DEF FindHit, FindMiss, LockFails, AcquireFlock, RecheckHit,
         RecheckMiss, PopenFails, CompileDone, CompileThrows, Publish,
         ReleaseFlock, Goto, Settle
  <2> QED
    BY SMTT(20), <2>1
<1>3. ASSUME NEW t \in Thread, StartCodegen(t) PROVE ChildInv'
  BY <1>3 DEF StartCodegen, Goto
<1>4. ASSUME NEW t \in Thread, CodegenDone(t) \/ CodegenThrows(t)
      PROVE  ChildInv'
  BY <1>4 DEF CodegenDone, CodegenThrows, Goto, Settle
<1>5. ASSUME NEW t \in Thread, ChildStep(t) PROVE ChildInv'
  <2>1. CASE ChildStages(t)
    BY <2>1 DEF ChildStages, ChildGoto
  <2>2. CASE ChildWritesModule(t)
    BY <2>2 DEF ChildWritesModule, ChildGoto
  <2>3. CASE ChildWritesMeta(t)
    BY <2>3 DEF ChildWritesMeta, ChildGoto
  <2>4. CASE ChildFails(t)
    BY <2>4 DEF ChildFails
  <2> QED
    BY <1>5, <2>1, <2>2, <2>3, <2>4 DEF ChildStep
<1>6. ASSUME NEW p \in Process, ClearKernelCache(p) PROVE ChildInv'
  BY <1>6 DEF ClearKernelCache
<1>7. ASSUME NEW p \in Process, Crash(p) PROVE ChildInv'
  BY <1>7 DEF Crash
<1>8. CASE UNCHANGED vars
  BY <1>8 DEF vars
<1> QED
  BY <1>1, <1>2, <1>3, <1>4, <1>5, <1>6, <1>7, <1>8 DEF Next, ThreadStep

\* A module file that is complete stays complete, and compilation starts only
\* after the code generator of the thread has replaced it.
LEMMA WholeStep ==
    TypeInv /\ ChildInv /\ CompileReadsWholeModule /\ [Next]_vars
    => CompileReadsWholeModule'
<1> SUFFICES ASSUME TypeInv, ChildInv, CompileReadsWholeModule, [Next]_vars
             PROVE  CompileReadsWholeModule'
  OBVIOUS
<1> USE DEF TypeInv, TypeOK, KeyInv, CompileReadsWholeModule, ChildStates,
            Running, Locked, Points, memVars, callVars, fileVars
<1>1. ASSUME NEW t \in Thread, NEW k \in Key, Call(t, k)
      PROVE  CompileReadsWholeModule'
  BY <1>1 DEF Call, Goto
<1>2. ASSUME NEW t \in Thread, CodegenDone(t) PROVE CompileReadsWholeModule'
  BY <1>2 DEF CodegenDone, Goto, ChildInv
<1>3. ASSUME NEW t \in Thread, ThreadStep(t), ~CodegenDone(t)
      PROVE  CompileReadsWholeModule'
  <2>1. /\ pc' = [pc EXCEPT ![t] = pc'[t]]
        /\ pc'[t] # "compile"
        /\ UNCHANGED <<key, module>>
    BY <1>3 DEF ThreadStep, FindHit, FindMiss, LockFails, AcquireFlock,
         RecheckHit, RecheckMiss, StartCodegen, PopenFails, CodegenThrows,
         CompileDone, CompileThrows, Publish, ReleaseFlock, Goto, Settle
  <2> QED
    BY <2>1
<1>4. ASSUME NEW t \in Thread, ChildStep(t) PROVE CompileReadsWholeModule'
  BY <1>4 DEF ChildStep, ChildGoto, ChildStages, ChildWritesModule,
              ChildWritesMeta, ChildFails
<1>5. ASSUME NEW p \in Process, ClearKernelCache(p) \/ Crash(p)
      PROVE  CompileReadsWholeModule'
  BY <1>5 DEF ClearKernelCache, Crash
<1>6. CASE UNCHANGED vars
  BY <1>6 DEF vars
<1> QED
  BY <1>1, <1>2, <1>3, <1>4, <1>5, <1>6 DEF Next

\* A step of a thread inside compile_kernel: what it may do to the table and
\* to the outcome of its call.
LEMMA ThreadStepShape ==
    ASSUME TypeInv, NEW t \in Thread, ThreadStep(t)
    PROVE  /\ pc' = [pc EXCEPT ![t] = pc'[t]]
           /\ pc[t] \notin {"idle", "dead"}
           /\ UNCHANGED <<key, epoch>>
           /\ \/ UNCHANGED <<got, gotEpoch>> /\ pc'[t] \notin {"idle", "unlock"}
              \/ UNCHANGED <<got, gotEpoch>> /\ pc[t] = "unlock"
              \/ /\ got' = [got EXCEPT ![t] = got'[t]]
                 /\ gotEpoch' = [gotEpoch EXCEPT ![t] = epoch[ProcOf[t]]]
                 /\ \/ got'[t] = 0
                    \/ got'[t] = cache'[ProcOf[t]][key[t]]
           /\ UNCHANGED cache \/ Publish(t)
           /\ pc'[t] \in Building => pc[t] \in Building \/ Entry(t) = 0
<1> USE ProcOfType
    DEF TypeInv, TypeOK, KeyInv, Locked, Points, Building, Entry, memVars,
        callVars, fileVars, Goto, Settle
<1>1. CASE FindHit(t) \/ FindMiss(t) \/ LockFails(t) \/ AcquireFlock(t)
  BY <1>1 DEF FindHit, FindMiss, LockFails, AcquireFlock
<1>2. CASE RecheckHit(t) \/ RecheckMiss(t) \/ StartCodegen(t) \/ PopenFails(t)
  BY <1>2 DEF RecheckHit, RecheckMiss, StartCodegen, PopenFails
<1>3. CASE CodegenDone(t) \/ CodegenThrows(t)
  BY <1>3 DEF CodegenDone, CodegenThrows
<1>4. CASE CompileDone(t) \/ CompileThrows(t) \/ ReleaseFlock(t)
  BY <1>4 DEF CompileDone, CompileThrows, ReleaseFlock
<1>5. CASE Publish(t)
  BY <1>5 DEF Publish
<1> QED
  BY <1>1, <1>2, <1>3, <1>4, <1>5 DEF ThreadStep

\* The epoch of an outcome is never ahead of its process.
LEMMA EpochStep == TypeInv /\ EpochInv /\ [Next]_vars => EpochInv'
<1> SUFFICES ASSUME TypeInv, EpochInv, [Next]_vars PROVE EpochInv'
  OBVIOUS
<1> USE ProcOfType DEF TypeInv, TypeOK, EpochInv, memVars, callVars, fileVars
<1>1. ASSUME NEW t \in Thread, NEW k \in Key, Call(t, k) PROVE EpochInv'
  BY <1>1 DEF Call
<1>2. ASSUME NEW t \in Thread, ThreadStep(t) PROVE EpochInv'
  <2>1. /\ epoch' = epoch
        /\ \/ gotEpoch' = gotEpoch
           \/ gotEpoch' = [gotEpoch EXCEPT ![t] = epoch[ProcOf[t]]]
    BY <1>2, ThreadStepShape
  <2>2. ASSUME NEW u \in Thread PROVE gotEpoch'[u] <= epoch'[ProcOf[u]]
    <3>1. epoch[ProcOf[u]] \in Nat /\ gotEpoch[u] <= epoch[ProcOf[u]]
      OBVIOUS
    <3>2. gotEpoch'[u] = gotEpoch[u] \/ gotEpoch'[u] = epoch[ProcOf[u]]
      BY <2>1
    <3> QED
      BY <2>1, <3>1, <3>2
  <2> QED
    BY <2>2
<1>3. ASSUME NEW t \in Thread, ChildStep(t) PROVE EpochInv'
  BY <1>3 DEF ChildStep, ChildGoto, ChildStages, ChildWritesModule,
              ChildWritesMeta, ChildFails
<1>4. ASSUME NEW p \in Process, ClearKernelCache(p) PROVE EpochInv'
  BY <1>4 DEF ClearKernelCache
<1>5. ASSUME NEW p \in Process, Crash(p) PROVE EpochInv'
  BY <1>5 DEF Crash
<1>6. CASE UNCHANGED vars
  BY <1>6 DEF vars
<1> QED
  BY <1>1, <1>2, <1>3, <1>4, <1>5, <1>6 DEF Next

\* Only the holder of the lock file of a key inserts it, so no thread that
\* builds a kernel is overtaken.
LEMMA BuildStep ==
    TypeInv /\ LockInv /\ NoDuplicateBuild /\ [Next]_vars => NoDuplicateBuild'
<1> SUFFICES ASSUME TypeInv, LockInv, NoDuplicateBuild, [Next]_vars
             PROVE  NoDuplicateBuild'
  OBVIOUS
<1> USE ProcOfType DEF TypeInv, TypeOK, KeyInv, NoDuplicateBuild, Building,
                       Locked, Points, Entry, memVars, callVars, fileVars
<1>1. ASSUME NEW t \in Thread, NEW k \in Key, Call(t, k)
      PROVE  NoDuplicateBuild'
  BY <1>1 DEF Call, Goto
<1>2. ASSUME NEW t \in Thread, Publish(t) PROVE NoDuplicateBuild'
  <2>1. /\ pc' = [pc EXCEPT ![t] = "unlock"] /\ pc[t] = "publish"
        /\ key' = key
        /\ \A p \in Process, k \in Key :
              p # ProcOf[t] \/ k # key[t] => cache'[p][k] = cache[p][k]
    BY <1>2 DEF Publish, Goto, Settle
  <2>2. ASSUME NEW u \in Thread, u # t, pc[u] \in Building
        PROVE  key[u] \in Key /\ key[u] # key[t]
    BY <2>1, <2>2 DEF LockInv
  <2> QED
    BY <2>1, <2>2
<1>3. ASSUME NEW t \in Thread, ThreadStep(t), ~Publish(t)
      PROVE  NoDuplicateBuild'
  <2>1. /\ pc' = [pc EXCEPT ![t] = pc'[t]]
        /\ UNCHANGED <<key, cache>>
        /\ pc'[t] \in Building => pc[t] \in Building \/ Entry(t) = 0
    BY <1>3, ThreadStepShape
  <2> QED
    BY <2>1
<1>4. ASSUME NEW t \in Thread, ChildStep(t) PROVE NoDuplicateBuild'
  BY <1>4 DEF ChildStep, ChildGoto, ChildStages, ChildWritesModule,
              ChildWritesMeta, ChildFails
<1>5. ASSUME NEW p \in Process, ClearKernelCache(p) PROVE NoDuplicateBuild'
  BY <1>5 DEF ClearKernelCache
<1>6. ASSUME NEW p \in Process, Crash(p) PROVE NoDuplicateBuild'
  BY <1>6 DEF Crash
<1>7. CASE UNCHANGED vars
  BY <1>7 DEF vars
<1> QED
  BY <1>1, <1>2, <1>3, <1>4, <1>5, <1>6, <1>7 DEF Next

\* What a call returned stays what the table holds until the next clear: an
\* entry is inserted only when there is none.
LEMMA SharedStep ==
    /\ TypeInv /\ LockInv /\ EpochInv /\ NoDuplicateBuild /\ SharedKernel
    /\ [Next]_vars
    => SharedKernel'
<1> SUFFICES ASSUME TypeInv, LockInv, EpochInv, NoDuplicateBuild,
                    SharedKernel, [Next]_vars
             PROVE  SharedKernel'
  OBVIOUS
<1> USE ProcOfType DEF TypeInv, TypeOK, KeyInv, SharedKernel, Building,
                       Locked, Points, Entry, memVars, callVars, fileVars
<1>1. ASSUME NEW t \in Thread, NEW k \in Key, Call(t, k) PROVE SharedKernel'
  BY <1>1 DEF Call, Goto
<1>2. ASSUME NEW t \in Thread, ThreadStep(t) PROVE SharedKernel'
  <2> SUFFICES ASSUME NEW u \in Thread,
                      pc'[u] \in {"idle", "unlock"}, got'[u] # 0,
                      gotEpoch'[u] = epoch'[ProcOf[u]]
               PROVE  cache'[ProcOf[u]][key'[u]] = got'[u]
    OBVIOUS
  <2>1. CASE u = t
    BY <1>2, <2>1, ThreadStepShape DEF Publish, Settle
  <2>2. CASE u # t
    <3>1. /\ pc[u] = pc'[u] /\ got[u] = got'[u] /\ gotEpoch[u] = gotEpoch'[u]
          /\ key' = key /\ epoch' = epoch
      <4>1. /\ pc' = [pc EXCEPT ![t] = pc'[t]]
            /\ key' = key /\ epoch' = epoch
            /\ got' = got \/ got' = [got EXCEPT ![t] = got'[t]]
            /\ \/ gotEpoch' = gotEpoch
               \/ gotEpoch' = [gotEpoch EXCEPT ![t] = epoch[ProcOf[t]]]
        BY <1>2, ThreadStepShape
      <4>2. pc[u] = pc'[u]
        BY <2>2, <4>1
      <4>3. got[u] = got'[u]
        BY <2>2, <4>1
      <4>4. gotEpoch[u] = gotEpoch'[u]
        BY <2>2, <4>1
      <4> QED
        BY <4>1, <4>2, <4>3, <4>4
    <3>2. Entry(u) = got[u] /\ Entry(u) # 0
      BY <3>1
    <3>3. CASE Publish(t)
      <4>1. Entry(t) = 0
        BY <3>3 DEF NoDuplicateBuild, Publish, Goto
      <4>2. ProcOf[u] # ProcOf[t] \/ key[u] # key[t]
        BY <3>2, <4>1
      <4>3. cache'[ProcOf[u]][key[u]] = cache[ProcOf[u]][key[u]]
        BY <3>3, <4>2 DEF Publish
      <4> QED
        BY <3>1, <3>2, <4>3
    <3>4. CASE ~Publish(t)
      BY <1>2, <3>1, <3>2, <3>4, ThreadStepShape
    <3> QED
      BY <3>3, <3>4
  <2> QED
    BY <2>1, <2>2
<1>3. ASSUME NEW t \in Thread, ChildStep(t) PROVE SharedKernel'
  BY <1>3 DEF ChildStep, ChildGoto, ChildStages, ChildWritesModule,
              ChildWritesMeta, ChildFails
<1>4. ASSUME NEW p \in Process, ClearKernelCache(p) PROVE SharedKernel'
  BY <1>4 DEF ClearKernelCache, EpochInv
<1>5. ASSUME NEW p \in Process, Crash(p) PROVE SharedKernel'
  BY <1>5 DEF Crash
<1>6. CASE UNCHANGED vars
  BY <1>6 DEF vars
<1> QED
  BY <1>1, <1>2, <1>3, <1>4, <1>5, <1>6 DEF Next

\* Kernel objects are new when they are made and stay unpublished until their
\* own thread publishes them.
LEMMA FreshStep ==
    TypeInv /\ NoDuplicateBuild /\ FreshInv /\ [Next]_vars => FreshInv'
<1> SUFFICES ASSUME TypeInv, NoDuplicateBuild, FreshInv, [Next]_vars
             PROVE  FreshInv'
  OBVIOUS
<1> USE ProcOfType DEF TypeInv, TypeOK, KeyInv, FreshInv, Holds, Building,
                       Locked, Points, Entry, memVars, callVars, fileVars
<1>1. ASSUME NEW t \in Thread, NEW k \in Key, Call(t, k) PROVE FreshInv'
  BY <1>1 DEF Call, Goto
<1>2. ASSUME NEW t \in Thread, CodegenDone(t) PROVE FreshInv'
  <2>1. /\ made' = [made EXCEPT ![ProcOf[t]] = made[ProcOf[t]] + 1]
        /\ kernel' = [kernel EXCEPT ![t] = made[ProcOf[t]] + 1]
        /\ pc' = [pc EXCEPT ![t] = "compile"]
        /\ cache' = cache
    BY <1>2 DEF CodegenDone, Goto
  <2>2. \A p \in Process : made[p] \in Nat /\ made'[p] \in Nat
                           /\ made[p] <= made'[p]
    BY <2>1
  <2>3. \A p \in Process, k \in Key : cache'[p][k] <= made'[p]
    BY <2>1, <2>2
  <2>4. ASSUME NEW u \in Thread, Holds(u)'
        PROVE  /\ kernel'[u] \in 1..made'[ProcOf[u]]
               /\ \A k \in Key : cache'[ProcOf[u]][k] # kernel'[u]
    <3>1. CASE u = t
      BY <2>1, <2>2, <3>1
    <3>2. CASE u # t
      BY <2>1, <2>2, <2>4, <3>2
    <3> QED
      BY <3>1, <3>2
  <2>5. ASSUME NEW u \in Thread, NEW v \in Thread, Holds(u)', Holds(v)',
               ProcOf[u] = ProcOf[v], kernel'[u] = kernel'[v]
        PROVE  u = v
    <3>1. \A w \in Thread : w # t /\ Holds(w)' /\ ProcOf[w] = ProcOf[t]
                            => kernel'[w] # kernel'[t]
      BY <2>1, <2>2
    <3> QED
      BY <2>1, <2>5, <3>1
  <2> QED
    BY <2>3, <2>4, <2>5
<1>3. ASSUME NEW t \in Thread, Publish(t) PROVE FreshInv'
  <2>1. /\ pc' = [pc EXCEPT ![t] = "unlock"] /\ pc[t] = "publish"
        /\ cache' = [cache EXCEPT ![ProcOf[t]][key[t]] = kernel[t]]
        /\ key[t] \in Key
        /\ UNCHANGED <<made, kernel>>
    BY <1>3 DEF Publish, Goto, NoDuplicateBuild
  <2>2. \A p \in Process, k \in Key :
           cache'[p][k] = IF p = ProcOf[t] /\ k = key[t] THEN kernel[t]
                                                         ELSE cache[p][k]
    BY <2>1
  <2> QED
    BY <2>1, <2>2
<1>4. ASSUME NEW t \in Thread, ThreadStep(t), ~CodegenDone(t), ~Publish(t)
      PROVE  FreshInv'
  <2>1. /\ pc' = [pc EXCEPT ![t] = pc'[t]]
        /\ Holds(t)' => Holds(t)
        /\ UNCHANGED <<cache, made, kernel>>
    BY <1>4 DEF ThreadStep, FindHit, FindMiss, LockFails, AcquireFlock,
         RecheckHit, RecheckMiss, StartCodegen, PopenFails, CodegenThrows,
         CompileDone, CompileThrows, ReleaseFlock, Goto, Settle
  <2> QED
    BY <2>1
<1>5. ASSUME NEW t \in Thread, ChildStep(t) PROVE FreshInv'
  BY <1>5 DEF ChildStep, ChildGoto, ChildStages, ChildWritesModule,
              ChildWritesMeta, ChildFails
<1>6. ASSUME NEW p \in Process, ClearKernelCache(p) PROVE FreshInv'
  BY <1>6 DEF ClearKernelCache
<1>7. ASSUME NEW p \in Process, Crash(p) PROVE FreshInv'
  BY <1>7 DEF Crash
<1>8. CASE UNCHANGED vars
  BY <1>8 DEF vars
<1> QED
  BY <1>1, <1>2, <1>3, <1>4, <1>5, <1>6, <1>7, <1>8 DEF Next
-----------------------------------------------------------------------------
(* Theorems *)

\* IInv is an invariant of JitCache.
THEOREM Inductive == Spec => []IInv
<1>1. Init => IInv
  BY ProcOfType DEF Init, IInv, TypeInv, TypeOK, KeyInv, LockInv, ChildInv,
       EpochInv, FreshInv, Holds, NoDuplicateBuild, SharedKernel,
       CompileReadsWholeModule, Building, Locked, Points, ChildStates, Entry
<1>2. IInv /\ [Next]_vars => IInv'
  BY TypeStep, LockStep, ChildInvStep, WholeStep, EpochStep, BuildStep,
     SharedStep, FreshStep DEF IInv
<1> QED
  BY <1>1, <1>2, PTL DEF Spec

\* The lock file of KernelFileLock admits one live compile_kernel call per
\* request directory, for any processes, threads, keys and crashes.
THEOREM BuildsSerialised == Spec => []RequestExclusive
<1>1. IInv => RequestExclusive
  BY LockExcludes DEF IInv
<1> QED
  BY <1>1, Inductive, PTL

\* The second look at the table under the lock file keeps a process from
\* building a kernel that it already has.
THEOREM NoWastedBuild == Spec => []NoDuplicateBuild
<1>1. IInv => NoDuplicateBuild
  BY DEF IInv
<1> QED
  BY <1>1, Inductive, PTL

\* Calls of one process for one key get the same kernel until it is cleared,
\* whatever builds, failures and crashes lie between.
THEOREM KernelShared == Spec => []SharedKernel
<1>1. IInv => SharedKernel
  BY DEF IInv
<1> QED
  BY <1>1, Inductive, PTL

\* JitKernel::compile never reads a missing or half written module, also when
\* the code generator of a crashed holder goes on writing.
THEOREM OnlyWholeModules == Spec => []CompileReadsWholeModule
<1>1. IInv => CompileReadsWholeModule
  BY DEF IInv
<1> QED
  BY <1>1, Inductive, PTL
-----------------------------------------------------------------------------
(* Refinement *)

\* The status the memo table sees of a thread.
Seen(t) ==
    CASE pc[t] = "dead" -> "dead"
      [] pc[t] \in {"idle", "unlock"} -> "idle"
      [] OTHER -> "pending"

\* A step that leaves the table, the keys, the results and every status alone
\* is a stuttering step of the memo table.
LEMMA Stutter ==
    ASSUME UNCHANGED <<cache, key, got>>, \A t \in Thread : Seen(t)' = Seen(t)
    PROVE  UNCHANGED Memo!vars
BY DEF Memo!vars, Seen

\* A thread that settles its result answers its caller.
LEMMA SettleAnswers ==
    ASSUME TypeInv, NEW t \in Thread, NEW g, Settle(t, g),
           pc[t] \notin {"idle", "unlock", "dead"},
           pc'[t] \in {"idle", "unlock"},
           pc' = [pc EXCEPT ![t] = pc'[t]]
    PROVE  Memo!Answer(t, g)
<1>1. Seen(t) = "pending" /\ Seen(t)' = "idle"
  BY DEF Seen
<1>2. \A u \in Thread : u # t => Seen(u)' = Seen(u)
  BY DEF Seen, TypeInv, TypeOK
<1>3. [u \in Thread |-> Seen(u)]' =
        [[u \in Thread |-> Seen(u)] EXCEPT ![t] = "idle"]
  BY <1>1, <1>2
<1> QED
  BY <1>1, <1>3 DEF Memo!Answer, Settle, Seen

\* Every step of a thread is a step of the memo table or leaves it alone.
LEMMA ThreadRefines ==
    ASSUME IInv, NEW t \in Thread, ThreadStep(t)
    PROVE  \/ Memo!Throw(t) \/ Memo!ReturnKnown(t) \/ Memo!ReturnNew(t)
           \/ UNCHANGED Memo!vars
<1> USE ProcOfType DEF IInv, TypeInv, TypeOK, Entry, Goto
<1>1. CASE FindHit(t) \/ RecheckHit(t)
  <2>1. /\ Settle(t, Entry(t)) /\ Entry(t) # 0 /\ cache' = cache
        /\ pc[t] \in {"find", "recheck"} /\ pc'[t] \in {"idle", "unlock"}
        /\ pc' = [pc EXCEPT ![t] = pc'[t]]
    BY <1>1 DEF FindHit, RecheckHit
  <2>2. Memo!Answer(t, Entry(t))
    <3>1. PICK g \in Nat : g = Entry(t)
      BY SMTT(20), <1>1 DEF FindHit, RecheckHit, KeyInv
    <3>2. Settle(t, g)
      BY <2>1, <3>1 DEF Settle
    <3>3. Memo!Answer(t, g)
      BY <2>1, <3>2, SettleAnswers
    <3> QED
      BY <3>1, <3>3 DEF Memo!Answer
  <2> QED
    BY <2>1, <2>2 DEF Memo!ReturnKnown, Memo!Answer
<1>2. CASE LockFails(t) \/ CodegenThrows(t) \/ PopenFails(t) \/ CompileThrows(t)
  <2>1. /\ Settle(t, 0) /\ cache' = cache
        /\ pc[t] \notin {"idle", "unlock", "dead"}
        /\ pc'[t] \in {"idle", "unlock"}
        /\ pc' = [pc EXCEPT ![t] = pc'[t]]
    BY <1>2 DEF LockFails, CodegenThrows, PopenFails, CompileThrows, memVars
  <2>2. Memo!Answer(t, 0)
    BY <2>1, SettleAnswers
  <2> QED
    BY <2>1, <2>2 DEF Memo!Throw
<1>3. CASE Publish(t)
  <2>1. /\ pc[t] = "publish" /\ pc'[t] = "unlock"
        /\ pc' = [pc EXCEPT ![t] = pc'[t]]
    BY <1>3 DEF Publish
  <2>2. Entry(t) = 0
    BY <2>1 DEF NoDuplicateBuild, Building
  <2>3. /\ Settle(t, kernel[t])
        /\ cache' = [cache EXCEPT ![ProcOf[t]][key[t]] = kernel[t]]
    BY <1>3, <2>2 DEF Publish
  <2>4. Memo!Answer(t, kernel[t])
    <3>1. PICK g \in Nat : g = kernel[t]
      OBVIOUS
    <3>2. Settle(t, g)
      BY <2>3, <3>1 DEF Settle
    <3>3. Memo!Answer(t, g)
      BY <2>1, <3>2, SettleAnswers
    <3> QED
      BY <3>1, <3>3 DEF Memo!Answer
  <2>5. /\ kernel[t] \in Nat \ {0}
        /\ \A k \in Key : cache[ProcOf[t]][k] # kernel[t]
    BY <2>1 DEF FreshInv, Holds
  <2>6. got'[t] = kernel[t]
    BY <2>3 DEF Settle
  <2> QED
    BY <2>2, <2>3, <2>4, <2>5, <2>6 DEF Memo!ReturnNew, Memo!Answer
<1>4. CASE \/ FindMiss(t) \/ AcquireFlock(t) \/ RecheckMiss(t)
           \/ StartCodegen(t) \/ CodegenDone(t) \/ CompileDone(t)
           \/ ReleaseFlock(t)
  <2>1. /\ UNCHANGED <<cache, key, got>>
        /\ pc' = [pc EXCEPT ![t] = pc'[t]]
        /\ \/ {pc[t], pc'[t]} \subseteq {"idle", "unlock"}
           \/ {pc[t], pc'[t]} \cap {"idle", "unlock", "dead"} = {}
    BY <1>4 DEF FindMiss, AcquireFlock, RecheckMiss, StartCodegen,
         CodegenDone, CompileDone, ReleaseFlock, callVars, memVars
  <2>2. \A u \in Thread : Seen(u)' = Seen(u)
    BY <2>1 DEF Seen
  <2> QED
    BY <2>1, <2>2, Stutter
<1> QED
  BY <1>1, <1>2, <1>3, <1>4 DEF ThreadStep

\* compile_kernel implements the memo table of KernelMemo: whatever the
\* threads, code generators, crashes and clears do, callers see each key
\* built once between two clears and shared from then on.
THEOREM MemoRefinement == Spec => ImplementsMemo
<1>1. Init => Memo!Init
  BY DEF Init, Memo!Init
<1>2. IInv /\ [Next]_vars => [Memo!Next]_(Memo!vars)
  <2> SUFFICES ASSUME IInv, [Next]_vars PROVE [Memo!Next]_(Memo!vars)
    OBVIOUS
  <2>1. ASSUME NEW t \in Thread, NEW k \in Key, Call(t, k)
        PROVE  Memo!Request(t, k)
    <3>1. /\ pc[t] = "idle" /\ pc' = [pc EXCEPT ![t] = "find"]
          /\ key' = [key EXCEPT ![t] = k] /\ cache' = cache /\ got' = got
      BY <2>1 DEF Call, Goto, memVars
    <3>2. /\ Seen(t) = "idle" /\ Seen(t)' = "pending"
          /\ \A u \in Thread : u # t => Seen(u)' = Seen(u)
      BY <3>1 DEF Seen, IInv, TypeInv, TypeOK
    <3>3. [u \in Thread |-> Seen(u)]' =
            [[u \in Thread |-> Seen(u)] EXCEPT ![t] = "pending"]
      BY <3>2
    <3> QED
      BY <3>1, <3>2, <3>3 DEF Memo!Request, Seen
  <2>2. ASSUME NEW t \in Thread, ThreadStep(t) PROVE [Memo!Next]_(Memo!vars)
    BY <2>2, ThreadRefines DEF Memo!Next
  <2>3. ASSUME NEW t \in Thread, ChildStep(t) PROVE UNCHANGED Memo!vars
    BY <2>3, Stutter DEF ChildStep, ChildStages, ChildWritesModule,
         ChildWritesMeta, ChildFails, callVars, memVars, Seen
  <2>4. ASSUME NEW p \in Process, ClearKernelCache(p) PROVE Memo!Forget(p)
    BY <2>4 DEF ClearKernelCache, Memo!Forget, callVars
  <2>5. ASSUME NEW p \in Process, Crash(p) PROVE Memo!Die(p)
    <3>1. /\ pc' = [t \in Thread |-> IF ProcOf[t] = p THEN "dead" ELSE pc[t]]
          /\ UNCHANGED <<cache, key, got>>
      BY <2>5 DEF Crash, callVars, memVars
    <3>2. \A t \in Thread :
             Seen(t)' = IF ProcOf[t] = p THEN "dead" ELSE Seen(t)
      BY <3>1 DEF Seen
    <3>3. [t \in Thread |-> Seen(t)]' =
            [t \in Thread |-> IF ProcOf[t] = p THEN "dead" ELSE
                                [u \in Thread |-> Seen(u)][t]]
      BY <3>2
    <3> QED
      BY <3>1, <3>3 DEF Memo!Die, Seen
  <2>6. CASE UNCHANGED vars
    BY <2>6, Stutter DEF vars, callVars, memVars, Seen
  <2> QED
    BY <2>1, <2>2, <2>3, <2>4, <2>5, <2>6 DEF Next, Memo!Next
<1> QED
  BY <1>1, <1>2, Inductive, PTL DEF Spec, ImplementsMemo, Memo!Spec
=============================================================================
