---------------------------- MODULE PlanApiProofs ----------------------------
(***************************************************************************)
(* Proofs about PlanApi for any threads, handles, streams, buffers and      *)
(* requests: the mutex protocol of the calls on a handle, the wholeness of  *)
(* the plans behind handles, the ownership of SiP executors and, from       *)
(* these, what an execution runs on.                                       *)
(***************************************************************************)
EXTENDS PlanApi, TLAPS

Dirs == {"forward", "inverse"}
Descs == {Descriptor(r) : r \in Requests}
Extents == {InputExtents(d.n, d.type) : d \in Descs} \cup {OutputExtents(d.n, d.type) : d \in Descs}
Distances == {d.idist : d \in Descs} \cup {d.odist : d \in Descs} \cup {Volume(e) : e \in Extents}
Pointers == Buffers \cup {Null}

Executors ==
  [dir : Dirs, stream : Streams, in : Pointers, out : Pointers, input : Extents, output : Extents]
Runs ==
  [engine : Kinds \cup {"sip", Null}, dir : Dirs, stream : Streams, in : Pointers, out : Pointers,
   idist : Distances, odist : Distances]

(* The programs of the calls.                                              *)
ValidateCalls == [op : {"plan"}, h : Handles, pc : {"validate"}, req : Requests]
BuildCalls ==
  [op : {"plan"}, h : Handles, pc : {"axis", "compile", "sip", "publish"}, plan : Plans,
   axis : Nat, attempt : {"lookup", "other", "rader", "bluestein"}, planned : SUBSET Nat]
ExecCalls ==
  [op : {"exec"}, h : Handles, pc : {"lock", "work", "done"}, type : EntryTypes,
   in : Pointers, out : Pointers, dir : Dirs, ran : Runs \cup {Null}]
StreamCalls == [op : {"stream"}, h : Handles, pc : {"lock", "work"}, stream : Streams]
DescribeCalls == [op : {"describe"}, h : Handles, pc : {"lock", "work"}]
DestroyCalls == [op : {"destroy"}, h : Handles, pc : {"lock", "work", "delete"}]
Calls ==
  {Idle} \cup ValidateCalls \cup BuildCalls \cup ExecCalls \cup StreamCalls \cup DescribeCalls
         \cup DestroyCalls

TypeInv ==
  /\ TypeOK
  /\ call \in [Threads -> Calls]
  /\ sips \in [DOMAIN sips -> Executors]

(* The holder of a mutex is the call at work; a creating call is alone with *)
(* its handle; a destroying call waits for the others and is then alone.   *)
Holds(t, h) == On(t, h) /\ call[t].pc \in {"work", "done"}
Placed(t) == Busy(t) =>
  /\ call[t].op = "plan" => slot[call[t].h] = Null /\ \A u \in Threads \ {t} : ~On(u, call[t].h)
  /\ call[t].op # "plan" => slot[call[t].h] # Null
  /\ call[t].op = "destroy" =>
       \A u \in Threads \ {t} : On(u, call[t].h) =>
         /\ call[t].pc = "lock" /\ call[u].op \notin {"plan", "destroy"}
         /\ call[u].pc \in {"work", "done"}
ProtocolInv ==
  /\ \A t \in Threads, h \in Handles : lock[h] = t <=> Holds(t, h)
  /\ \A t \in Threads : Placed(t)

Building(t) == call[t].op = "plan" /\ call[t].pc # "validate"

(* A plan has the executables of its type, no others, and the distances of  *)
(* the creating call; its SiP executors are made for its descriptor and     *)
(* directions, and run on stream s.                                        *)
Whole(p) == Compiled(p) = Directions(p.desc.type)
Dense(d) == /\ d.idist = Volume(InputExtents(d.n, d.type))
            /\ d.odist = Volume(OutputExtents(d.n, d.type))
Sound(d) == ~d.many \/ Len(d.n) # 1 => Dense(d)
Fitting(p) == \A d \in Dirs : p.sip[d] # Null =>
  /\ sips[p.sip[d]].dir = d
  /\ sips[p.sip[d]].input = InputExtents(p.desc.n, p.desc.type)
  /\ sips[p.sip[d]].output = OutputExtents(p.desc.n, p.desc.type)
Streamed(p, s) == p.stream = s /\ \A d \in Dirs : p.sip[d] # Null => sips[p.sip[d]].stream = s
Enabled(p) == p.sipEnabled => Dense(p.desc) /\ \A d \in Directions(p.desc.type) : p.sip[d] # Null
Quiet(p) == ~p.sipEnabled => p.sip = NoExec

(* Of a plan behind a handle the text is made once: before, no address was  *)
(* given away.                                                             *)
Published(h) ==
  /\ slot[h] = Null => given[h] = {}
  /\ slot[h] # Null =>
       /\ Whole(slot[h]) /\ Sound(slot[h].desc)
       /\ Fitting(slot[h]) /\ Enabled(slot[h]) /\ Quiet(slot[h])
       /\ wanted[h] # Null => Streamed(slot[h], wanted[h])
       /\ given[h] \subseteq {slot[h].text} \ {0}
Formed(t) == Building(t) =>
  LET p == call[t].plan
  IN  /\ Sound(p.desc) /\ p.text = 0
      /\ Fitting(p) /\ Streamed(p, DefaultStream) /\ Enabled(p)
      /\ call[t].pc \in {"sip", "publish"} => Whole(p)
      /\ call[t].pc = "publish" => Quiet(p)
      /\ call[t].pc # "publish" => ~p.sipEnabled
      /\ call[t].pc \in {"axis", "compile"} => p.sip = NoExec
      /\ call[t].pc = "sip" => /\ Directions(p.desc.type) \ SipCreated(p) # {}
                               /\ \/ p.sip = NoExec
                                  \/ env.sip \in {"auto", "sip"} /\ NpuSipSupports(p.desc)
PlanInv == (\A h \in Handles : Published(h)) /\ (\A t \in Threads : Formed(t))

(* Every executor has one owner, a plan behind a handle or one in the making. *)
Held(h) == IF slot[h] = Null THEN {} ELSE Owned(slot[h])
Making(t) == IF Building(t) THEN Owned(call[t].plan) ELSE {}
OwnerInv ==
  /\ \A h \in Handles : Held(h) \subseteq DOMAIN sips
  /\ \A t \in Threads : Making(t) \subseteq DOMAIN sips
  /\ \A i \in DOMAIN sips : (\E h \in Handles : i \in Held(h)) \/ (\E t \in Threads : i \in Making(t))
  /\ \A g, h \in Handles : g # h => Held(g) \cap Held(h) = {}
  /\ \A t, u \in Threads : t # u => Making(t) \cap Making(u) = {}
  /\ \A h \in Handles, t \in Threads : Held(h) \cap Making(t) = {}

(* What an execution did, once it has run.                                 *)
Executed(t) ==
  LET c == call[t]
      d == slot[c.h].desc
  IN  /\ c.ran.engine # Null /\ c.ran.dir = c.dir
      /\ c.ran.in = c.in /\ c.ran.out = c.out
      /\ wanted[c.h] # Null => c.ran.stream = wanted[c.h]
      /\ c.ran.idist = IF d.many THEN d.idist ELSE Volume(InputExtents(d.n, d.type))
      /\ c.ran.odist = IF d.many THEN d.odist ELSE Volume(OutputExtents(d.n, d.type))
ExecInv ==
  \A t \in Threads : call[t].op = "exec" =>
    /\ slot[call[t].h].desc.type = call[t].type
    /\ call[t].dir \in Directions(call[t].type)
    /\ call[t].pc # "done" => call[t].ran = Null
    /\ call[t].pc = "done" /\ call[t].ran # Null => Executed(t)

IInv == TypeInv /\ ProtocolInv /\ PlanInv /\ OwnerInv /\ ExecInv

-----------------------------------------------------------------------------
(* Records.                                                                *)

LEMMA CallFields ==
  ASSUME NEW c \in Calls
  PROVE  /\ c.op # "idle" => c.h \in Handles
         /\ c.op = "idle" <=> c = Idle
         /\ c.op \in {"idle", "plan", "exec", "stream", "describe", "destroy"}
         /\ c.op = "plan" /\ c.pc = "validate" => c \in ValidateCalls
         /\ c.op = "plan" /\ c.pc # "validate" => c \in BuildCalls
         /\ c.op = "exec" => c \in ExecCalls
         /\ c.op = "stream" => c \in StreamCalls
         /\ c.op = "describe" => c \in DescribeCalls
         /\ c.op = "destroy" => c \in DestroyCalls
BY DEF Calls, Idle, ValidateCalls, BuildCalls, ExecCalls, StreamCalls, DescribeCalls, DestroyCalls

(* A step of a thread touches no other thread's call.                      *)
LEMMA OtherCalls ==
  ASSUME call \in [Threads -> Calls], NEW t \in Threads, Call(t) \/ Proceed(t)
  PROVE  /\ \A u \in Threads \ {t} : call'[u] = call[u]
         /\ call' = [u \in Threads |-> call'[u]]
         /\ Call(t) => call[t].op = "idle"
         /\ Proceed(t) => call[t].op # "idle"
<1> DEFINE Kept == /\ \A u \in Threads \ {t} : call'[u] = call[u]
                   /\ call' = [u \in Threads |-> call'[u]]
<1>1. Call(t) => Kept /\ call[t].op = "idle"
  BY ZenonT(40)
  DEF Call, CallPlan, CallExec, CallSetStream, CallDescribe, CallDestroy, Enter, Busy
<1>2. Proceed(t) => call[t].op # "idle"
  BY DEF Proceed, Validate, PlanAxis, Compile, ConfigureNpuSipExecution, Publish, Lock, Execute,
         LeaveExec, SetStream, Describe, MarkDestroyed, Delete, At, Busy
<1>3. Return(t) => Kept
  BY DEF Return
<1>4. \A x : Goto(t, x) => Kept
  BY DEF Goto
<1>5. ASSUME Validate(t) PROVE Kept
  BY <1>3, <1>5 DEF Validate
<1>6. ASSUME PlanAxis(t) PROVE Kept
  <2>1. \A k, x : AfterAxis(t, k, x) => Kept
    BY DEF AfterAxis
  <2> QED BY <1>3, <1>6, <2>1 DEF PlanAxis, Fail
<1>7. ASSUME Compile(t) PROVE Kept
  BY <1>3, <1>7 DEF Compile, Fail
<1>8. ASSUME ConfigureNpuSipExecution(t) PROVE Kept
  BY <1>4, <1>3, <1>8 DEF ConfigureNpuSipExecution, Fail
<1>9. ASSUME Publish(t) \/ LeaveExec(t) \/ SetStream(t) \/ Describe(t) \/ Delete(t) PROVE Kept
  <2>1. Return(t)
    BY <1>9 DEF Publish, LeaveExec, SetStream, Describe, Delete
  <2> QED BY <1>3, <2>1
<1>10. ASSUME Lock(t) \/ MarkDestroyed(t) PROVE Kept
  BY <1>4, <1>10 DEF Lock, MarkDestroyed
<1>11. ASSUME Execute(t) PROVE Kept
  <2>1. ASSUME SipExecute(t) PROVE Kept
    BY <1>4, <2>1 DEF SipExecute
  <2>2. ASSUME RawExecute(t) PROVE Kept
    BY <2>2 DEF RawExecute
  <2> QED BY <1>11, <2>1, <2>2 DEF Execute
<1> HIDE DEF Kept
<1>12. Proceed(t) => Kept
  BY <1>5, <1>6, <1>7, <1>8, <1>9, <1>10, <1>11 DEF Proceed
<1> QED BY <1>1, <1>2, <1>12 DEF Kept

-----------------------------------------------------------------------------
(* Types.                                                                  *)

LEMMA FreshPlanType ==
  ASSUME NEW r \in Requests
  PROVE  FreshPlan(Descriptor(r)) \in Plans
<1>1. Descriptor(r) \in {Descriptor(q) : q \in Requests}
  OBVIOUS
<1> HIDE DEF Descriptor
<1> QED BY <1>1, PlanApiAssumption DEF FreshPlan, Plans, NoExec, Kinds

(* Releasing a plan removes its executors and keeps the others.            *)
LEMMA Releasing ==
  ASSUME TypeInv, NEW p, Release(p)
  PROVE  /\ DOMAIN sips' = DOMAIN sips \ Owned(p)
         /\ \A i \in DOMAIN sips' : sips'[i] = sips[i]
         /\ sips' \in [DOMAIN sips' -> Executors]
BY DEF Release, TypeInv

LEMMA DescriptorParts ==
  ASSUME NEW d \in Descs
  PROVE  /\ InputExtents(d.n, d.type) \in Extents /\ OutputExtents(d.n, d.type) \in Extents
         /\ d.idist \in Distances /\ d.odist \in Distances
BY DEF Extents, Distances

LEMMA VolumeType ==
  ASSUME NEW e \in Extents
  PROVE  Volume(e) \in Distances
BY DEF Distances

(* A call under the mutex whose plan has SiP executors finds that of its    *)
(* direction.                                                              *)
LEMMA SipThere ==
  ASSUME IInv, NEW t \in Threads, call[t].op = "exec", slot[call[t].h].sipEnabled
  PROVE  LET p == slot[call[t].h]
             id == p.sip[call[t].dir]
         IN  p \in Plans /\ Dense(p.desc) /\ id # Null /\ id \in Owned(p) /\ id \in DOMAIN sips
<1>1. call[t] \in Calls
  BY DEF IInv, TypeInv
<1>2. call[t].h \in Handles /\ call[t].dir \in Dirs
  BY <1>1, CallFields DEF ExecCalls
<1> DEFINE p == slot[call[t].h]
<1>3. p # Null
  BY DEF IInv, ProtocolInv, Placed, Busy
<1>4. p \in Plans
  BY <1>2, <1>3 DEF IInv, TypeInv, TypeOK
<1>5. Enabled(p)
  BY <1>2, <1>3 DEF IInv, PlanInv, Published
<1>6. call[t].dir \in Directions(p.desc.type)
  BY DEF IInv, ExecInv
<1>7. p.sip[call[t].dir] # Null /\ Dense(p.desc)
  BY <1>5, <1>6 DEF Enabled
<1>8. p.sip[call[t].dir] \in Owned(p)
  BY <1>2, <1>7 DEF Owned, Dirs
<1>9. p.sip[call[t].dir] \in Held(call[t].h)
  BY <1>3, <1>8 DEF Held
<1>10. p.sip[call[t].dir] \in DOMAIN sips
  BY <1>2, <1>9 DEF IInv, OwnerInv
<1> QED BY <1>4, <1>7, <1>8, <1>10

(* Binding keeps what an executor was made for; it is bound to the pointers *)
(* of the call or to none.                                                 *)
Bound(x, i, o, y) ==
  /\ y \in Executors /\ y.dir = x.dir /\ y.stream = x.stream
  /\ y.input = x.input /\ y.output = x.output
  /\ y.in # Null => y.in = i /\ y.out = o
LEMMA Binding ==
  ASSUME NEW x, NEW i, NEW o, NEW y, x \in Executors, i \in Pointers, o \in Pointers,
         y \in Bind(x, i, o)
  PROVE  Bound(x, i, o, y)
BY DEF Bind, Executors, Pointers, Bound

(* One step keeps the types: what the step makes of the call of its thread, *)
(* of the slot and of the executors.                                       *)
LEMMA TypeStep ==
  ASSUME IInv, NEW t \in Threads, Call(t) \/ Proceed(t), UNCHANGED env
  PROVE  TypeInv'
<1> DEFINE Kept == UNCHANGED <<slot, lock, wanted, given>>
           Same == UNCHANGED sips
           Made == call'[t] \in Calls
           Fewer == DOMAIN sips' \subseteq SipIds /\ sips' \in [DOMAIN sips' -> Executors]
           Tables == /\ slot' \in [Handles -> Plans \cup {Null}]
                     /\ lock' \in [Handles -> Threads \cup {Null}]
                     /\ wanted' \in [Handles -> Streams \cup {Null}]
                     /\ given' \in [Handles -> SUBSET Nat]
           Typed == Made /\ Fewer /\ Tables
<1>1. TypeInv /\ call \in [Threads -> Calls] /\ call[t] \in Calls
  BY DEF IInv, TypeInv
<1>2. /\ slot \in [Handles -> Plans \cup {Null}] /\ lock \in [Handles -> Threads \cup {Null}]
      /\ wanted \in [Handles -> Streams \cup {Null}] /\ given \in [Handles -> SUBSET Nat]
      /\ DOMAIN sips \subseteq SipIds /\ sips \in [DOMAIN sips -> Executors]
  BY DEF IInv, TypeInv, TypeOK
<1>3. Kept => Tables
  BY <1>2
<1>4. Same => Fewer
  BY <1>2
<1>5. \A p : Release(p) => Fewer
  BY <1>1, <1>2, Releasing
<1>6. Return(t) => Made
  BY <1>1 DEF Return, Calls
<1>7. Fail(t) => Typed
  BY <1>3, <1>5, <1>6 DEF Fail
<1>8. Call(t) => Kept /\ Same
  BY DEF Call, CallPlan, CallExec, CallSetStream, CallDescribe, CallDestroy, Enter
<1>9. ASSUME Call(t) PROVE Made
  <2>1. CASE CallPlan(t)
    BY <1>1, <2>1 DEF CallPlan, Calls, ValidateCalls
  <2>2. CASE CallExec(t)
    BY <1>1, <2>2, PlanApiAssumption DEF CallExec, Enter, Calls, ExecCalls, Pointers, Dirs
  <2>3. CASE CallSetStream(t)
    BY <1>1, <2>3 DEF CallSetStream, Enter, Calls, StreamCalls
  <2>4. CASE CallDescribe(t)
    BY <1>1, <2>4 DEF CallDescribe, Enter, Calls, DescribeCalls
  <2>5. CASE CallDestroy(t)
    BY <1>1, <2>5 DEF CallDestroy, Calls, DestroyCalls
  <2> QED BY <1>9, <2>1, <2>2, <2>3, <2>4, <2>5 DEF Call
<1>10. ASSUME Validate(t) PROVE Typed
  <2>1. call[t] \in ValidateCalls
    BY <1>1, <1>10, CallFields DEF Validate, At
  <2>2. CASE Return(t)
    BY <1>3, <1>4, <1>6, <1>10, <2>2 DEF Validate
  <2>3. CASE ~Return(t)
    <3>1. FreshPlan(Descriptor(call[t].req)) \in Plans
      BY <2>1, FreshPlanType DEF ValidateCalls
    <3>2. call'[t] \in BuildCalls
      BY <1>1, <1>10, <2>1, <2>3, <3>1 DEF Validate, ValidateCalls, BuildCalls
    <3> QED BY <1>3, <1>4, <1>10, <3>2 DEF Validate, Calls
  <2> QED BY <2>2, <2>3
<1>11. ASSUME PlanAxis(t) PROVE Typed
  <2>1. call[t] \in BuildCalls
    BY <1>1, <1>11, CallFields DEF PlanAxis, At
  <2>2. CASE Fail(t)
    BY <1>7, <2>2
  <2>3. CASE ~Fail(t)
    <3>1. Kept /\ Same
      BY <1>11, <2>3 DEF PlanAxis
    <3>2. call'[t] \in BuildCalls
      BY <1>1, <1>11, <2>1, <2>3 DEF PlanAxis, AfterAxis, BuildCalls, NextAttempt
    <3> QED BY <1>3, <1>4, <3>1, <3>2 DEF Calls
  <2> QED BY <2>2, <2>3
<1>12. ASSUME Compile(t) PROVE Typed
  <2>1. call[t] \in BuildCalls
    BY <1>1, <1>12, CallFields DEF Compile, At
  <2>2. CASE Fail(t)
    BY <1>7, <2>2
  <2>3. CASE ~Fail(t)
    <3>1. Kept /\ Same
      BY <1>12, <2>3 DEF Compile
    <3>2. call'[t] \in BuildCalls
      BY <1>1, <1>12, <2>1, <2>3 DEF Compile, BuildCalls, Plans, NextDirection, Kinds
    <3> QED BY <1>3, <1>4, <3>1, <3>2 DEF Calls
  <2> QED BY <2>2, <2>3
<1>13. ASSUME ConfigureNpuSipExecution(t) PROVE Typed
  <2>1. call[t] \in BuildCalls
    BY <1>1, <1>13, CallFields DEF ConfigureNpuSipExecution, At
  <2> DEFINE p == call[t].plan
             left == Directions(p.desc.type) \ SipCreated(p)
             dir == IF "forward" \in left THEN "forward" ELSE "inverse"
             made == [p EXCEPT !.sip[dir] = FreshSip, !.sipEnabled = (left = {dir})]
  <2>2. p \in Plans /\ p.desc \in Descs /\ dir \in Dirs
    BY <2>1 DEF BuildCalls, Plans, Descs, Dirs
  <2>3. CASE Fail(t)
    BY <1>7, <2>3
  <2>4. CASE Goto(t, "publish") /\ UNCHANGED <<slot, lock, sips, wanted, given>>
    <3>1. call'[t] \in BuildCalls
      BY <1>1, <2>1, <2>4 DEF Goto, BuildCalls
    <3> QED BY <1>3, <1>4, <2>4, <3>1 DEF Calls
  <2>5. CASE /\ SipIds \ DOMAIN sips # {}
             /\ call' = [call EXCEPT ![t].plan = made,
                                     ![t].pc = IF left = {dir} THEN "publish" ELSE "sip"]
             /\ sips' = [i \in DOMAIN sips \cup {FreshSip} |->
                           IF i = FreshSip THEN Executor(p.desc, dir) ELSE sips[i]]
             /\ UNCHANGED <<slot, lock, wanted, given>>
    <3>1. FreshSip \in SipIds
      BY <2>5 DEF FreshSip
    <3>2. made \in Plans
      BY <2>2, <3>1 DEF Plans, Dirs
    <3>3. call'[t] \in BuildCalls
      BY <1>1, <2>1, <2>5, <3>2 DEF BuildCalls
    <3>4. Executor(p.desc, dir) \in Executors
      BY <2>2, DescriptorParts, PlanApiAssumption DEF Executor, Executors, Pointers
    <3>5. Fewer
      BY <1>2, <2>5, <3>1, <3>4
    <3> QED BY <1>3, <2>5, <3>3, <3>5 DEF Calls
  <2>6. CASE /\ Release(p)
             /\ call' = [call EXCEPT ![t].plan.sip = NoExec, ![t].pc = "publish"]
             /\ UNCHANGED <<slot, lock, wanted, given>>
    <3>1. call'[t] \in BuildCalls
      BY <1>1, <2>1, <2>6 DEF BuildCalls, Plans, NoExec
    <3> QED BY <1>3, <1>5, <2>6, <3>1 DEF Calls
  <2> QED BY <1>13, <2>3, <2>4, <2>5, <2>6 DEF ConfigureNpuSipExecution
<1>14. ASSUME Publish(t) PROVE Typed
  <2>1. call[t] \in BuildCalls
    BY <1>1, <1>14, CallFields DEF Publish, At
  <2>2. call[t].h \in Handles /\ [call[t].plan EXCEPT !.initialized = TRUE] \in Plans
    BY <2>1 DEF BuildCalls, Plans
  <2>3. Tables
    BY <1>2, <1>14, <2>2, PlanApiAssumption DEF Publish
  <2> QED BY <1>4, <1>6, <1>14, <2>3 DEF Publish
<1>15. ASSUME Lock(t) PROVE Typed
  <2>1. call[t].h \in Handles
    BY <1>1, <1>15, CallFields DEF Lock, Busy
  <2>2. Made
    BY <1>1, <1>15 DEF Lock, Goto, Busy, Calls, Idle, ValidateCalls, BuildCalls, ExecCalls, StreamCalls,
                       DescribeCalls, DestroyCalls
  <2> QED BY <1>2, <1>4, <1>15, <2>1, <2>2 DEF Lock
<1>16. ASSUME Execute(t) PROVE Typed
  <2>1. call[t] \in ExecCalls /\ call[t].op = "exec" /\ call[t].op # "idle"
    BY <1>1, <1>16, CallFields DEF Execute, At
  <2> DEFINE c == call[t]
             p == slot[c.h]
             id == p.sip[c.dir]
  <2>2. c.h \in Handles /\ c.in \in Pointers /\ c.out \in Pointers /\ c.dir \in Dirs
    BY <2>1 DEF ExecCalls
  <2>3. p \in Plans
    BY <1>2, <2>1, <2>2 DEF IInv, ProtocolInv, Placed, Busy
  <2>4. CASE SipExecute(t)
    <3>1. id \in DOMAIN sips
      BY <2>1, <2>4, SipThere DEF SipExecute
    <3>2. PICK x \in Bind(sips[id], c.in, c.out) :
            /\ sips' = [sips EXCEPT ![id] = x]
            /\ IF x.in = Null
                 THEN Goto(t, "done")
                 ELSE call' = [call EXCEPT ![t].pc = "done",
                        ![t].ran = [engine |-> "sip", dir |-> x.dir, stream |-> x.stream,
                                    in |-> x.in, out |-> x.out,
                                    idist |-> Volume(x.input), odist |-> Volume(x.output)]]
      BY <2>4 DEF SipExecute
    <3>3. x \in Executors
      <4>1. sips[id] \in Executors
        BY <1>2, <3>1
      <4>2. Bound(sips[id], c.in, c.out, x)
        BY <2>2, <3>2, <4>1, Binding
      <4> QED BY <4>2 DEF Bound
    <3>4. Fewer
      BY <1>2, <3>1, <3>2, <3>3
    <3>5. Volume(x.input) \in Distances /\ Volume(x.output) \in Distances
      BY <3>3, VolumeType DEF Executors
    <3>6. call'[t] \in ExecCalls
      BY <1>1, <2>1, <3>2, <3>3, <3>5 DEF Goto, ExecCalls, Runs, Executors
    <3> QED BY <1>3, <1>16, <3>4, <3>6 DEF Execute, Calls
  <2>5. CASE RawExecute(t)
    <3> DEFINE d == p.desc
               run == [engine |-> p.exec[c.dir], dir |-> c.dir, stream |-> p.stream,
                       in |-> c.in, out |-> c.out,
                       idist |-> IF Len(d.n) = 1 THEN d.idist ELSE Volume(InputExtents(d.n, d.type)),
                       odist |-> IF Len(d.n) = 1 THEN d.odist ELSE Volume(OutputExtents(d.n, d.type))]
    <3>1. d \in Descs
      BY <2>3 DEF Plans, Descs
    <3>2. /\ d.idist \in Distances /\ Volume(InputExtents(d.n, d.type)) \in Distances
          /\ d.odist \in Distances /\ Volume(OutputExtents(d.n, d.type)) \in Distances
      BY <3>1, DescriptorParts, VolumeType
    <3>3. p.exec[c.dir] \in Kinds \cup {Null} /\ p.stream \in Streams
      BY <2>2, <2>3 DEF Plans, Dirs
    <3>4. run \in Runs
      BY <2>2, <3>2, <3>3 DEF Runs
    <3>5. call' = [call EXCEPT ![t].pc = "done", ![t].ran = run]
      BY <2>5 DEF RawExecute
    <3>6. call'[t] \in ExecCalls
      BY <1>1, <2>1, <3>4, <3>5 DEF ExecCalls
    <3> QED BY <1>3, <1>4, <1>16, <2>5, <3>6 DEF Execute, RawExecute, Calls
  <2> QED BY <1>16, <2>4, <2>5 DEF Execute
<1>17. ASSUME LeaveExec(t) PROVE Typed
  <2>1. Tables
    BY <1>2, <1>17 DEF LeaveExec, Unlock
  <2> QED BY <1>4, <1>6, <1>17, <2>1 DEF LeaveExec
<1>18. ASSUME SetStream(t) PROVE Typed
  <2>1. call[t] \in StreamCalls /\ call[t].op # "plan" /\ Busy(t)
    BY <1>1, <1>18, CallFields DEF SetStream, At, Busy
  <2>2. call[t].h \in Handles /\ call[t].stream \in Streams
    BY <2>1 DEF StreamCalls
  <2>3. slot[call[t].h] \in Plans
    BY <1>2, <2>1, <2>2 DEF IInv, ProtocolInv, Placed
  <2>4. [slot[call[t].h] EXCEPT !.stream = call[t].stream] \in Plans
    BY <2>2, <2>3 DEF Plans
  <2>5. Tables
    BY <1>2, <1>18, <2>2, <2>4 DEF SetStream, Unlock
  <2>6. Fewer
    BY <1>2, <1>18, <2>2 DEF SetStream, Executors
  <2> QED BY <1>6, <1>18, <2>5, <2>6 DEF SetStream
<1>19. ASSUME Describe(t) PROVE Typed
  <2>1. call[t] \in DescribeCalls /\ call[t].op # "plan" /\ Busy(t)
    BY <1>1, <1>19, CallFields DEF Describe, At, Busy
  <2>2. call[t].h \in Handles
    BY <2>1 DEF DescribeCalls
  <2>3. slot[call[t].h] \in Plans
    BY <1>2, <2>1, <2>2 DEF IInv, ProtocolInv, Placed
  <2>4. /\ Text(slot[call[t].h]) \in Nat
        /\ [slot[call[t].h] EXCEPT !.text = Text(slot[call[t].h])] \in Plans
    BY <2>3 DEF Plans, Text
  <2>5. Tables
    BY <1>2, <1>19, <2>2, <2>4 DEF Describe, Unlock
  <2> QED BY <1>4, <1>6, <1>19, <2>5 DEF Describe
<1>20. ASSUME MarkDestroyed(t) PROVE Typed
  <2>1. call[t] \in DestroyCalls
    BY <1>1, <1>20, CallFields DEF MarkDestroyed, At
  <2>2. call'[t] \in DestroyCalls
    BY <1>1, <1>20, <2>1 DEF MarkDestroyed, Goto, DestroyCalls
  <2>3. Tables
    BY <1>2, <1>20 DEF MarkDestroyed, Unlock
  <2> QED BY <1>4, <1>20, <2>2, <2>3 DEF MarkDestroyed, Calls
<1>21. ASSUME Delete(t) PROVE Typed
  <2>1. Tables
    BY <1>2, <1>21 DEF Delete
  <2> QED BY <1>5, <1>6, <1>21, <2>1 DEF Delete
<1>22. Typed
  <2>1. Call(t) => Typed
    BY <1>3, <1>4, <1>8, <1>9
  <2> HIDE DEF Typed
  <2> QED BY <2>1, <1>10, <1>11, <1>12, <1>13, <1>14, <1>15, <1>16, <1>17, <1>18, <1>19, <1>20, <1>21
          DEF Proceed
<1>23. call' \in [Threads -> Calls]
  <2>1. /\ call' = [u \in Threads |-> call'[u]]
        /\ \A u \in Threads \ {t} : call'[u] = call[u]
    BY <1>1, OtherCalls
  <2> QED BY <1>1, <1>22, <2>1
<1>24. \A u \in Threads : Busy(u)' => call'[u].h \in Handles
  BY <1>23, CallFields DEF Busy
<1> QED BY <1>22, <1>23, <1>24 DEF TypeInv, TypeOK, IInv

-----------------------------------------------------------------------------
(* The mutex protocol.  The other threads stay where they are, and the      *)
(* thread of the step does one of a few things.                            *)

Others(t) == \A u \in Threads \ {t} : call'[u] = call[u]

(* It goes on inside its call, and neither takes nor leaves the mutex.      *)
GoesOn(t) ==
  /\ Busy(t) /\ call'[t].op = call[t].op /\ call'[t].h = call[t].h /\ call[t].op # "destroy"
  /\ call'[t].pc \in {"work", "done"} <=> call[t].pc \in {"work", "done"}
  /\ UNCHANGED <<lock, slot>>
LEMMA GoingOn ==
  ASSUME ProtocolInv, NEW t \in Threads, Others(t), GoesOn(t)
  PROVE  ProtocolInv'
<1>1. \A u \in Threads :
        /\ Busy(u)' <=> Busy(u)
        /\ call'[u].op = call[u].op
        /\ Busy(u) => call'[u].h = call[u].h
        /\ Busy(u) => (call'[u].pc \in {"work", "done"} <=> call[u].pc \in {"work", "done"})
        /\ call[u].op = "destroy" => call'[u].pc = call[u].pc
  BY DEF Others, GoesOn, Busy
<1>2. \A u \in Threads, g \in Handles : (On(u, g)' <=> On(u, g)) /\ (Holds(u, g)' <=> Holds(u, g))
  BY <1>1 DEF On, Holds
<1> QED BY <1>1, <1>2 DEF ProtocolInv, Placed, GoesOn, On

(* It enters a call on a handle.                                           *)
Enters(t) ==
  /\ ~Busy(t) /\ Busy(t)' /\ UNCHANGED <<lock, slot>>
  /\ call'[t].h \in Handles /\ call'[t].pc \notin {"work", "done"}
  /\ \/ /\ call'[t].op = "plan" /\ slot[call'[t].h] = Null
        /\ \A u \in Threads : ~On(u, call'[t].h)
     \/ /\ call'[t].op = "destroy" /\ call'[t].pc = "lock" /\ slot[call'[t].h] # Null
        /\ \A u \in Threads : On(u, call'[t].h) => /\ call[u].pc \in {"work", "done"}
                                                   /\ call[u].op # "destroy"
     \/ /\ call'[t].op \notin {"plan", "destroy"} /\ slot[call'[t].h] # Null
        /\ Usable(call'[t].h)
LEMMA Entering ==
  ASSUME ProtocolInv, NEW t \in Threads, Others(t), Enters(t)
  PROVE  ProtocolInv'
<1>1. \A u \in Threads \ {t}, g \in Handles :
        (On(u, g)' <=> On(u, g)) /\ (Holds(u, g)' <=> Holds(u, g)) /\ (Busy(u)' <=> Busy(u))
  BY DEF Others, On, Holds, Busy
<1>2. \A g \in Handles : ~On(t, g) /\ ~Holds(t, g) /\ ~Holds(t, g)'
  BY DEF Enters, On, Holds
<1>3. \A u \in Threads, g \in Handles : lock'[g] = u <=> Holds(u, g)'
  BY <1>1, <1>2 DEF Enters, ProtocolInv
<1>4. Placed(t)'
  <2>1. \A u \in Threads \ {t} : call'[u] = call[u] /\ Placed(u)
    BY DEF Others, ProtocolInv
  <2>2. \A u \in Threads : On(u, call'[t].h) /\ call[u].op = "plan" => slot[call'[t].h] = Null
    BY DEF ProtocolInv, Placed, On
  <2> QED BY <2>1, <2>2 DEF Enters, Placed, Usable, On, Busy
<1>5. ASSUME NEW u \in Threads \ {t} PROVE Placed(u)'
  <2>1. Placed(u) /\ call'[u] = call[u] /\ slot' = slot
    BY DEF ProtocolInv, Others, Enters
  <2>2. Busy(u) => call'[t].h # call[u].h \/ call[u].op \notin {"plan", "destroy"}
    BY <2>1 DEF Enters, On, Usable, Placed
  <2>3. \A v \in Threads \ {u, t} : call'[v] = call[v]
    BY DEF Others
  <2> QED BY <2>1, <2>2, <2>3 DEF Placed, On, Busy
<1> QED BY <1>3, <1>4, <1>5 DEF ProtocolInv

(* It ends its call: giving the mutex back, or alone with the handle.      *)
Alone(t) == \A u \in Threads \ {t} : ~On(u, call[t].h)
Ends(t) ==
  /\ Busy(t) /\ call[t].h \in Handles /\ ~Busy(t)'
  /\ \A g \in Handles \ {call[t].h} : slot'[g] = slot[g]
  /\ \/ /\ call[t].pc \in {"work", "done"} /\ lock' = [lock EXCEPT ![call[t].h] = Null]
        /\ call[t].op \notin {"plan", "destroy"} /\ slot'[call[t].h] # Null
     \/ /\ call[t].pc \notin {"work", "done"} /\ UNCHANGED lock
        /\ Alone(t)
LEMMA Ending ==
  ASSUME IInv, NEW t \in Threads, Others(t), Ends(t)
  PROVE  ProtocolInv'
<1>1. /\ ProtocolInv /\ lock \in [Handles -> Threads \cup {Null}] /\ Null \notin Threads
      /\ \A u \in Threads : Busy(u) => call[u].h \in Handles
  BY NullApart DEF IInv, TypeInv, TypeOK
<1>2. \A u \in Threads \ {t} : call'[u] = call[u]
  BY DEF Others
<1>3. \A u \in Threads, g \in Handles : lock'[g] = u <=> Holds(u, g)'
  <2>1. \A u \in Threads, g \in Handles : lock[g] = u <=> Holds(u, g)
    BY <1>1 DEF ProtocolInv
  <2>2. \A u \in Threads \ {t}, g \in Handles : Holds(u, g)' <=> Holds(u, g)
    BY <1>2 DEF Holds, On, Busy
  <2>3. \A g \in Handles : ~Holds(t, g)' /\ (g # call[t].h => ~Holds(t, g))
    BY DEF Ends, Holds, On
  <2>4. CASE call[t].pc \in {"work", "done"}
    <3>1. Holds(t, call[t].h) /\ lock[call[t].h] = t
      BY <2>1, <2>4 DEF Ends, Holds, On
    <3> QED BY <1>1, <2>1, <2>2, <2>3, <2>4, <3>1 DEF Ends
  <2>5. CASE call[t].pc \notin {"work", "done"}
    <3>1. \A g \in Handles : ~Holds(t, g) /\ lock' = lock
      BY <2>5 DEF Ends, Holds
    <3> QED BY <2>1, <2>2, <2>3, <3>1
  <2> QED BY <2>4, <2>5
<1>4. Placed(t)'
  BY DEF Ends, Placed
<1>5. ASSUME NEW u \in Threads \ {t} PROVE Placed(u)'
  <2>1. Placed(u) /\ call'[u] = call[u] /\ (Busy(u) => call[u].h \in Handles)
    BY <1>1, <1>2 DEF ProtocolInv
  <2>2. Busy(u) /\ call[u].h = call[t].h => call[u].op # "plan" /\ slot'[call[u].h] # Null
    BY <1>1, <2>1 DEF Ends, Alone, On, Placed
  <2>3. \A v \in Threads : On(v, call[u].h)' => v # t /\ On(v, call[u].h) /\ call'[v] = call[v]
    BY <1>2, <2>1 DEF Ends, On, Busy
  <2>4. Busy(u) /\ call[u].h # call[t].h => slot'[call[u].h] = slot[call[u].h]
    BY <2>1 DEF Ends
  <2> QED BY <1>2, <2>1, <2>2, <2>4 DEF Placed, Ends, On, Busy
<1> QED BY <1>3, <1>4, <1>5 DEF ProtocolInv

(* It takes a mutex that is free.                                          *)
Takes(t) ==
  /\ Busy(t) /\ call[t].op # "plan" /\ call[t].pc = "lock" /\ call[t].h \in Handles
  /\ lock[call[t].h] = Null /\ lock' = [lock EXCEPT ![call[t].h] = t]
  /\ call'[t].op = call[t].op /\ call'[t].h = call[t].h /\ call'[t].pc = "work"
  /\ UNCHANGED slot
(* It gives the mutex of a plan back that only it can see, to delete it.   *)
Marks(t) ==
  /\ call[t].op = "destroy" /\ call[t].pc = "work" /\ call[t].h \in Handles
  /\ lock' = [lock EXCEPT ![call[t].h] = Null]
  /\ call'[t].op = call[t].op /\ call'[t].h = call[t].h /\ call'[t].pc = "delete"
  /\ UNCHANGED slot
LEMMA TakingOrMarking ==
  ASSUME IInv, NEW t \in Threads, Others(t), Takes(t) \/ Marks(t)
  PROVE  ProtocolInv'
<1>1. /\ ProtocolInv /\ lock \in [Handles -> Threads \cup {Null}] /\ Null \notin Threads
      /\ \A u \in Threads : Busy(u) => call[u].h \in Handles
  BY NullApart DEF IInv, TypeInv, TypeOK
<1>2. /\ \A u \in Threads \ {t} : call'[u] = call[u]
      /\ call'[t].op = call[t].op /\ call'[t].h = call[t].h /\ Busy(t) /\ slot' = slot
      /\ call[t].h \in Handles /\ call[t].op # "plan"
  BY DEF Others, Takes, Marks, Busy
<1>3. \A u \in Threads, g \in Handles : On(u, g)' <=> On(u, g)
  BY <1>2 DEF On, Busy
<1>4. \A u \in Threads, g \in Handles : lock'[g] = u <=> Holds(u, g)'
  <2>1. \A u \in Threads, g \in Handles : lock[g] = u <=> Holds(u, g)
    BY <1>1 DEF ProtocolInv
  <2>2. \A u \in Threads \ {t}, g \in Handles : Holds(u, g)' <=> Holds(u, g)
    BY <1>2 DEF Holds, On, Busy
  <2>3. \A g \in Handles \ {call[t].h} : ~Holds(t, g)' /\ ~Holds(t, g)
    BY <1>2 DEF Holds, On
  <2>4. CASE Takes(t)
    BY <1>1, <1>2, <2>1, <2>2, <2>3, <2>4 DEF Takes, Holds, On, Busy
  <2>5. CASE Marks(t)
    <3>1. Holds(t, call[t].h) /\ ~Holds(t, call[t].h)'
      BY <1>2, <2>5 DEF Marks, Holds, On
    <3> QED BY <1>1, <1>2, <2>1, <2>2, <2>3, <2>5, <3>1 DEF Marks
  <2> QED BY <2>4, <2>5
<1>5. call[t].op = "destroy" => Alone(t)
  <2>1. \A u \in Threads \ {t} :
          call[t].op = "destroy" /\ On(u, call[t].h) => call[t].pc = "lock" /\ lock[call[t].h] = u
    BY <1>1, <1>2 DEF ProtocolInv, Placed, Holds, Busy
  <2> QED BY <1>1, <2>1 DEF Takes, Marks, Alone
<1>6. Placed(t)'
  BY <1>1, <1>2, <1>5 DEF Placed, ProtocolInv, Alone, On, Busy
<1>7. ASSUME NEW u \in Threads \ {t} PROVE Placed(u)'
  <2>1. Placed(u) /\ call'[u] = call[u] /\ (Busy(u) => call[u].h \in Handles)
    BY <1>1, <1>2 DEF ProtocolInv
  <2>2. Busy(u) /\ call[u].op = "destroy" => call[u].h # call[t].h
    <3>1. call[t].op = "destroy" => Alone(t)
      BY <1>5
    <3>2. Busy(u) /\ call[u].op = "destroy" /\ On(t, call[u].h) =>
            call[t].op # "destroy" /\ call[t].pc \in {"work", "done"}
      BY <2>1 DEF Placed
    <3> QED BY <1>2, <3>1, <3>2 DEF On, Takes, Marks
  <2> QED BY <1>2, <2>1, <2>2 DEF Placed, On, Busy
<1> QED BY <1>4, <1>6, <1>7 DEF ProtocolInv

LEMMA StepKinds ==
  ASSUME IInv, NEW t \in Threads, Call(t) \/ Proceed(t)
  PROVE  /\ Others(t) /\ (Call(t) => Enters(t)) /\ (Lock(t) => Takes(t))
         /\ (MarkDestroyed(t) => Marks(t)) /\ (Execute(t) => GoesOn(t))
         /\ Validate(t) \/ PlanAxis(t) \/ Compile(t) \/ ConfigureNpuSipExecution(t) =>
              Ends(t) \/ GoesOn(t)
         /\ Publish(t) \/ LeaveExec(t) \/ SetStream(t) \/ Describe(t) \/ Delete(t) => Ends(t)
<1>1. call \in [Threads -> Calls] /\ call[t] \in Calls /\ (Busy(t) => call[t].h \in Handles)
  BY CallFields DEF IInv, TypeInv, Busy
<1>2. Placed(t) /\ slot \in [Handles -> Plans \cup {Null}] /\ Null \notin Plans
  BY NullApart DEF IInv, ProtocolInv, TypeInv, TypeOK
<1>3. Others(t) /\ call' = [u \in Threads |-> call'[u]] /\ (Call(t) => ~Busy(t)) /\ (Proceed(t) => Busy(t))
  BY <1>1, OtherCalls DEF Others, Busy
<1>4. Return(t) => ~Busy(t)'
  BY <1>1 DEF Return, Idle, Busy
<1>5. Fail(t) /\ call[t].op = "plan" /\ call[t].pc \notin {"work", "done"} => Ends(t)
  BY <1>1, <1>2, <1>4 DEF Fail, Ends, Placed, Alone, Busy
<1>6. ASSUME Call(t) PROVE Enters(t)
  <2>1. CASE CallPlan(t)
    BY <1>1, <2>1 DEF CallPlan, Enters, Busy
  <2>2. ASSUME NEW c \in Calls, Enter(t, c), c.op \in {"exec", "stream", "describe"},
               c.pc = "lock", c.h \in Handles
        PROVE  Enters(t)
    <3>1. call'[t] = c /\ UNCHANGED <<lock, slot>> /\ ~Busy(t) /\ Usable(c.h) /\ slot[c.h] # Null
      BY <1>1, <2>2 DEF Enter, Admitted
    <3>2. Busy(t)'
      BY <2>2, <3>1 DEF Busy
    <3> QED BY <2>2, <3>1, <3>2 DEF Enters
  <2>3. CASE CallExec(t)
    <3>1. PICK h \in Handles, type \in EntryTypes, data \in DataArguments, dir \in Dirs :
            Enter(t, [op |-> "exec", h |-> h, pc |-> "lock", type |-> type,
                      in |-> data[1], out |-> data[2], dir |-> dir, ran |-> Null])
      BY <2>3 DEF CallExec, Dirs
    <3>2. [op |-> "exec", h |-> h, pc |-> "lock", type |-> type,
           in |-> data[1], out |-> data[2], dir |-> dir, ran |-> Null] \in Calls
      BY PlanApiAssumption DEF Calls, ExecCalls, Pointers
    <3> QED BY <2>2, <3>1, <3>2
  <2>4. CASE CallSetStream(t)
    BY <2>2, <2>4 DEF CallSetStream, Calls, StreamCalls
  <2>5. CASE CallDescribe(t)
    BY <2>2, <2>5 DEF CallDescribe, Calls, DescribeCalls
  <2>6. CASE CallDestroy(t)
    <3>1. PICK h \in Handles :
            /\ slot[h] # Null
            /\ \A u \in Threads : On(u, h) => call[u].pc \in {"work", "done"} /\ call[u].op # "destroy"
            /\ call' = [call EXCEPT ![t] = [op |-> "destroy", h |-> h, pc |-> "lock"]]
      BY <2>6 DEF CallDestroy
    <3>2. call'[t] = [op |-> "destroy", h |-> h, pc |-> "lock"]
      BY <1>1, <3>1
    <3> QED BY <2>6, <3>1, <3>2 DEF CallDestroy, Enters, Busy
  <2> QED BY <1>6, <2>1, <2>3, <2>4, <2>5, <2>6 DEF Call
<1>7. ASSUME Validate(t) PROVE Ends(t) \/ GoesOn(t)
  BY <1>1, <1>2, <1>4, <1>7 DEF Validate, At, Ends, GoesOn, Placed, Alone, Busy
<1>8. ASSUME PlanAxis(t) PROVE Ends(t) \/ GoesOn(t)
  <2>1. CASE Fail(t)
    BY <1>5, <1>8, <2>1 DEF PlanAxis, At
  <2>2. CASE ~Fail(t)
    <3>1. call[t] \in BuildCalls
      BY <1>1, <1>8, CallFields DEF PlanAxis, At
    <3> QED BY <1>1, <1>8, <2>2, <3>1 DEF PlanAxis, AfterAxis, BuildCalls, At, GoesOn, Busy
  <2> QED BY <2>1, <2>2
<1>9. ASSUME Compile(t) PROVE Ends(t) \/ GoesOn(t)
  <2>1. CASE Fail(t)
    BY <1>5, <1>9, <2>1 DEF Compile, At
  <2>2. CASE ~Fail(t)
    <3>1. call[t] \in BuildCalls
      BY <1>1, <1>9, CallFields DEF Compile, At
    <3> QED BY <1>1, <1>9, <2>2, <3>1 DEF Compile, BuildCalls, At, GoesOn, Busy
  <2> QED BY <2>1, <2>2
<1>10. ASSUME ConfigureNpuSipExecution(t) PROVE Ends(t) \/ GoesOn(t)
  <2>1. CASE Fail(t)
    BY <1>5, <1>10, <2>1 DEF ConfigureNpuSipExecution, At
  <2>2. CASE ~Fail(t)
    <3>1. call[t] \in BuildCalls
      BY <1>1, <1>10, CallFields DEF ConfigureNpuSipExecution, At
    <3>2. DOMAIN call[t] = {"op", "h", "pc", "plan", "axis", "attempt", "planned"}
      BY <3>1 DEF BuildCalls
    <3> DEFINE Stays == call'[t].op = call[t].op /\ call'[t].h = call[t].h
                        /\ call'[t].pc \in {"sip", "publish"}
    <3>3. Goto(t, "publish") => Stays
      BY <1>1, <3>2 DEF Goto
    <3>4. \A q : call' = [call EXCEPT ![t].plan = q, ![t].pc = "publish"] => Stays
      BY <1>1, <3>2
    <3>5. \A q : call' = [call EXCEPT ![t].plan = q, ![t].pc = "sip"] => Stays
      BY <1>1, <3>2
    <3>6. call' = [call EXCEPT ![t].plan.sip = NoExec, ![t].pc = "publish"] => Stays
      BY <1>1, <3>2
    <3> HIDE DEF Stays
    <3>7. Stays
      BY <1>10, <2>2, <3>3, <3>4, <3>5, <3>6 DEF ConfigureNpuSipExecution
    <3> QED BY <1>10, <2>2, <3>7 DEF ConfigureNpuSipExecution, At, GoesOn, Busy, Stays
  <2> QED BY <2>1, <2>2
<1>11. ASSUME Publish(t) PROVE Ends(t)
  <2>1. Busy(t) /\ call[t].h \in Handles /\ Alone(t)
    BY <1>1, <1>2, <1>11 DEF Publish, At, Placed, Alone, Busy
  <2> QED BY <1>2, <1>4, <1>11, <2>1 DEF Publish, At, Ends
<1>12. ASSUME Lock(t) PROVE Takes(t)
  BY <1>1, <1>12 DEF Lock, Goto, Takes, Busy, Calls, Idle, ValidateCalls, BuildCalls, ExecCalls,
                     StreamCalls, DescribeCalls, DestroyCalls
<1>13. ASSUME Execute(t) PROVE GoesOn(t)
  <2>1. call[t] \in ExecCalls
    BY <1>1, <1>13, CallFields DEF Execute, At
  <2>2. CASE SipExecute(t)
    <3>1. DOMAIN call[t] = {"op", "h", "pc", "type", "in", "out", "dir", "ran"}
      BY <2>1 DEF ExecCalls
    <3>2. Goto(t, "done") => call'[t].op = call[t].op /\ call'[t].h = call[t].h /\ call'[t].pc = "done"
      BY <1>1, <3>1 DEF Goto
    <3>3. \A r : call' = [call EXCEPT ![t].pc = "done", ![t].ran = r] =>
            call'[t].op = call[t].op /\ call'[t].h = call[t].h /\ call'[t].pc = "done"
      BY <1>1, <3>1
    <3>4. call'[t].op = call[t].op /\ call'[t].h = call[t].h /\ call'[t].pc = "done"
      BY <2>2, <3>2, <3>3 DEF SipExecute
    <3> QED BY <1>13, <3>4 DEF Execute, At, GoesOn, Busy
  <2>3. CASE RawExecute(t)
    <3>1. call'[t].op = call[t].op /\ call'[t].h = call[t].h /\ call'[t].pc = "done"
      BY <1>1, <2>1, <2>3 DEF RawExecute, ExecCalls
    <3> QED BY <1>13, <3>1 DEF Execute, At, GoesOn, Busy
  <2> QED BY <1>13, <2>2, <2>3 DEF Execute
<1>14. ASSUME LeaveExec(t) PROVE Ends(t)
  BY <1>1, <1>2, <1>4, <1>14 DEF LeaveExec, At, Unlock, Ends, Placed, Busy
<1>15. ASSUME SetStream(t) PROVE Ends(t)
  <2>1. Busy(t) /\ call[t].h \in Handles /\ slot[call[t].h] \in Plans
    BY <1>1, <1>2, <1>15 DEF SetStream, At, Placed, Busy
  <2>2. call[t].stream \in Streams
    BY <1>1, <1>15, CallFields DEF SetStream, At, StreamCalls
  <2>3. [slot[call[t].h] EXCEPT !.stream = call[t].stream] \in Plans
    BY <2>1, <2>2 DEF Plans
  <2>4. slot' = slot \/ slot' = [slot EXCEPT ![call[t].h].stream = call[t].stream]
    BY <1>15 DEF SetStream
  <2> QED BY <1>2, <1>4, <1>15, <2>1, <2>3, <2>4 DEF SetStream, At, Unlock, Ends
<1>16. ASSUME Describe(t) PROVE Ends(t)
  <2>1. Busy(t) /\ call[t].h \in Handles /\ slot[call[t].h] \in Plans
    BY <1>1, <1>2, <1>16 DEF Describe, At, Placed, Busy
  <2>2. [slot[call[t].h] EXCEPT !.text = Text(slot[call[t].h])] \in Plans
    BY <2>1 DEF Plans, Text
  <2> QED BY <1>2, <1>4, <1>16, <2>1, <2>2 DEF Describe, At, Unlock, Ends
<1>17. ASSUME MarkDestroyed(t) PROVE Marks(t)
  <2>1. call[t] \in DestroyCalls
    BY <1>1, <1>17, CallFields DEF MarkDestroyed, At
  <2> QED BY <1>1, <1>17, <2>1 DEF MarkDestroyed, Goto, Unlock, At, DestroyCalls, Marks
<1>18. ASSUME Delete(t) PROVE Ends(t)
  <2>1. Busy(t) /\ call[t].h \in Handles /\ Alone(t)
    BY <1>1, <1>2, <1>18 DEF Delete, At, Placed, Alone, Busy
  <2> QED BY <1>2, <1>4, <1>18, <2>1 DEF Delete, At, Ends
<1> QED
  BY <1>3, <1>6, <1>7, <1>8, <1>9, <1>10, <1>11, <1>12, <1>13, <1>14, <1>15, <1>16, <1>17, <1>18

LEMMA ProtocolStep ==
  ASSUME IInv, NEW t \in Threads, Call(t) \/ Proceed(t)
  PROVE  ProtocolInv'
<1>1. Others(t) /\ (GoesOn(t) \/ Enters(t) \/ Ends(t) \/ Takes(t) \/ Marks(t))
  BY StepKinds DEF Proceed
<1> QED BY <1>1, GoingOn, Entering, Ending, TakingOrMarking DEF IInv

-----------------------------------------------------------------------------
(* Plans.                                                                  *)

(* A product of C ints that is the padded row length is not the wrapped     *)
(* value of the row length: it wraps by a multiple of INT_MAX * 2 + 2, and  *)
(* padding adds one or two.                                                *)
LEMMA Division ==
  ASSUME NEW a \in Int, NEW b \in Nat, b >= 2
  PROVE  a \div b \in Int /\ a % b \in Int /\ 0 <= a % b /\ a % b < b /\ a = b * (a \div b) + (a % b)
OBVIOUS

LEMMA WrapIsNoPadding ==
  ASSUME NEW n \in Int, n > 0, IntWrap(n) \in {n, 2 * Half(n)}
  PROVE  IntWrap(n) = n
<1> DEFINE M == 2 * IntMax + 2
           s == n + IntMax + 1
           q == s \div M
           r == s % M
<1>1. IntMax \in Nat /\ M \in Nat /\ M >= 2 /\ s \in Int
  BY PlanApiAssumption
<1>2. IntWrap(n) = r - IntMax - 1
  BY DEF IntWrap
<1> HIDE DEF M, s
<1>3. q \in Int /\ r \in Int /\ 0 <= r /\ r < M /\ s = M * q + r
  BY <1>1, Division
<1> HIDE DEF q, r
<1>4. M * q \in Int
  BY <1>1, <1>3
<1>5. IntWrap(n) = n - M * q
  BY <1>1, <1>3, <1>4, <1>2 DEF s
<1>6. 2 * Half(n) \in {n + 1, n + 2}
  BY DEF Half
<1>7. ASSUME IntWrap(n) # n PROVE FALSE
  <2>1. M * q \in {-1, -2}
    BY <1>1, <1>3, <1>5, <1>6, <1>7
  <2>2. q = -1
    <3>1. q < 0
      BY <1>1, <1>3, <2>1
    <3>2. q >= -1
      <4>1. q <= -2 => M * q <= M * (-2)
        BY <1>1, <1>3
      <4> QED BY <1>1, <1>3, <2>1, <4>1
    <3> QED BY <1>3, <3>1, <3>2
  <2>3. M = 2
    BY <1>1, <2>1, <2>2
  <2> QED BY <1>1, <1>3, <1>5, <1>2, <2>2, <2>3 DEF M
<1> QED BY <1>7

LEMMA RowVolumes ==
  ASSUME NEW n \in Seq(Int), NEW type, Len(n) = 1
  PROVE  /\ Volume(InputExtents(n, type)) = InputExtents(n, type)[1]
         /\ Volume(OutputExtents(n, type)) = OutputExtents(n, type)[1]
         /\ InputExtents(n, type)[1] = IF type \in RealInverse THEN Half(n[1]) ELSE n[1]
         /\ OutputExtents(n, type)[1] = IF type \in RealForward THEN Half(n[1]) ELSE n[1]
<1>1. Len(Halved(n)) = 1 /\ Halved(n)[1] = Half(n[1])
  BY DEF Halved, Half
<1>2. \A m \in Seq(Int) : Len(m) = 1 => Volume(m) = m[1]
  BY DEF Volume
<1>3. Halved(n) \in Seq(Int)
  BY DEF Halved, Half
<1>4. Volume(n) = n[1] /\ Volume(Halved(n)) = Halved(n)[1]
  BY <1>1, <1>2, <1>3
<1>5. InputExtents(n, type) = n \/ InputExtents(n, type) = Halved(n)
  BY DEF InputExtents
<1>6. OutputExtents(n, type) = n \/ OutputExtents(n, type) = Halved(n)
  BY DEF OutputExtents
<1> QED BY <1>1, <1>4, <1>5, <1>6 DEF InputExtents, OutputExtents

(* A descriptor the checks let through has the distances the entry point    *)
(* means, unless flagfftPlanMany described padded rows.                     *)
LEMMA Validated ==
  ASSUME NEW r \in Requests, Verdict(r) = "SUCCESS"
  PROVE  Sound(Descriptor(r))
<1> DEFINE d == Descriptor(r)
<1>1. /\ d.n = r.n /\ d.type = r.type /\ d.idist = r.idist /\ d.odist = r.odist /\ d.many = r.many
      /\ r.n \in Seq(Int)
  BY RequestsAssumption DEF Descriptor
<1>2. IsSupportedMinimalDesc(d) \/ IsSupported2dDesc(d) \/ IsSupported3dDesc(d)
  BY DEF Verdict
<1> HIDE DEF d
<1>3. CASE IsSupported2dDesc(d) \/ IsSupported3dDesc(d)
  BY <1>3 DEF IsSupported2dDesc, IsSupported3dDesc, IsDense, Dense, Sound, d
<1>4. ASSUME IsSupportedMinimalDesc(d), ~d.many PROVE Dense(d)
  <2>1. Len(d.n) = 1 /\ d.n[1] > 0 /\ d.n \in Seq(Int) /\ d.n[1] \in Int
    BY <1>1, <1>4 DEF IsSupportedMinimalDesc
  <2>2. /\ d.idist = IntWrap(Volume(InputExtents(d.n, d.type)))
        /\ d.odist = IntWrap(Volume(OutputExtents(d.n, d.type)))
    <3>1. r = PlanDense(r.n, r.type, r.batch)
      BY <1>1, <1>4, RequestsAssumption
    <3>2. /\ r.idist = IntWrap(Volume(InputExtents(r.n, r.type)))
          /\ r.odist = IntWrap(Volume(OutputExtents(r.n, r.type)))
      BY <3>1 DEF PlanDense
    <3> QED BY <1>1, <3>2
  <2> DEFINE i == InputExtents(d.n, d.type)[1]
             o == OutputExtents(d.n, d.type)[1]
  <2>3. /\ Volume(InputExtents(d.n, d.type)) = i /\ Volume(OutputExtents(d.n, d.type)) = o
        /\ i = (IF d.type \in RealInverse THEN Half(d.n[1]) ELSE d.n[1])
        /\ o = (IF d.type \in RealForward THEN Half(d.n[1]) ELSE d.n[1])
    BY <2>1, RowVolumes
  <2> HIDE DEF i, o
  <2>4. /\ d.idist \in {i} \cup IF d.type \in RealForward THEN {2 * Half(d.n[1])} ELSE {}
        /\ d.odist \in {o} \cup IF d.type \in RealInverse THEN {2 * Half(d.n[1])} ELSE {}
    BY <1>4 DEF IsSupportedMinimalDesc, i, o
  <2>5. d.idist = i
    BY <2>1, <2>2, <2>3, <2>4, WrapIsNoPadding DEF RealForward, RealInverse
  <2>6. d.odist = o
    BY <2>1, <2>2, <2>3, <2>4, WrapIsNoPadding DEF RealForward, RealInverse
  <2> QED BY <2>3, <2>5, <2>6 DEF Dense
<1>5. CASE IsSupportedMinimalDesc(d)
  <2>1. Len(d.n) = 1
    BY <1>5 DEF IsSupportedMinimalDesc
  <2> QED BY <1>4, <1>5, <2>1 DEF Sound, d
<1> QED BY <1>2, <1>3, <1>5

(* What a step that leaves a plan alone, and of its executors changes at    *)
(* most the buffers, keeps.                                                *)
Alike(p) == \A d \in Dirs : p.sip[d] # Null =>
  /\ sips'[p.sip[d]].dir = sips[p.sip[d]].dir /\ sips'[p.sip[d]].stream = sips[p.sip[d]].stream
  /\ sips'[p.sip[d]].input = sips[p.sip[d]].input /\ sips'[p.sip[d]].output = sips[p.sip[d]].output

(* Plans that differ in stream, text or completion only.                   *)
LEMMA SamePlan ==
  ASSUME NEW p, NEW q, q.desc = p.desc, q.exec = p.exec, q.sip = p.sip,
         q.sipEnabled = p.sipEnabled
  PROVE  /\ Fitting(p) => Fitting(q)
         /\ Enabled(p) => Enabled(q)
         /\ Quiet(p) => Quiet(q)
         /\ Whole(p) => Whole(q)
         /\ \A s : q.stream = p.stream /\ Streamed(p, s) => Streamed(q, s)
<1>1. Fitting(p) => Fitting(q)
  BY DEF Fitting
<1>2. (Enabled(p) => Enabled(q)) /\ (Quiet(p) => Quiet(q))
  BY DEF Enabled, Quiet
<1>3. Whole(p) => Whole(q)
  BY DEF Whole, Compiled
<1>4. \A s : q.stream = p.stream /\ Streamed(p, s) => Streamed(q, s)
  BY DEF Streamed
<1> QED BY <1>1, <1>2, <1>3, <1>4

LEMMA KeptPlan ==
  ASSUME NEW h \in Handles, Published(h), slot'[h] = slot[h], wanted'[h] = wanted[h],
         given'[h] = given[h], slot[h] # Null => Alike(slot[h])
  PROVE  Published(h)'
<1>1. slot[h] # Null /\ Fitting(slot[h]) => Fitting(slot[h])'
  BY DEF Fitting, Alike
<1>2. slot[h] # Null /\ Streamed(slot[h], wanted[h]) => Streamed(slot[h], wanted[h])'
  BY DEF Streamed, Alike
<1> QED BY <1>1, <1>2 DEF Published, Whole, Compiled, Sound, Enabled, Quiet
LEMMA KeptMaking ==
  ASSUME NEW u \in Threads, Formed(u), call'[u] = call[u], Building(u) => Alike(call[u].plan),
         UNCHANGED env
  PROVE  Formed(u)'
<1>1. Building(u) /\ Fitting(call[u].plan) => Fitting(call[u].plan)'
  BY DEF Fitting, Alike
<1>2. Building(u) /\ Streamed(call[u].plan, DefaultStream) => Streamed(call[u].plan, DefaultStream)'
  BY DEF Streamed, Alike
<1> QED BY <1>1, <1>2 DEF Formed, Building, Whole, Compiled, Enabled, Quiet, SipCreated

-----------------------------------------------------------------------------
(* Ownership.                                                              *)

LEMMA OtherMakings ==
  ASSUME NEW t \in Threads, Others(t)
  PROVE  \A u \in Threads \ {t} : Making(u)' = Making(u) /\ (Building(u)' <=> Building(u))
<1> SUFFICES ASSUME NEW u \in Threads \ {t}
             PROVE  Making(u)' = Making(u) /\ (Building(u)' <=> Building(u))
  OBVIOUS
<1>1. call'[u] = call[u]
  BY DEF Others
<1>2. Building(u)' <=> Building(u)
  BY <1>1 DEF Building
<1>3. Owned(call[u].plan)' = Owned(call[u].plan)
  BY <1>1 DEF Owned
<1> QED BY <1>2, <1>3 DEF Making

LEMMA SameOwners ==
  ASSUME OwnerInv, DOMAIN sips' = DOMAIN sips,
         \A h \in Handles : Held(h)' = Held(h), \A u \in Threads : Making(u)' = Making(u)
  PROVE  OwnerInv'
BY DEF OwnerInv

(* A plan in the making is given up: its executors, and no others, go.     *)
LEMMA GivingUp ==
  ASSUME IInv, NEW t \in Threads, Others(t), Building(t), Release(call[t].plan), UNCHANGED slot,
         Making(t)' = {}
  PROVE  /\ OwnerInv'
         /\ \A h \in Handles : slot[h] # Null => Alike(slot[h])
         /\ \A u \in Threads \ {t} : Building(u) => Alike(call[u].plan)
<1>1. OwnerInv /\ TypeInv
  BY DEF IInv
<1>2. DOMAIN sips' = DOMAIN sips \ Making(t) /\ \A i \in DOMAIN sips' : sips'[i] = sips[i]
  BY <1>1, Releasing DEF Making
<1>3. /\ \A h \in Handles : Held(h)' = Held(h) /\ Held(h) \subseteq DOMAIN sips'
      /\ \A u \in Threads \ {t} : Making(u)' = Making(u) /\ Making(u) \subseteq DOMAIN sips'
  BY <1>1, <1>2, OtherMakings DEF OwnerInv, Held, Owned
<1>4. OwnerInv'
  <2>1. \A i \in DOMAIN sips' : (\E h \in Handles : i \in Held(h)') \/ (\E u \in Threads : i \in Making(u)')
    BY <1>1, <1>2, <1>3 DEF OwnerInv
  <2> QED BY <1>1, <1>3, <2>1 DEF OwnerInv
<1>5. ASSUME NEW h \in Handles, slot[h] # Null PROVE Alike(slot[h])
  BY <1>2, <1>3, <1>5 DEF Held, Owned, Alike, Dirs
<1>6. ASSUME NEW u \in Threads \ {t}, Building(u) PROVE Alike(call[u].plan)
  BY <1>2, <1>3, <1>6 DEF Making, Owned, Alike, Dirs
<1> QED BY <1>4, <1>5, <1>6

(* A plan behind a handle is deleted.                                      *)
LEMMA Deleting ==
  ASSUME IInv, NEW t \in Threads, Others(t), ~Building(t), ~Building(t)', NEW h \in Handles,
         slot[h] # Null, Release(slot[h]), slot' = [slot EXCEPT ![h] = Null]
  PROVE  /\ OwnerInv'
         /\ \A g \in Handles \ {h} : slot[g] # Null => Alike(slot[g])
         /\ \A u \in Threads \ {t} : Building(u) => Alike(call[u].plan)
<1>1. OwnerInv /\ TypeInv /\ slot \in [Handles -> Plans \cup {Null}]
  BY DEF IInv, TypeInv, TypeOK
<1>2. DOMAIN sips' = DOMAIN sips \ Held(h) /\ \A i \in DOMAIN sips' : sips'[i] = sips[i]
  BY <1>1, Releasing DEF Held
<1>3. /\ Held(h)' = {}
      /\ \A g \in Handles \ {h} : Held(g)' = Held(g) /\ Held(g) \subseteq DOMAIN sips'
      /\ \A u \in Threads : Making(u)' = Making(u) /\ Making(u) \subseteq DOMAIN sips'
  <2>1. Held(h)' = {} /\ \A g \in Handles \ {h} : Held(g)' = Held(g)
    BY <1>1 DEF Held, Owned
  <2>2. \A u \in Threads : Making(u)' = Making(u)
    BY OtherMakings DEF Making
  <2> QED BY <1>1, <1>2, <2>1, <2>2 DEF OwnerInv
<1>4. OwnerInv'
  <2>1. \A i \in DOMAIN sips' : (\E g \in Handles : i \in Held(g)') \/ (\E u \in Threads : i \in Making(u)')
    BY <1>1, <1>2, <1>3 DEF OwnerInv
  <2> QED BY <1>1, <1>3, <2>1 DEF OwnerInv
<1>5. ASSUME NEW g \in Handles \ {h}, slot[g] # Null PROVE Alike(slot[g])
  BY <1>2, <1>3, <1>5 DEF Held, Owned, Alike, Dirs
<1>6. ASSUME NEW u \in Threads \ {t}, Building(u) PROVE Alike(call[u].plan)
  BY <1>2, <1>3, <1>6 DEF Making, Owned, Alike, Dirs
<1> QED BY <1>4, <1>5, <1>6

(* A new executor joins a plan in the making.                              *)
LEMMA Adding ==
  ASSUME IInv, NEW t \in Threads, Others(t), Building(t), UNCHANGED slot,
         NEW i \in SipIds, i \notin DOMAIN sips, DOMAIN sips' = DOMAIN sips \cup {i},
         \A j \in DOMAIN sips : sips'[j] = sips[j], Making(t)' = Making(t) \cup {i}
  PROVE  /\ OwnerInv'
         /\ \A h \in Handles : slot[h] # Null => Alike(slot[h])
         /\ \A u \in Threads : Building(u) => Alike(call[u].plan)
<1>1. OwnerInv
  BY DEF IInv
<1>2. /\ \A h \in Handles : Held(h)' = Held(h) /\ Held(h) \subseteq DOMAIN sips
      /\ \A u \in Threads \ {t} : Making(u)' = Making(u)
      /\ \A u \in Threads : Making(u) \subseteq DOMAIN sips
  BY <1>1, OtherMakings DEF OwnerInv, Held, Owned
<1>3. OwnerInv'
  <2>1. \A j \in DOMAIN sips' : (\E h \in Handles : j \in Held(h)') \/ (\E u \in Threads : j \in Making(u)')
    BY <1>1, <1>2 DEF OwnerInv
  <2> QED BY <1>1, <1>2, <2>1 DEF OwnerInv
<1>4. ASSUME NEW h \in Handles, slot[h] # Null PROVE Alike(slot[h])
  BY <1>2, <1>4 DEF Held, Owned, Alike, Dirs
<1>5. ASSUME NEW u \in Threads, Building(u) PROVE Alike(call[u].plan)
  BY <1>2, <1>5 DEF Making, Owned, Alike, Dirs
<1> QED BY <1>3, <1>4, <1>5

(* A plan is put behind a handle, with its executors.                      *)
LEMMA Publishing ==
  ASSUME IInv, NEW t \in Threads, Others(t), Building(t), ~Building(t)', UNCHANGED sips,
         NEW h \in Handles, slot[h] = Null, \A g \in Handles \ {h} : slot'[g] = slot[g],
         Held(h)' = Making(t)
  PROVE  OwnerInv'
<1>1. OwnerInv
  BY DEF IInv
<1>2. /\ \A g \in Handles \ {h} : Held(g)' = Held(g)
      /\ \A u \in Threads \ {t} : Making(u)' = Making(u)
      /\ Making(t)' = {} /\ Held(h) = {}
  BY OtherMakings DEF Held, Owned, Making
<1>3. \A j \in DOMAIN sips' : (\E g \in Handles : j \in Held(g)') \/ (\E u \in Threads : j \in Making(u)')
  BY <1>1, <1>2 DEF OwnerInv
<1> QED BY <1>1, <1>2, <1>3 DEF OwnerInv

-----------------------------------------------------------------------------
(* The steps, on plans and owners.                                         *)

(* The tables stay; executors change at most their buffers.                *)
LEMMA Still ==
  ASSUME IInv, NEW t \in Threads, Others(t), UNCHANGED <<env, slot, wanted, given>>,
         DOMAIN sips' = DOMAIN sips, Making(t)' = Making(t), Formed(t)',
         \A h \in Handles : slot[h] # Null => Alike(slot[h]),
         \A u \in Threads \ {t} : Building(u) => Alike(call[u].plan)
  PROVE  PlanInv' /\ OwnerInv'
<1>1. PlanInv /\ OwnerInv
  BY DEF IInv
<1>2. /\ \A h \in Handles : Held(h)' = Held(h)
      /\ \A u \in Threads : Making(u)' = Making(u)
  BY OtherMakings DEF Held, Owned
<1>3. OwnerInv'
  BY <1>1, <1>2, SameOwners
<1>4. \A h \in Handles : Published(h)'
  BY <1>1, KeptPlan DEF PlanInv
<1>5. \A u \in Threads : Formed(u)'
  BY <1>1, KeptMaking DEF PlanInv, Others
<1> QED BY <1>3, <1>4, <1>5 DEF PlanInv

LEMMA NothingMade ==
  ASSUME IInv, NEW t \in Threads, Others(t), UNCHANGED <<env, slot, wanted, given, sips>>,
         Making(t)' = Making(t), Formed(t)'
  PROVE  PlanInv' /\ OwnerInv'
<1>1. \A p : Alike(p)
  BY DEF Alike
<1> QED BY <1>1, Still

(* What no plan in the making is part of.                                  *)
LEMMA Inert ==
  ASSUME IInv, NEW t \in Threads, Others(t), UNCHANGED <<env, slot, wanted, given, sips>>,
         ~Building(t), ~Building(t)'
  PROVE  PlanInv' /\ OwnerInv'
<1>1. Making(t)' = Making(t) /\ Formed(t)'
  BY DEF Making, Formed
<1> QED BY <1>1, NothingMade

LEMMA Dropped ==
  ASSUME IInv, NEW t \in Threads, Others(t), Building(t), Release(call[t].plan),
         UNCHANGED <<env, slot, wanted, given>>, Making(t)' = {}, Formed(t)'
  PROVE  PlanInv' /\ OwnerInv'
<1>1. PlanInv
  BY DEF IInv
<1>2. /\ OwnerInv'
      /\ \A h \in Handles : slot[h] # Null => Alike(slot[h])
      /\ \A u \in Threads \ {t} : Building(u) => Alike(call[u].plan)
  BY GivingUp
<1>3. \A h \in Handles : Published(h)'
  BY <1>1, <1>2, KeptPlan DEF PlanInv
<1>4. \A u \in Threads : Formed(u)'
  BY <1>1, <1>2, KeptMaking DEF PlanInv, Others
<1> QED BY <1>2, <1>3, <1>4 DEF PlanInv

LEMMA CreationStep ==
  ASSUME IInv, NEW t \in Threads, Others(t), UNCHANGED env, call \in [Threads -> Calls],
         Validate(t) \/ PlanAxis(t) \/ Compile(t)
  PROVE  PlanInv' /\ OwnerInv'
<1>1. call[t] \in Calls /\ call[t].op = "plan"
  BY DEF Validate, PlanAxis, Compile, At
<1>2. Return(t) => ~Building(t)'
  BY DEF Return, Building, Idle
<1>3. Building(t) /\ Fail(t) => PlanInv' /\ OwnerInv'
  <2> SUFFICES ASSUME Building(t), Fail(t) PROVE PlanInv' /\ OwnerInv'
    OBVIOUS
  <2>1. Making(t)' = {} /\ Formed(t)'
    BY <1>2 DEF Fail, Making, Formed
  <2> QED BY <2>1, Dropped DEF Fail
<1>4. CASE Validate(t)
  <2>1. call[t] \in ValidateCalls /\ ~Building(t)
    BY <1>1, <1>4, CallFields DEF Validate, At, Building
  <2>2. CASE Return(t)
    BY <1>2, <1>4, <2>1, <2>2, Inert DEF Validate
  <2>3. CASE ~Return(t)
    <3> SUFFICES ASSUME NEW r, r = call[t].req, NEW d, d = Descriptor(r)
                 PROVE  PlanInv' /\ OwnerInv'
      OBVIOUS
    <3>1. r \in Requests /\ Verdict(r) = "SUCCESS"
      BY <1>4, <2>1, <2>3 DEF Validate, ValidateCalls
    <3>2. Sound(d)
      BY <3>1, Validated
    <3>3. call'[t].op = "plan" /\ call'[t].pc = "axis" /\ call'[t].plan = FreshPlan(d)
      BY <1>4, <2>3 DEF Validate
    <3>4. call'[t].plan.sip = NoExec /\ Building(t)' /\ ~Building(t)
      BY <2>1, <3>3 DEF FreshPlan, Building
    <3>5. Making(t)' = Making(t)
      BY <3>4 DEF Making, Owned, NoExec
    <3>6. Fitting(FreshPlan(d))' /\ Streamed(FreshPlan(d), DefaultStream)'
      BY DEF Fitting, Streamed, FreshPlan, NoExec, Dirs
    <3>7. Formed(t)'
      BY <3>2, <3>3, <3>4, <3>6 DEF Formed, FreshPlan, Enabled
    <3> QED BY <1>4, <3>5, <3>7, NothingMade DEF Validate
  <2> QED BY <2>2, <2>3
<1>5. CASE PlanAxis(t)
  <2>1. call[t] \in BuildCalls /\ Building(t) /\ call[t].pc = "axis" /\ Formed(t)
    BY <1>1, <1>5, CallFields DEF PlanAxis, At, Building, IInv, PlanInv
  <2>2. CASE ~Fail(t)
    <3>a. /\ UNCHANGED <<slot, wanted, given, sips>>
          /\ \/ \E k, done : AfterAxis(t, k, done)
             \/ call' = [call EXCEPT ![t].attempt = NextAttempt(@)]
      BY <1>5, <2>2 DEF PlanAxis
    <3>b. /\ call'[t].op = "plan" /\ call'[t].pc \in {"axis", "compile"}
          /\ call'[t].plan = call[t].plan
      <4>1. CASE \E k, done : AfterAxis(t, k, done)
        BY <2>1, <4>1 DEF AfterAxis, BuildCalls
      <4>2. CASE call' = [call EXCEPT ![t].attempt = NextAttempt(@)]
        BY <2>1, <4>2 DEF BuildCalls
      <4> QED BY <3>a, <4>1, <4>2
    <3>1. /\ UNCHANGED <<slot, wanted, given, sips>>
          /\ call'[t].op = "plan" /\ call'[t].pc \in {"axis", "compile"}
          /\ call'[t].plan = call[t].plan
      BY <3>a, <3>b
    <3>2. Building(t)' /\ Making(t)' = Making(t)
      BY <2>1, <3>1 DEF Building, Making, Owned
    <3>3. Fitting(call[t].plan)' /\ Streamed(call[t].plan, DefaultStream)'
      BY <2>1, <3>1 DEF Formed, Fitting, Streamed
    <3>4. Formed(t)'
      BY <2>1, <3>1, <3>2, <3>3 DEF Formed, Enabled
    <3> QED BY <3>1, <3>2, <3>4, NothingMade
  <2> QED BY <1>3, <2>1, <2>2
<1>6. CASE Compile(t)
  <2>1. call[t] \in BuildCalls /\ Building(t) /\ call[t].pc = "compile" /\ Formed(t)
    BY <1>1, <1>6, CallFields DEF Compile, At, Building, IInv, PlanInv
  <2>2. CASE ~Fail(t)
    <3> SUFFICES ASSUME NEW p, p = call[t].plan, NEW q, q = call'[t].plan
                 PROVE  PlanInv' /\ OwnerInv'
      OBVIOUS
    <3>1. /\ UNCHANGED <<slot, wanted, given, sips>>
          /\ call'[t].op = "plan" /\ call'[t].pc \in {"compile", "sip"}
          /\ call'[t].pc = "sip" => Compiled(q) = Directions(q.desc.type)
          /\ q.desc = p.desc /\ q.sip = p.sip /\ q.sipEnabled = p.sipEnabled
          /\ q.stream = p.stream /\ q.text = p.text
      BY <1>6, <2>1, <2>2 DEF Compile, At, BuildCalls, Plans
    <3>2. Building(t)' /\ Making(t)' = Making(t)
      BY <2>1, <3>1 DEF Building, Making, Owned
    <3>a. /\ Fitting(p) /\ Streamed(p, DefaultStream) /\ Enabled(p)
          /\ ~p.sipEnabled /\ p.sip = NoExec
      BY <2>1 DEF Formed
    <3>3. Fitting(q)' /\ Streamed(q, DefaultStream)' /\ Enabled(q) /\ p.sip = NoExec
      BY <3>1, <3>a DEF Fitting, Streamed, Enabled
    <3>4. SipCreated(q) = {} /\ Directions(q.desc.type) # {}
      BY <3>1, <3>3 DEF SipCreated, NoExec, Directions
    <3>5. Formed(t)'
      BY <2>1, <3>1, <3>2, <3>3, <3>4 DEF Formed, Whole
    <3> QED BY <3>1, <3>2, <3>5, NothingMade
  <2> QED BY <1>3, <2>1, <2>2
<1> QED BY <1>4, <1>5, <1>6

LEMMA SipStep ==
  ASSUME IInv, NEW t \in Threads, Others(t), UNCHANGED env, call \in [Threads -> Calls],
         ConfigureNpuSipExecution(t)
  PROVE  PlanInv' /\ OwnerInv'
<1>1. call[t] \in BuildCalls /\ Building(t) /\ call[t].pc = "sip" /\ Formed(t)
  BY CallFields DEF ConfigureNpuSipExecution, At, Building, IInv, PlanInv
<1> SUFFICES ASSUME NEW p, p = call[t].plan, NEW q, q = call'[t].plan, NEW left,
                    left = Directions(p.desc.type) \ SipCreated(p), NEW dir,
                    dir = IF "forward" \in left THEN "forward" ELSE "inverse"
             PROVE  PlanInv' /\ OwnerInv'
  OBVIOUS
<1>2. /\ p \in Plans /\ Sound(p.desc) /\ p.text = 0 /\ Whole(p) /\ ~p.sipEnabled
      /\ Fitting(p) /\ Streamed(p, DefaultStream) /\ left # {}
      /\ p.sip = NoExec \/ (env.sip \in {"auto", "sip"} /\ NpuSipSupports(p.desc))
  BY <1>1 DEF Formed, BuildCalls
<1>3. left \subseteq Dirs /\ dir \in left /\ dir \in Dirs /\ p.sip[dir] = Null
  BY <1>2 DEF Directions, Dirs, SipCreated
<1>4. CASE Fail(t)
  <2>1. ~Building(t)'
    BY <1>4 DEF Fail, Return, Building, Idle
  <2> QED BY <1>1, <1>4, <2>1, Dropped DEF Fail, Making, Formed
<1>5. CASE /\ env.sip \in {"off", "triton"} \/ (env.sip = "auto" /\ ~NpuSipSupports(p.desc))
           /\ Goto(t, "publish")
           /\ UNCHANGED <<slot, lock, sips, wanted, given>>
  <2>1. call'[t].op = "plan" /\ call'[t].pc = "publish" /\ q = p
    BY <1>1, <1>5 DEF Goto, BuildCalls, Building
  <2>2. Building(t)' /\ Making(t)' = Making(t)
    BY <1>1, <2>1 DEF Building, Making, Owned
  <2>3. Fitting(p)' /\ Streamed(p, DefaultStream)' /\ p.sip = NoExec
    BY <1>2, <1>5 DEF Fitting, Streamed
  <2>4. Formed(t)'
    BY <1>2, <2>1, <2>2, <2>3 DEF Formed, Whole, Compiled, Enabled, Quiet
  <2> QED BY <1>5, <2>2, <2>4, NothingMade
<1>6. CASE /\ env.sip \in {"auto", "sip"} /\ NpuSipSupports(p.desc)
           /\ SipIds \ DOMAIN sips # {}
           /\ call' = [call EXCEPT ![t].plan = [p EXCEPT !.sip[dir] = FreshSip,
                                                        !.sipEnabled = (left = {dir})],
                                   ![t].pc = IF left = {dir} THEN "publish" ELSE "sip"]
           /\ sips' = [i \in DOMAIN sips \cup {FreshSip} |->
                         IF i = FreshSip THEN Executor(p.desc, dir) ELSE sips[i]]
           /\ UNCHANGED <<slot, lock, wanted, given>>
  <2> SUFFICES ASSUME NEW id, id = FreshSip
               PROVE  PlanInv' /\ OwnerInv'
    OBVIOUS
  <2>1. id \in SipIds /\ id \notin DOMAIN sips /\ id # Null
    BY <1>6, NullApart DEF FreshSip
  <2>2. /\ DOMAIN sips' = DOMAIN sips \cup {id} /\ sips'[id] = Executor(p.desc, dir)
        /\ \A i \in DOMAIN sips : sips'[i] = sips[i]
    BY <1>6, <2>1
  <2>3. /\ call'[t].op = "plan" /\ call'[t].pc = IF left = {dir} THEN "publish" ELSE "sip"
        /\ q = [p EXCEPT !.sip[dir] = id, !.sipEnabled = (left = {dir})]
    BY <1>1, <1>6 DEF BuildCalls, Building
  <2>4. /\ q.sip = [p.sip EXCEPT ![dir] = id] /\ q.sipEnabled = (left = {dir})
        /\ q.desc = p.desc /\ q.exec = p.exec /\ q.stream = p.stream /\ q.text = p.text
        /\ DOMAIN p.sip = Dirs
    BY <1>2, <2>3 DEF Plans, Dirs
  <2>5. Building(t)' /\ Making(t)' = Making(t) \cup {id}
    <3>1. Owned(q) = Owned(p) \cup {id}
      BY <1>3, <2>1, <2>4 DEF Owned, Dirs
    <3> QED BY <1>1, <2>3, <3>1 DEF Building, Making, Owned
  <2>6. /\ OwnerInv'
        /\ \A h \in Handles : slot[h] # Null => Alike(slot[h])
        /\ \A u \in Threads : Building(u) => Alike(call[u].plan)
    BY <1>1, <1>6, <2>1, <2>2, <2>5, Adding
  <2>7. Fitting(q)' /\ Streamed(q, DefaultStream)'
    <3>1. Alike(p)
      BY <1>1, <2>6
    <3>2. \A d \in Dirs \ {dir} : q.sip[d] = p.sip[d]
      BY <2>4
    <3>3. q.sip[dir] = id
      BY <1>3, <2>4
    <3>4. /\ sips'[id].dir = dir /\ sips'[id].stream = DefaultStream
          /\ sips'[id].input = InputExtents(p.desc.n, p.desc.type)
          /\ sips'[id].output = OutputExtents(p.desc.n, p.desc.type)
      BY <2>2 DEF Executor
    <3>5. q.desc = p.desc /\ q.stream = DefaultStream
      BY <1>2, <2>4 DEF Streamed
    <3>6. ASSUME NEW d \in Dirs, q.sip[d] # Null
          PROVE  /\ sips'[q.sip[d]].dir = d /\ sips'[q.sip[d]].stream = DefaultStream
                 /\ sips'[q.sip[d]].input = InputExtents(p.desc.n, p.desc.type)
                 /\ sips'[q.sip[d]].output = OutputExtents(p.desc.n, p.desc.type)
      <4>1. CASE d = dir
        BY <3>3, <3>4, <4>1
      <4>2. CASE d # dir
        BY ZenonT(40), <1>2, <3>1, <3>2, <3>6, <4>2 DEF Fitting, Streamed, Alike
      <4> QED BY <4>1, <4>2
    <3> QED BY <3>6, <3>5 DEF Fitting, Streamed
  <2>8. Dense(q.desc)
    BY <1>6, <2>4 DEF NpuSipSupports, Dense
  <2>9. Directions(q.desc.type) \ SipCreated(q) = left \ {dir}
    BY <1>3, <2>1, <2>4 DEF SipCreated, Dirs
  <2>10. Enabled(q)
    BY <2>4, <2>8, <2>9 DEF Enabled, SipCreated, Directions
  <2>11. Whole(q) /\ Sound(q.desc) /\ q.text = 0 /\ q.stream = DefaultStream
    BY <1>2, <2>4 DEF Whole, Compiled, Streamed
  <2>12. left # {dir} => left \ {dir} # {}
    BY <1>3
  <2>13. Formed(t)'
    <3>1. call'[t].pc = "publish" => Quiet(q)
      BY <2>3, <2>4 DEF Quiet
    <3>2. call'[t].pc # "publish" => ~q.sipEnabled /\ Directions(q.desc.type) \ SipCreated(q) # {}
      BY <2>3, <2>4, <2>9, <2>12
    <3>3. env'.sip \in {"auto", "sip"} /\ NpuSipSupports(q.desc)
      BY <1>6, <2>4
    <3> QED BY <2>3, <2>7, <2>10, <2>11, <3>1, <3>2, <3>3 DEF Formed
  <2>14. \A h \in Handles : Published(h)'
    BY <1>6, <2>6, KeptPlan DEF IInv, PlanInv
  <2>15. \A u \in Threads : Formed(u)'
    BY <2>6, <2>13, KeptMaking DEF IInv, PlanInv, Others
  <2> QED BY <2>6, <2>14, <2>15 DEF PlanInv
<1>7. CASE /\ Release(p)
           /\ call' = [call EXCEPT ![t].plan.sip = NoExec, ![t].pc = "publish"]
           /\ UNCHANGED <<slot, lock, wanted, given>>
  <2>1. /\ call'[t].op = "plan" /\ call'[t].pc = "publish" /\ q.sip = NoExec
        /\ q.sipEnabled = p.sipEnabled /\ q.desc = p.desc /\ q.exec = p.exec
        /\ q.stream = p.stream /\ q.text = p.text
    BY <1>1, <1>7 DEF BuildCalls, Plans, Building
  <2>2. Building(t)' /\ Making(t)' = {}
    BY <2>1 DEF Building, Making, Owned, NoExec
  <2>3. Fitting(q)' /\ Streamed(q, DefaultStream)'
    BY <1>2, <2>1 DEF Fitting, Streamed, NoExec, Dirs
  <2>4. Formed(t)'
    BY <1>2, <2>1, <2>2, <2>3 DEF Formed, Whole, Compiled, Enabled, Quiet
  <2> QED BY <1>1, <1>7, <2>2, <2>4, Dropped
<1> QED BY <1>4, <1>5, <1>6, <1>7 DEF ConfigureNpuSipExecution

LEMMA PublishStep ==
  ASSUME IInv, NEW t \in Threads, Others(t), UNCHANGED env, call \in [Threads -> Calls], Publish(t)
  PROVE  PlanInv' /\ OwnerInv'
<1>1. call[t] \in BuildCalls /\ Building(t) /\ call[t].pc = "publish" /\ Formed(t) /\ Busy(t)
  BY CallFields DEF Publish, At, Building, Busy, IInv, PlanInv
<1> SUFFICES ASSUME NEW h, h = call[t].h, NEW p, p = call[t].plan, NEW q,
                    q = [p EXCEPT !.initialized = TRUE]
             PROVE  PlanInv' /\ OwnerInv'
  OBVIOUS
<1>2. /\ h \in Handles /\ slot[h] = Null /\ given[h] = {} /\ p \in Plans /\ q \in Plans
      /\ slot \in [Handles -> Plans \cup {Null}] /\ wanted \in [Handles -> Streams \cup {Null}]
  <2>1. h \in Handles /\ p \in Plans
    BY <1>1 DEF BuildCalls
  <2>2. slot[h] = Null
    BY <1>1 DEF IInv, ProtocolInv, Placed, Building
  <2>3. given[h] = {}
    BY <2>1, <2>2 DEF IInv, PlanInv, Published
  <2> QED BY <2>1, <2>2, <2>3 DEF IInv, TypeInv, TypeOK, Plans
<1>3. /\ q.desc = p.desc /\ q.exec = p.exec /\ q.sip = p.sip /\ q.sipEnabled = p.sipEnabled
      /\ q.stream = p.stream /\ q.text = p.text /\ q # Null
  BY <1>2, NullApart DEF Plans
<1>4. /\ slot' = [slot EXCEPT ![h] = q] /\ wanted' = [wanted EXCEPT ![h] = DefaultStream]
      /\ UNCHANGED <<sips, given>> /\ ~Building(t)'
  BY <1>2 DEF Publish, Return, Building, Idle
<1>5. slot'[h] = q /\ wanted'[h] = DefaultStream
  BY <1>2, <1>4
<1>6. \A x : Alike(x)
  BY <1>4 DEF Alike
<1>7. Published(h)'
  <2>a. Fitting(p) /\ Streamed(p, DefaultStream)
    BY <1>1 DEF Formed
  <2>1. Fitting(q)' /\ Streamed(q, DefaultStream)'
    BY <1>3, <1>4, <2>a DEF Fitting, Streamed
  <2>2. Whole(q) /\ Sound(q.desc) /\ Enabled(q) /\ Quiet(q)
    BY <1>1, <1>3 DEF Formed, Whole, Compiled, Enabled, Quiet
  <2> QED BY <1>2, <1>3, <1>4, <1>5, <2>1, <2>2 DEF Published
<1>8. \A g \in Handles : Published(g)'
  BY <1>2, <1>4, <1>6, <1>7, KeptPlan DEF IInv, PlanInv
<1>9. \A u \in Threads : Formed(u)'
  BY <1>4, <1>6, KeptMaking DEF IInv, PlanInv, Others, Formed
<1>10. OwnerInv'
  <2>1. Held(h)' = Making(t)
    BY <1>1, <1>3, <1>5 DEF Held, Making, Owned
  <2> QED BY <1>1, <1>2, <1>4, <2>1, Publishing
<1> QED BY <1>8, <1>9, <1>10 DEF PlanInv

(* A call that works on the plan of a handle.                              *)
LEMMA Working ==
  ASSUME IInv, NEW t \in Threads, Busy(t), call[t].op # "plan"
  PROVE  /\ call[t].h \in Handles /\ slot[call[t].h] # Null /\ slot[call[t].h] \in Plans
         /\ Published(call[t].h) /\ ~Building(t)
         /\ Held(call[t].h) = Owned(slot[call[t].h])
<1>1. call[t].h \in Handles
  BY DEF IInv, TypeInv, TypeOK
<1>2. slot[call[t].h] # Null
  BY DEF IInv, ProtocolInv, Placed
<1> QED BY <1>1, <1>2 DEF IInv, TypeInv, TypeOK, PlanInv, Building, Held

LEMMA StreamStep ==
  ASSUME IInv, NEW t \in Threads, Others(t), UNCHANGED env, call \in [Threads -> Calls], SetStream(t)
  PROVE  PlanInv' /\ OwnerInv'
<1>1. call[t] \in StreamCalls /\ Busy(t) /\ call[t].op = "stream"
  BY CallFields DEF SetStream, At, Busy
<1> SUFFICES ASSUME NEW h, h = call[t].h, NEW p, p = slot[h], NEW s, s = call[t].stream
             PROVE  PlanInv' /\ OwnerInv'
  OBVIOUS
<1>2. /\ h \in Handles /\ p # Null /\ p \in Plans /\ Published(h) /\ ~Building(t)
      /\ Held(h) = Owned(p) /\ s \in Streams
  BY <1>1, Working DEF StreamCalls
<1>3. /\ slot \in [Handles -> Plans \cup {Null}] /\ wanted \in [Handles -> Streams \cup {Null}]
      /\ OwnerInv /\ DOMAIN sips \subseteq SipIds /\ sips \in [DOMAIN sips -> Executors]
  BY DEF IInv, TypeInv, TypeOK
<1>4. PICK took \in SUBSET Told(p) :
        /\ sips' = [i \in DOMAIN sips |-> IF i \in took THEN [sips[i] EXCEPT !.stream = s] ELSE sips[i]]
        /\ slot' = IF took = Told(p) THEN [slot EXCEPT ![h].stream = s] ELSE slot
        /\ wanted' = [wanted EXCEPT ![h] = IF took = Told(p) THEN s ELSE Null]
  BY DEF SetStream
<1>5. given' = given /\ ~Building(t)'
  BY DEF SetStream, Return, Building, Idle
<1>6. took \subseteq Held(h)
  BY <1>2 DEF Told
<1>7. /\ DOMAIN sips' = DOMAIN sips
      /\ \A i \in DOMAIN sips \ took : sips'[i] = sips[i]
      /\ \A i \in took : /\ sips'[i].dir = sips[i].dir /\ sips'[i].stream = s
                         /\ sips'[i].input = sips[i].input /\ sips'[i].output = sips[i].output
  <2>1. took \subseteq DOMAIN sips
    BY <1>2, <1>3, <1>6 DEF OwnerInv
  <2>2. \A i \in took : sips'[i] = [sips[i] EXCEPT !.stream = s] /\ sips[i] \in Executors
    BY <1>3, <1>4, <2>1
  <2>3. \A x \in Executors : /\ [x EXCEPT !.stream = s].dir = x.dir
                             /\ [x EXCEPT !.stream = s].stream = s
                             /\ [x EXCEPT !.stream = s].input = x.input
                             /\ [x EXCEPT !.stream = s].output = x.output
    BY DEF Executors
  <2>4. DOMAIN sips' = DOMAIN sips /\ \A i \in DOMAIN sips \ took : sips'[i] = sips[i]
    BY <1>4
  <2>5. ASSUME NEW i \in took
        PROVE  /\ sips'[i].dir = sips[i].dir /\ sips'[i].stream = s
               /\ sips'[i].input = sips[i].input /\ sips'[i].output = sips[i].output
    <3> DEFINE x == sips[i]
    <3>1. x \in Executors /\ sips'[i] = [x EXCEPT !.stream = s]
      BY <2>2
    <3> HIDE DEF x
    <3>2. /\ sips'[i].dir = x.dir /\ sips'[i].stream = s
          /\ sips'[i].input = x.input /\ sips'[i].output = x.output
      BY <2>3, <3>1
    <3> QED BY <3>2 DEF x
  <2> QED BY <2>4, <2>5
<1>8. /\ slot'[h] \in Plans /\ slot'[h].desc = p.desc /\ slot'[h].exec = p.exec
      /\ slot'[h].sip = p.sip /\ slot'[h].sipEnabled = p.sipEnabled /\ slot'[h].text = p.text
      /\ slot'[h].stream = IF took = Told(p) THEN s ELSE p.stream
      /\ \A g \in Handles \ {h} : slot'[g] = slot[g] /\ wanted'[g] = wanted[g]
      /\ wanted'[h] = IF took = Told(p) THEN s ELSE Null
  BY <1>2, <1>3, <1>4 DEF Plans
<1> SUFFICES ASSUME NEW q, q = slot'[h] PROVE PlanInv' /\ OwnerInv'
  OBVIOUS
<1>9. q # Null
  BY <1>8, NullApart
<1>10. \A g \in Handles \ {h} : slot[g] # Null => Alike(slot[g])
  <2> SUFFICES ASSUME NEW g \in Handles \ {h}, slot[g] # Null PROVE Alike(slot[g])
    OBVIOUS
  <2>1. Owned(slot[g]) \subseteq DOMAIN sips \ took
    BY <1>2, <1>3, <1>6 DEF OwnerInv, Held
  <2> QED BY <1>7, <2>1 DEF Alike, Owned, Dirs
<1>11. \A u \in Threads : Building(u) => Alike(call[u].plan)
  <2> SUFFICES ASSUME NEW u \in Threads, Building(u) PROVE Alike(call[u].plan)
    OBVIOUS
  <2>1. Owned(call[u].plan) \subseteq DOMAIN sips \ took
    BY <1>2, <1>3, <1>6 DEF OwnerInv, Making
  <2> QED BY <1>7, <2>1 DEF Alike, Owned, Dirs
<1>12. Published(h)'
  <2>1. \A d \in Dirs : p.sip[d] # Null => p.sip[d] \in Owned(p) /\ p.sip[d] \in DOMAIN sips
    BY <1>2, <1>3 DEF Owned, Dirs, OwnerInv
  <2>a. /\ Fitting(p) /\ Enabled(p) /\ Quiet(p) /\ Whole(p) /\ Sound(p.desc)
        /\ given[h] \subseteq {p.text} \ {0}
    BY <1>2 DEF Published
  <2>b. /\ q.desc = p.desc /\ q.exec = p.exec /\ q.sip = p.sip
        /\ q.sipEnabled = p.sipEnabled /\ q.text = p.text
    BY <1>8
  <2>c. \A i \in DOMAIN sips : /\ sips'[i].dir = sips[i].dir
                              /\ sips'[i].input = sips[i].input
                              /\ sips'[i].output = sips[i].output
    BY <1>7
  <2>d. Fitting(q) /\ Enabled(q) /\ Quiet(q) /\ Whole(q)
    BY <2>a, <2>b, SamePlan
  <2>e. \A d \in Dirs : q.sip[d] # Null => q.sip[d] \in DOMAIN sips
    BY <2>1, <2>b
  <2>2. Fitting(q)'
    BY ZenonT(40), <2>c, <2>d, <2>e DEF Fitting
  <2>3. Enabled(q) /\ Quiet(q) /\ Whole(q) /\ Sound(q.desc) /\ given'[h] \subseteq {q.text} \ {0}
    BY <1>5, <2>a, <2>b, <2>d
  <2>4. took = Told(p) => Streamed(q, s)'
    <3>1. \A d \in Dirs : p.sip[d] # Null => p.sip[d] \in Told(p)
      BY <1>2, <2>1 DEF Published, Quiet, NoExec, Told, Dirs
    <3> QED BY ZenonT(40), <1>7, <1>8, <3>1 DEF Streamed
  <2> QED BY <1>8, <1>9, <2>2, <2>3, <2>4 DEF Published
<1>13. \A g \in Handles : Published(g)'
  BY <1>5, <1>8, <1>10, <1>12, KeptPlan DEF IInv, PlanInv
<1>14. \A u \in Threads : Formed(u)'
  BY <1>5, <1>11, KeptMaking DEF IInv, PlanInv, Others, Formed
<1>15. OwnerInv'
  <2>1. \A g \in Handles : Held(g)' = Held(g)
    BY <1>2, <1>8, <1>9 DEF Held, Owned
  <2>2. \A u \in Threads : Making(u)' = Making(u)
    BY <1>2, <1>5, OtherMakings DEF Making
  <2> QED BY <1>3, <1>7, <2>1, <2>2, SameOwners
<1> QED BY <1>13, <1>14, <1>15 DEF PlanInv

LEMMA DescribeStep ==
  ASSUME IInv, NEW t \in Threads, Others(t), UNCHANGED env, call \in [Threads -> Calls], Describe(t)
  PROVE  PlanInv' /\ OwnerInv'
<1>1. Busy(t) /\ call[t].op = "describe"
  BY DEF Describe, At, Busy
<1> SUFFICES ASSUME NEW h, h = call[t].h, NEW p, p = slot[h], NEW text, text = Text(p)
             PROVE  PlanInv' /\ OwnerInv'
  OBVIOUS
<1>2. h \in Handles /\ p # Null /\ p \in Plans /\ Published(h) /\ ~Building(t) /\ Held(h) = Owned(p)
  BY <1>1, Working
<1>3. /\ slot \in [Handles -> Plans \cup {Null}] /\ given \in [Handles -> SUBSET Nat] /\ OwnerInv
  BY DEF IInv, TypeInv, TypeOK
<1>4. /\ slot' = [slot EXCEPT ![h].text = text] /\ given' = [given EXCEPT ![h] = @ \cup {text}]
      /\ UNCHANGED <<sips, wanted>> /\ ~Building(t)'
  BY DEF Describe, Return, Building, Idle
<1>5. text \in Nat \ {0} /\ (p.text # 0 => text = p.text) /\ p.text \in Nat
  BY <1>2 DEF Text, Plans
<1>6. /\ slot'[h] \in Plans /\ slot'[h].desc = p.desc /\ slot'[h].exec = p.exec
      /\ slot'[h].sip = p.sip /\ slot'[h].sipEnabled = p.sipEnabled /\ slot'[h].text = text
      /\ slot'[h].stream = p.stream /\ given'[h] = given[h] \cup {text}
      /\ \A g \in Handles \ {h} : slot'[g] = slot[g] /\ given'[g] = given[g]
  BY <1>2, <1>3, <1>4, <1>5 DEF Plans
<1> SUFFICES ASSUME NEW q, q = slot'[h] PROVE PlanInv' /\ OwnerInv'
  OBVIOUS
<1>7. q # Null
  BY <1>6, NullApart
<1>8. \A x : Alike(x)
  BY <1>4 DEF Alike
<1>9. Published(h)'
  <2>a. /\ Fitting(p) /\ Enabled(p) /\ Quiet(p) /\ Whole(p) /\ Sound(p.desc)
        /\ wanted[h] # Null => Streamed(p, wanted[h])
    BY <1>2 DEF Published
  <2>b. /\ q.desc = p.desc /\ q.exec = p.exec /\ q.sip = p.sip
        /\ q.sipEnabled = p.sipEnabled /\ q.stream = p.stream
    BY <1>6
  <2>c. /\ Fitting(q) /\ Enabled(q) /\ Quiet(q) /\ Whole(q)
        /\ wanted[h] # Null => Streamed(q, wanted[h])
    BY <2>a, <2>b, SamePlan
  <2>1. Fitting(q)'
    BY <1>4, <2>c DEF Fitting
  <2>2. Enabled(q) /\ Quiet(q) /\ Whole(q) /\ Sound(q.desc)
    BY <2>a, <2>b, <2>c
  <2>3. given'[h] \subseteq {q.text} \ {0}
    BY <1>2, <1>5, <1>6 DEF Published
  <2>4. wanted[h] # Null => Streamed(q, wanted[h])'
    BY <1>4, <2>c DEF Streamed
  <2> QED BY <1>4, <1>7, <2>1, <2>2, <2>3, <2>4 DEF Published
<1>10. \A g \in Handles : Published(g)'
  BY <1>4, <1>6, <1>8, <1>9, KeptPlan DEF IInv, PlanInv
<1>11. \A u \in Threads : Formed(u)'
  BY <1>4, <1>8, KeptMaking DEF IInv, PlanInv, Others, Formed
<1>12. OwnerInv'
  <2>1. \A g \in Handles : Held(g)' = Held(g)
    BY <1>2, <1>6, <1>7 DEF Held, Owned
  <2>2. \A u \in Threads : Making(u)' = Making(u)
    BY <1>2, <1>4, OtherMakings DEF Making
  <2> QED BY <1>3, <1>4, <2>1, <2>2, SameOwners
<1> QED BY <1>10, <1>11, <1>12 DEF PlanInv

LEMMA DeleteStep ==
  ASSUME IInv, NEW t \in Threads, Others(t), UNCHANGED env, call \in [Threads -> Calls], Delete(t)
  PROVE  PlanInv' /\ OwnerInv'
<1>1. Busy(t) /\ call[t].op = "destroy"
  BY DEF Delete, At, Busy
<1> SUFFICES ASSUME NEW h, h = call[t].h PROVE PlanInv' /\ OwnerInv'
  OBVIOUS
<1>2. h \in Handles /\ slot[h] # Null /\ ~Building(t)
  BY <1>1, Working
<1>3. slot \in [Handles -> Plans \cup {Null}] /\ given \in [Handles -> SUBSET Nat]
  BY DEF IInv, TypeInv, TypeOK
<1>4. /\ Release(slot[h]) /\ slot' = [slot EXCEPT ![h] = Null] /\ given' = [given EXCEPT ![h] = {}]
      /\ UNCHANGED wanted /\ ~Building(t)'
  BY DEF Delete, Return, Building, Idle
<1>5. /\ OwnerInv'
      /\ \A g \in Handles \ {h} : slot[g] # Null => Alike(slot[g])
      /\ \A u \in Threads \ {t} : Building(u) => Alike(call[u].plan)
  BY <1>2, <1>4, Deleting
<1>6. Published(h)'
  BY <1>2, <1>3, <1>4 DEF Published
<1>7. \A g \in Handles : Published(g)'
  BY <1>3, <1>4, <1>5, <1>6, KeptPlan DEF IInv, PlanInv
<1>8. \A u \in Threads : Formed(u)'
  BY <1>4, <1>5, KeptMaking DEF IInv, PlanInv, Others, Formed
<1> QED BY <1>5, <1>7, <1>8 DEF PlanInv

LEMMA ExecuteStep ==
  ASSUME IInv, NEW t \in Threads, Others(t), UNCHANGED env, call \in [Threads -> Calls], Execute(t),
         call'[t].op = call[t].op
  PROVE  PlanInv' /\ OwnerInv'
<1>1. call[t] \in ExecCalls /\ call[t].op = "exec" /\ Busy(t) /\ ~Building(t) /\ ~Building(t)'
  BY CallFields DEF Execute, At, Busy, Building
<1>2. UNCHANGED <<slot, wanted, given>>
  BY DEF Execute
<1>3. CASE RawExecute(t)
  BY <1>1, <1>2, <1>3, Inert DEF RawExecute
<1>4. CASE SipExecute(t)
  <2> SUFFICES ASSUME NEW id, id = slot[call[t].h].sip[call[t].dir] PROVE PlanInv' /\ OwnerInv'
    OBVIOUS
  <2>1. id \in DOMAIN sips /\ sips \in [DOMAIN sips -> Executors] /\ OwnerInv
    BY <1>1, <1>4, SipThere DEF SipExecute, IInv, TypeInv
  <2>2. PICK x \in Bind(sips[id], call[t].in, call[t].out) : sips' = [sips EXCEPT ![id] = x]
    BY <1>4 DEF SipExecute
  <2>a. sips[id] \in Executors /\ call[t].in \in Pointers /\ call[t].out \in Pointers
    BY <1>1, <2>1 DEF ExecCalls
  <2>3. /\ x.dir = sips[id].dir /\ x.stream = sips[id].stream
        /\ x.input = sips[id].input /\ x.output = sips[id].output
    <3>1. Bound(sips[id], call[t].in, call[t].out, x)
      BY <2>a, <2>2, Binding
    <3> QED BY <3>1 DEF Bound
  <2>4. /\ DOMAIN sips' = DOMAIN sips
        /\ \A i \in DOMAIN sips : /\ sips'[i].dir = sips[i].dir /\ sips'[i].stream = sips[i].stream
                                  /\ sips'[i].input = sips[i].input /\ sips'[i].output = sips[i].output
    BY <2>1, <2>2, <2>3
  <2>5. \A h \in Handles : slot[h] # Null => Alike(slot[h])
    BY <2>1, <2>4 DEF OwnerInv, Held, Owned, Alike, Dirs
  <2>6. \A u \in Threads : Building(u) => Alike(call[u].plan)
    <3> SUFFICES ASSUME NEW u \in Threads, Building(u) PROVE Alike(call[u].plan)
      OBVIOUS
    <3>1. Owned(call[u].plan) \subseteq DOMAIN sips
      BY <2>1 DEF OwnerInv, Making
    <3> QED BY <2>4, <3>1 DEF Owned, Alike, Dirs
  <2>7. Making(t)' = Making(t) /\ Formed(t)'
    BY <1>1 DEF Making, Formed
  <2> QED BY <1>2, <2>4, <2>5, <2>6, <2>7, Still
<1> QED BY <1>3, <1>4 DEF Execute

LEMMA PlanStep ==
  ASSUME IInv, NEW t \in Threads, Call(t) \/ Proceed(t), UNCHANGED env
  PROVE  PlanInv' /\ OwnerInv'
<1>1. call \in [Threads -> Calls] /\ call[t] \in Calls
  BY DEF IInv, TypeInv
<1>2. Others(t)
  BY StepKinds
<1>3. Call(t) \/ Lock(t) \/ LeaveExec(t) \/ MarkDestroyed(t) => UNCHANGED <<slot, wanted, given, sips>>
  BY DEF Call, CallPlan, CallExec, CallSetStream, CallDescribe, CallDestroy, Enter, Lock, LeaveExec,
         MarkDestroyed
<1>4. Call(t) => ~Building(t) /\ ~Building(t)'
  <2>1. CallPlan(t) => ~Building(t)'
    BY <1>1 DEF CallPlan, Building
  <2>2. CallExec(t) => ~Building(t)'
    BY <1>1 DEF CallExec, Enter, Building
  <2>3. CallSetStream(t) => ~Building(t)'
    BY <1>1 DEF CallSetStream, Enter, Building
  <2>4. CallDescribe(t) => ~Building(t)'
    BY <1>1 DEF CallDescribe, Enter, Building
  <2>5. CallDestroy(t) => ~Building(t)'
    BY <1>1 DEF CallDestroy, Building
  <2>6. Call(t) => ~Building(t)
    BY StepKinds DEF Enters, Building, Busy
  <2> QED BY <2>1, <2>2, <2>3, <2>4, <2>5, <2>6 DEF Call
<1>5. Lock(t) \/ LeaveExec(t) \/ MarkDestroyed(t) => ~Building(t) /\ ~Building(t)'
  BY StepKinds DEF Takes, Marks, Ends, Building, Busy, LeaveExec, At
<1>6. Execute(t) => call'[t].op = call[t].op
  BY StepKinds DEF GoesOn
<1>7. Call(t) \/ Lock(t) \/ LeaveExec(t) \/ MarkDestroyed(t) => PlanInv' /\ OwnerInv'
  <2> SUFFICES ASSUME ~Building(t), ~Building(t)', UNCHANGED <<slot, wanted, given, sips>>
               PROVE  PlanInv' /\ OwnerInv'
    BY <1>3, <1>4, <1>5
  <2> QED BY <1>2, Inert
<1>8. Validate(t) \/ PlanAxis(t) \/ Compile(t) => PlanInv' /\ OwnerInv'
  BY <1>1, <1>2, CreationStep
<1>9. ConfigureNpuSipExecution(t) \/ Publish(t) => PlanInv' /\ OwnerInv'
  BY <1>1, <1>2, SipStep, PublishStep
<1>10. Execute(t) => PlanInv' /\ OwnerInv'
  BY <1>1, <1>2, <1>6, ExecuteStep
<1>11. SetStream(t) \/ Describe(t) \/ Delete(t) => PlanInv' /\ OwnerInv'
  BY <1>1, <1>2, StreamStep, DescribeStep, DeleteStep
<1> QED BY <1>7, <1>8, <1>9, <1>10, <1>11 DEF Proceed

-----------------------------------------------------------------------------
(* Executions.                                                             *)

(* No other thread changes the plan's layout under an execution, nor what   *)
(* was asked of its stream once it has run.                                *)
LEMMA UnderExecution ==
  ASSUME IInv, NEW t \in Threads, Call(t) \/ Proceed(t), NEW u \in Threads \ {t}, call[u].op = "exec"
  PROVE  /\ slot'[call[u].h].desc = slot[call[u].h].desc
         /\ call[u].pc = "done" => wanted'[call[u].h] = wanted[call[u].h]
<1> DEFINE Kept == /\ slot'[call[u].h].desc = slot[call[u].h].desc
                   /\ call[u].pc = "done" => wanted'[call[u].h] = wanted[call[u].h]
<1>1. /\ Busy(u) /\ call[u].h \in Handles /\ slot[call[u].h] \in Plans /\ On(u, call[u].h)
      /\ Placed(t) /\ ProtocolInv /\ (Busy(t) => call[t].h \in Handles)
      /\ slot \in [Handles -> Plans \cup {Null}] /\ wanted \in [Handles -> Streams \cup {Null}]
  BY Working DEF Busy, On, IInv, ProtocolInv, TypeInv, TypeOK
<1>2. UNCHANGED <<slot, wanted>> => Kept
  OBVIOUS
<1>3. Call(t) => UNCHANGED <<slot, wanted>>
  BY DEF Call, CallPlan, CallExec, CallSetStream, CallDescribe, CallDestroy, Enter
<1>4. Validate(t) \/ PlanAxis(t) \/ Compile(t) => UNCHANGED <<slot, wanted>>
  BY DEF Validate, PlanAxis, Compile, Fail
<1>5. ConfigureNpuSipExecution(t) => UNCHANGED <<slot, wanted>>
  BY DEF ConfigureNpuSipExecution, Fail
<1>6. Lock(t) \/ Execute(t) \/ LeaveExec(t) \/ MarkDestroyed(t) => UNCHANGED <<slot, wanted>>
  BY DEF Lock, Execute, LeaveExec, MarkDestroyed
<1>7. ASSUME Publish(t) PROVE Kept
  <2>1. call[u].h # call[t].h
    BY <1>1, <1>7 DEF Publish, At, Placed, Busy
  <2> QED BY <1>1, <1>7, <2>1 DEF Publish
<1>8. ASSUME Delete(t) PROVE Kept
  <2>1. call[u].h # call[t].h
    BY <1>1, <1>8 DEF Delete, At, Placed, Busy
  <2> QED BY <1>1, <1>8, <2>1 DEF Delete
<1>9. ASSUME SetStream(t) PROVE Kept
  <2>1. slot' = slot \/ slot' = [slot EXCEPT ![call[t].h].stream = call[t].stream]
    BY <1>9 DEF SetStream
  <2>2. slot'[call[u].h].desc = slot[call[u].h].desc
    BY <1>1, <2>1 DEF Plans
  <2>3. Holds(t, call[t].h) /\ call[t].h \in Handles
    BY <1>1, <1>9 DEF SetStream, At, Holds, On, Busy
  <2>4. call[u].pc = "done" => call[u].h # call[t].h
    BY <1>1, <2>3 DEF ProtocolInv, Holds
  <2> QED BY <1>1, <1>9, <2>2, <2>4 DEF SetStream
<1>10. ASSUME Describe(t) PROVE Kept
  BY <1>1, <1>10 DEF Describe, Plans
<1> HIDE DEF Kept
<1>11. Kept
  BY <1>2, <1>3, <1>4, <1>5, <1>6, <1>7, <1>8, <1>9, <1>10 DEF Proceed
<1> QED BY <1>11 DEF Kept

(* What an execution on either engine did.                                 *)
LEMMA Ran ==
  ASSUME IInv, NEW t \in Threads, call \in [Threads -> Calls], Execute(t)
  PROVE  /\ call'[t].op = "exec" /\ call'[t].h = call[t].h /\ call'[t].type = call[t].type
         /\ call'[t].dir = call[t].dir /\ call'[t].pc = "done"
         /\ call'[t].ran # Null => Executed(t)'
<1>1. call[t] \in ExecCalls /\ call[t].op = "exec" /\ Busy(t) /\ call[t].pc = "work"
  BY CallFields DEF Execute, At, Busy
<1> SUFFICES ASSUME NEW c, c = call[t], NEW p, p = slot[c.h]
             PROVE  /\ call'[t].op = "exec" /\ call'[t].h = c.h /\ call'[t].type = c.type
                    /\ call'[t].dir = c.dir /\ call'[t].pc = "done"
                    /\ call'[t].ran # Null => Executed(t)'
  OBVIOUS
<1>2. /\ p # Null /\ p \in Plans /\ Published(c.h) /\ UNCHANGED <<slot, wanted>>
      /\ c.dir \in Directions(p.desc.type) /\ c.dir \in Dirs /\ c.ran = Null
  BY <1>1, Working DEF Execute, ExecCalls, IInv, ExecInv
<1>3. /\ Whole(p) /\ Sound(p.desc) /\ Fitting(p)
      /\ wanted[c.h] # Null => Streamed(p, wanted[c.h])
  BY <1>2 DEF Published
<1>4. DOMAIN c = {"op", "h", "pc", "type", "in", "out", "dir", "ran"}
  BY <1>1 DEF ExecCalls
<1>5. CASE RawExecute(t)
  <2> DEFINE d == p.desc
  <2> SUFFICES ASSUME NEW run,
                 run = [engine |-> p.exec[c.dir], dir |-> c.dir, stream |-> p.stream,
                        in |-> c.in, out |-> c.out,
                        idist |-> IF Len(d.n) = 1 THEN d.idist ELSE Volume(InputExtents(d.n, d.type)),
                        odist |-> IF Len(d.n) = 1 THEN d.odist ELSE Volume(OutputExtents(d.n, d.type))]
               PROVE  /\ call'[t].op = "exec" /\ call'[t].h = c.h /\ call'[t].type = c.type
                      /\ call'[t].dir = c.dir /\ call'[t].pc = "done"
                      /\ call'[t].ran # Null => Executed(t)'
    OBVIOUS
  <2>1. call' = [call EXCEPT ![t].pc = "done", ![t].ran = run]
    BY <1>5 DEF RawExecute
  <2>2. /\ call'[t].op = "exec" /\ call'[t].h = c.h /\ call'[t].type = c.type
        /\ call'[t].in = c.in /\ call'[t].out = c.out
        /\ call'[t].dir = c.dir /\ call'[t].pc = "done" /\ call'[t].ran = run
    BY <1>1, <1>4, <2>1
  <2>3. run.engine # Null
    BY <1>2, <1>3 DEF Whole, Compiled
  <2>4. /\ run.idist = IF d.many THEN d.idist ELSE Volume(InputExtents(d.n, d.type))
        /\ run.odist = IF d.many THEN d.odist ELSE Volume(OutputExtents(d.n, d.type))
    <3>1. ~d.many \/ Len(d.n) # 1 =>
            /\ d.idist = Volume(InputExtents(d.n, d.type))
            /\ d.odist = Volume(OutputExtents(d.n, d.type))
      BY <1>3 DEF Sound, Dense
    <3> QED BY <3>1
  <2>5. wanted[c.h] # Null => run.stream = wanted[c.h]
    BY <1>3 DEF Streamed
  <2>6. Executed(t)'
    BY <1>2, <2>2, <2>3, <2>4, <2>5 DEF Executed
  <2> QED BY <2>2, <2>6
<1>6. CASE SipExecute(t)
  <2> SUFFICES ASSUME NEW id, id = p.sip[c.dir], NEW y, y = sips[id]
               PROVE  /\ call'[t].op = "exec" /\ call'[t].h = c.h /\ call'[t].type = c.type
                      /\ call'[t].dir = c.dir /\ call'[t].pc = "done"
                      /\ call'[t].ran # Null => Executed(t)'
    OBVIOUS
  <2>1. id # Null /\ y \in Executors /\ Dense(p.desc)
    BY <1>1, <1>6, SipThere DEF SipExecute, IInv, TypeInv
  <2>2. PICK x \in Bind(y, c.in, c.out) :
          IF x.in = Null
            THEN Goto(t, "done")
            ELSE call' = [call EXCEPT ![t].pc = "done",
                   ![t].ran = [engine |-> "sip", dir |-> x.dir, stream |-> x.stream,
                               in |-> x.in, out |-> x.out,
                               idist |-> Volume(x.input), odist |-> Volume(x.output)]]
    BY <1>6 DEF SipExecute
  <2>3. /\ x.dir = y.dir /\ x.stream = y.stream /\ x.input = y.input /\ x.output = y.output
        /\ x.in # Null => x.in = c.in /\ x.out = c.out
    <3>1. c.in \in Pointers /\ c.out \in Pointers
      BY <1>1 DEF ExecCalls
    <3>2. x \in Bind(y, c.in, c.out)
      BY <2>2
    <3>3. Bound(y, c.in, c.out, x)
      BY <2>1, <3>1, <3>2, Binding
    <3> QED BY <3>3 DEF Bound
  <2>4. CASE x.in = Null
    BY <1>1, <1>2, <1>4, <2>2, <2>4 DEF Goto
  <2>5. CASE x.in # Null
    <3> SUFFICES ASSUME NEW run,
                   run = [engine |-> "sip", dir |-> x.dir, stream |-> x.stream,
                          in |-> x.in, out |-> x.out,
                          idist |-> Volume(x.input), odist |-> Volume(x.output)]
                 PROVE  /\ call'[t].op = "exec" /\ call'[t].h = c.h /\ call'[t].type = c.type
                        /\ call'[t].dir = c.dir /\ call'[t].pc = "done"
                        /\ call'[t].ran # Null => Executed(t)'
      OBVIOUS
    <3>1. call' = [call EXCEPT ![t].pc = "done", ![t].ran = run]
      BY <2>2, <2>5
    <3>2. /\ call'[t].op = "exec" /\ call'[t].h = c.h /\ call'[t].type = c.type
          /\ call'[t].in = c.in /\ call'[t].out = c.out
          /\ call'[t].dir = c.dir /\ call'[t].pc = "done" /\ call'[t].ran = run
      BY <1>1, <1>4, <3>1
    <3>3. run.engine # Null /\ run.in = c.in /\ run.out = c.out
      BY <2>3, <2>5, NullApart
    <3>4. y.dir = c.dir /\ y.input = InputExtents(p.desc.n, p.desc.type)
          /\ y.output = OutputExtents(p.desc.n, p.desc.type)
      BY <1>2, <1>3, <2>1 DEF Fitting
    <3>5. wanted[c.h] # Null => run.stream = wanted[c.h]
      BY <1>2, <1>3, <2>1, <2>3 DEF Streamed
    <3>6. /\ run.idist = IF p.desc.many THEN p.desc.idist
                           ELSE Volume(InputExtents(p.desc.n, p.desc.type))
          /\ run.odist = IF p.desc.many THEN p.desc.odist
                           ELSE Volume(OutputExtents(p.desc.n, p.desc.type))
      <4>1. /\ p.desc.idist = Volume(InputExtents(p.desc.n, p.desc.type))
            /\ p.desc.odist = Volume(OutputExtents(p.desc.n, p.desc.type))
        BY <2>1 DEF Dense
      <4>2. /\ run.idist = Volume(InputExtents(p.desc.n, p.desc.type))
            /\ run.odist = Volume(OutputExtents(p.desc.n, p.desc.type))
        BY <2>3, <3>4
      <4> QED BY <4>1, <4>2
    <3>7. run.dir = c.dir
      BY <2>3, <3>4
    <3>8. Executed(t)'
      BY <1>2, <3>2, <3>3, <3>5, <3>6, <3>7 DEF Executed
    <3> QED BY <3>2, <3>8
  <2> QED BY <2>4, <2>5
<1> QED BY <1>5, <1>6 DEF Execute

LEMMA ExecStep ==
  ASSUME IInv, NEW t \in Threads, Call(t) \/ Proceed(t)
  PROVE  ExecInv'
<1> DEFINE Right(u) == call[u].op = "exec" =>
             /\ slot[call[u].h].desc.type = call[u].type
             /\ call[u].dir \in Directions(call[u].type)
             /\ call[u].pc # "done" => call[u].ran = Null
             /\ call[u].pc = "done" /\ call[u].ran # Null => Executed(u)
<1>1. call \in [Threads -> Calls] /\ call[t] \in Calls /\ \A u \in Threads : Right(u)
  BY DEF IInv, TypeInv, ExecInv
<1>2. Others(t)
  BY <1>1, OtherCalls DEF Others
<1>3. ASSUME NEW u \in Threads \ {t} PROVE Right(u)'
  <2>1. CASE call[u].op # "exec"
    BY <1>2, <2>1 DEF Others
  <2>2. CASE call[u].op = "exec"
    <3>1. call'[u] = call[u] /\ slot'[call[u].h].desc = slot[call[u].h].desc
      BY <1>2, <2>2, UnderExecution DEF Others
    <3>2. call[u].pc = "done" => wanted'[call[u].h] = wanted[call[u].h]
      BY <2>2, UnderExecution
    <3> QED BY <1>1, <2>2, <3>1, <3>2 DEF Executed
  <2> QED BY <2>1, <2>2
<1>4. ASSUME Call(t) PROVE Right(t)'
  <2>1. CASE CallExec(t)
    <3>1. PICK h \in Handles, type \in EntryTypes, data \in DataArguments, dir \in Dirs :
            /\ type \in RealForward => dir = "forward"
            /\ type \in RealInverse => dir = "inverse"
            /\ Enter(t, [op |-> "exec", h |-> h, pc |-> "lock", type |-> type,
                         in |-> data[1], out |-> data[2], dir |-> dir, ran |-> Null])
      BY <2>1 DEF CallExec, Dirs
    <3>2. dir \in Directions(type)
      BY <3>1 DEF Directions, Dirs
    <3> SUFFICES ASSUME NEW c, c = [op |-> "exec", h |-> h, pc |-> "lock", type |-> type,
                                    in |-> data[1], out |-> data[2], dir |-> dir, ran |-> Null]
                 PROVE  Right(t)'
      OBVIOUS
    <3>3. /\ c.op = "exec" /\ c.h = h /\ c.type = type /\ c.dir = dir /\ c.pc = "lock"
          /\ c.ran = Null /\ call'[t] = c /\ slot' = slot /\ Admitted(c)
      BY <1>1, <3>1 DEF Enter
    <3> QED BY <3>2, <3>3 DEF Admitted
  <2>2. CASE CallPlan(t)
    BY <1>1, <2>2 DEF CallPlan
  <2>3. CASE CallSetStream(t)
    BY <1>1, <2>3 DEF CallSetStream, Enter
  <2>4. CASE CallDescribe(t)
    BY <1>1, <2>4 DEF CallDescribe, Enter
  <2>5. CASE CallDestroy(t)
    BY <1>1, <2>5 DEF CallDestroy
  <2> QED BY <1>4, <2>1, <2>2, <2>3, <2>4, <2>5 DEF Call
<1>5. Execute(t) => Right(t)'
  <2> SUFFICES ASSUME Execute(t) PROVE Right(t)'
    OBVIOUS
  <2>1. /\ call'[t].h = call[t].h /\ call'[t].type = call[t].type /\ call'[t].dir = call[t].dir
        /\ call'[t].pc = "done" /\ (call'[t].ran # Null => Executed(t)')
    BY <1>1, Ran
  <2>2. call[t].op = "exec" /\ UNCHANGED slot
    BY DEF Execute, At
  <2> QED BY <1>1, <2>1, <2>2
<1>6. Lock(t) => Right(t)'
  <2> SUFFICES ASSUME Lock(t) PROVE Right(t)'
    OBVIOUS
  <2>1. CASE call[t].op = "exec"
    <3>1. call[t] \in ExecCalls
      BY <1>1, <2>1, CallFields
    <3>2. DOMAIN call[t] = {"op", "h", "pc", "type", "in", "out", "dir", "ran"}
      BY <3>1 DEF ExecCalls
    <3>3. /\ call'[t].op = "exec" /\ call'[t].h = call[t].h /\ call'[t].type = call[t].type
          /\ call'[t].dir = call[t].dir /\ call'[t].ran = call[t].ran /\ call'[t].pc = "work"
          /\ slot' = slot /\ call[t].pc = "lock"
      BY <1>1, <2>1, <3>2 DEF Lock, Goto
    <3> QED BY <1>1, <2>1, <3>3
  <2>2. CASE call[t].op # "exec"
    BY <2>2, StepKinds DEF Takes
  <2> QED BY <2>1, <2>2
<1>7. Return(t) => Right(t)'
  BY <1>1 DEF Return, Idle
<1>8. LeaveExec(t) \/ SetStream(t) \/ Describe(t) \/ Delete(t) \/ Publish(t) => Right(t)'
  BY <1>7 DEF LeaveExec, SetStream, Describe, Delete, Publish
<1>9. MarkDestroyed(t) => Right(t)'
  BY StepKinds DEF Marks
<1>10. Validate(t) \/ PlanAxis(t) \/ Compile(t) \/ ConfigureNpuSipExecution(t) => Right(t)'
  BY StepKinds DEF Ends, GoesOn, Busy, Validate, PlanAxis, Compile, ConfigureNpuSipExecution, At
<1> HIDE DEF Right
<1>11. Right(t)'
  BY <1>4, <1>5, <1>6, <1>8, <1>9, <1>10 DEF Proceed
<1>12. \A u \in Threads : Right(u)'
  BY <1>3, <1>11
<1> QED BY <1>12 DEF ExecInv, Right

-----------------------------------------------------------------------------
(* The invariant, and what follows from it.                                *)

(* Calls on a handle, creation and destruction follow the mutex protocol;   *)
(* plans are whole, executors have one owner, and what an execution did is  *)
(* what its call asked for.                                                *)
THEOREM PlanApiInductive == Spec => []IInv
<1>1. Init => IInv
  <2> SUFFICES ASSUME Init PROVE IInv
    OBVIOUS
  <2>1. \A t \in Threads : call[t] = Idle /\ ~Busy(t) /\ ~Building(t) /\ Making(t) = {}
    BY DEF Init, Idle, Busy, Building, Making
  <2>2. \A h \in Handles : slot[h] = Null /\ lock[h] = Null /\ given[h] = {} /\ Held(h) = {}
    BY DEF Init, Held
  <2>3. DOMAIN sips = {} /\ sips \in [DOMAIN sips -> Executors]
    BY DEF Init
  <2>4. TypeInv
    BY <2>1, <2>3, PlanApiAssumption DEF Init, TypeInv, TypeOK, Calls
  <2>5. ProtocolInv
    BY <2>1, <2>2, NullApart DEF ProtocolInv, Placed, Holds, On
  <2>6. PlanInv /\ OwnerInv
    BY <2>1, <2>2, <2>3 DEF PlanInv, Published, Formed, OwnerInv
  <2>7. ExecInv
    BY <2>1 DEF ExecInv, Idle
  <2> QED BY <2>4, <2>5, <2>6, <2>7 DEF IInv
<1>2. IInv /\ [Next]_vars => IInv'
  <2> SUFFICES ASSUME IInv, [Next]_vars PROVE IInv'
    OBVIOUS
  <2>1. CASE Next
    <3>1. PICK t \in Threads : (Call(t) \/ Proceed(t)) /\ UNCHANGED env
      BY <2>1 DEF Next
    <3> QED BY <3>1, TypeStep, ProtocolStep, PlanStep, ExecStep DEF IInv
  <2>2. CASE UNCHANGED vars
    <3>1. /\ env' = env /\ slot' = slot /\ lock' = lock /\ call' = call /\ sips' = sips
          /\ wanted' = wanted /\ given' = given
      BY <2>2 DEF vars
    <3>2. TypeInv'
      BY <3>1 DEF IInv, TypeInv, TypeOK, Busy
    <3>3. ProtocolInv'
      BY <3>1 DEF IInv, ProtocolInv, Placed, Holds, On, Busy
    <3>4. \A p : Alike(p)
      BY <3>1 DEF Alike
    <3>5. PlanInv'
      BY <3>1, <3>4, KeptPlan, KeptMaking DEF IInv, PlanInv
    <3>6. OwnerInv'
      <4>1. (\A h \in Handles : Held(h)' = Held(h)) /\ (\A u \in Threads : Making(u)' = Making(u))
        BY <3>1 DEF Held, Making, Building, Owned
      <4> QED BY <3>1, <4>1, SameOwners DEF IInv
    <3>7. ExecInv'
      BY <3>1 DEF IInv, ExecInv, Executed
    <3> QED BY <3>2, <3>3, <3>5, <3>6, <3>7 DEF IInv
  <2> QED BY <2>1, <2>2
<1> QED BY <1>1, <1>2, PTL DEF Spec

(* A call that holds the mutex works on a plan that is there and has its    *)
(* executable, and no description address goes stale.                      *)
THEOREM PlansOutliveCalls == Spec => []NoUseAfterFree
<1>1. IInv => NoUseAfterFree
  <2> SUFFICES ASSUME IInv PROVE NoUseAfterFree
    OBVIOUS
  <2>1. TypeOK /\ call \in [Threads -> Calls]
    BY DEF IInv, TypeInv
  <2>2. \A t \in Threads : Busy(t) /\ call[t].op \in {"exec", "stream", "describe"}
                            => slot[call[t].h] # Null
    BY DEF IInv, ProtocolInv, Placed
  <2>3. ExecutableThere
    BY DEF IInv, ExecInv, Executed, ExecutableThere, At
  <2>4. DescriptionStable
    BY DEF IInv, PlanInv, Published, DescriptionStable
  <2> QED BY <2>1, <2>2, <2>3, <2>4 DEF NoUseAfterFree
<1> QED BY <1>1, PlanApiInductive, PTL

(* No SiP executor is leaked or owned twice, wherever creation fails.       *)
THEOREM ExecutorsAreOwned == Spec => []SipOwned
<1>1. IInv => SipOwned
  <2> SUFFICES ASSUME IInv PROVE SipOwned
    OBVIOUS
  <2> DEFINE held == [h \in Handles |-> IF slot[h] = Null THEN {} ELSE Owned(slot[h])]
             making == [t \in Threads |-> IF call[t].op = "plan" /\ call[t].pc # "validate"
                                            THEN Owned(call[t].plan) ELSE {}]
  <2>1. \A h \in Handles : held[h] = Held(h)
    BY DEF Held
  <2>2. \A t \in Threads : making[t] = Making(t)
    BY DEF Making, Building
  <2> HIDE DEF held, making
  <2>3. DOMAIN sips = (UNION {held[h] : h \in Handles}) \cup (UNION {making[t] : t \in Threads})
    <3>1. /\ \A h \in Handles : held[h] \subseteq DOMAIN sips
          /\ \A t \in Threads : making[t] \subseteq DOMAIN sips
      BY <2>1, <2>2 DEF IInv, OwnerInv
    <3>2. \A i \in DOMAIN sips : \/ \E h \in Handles : i \in held[h]
                                 \/ \E t \in Threads : i \in making[t]
      BY <2>1, <2>2 DEF IInv, OwnerInv
    <3> QED BY <3>1, <3>2
  <2>4. \A g, h \in Handles : g # h => held[g] \cap held[h] = {}
    BY <2>1 DEF IInv, OwnerInv
  <2> QED BY <2>3, <2>4 DEF SipOwned, held, making
<1> QED BY <1>1, PlanApiInductive, PTL

(* Executions run on the stream of the last flagfftSetStream that succeeded. *)
THEOREM StreamsAreHonoured == Spec => []StreamHonoured
<1>1. IInv => StreamHonoured
  BY DEF IInv, ExecInv, Executed, StreamHonoured, At
<1> QED BY <1>1, PlanApiInductive, PTL

(* Executions touch the buffers of their own call.                         *)
THEOREM BuffersAreHonoured == Spec => []BuffersHonoured
<1>1. IInv => BuffersHonoured
  BY DEF IInv, ExecInv, Executed, BuffersHonoured, At
<1> QED BY <1>1, PlanApiInductive, PTL

(* The transforms of a batch lie as the creating call said, for any INT_MAX. *)
THEOREM LayoutsAreHonoured == Spec => []LayoutHonoured
<1>1. IInv => LayoutHonoured
  BY DEF IInv, ExecInv, Executed, LayoutHonoured, At
<1> QED BY <1>1, PlanApiInductive, PTL

=============================================================================
