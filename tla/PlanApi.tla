------------------------------- MODULE PlanApi -------------------------------
(***************************************************************************)
(* The C interface of FlagFFT: flagfftPlan1d/2d/3d/Many with the            *)
(* descriptor checks and build_plan behind them, flagfftExec*,              *)
(* flagfftSetStream, flagfftGetPlanDescription and flagfftDestroy, and the  *)
(* NPU SiP executors a plan may own (c_api_plan.cpp, c_api_internal.cpp,    *)
(* c_api_exec.cpp, sip_executor.cpp).                                       *)
(*                                                                         *)
(* A call is a small program run by a thread: it is entered, checks its     *)
(* arguments before it takes plan->mutex, works under the mutex and         *)
(* returns.  Creation works on a plan that no handle shows yet.  What the   *)
(* planner, the kernel compiler, the device and the SiP library answer is   *)
(* chosen by the environment: success, failure or an exception.             *)
(*                                                                         *)
(* The caller's side of the contract: a handle variable is given to a       *)
(* creating call while no other call uses it; nobody enters a call on a     *)
(* handle once flagfftDestroy was entered, and flagfftDestroy is entered    *)
(* only when every other call on the handle has taken the mutex.            *)
(***************************************************************************)
EXTENDS Integers, Sequences, FiniteSets

CONSTANTS
  Threads, Handles, Streams, Buffers,
  DefaultStream,   \* the stream of a plan nobody called SetStream on
  Null,            \* a null pointer
  Requests,        \* the creating calls a client may make
  SipIds,          \* names for the SiP executors that may exist at once
  IntMax,          \* INT_MAX of the C int the entry points multiply in
  Environments,    \* builds and process environments the library may run in
  EntryTypes,      \* the flagfftExec* entry points clients call
  DataArguments,   \* the pairs of input and output pointers they pass
  GraphMax,        \* largest 3-D problem wrapped in a replay graph on HCU
  SipMaxFactor,    \* 199, largest prime factor SiP takes
  DirectDftMaxN    \* 128, primes up to it are never given to Rader

ASSUME PlanApiAssumption ==
  /\ DefaultStream \in Streams /\ Null \notin Buffers
  /\ DataArguments \subseteq (Buffers \cup {Null}) \X (Buffers \cup {Null})
  /\ IntMax \in Nat /\ GraphMax \in Nat
  /\ \A e \in Environments : e.sip \in {"off", "auto", "triton", "sip"}

VARIABLES
  env,     \* adaptor::backend_name(), and which SiP execution is built in and asked for
  slot,    \* what a handle variable points to: a plan or Null
  lock,    \* holder of plan->mutex
  call,    \* what each thread is doing
  sips,    \* the live SiP executors
  wanted,  \* ghost: stream of the last SetStream that succeeded, Null after a failed one
  given    \* ghost: description pointers handed out for the plan of a handle

vars == <<env, slot, lock, call, sips, wanted, given>>

-----------------------------------------------------------------------------
(* Descriptors.                                                            *)

RealForward == {"R2C", "D2Z"}
RealInverse == {"C2R", "Z2D"}
Doubles == {"Z2Z", "D2Z", "Z2D"}
Types == {"C2C", "Z2Z"} \cup RealForward \cup RealInverse

(* A product computed in C ints: INT_MIN is -IntMax - 1.                    *)
IntWrap(x) == ((x + IntMax + 1) % (2 * IntMax + 2)) - IntMax - 1
Half(n) == n \div 2 + 1

(* The extents with the last one replaced by its non-redundant half.       *)
Halved(n) == [n EXCEPT ![Len(n)] = Half(@)]
Volume(n) == CASE Len(n) = 1 -> n[1]
               [] Len(n) = 2 -> n[1] * n[2]
               [] Len(n) = 3 -> n[1] * n[2] * n[3]
InputExtents(n, type) == IF type \in RealInverse THEN Halved(n) ELSE n
OutputExtents(n, type) == IF type \in RealForward THEN Halved(n) ELSE n

(* flagfftPlan1d, flagfftPlan2d and flagfftPlan3d: arguments for            *)
(* flagfftPlanMany, the distances being products of C ints.                *)
PlanDense(n, type, batch) ==
  [n |-> n, inembed |-> Null, onembed |-> Null, istride |-> 1, ostride |-> 1,
   idist |-> IntWrap(Volume(InputExtents(n, type))),
   odist |-> IntWrap(Volume(OutputExtents(n, type))),
   type |-> type, batch |-> batch, many |-> FALSE]
Plan1d(nx, type, batch) == PlanDense(<<nx>>, type, batch)
Plan2d(nx, ny, type) == PlanDense(<<nx, ny>>, type, 1)
Plan3d(nx, ny, nz, type) == PlanDense(<<nx, ny, nz>>, type, 1)

(* The descriptor flagfftPlanMany fills in, with the default embeddings.   *)
Descriptor(r) ==
  [n |-> r.n, type |-> r.type, batch |-> r.batch, idist |-> r.idist, odist |-> r.odist,
   istride |-> r.istride, ostride |-> r.ostride, many |-> r.many,
   inembed |-> IF r.inembed # Null THEN r.inembed ELSE InputExtents(r.n, r.type),
   onembed |-> IF r.onembed # Null THEN r.onembed ELSE OutputExtents(r.n, r.type)]

(* What a client asks for: flagfftPlanMany with extents and distances of its *)
(* own, or one of the entry points that fill them in.                      *)
ASSUME RequestsAssumption ==
  \A r \in Requests :
    /\ r.n \in Seq(Int) /\ r.batch \in Int /\ r.idist \in Int /\ r.odist \in Int
    /\ r.many \in BOOLEAN
    /\ ~r.many => r = PlanDense(r.n, r.type, r.batch)

(* One dimension: rows are dense, or padded for an in-place real transform. *)
IsSupportedMinimalDesc(d) ==
  LET padded == 2 * Half(d.n[1])
      input == InputExtents(d.n, d.type)[1]
      output == OutputExtents(d.n, d.type)[1]
      inputs == {input} \cup IF d.type \in RealForward THEN {padded} ELSE {}
      outputs == {output} \cup IF d.type \in RealInverse THEN {padded} ELSE {}
  IN  /\ Len(d.n) = 1 /\ d.batch > 0 /\ d.n[1] > 0 /\ d.type \in Types
      /\ d.istride = 1 /\ d.ostride = 1
      /\ d.idist \in inputs /\ d.inembed[1] \in inputs
      /\ d.odist \in outputs /\ d.onembed[1] \in outputs

(* Mutant: padded planes are accepted.                                     *)
IsDenseAnyDistance(d) ==
  /\ d.batch > 0 /\ d.type \in Types /\ d.istride = 1 /\ d.ostride = 1
  /\ \A i \in DOMAIN d.n : d.n[i] > 0
(* Two and three dimensions: only dense blocks.                            *)
IsDense(d) ==
  /\ d.batch > 0 /\ d.type \in Types /\ d.istride = 1 /\ d.ostride = 1
  /\ \A i \in DOMAIN d.n : d.n[i] > 0
  /\ d.idist = Volume(InputExtents(d.n, d.type))
  /\ d.odist = Volume(OutputExtents(d.n, d.type))
IsSupported2dDesc(d) == Len(d.n) = 2 /\ IsDense(d)
IsSupported3dDesc(d) == Len(d.n) = 3 /\ IsDense(d)

(* The argument checks of flagfftPlanMany, then of build_plan.             *)
Verdict(r) ==
  LET d == Descriptor(r)
  IN  IF Len(r.n) = 0 \/ r.batch <= 0 THEN "INVALID_VALUE"
      ELSE IF \E i \in DOMAIN r.n : r.n[i] <= 0 THEN "INVALID_SIZE"
      ELSE IF r.type \notin Types THEN "INVALID_TYPE"
      ELSE IF IsSupportedMinimalDesc(d) \/ IsSupported2dDesc(d) \/ IsSupported3dDesc(d)
        THEN "SUCCESS" ELSE "NOT_SUPPORTED"

(* The directions a plan of a type is compiled for.                        *)
Directions(type) ==
  IF type \in RealForward THEN {"forward"}
  ELSE IF type \in RealInverse THEN {"inverse"} ELSE {"forward", "inverse"}

IsPrimeLength(n) == n > 1 /\ \A f \in 2..(n - 1) : n % f # 0

(* Lengths SiP takes, and descriptors: single precision, at most two        *)
(* dimensions, dense rows and embeddings.                                  *)
SipFactorLimit(n) == \A p \in 2..n : IsPrimeLength(p) /\ n % p = 0 => p <= SipMaxFactor
NpuSipSupports(d) ==
  /\ d.type \notin Doubles /\ Len(d.n) \in {1, 2}
  /\ d.istride = 1 /\ d.ostride = 1
  /\ \A i \in DOMAIN d.n : SipFactorLimit(d.n[i])
  /\ d.idist = Volume(InputExtents(d.n, d.type)) /\ d.inembed = InputExtents(d.n, d.type)
  /\ d.odist = Volume(OutputExtents(d.n, d.type)) /\ d.onembed = OutputExtents(d.n, d.type)

(* HCU wraps small 3-D executables in a replay graph; one prime shape too,  *)
(* and none when profiling or FLAGFFT_HCU_3D_GRAPH=0 asks for that, which    *)
(* has the effect of another backend here.                                 *)
GraphAllowed(d) == env.backend = "hcu" /\ Len(d.n) = 3 /\ d.batch * Volume(d.n) <= GraphMax

-----------------------------------------------------------------------------
(* Calls.                                                                  *)

Idle == [op |-> "idle"]
NoExec == [d \in {"forward", "inverse"} |-> Null]
FreshPlan(d) ==
  [desc |-> d, exec |-> NoExec, sip |-> NoExec, sipEnabled |-> FALSE,
   initialized |-> FALSE, stream |-> DefaultStream, text |-> 0]

(* What a handle may point to.  Null is none of these, and no thread,       *)
(* executor or executable either.                                          *)
Kinds == {"raw", "graph"}
Plans ==
  [desc : {Descriptor(r) : r \in Requests},
   exec : [{"forward", "inverse"} -> Kinds \cup {Null}],
   sip : [{"forward", "inverse"} -> SipIds \cup {Null}],
   sipEnabled : BOOLEAN, initialized : BOOLEAN, stream : Streams, text : Nat]
ASSUME NullApart ==
  /\ Null \notin Threads /\ Null \notin SipIds /\ Null \notin Streams
  /\ Null \notin Kinds \cup {"sip"} /\ Null \notin Plans

Busy(t) == call[t].op # "idle"
On(t, h) == Busy(t) /\ call[t].h = h
At(t, op, pc) == call[t].op = op /\ call[t].pc = pc

Goto(t, pc) == call' = [call EXCEPT ![t].pc = pc]
Return(t) == call' = [call EXCEPT ![t] = Idle]

Init ==
  /\ env \in Environments
  /\ slot = [h \in Handles |-> Null]
  /\ lock = [h \in Handles |-> Null]
  /\ call = [t \in Threads |-> Idle]
  /\ sips = << >>
  /\ wanted = [h \in Handles |-> DefaultStream]
  /\ given = [h \in Handles |-> {}]

(* Creation.  The handle variable is cleared on entry and set only when    *)
(* the plan is whole.                                                      *)
CallPlan(t) ==
  /\ ~Busy(t)
  /\ \E h \in Handles, r \in Requests :
       /\ slot[h] = Null /\ \A u \in Threads : ~On(u, h)
       /\ call' = [call EXCEPT ![t] = [op |-> "plan", h |-> h, pc |-> "validate", req |-> r]]
  /\ UNCHANGED <<slot, lock, sips, wanted, given>>

Validate(t) ==
  /\ At(t, "plan", "validate")
  /\ LET r == call[t].req
         d == Descriptor(r)
     IN  \/ /\ Verdict(r) = "SUCCESS" /\ ~(env.backend = "npu" /\ d.type \in Doubles)
            /\ call' = [call EXCEPT ![t] =
                 [op |-> "plan", h |-> @.h, pc |-> "axis", plan |-> FreshPlan(d),
                  axis |-> 1, attempt |-> "lookup", planned |-> {}]]
         \/ Return(t)   \* a refused descriptor, or ensure_device failed
  /\ UNCHANGED <<slot, lock, sips, wanted, given>>

(* Give up creation: the unique_ptr destroys the plan and its executors.   *)
Owned(p) == {p.sip["forward"], p.sip["inverse"]} \ {Null}
(* Mutant: the destructor forgets the inverse executor.                    *)
ReleaseForward(p) == sips' = [i \in DOMAIN sips \ {p.sip["forward"]} |-> sips[i]]
Release(p) == sips' = [i \in DOMAIN sips \ Owned(p) |-> sips[i]]
Fail(t) ==
  /\ Release(call[t].plan)
  /\ Return(t)
  /\ UNCHANGED <<slot, lock, wanted, given>>

(* The planner's attempts for one axis, in order: tuned or built for the    *)
(* request, the other direction, Rader, Bluestein.                         *)
NextAttempt(a) == CASE a = "lookup" -> "other" [] a = "other" -> "rader" [] a = "rader" -> "bluestein"
Possible(a, n) == a = "rader" => IsPrimeLength(n) /\ n > DirectDftMaxN

(* build_plan plans the innermost axis first; a failed axis of a 3-D plan   *)
(* is noticed after all three were tried.                                  *)
AxisExtent(d, k) == d.n[Len(d.n) + 1 - k]
AfterAxis(t, k, done) ==
  call' = [call EXCEPT ![t].pc = IF k = Len(call[t].plan.desc.n) THEN "compile" ELSE "axis",
                       ![t].axis = k + 1, ![t].attempt = "lookup", ![t].planned = done]
PlanAxis(t) ==
  /\ At(t, "plan", "axis")
  /\ LET c == call[t]
         d == c.plan.desc
     IN  \/ /\ Possible(c.attempt, AxisExtent(d, c.axis))
            /\ AfterAxis(t, c.axis, c.planned \cup {c.axis})
            /\ UNCHANGED <<slot, lock, sips, wanted, given>>
         \/ /\ c.attempt # "bluestein"
            /\ call' = [call EXCEPT ![t].attempt = NextAttempt(@)]
            /\ UNCHANGED <<slot, lock, sips, wanted, given>>
         \/ /\ c.attempt = "bluestein" /\ Len(d.n) = 3
            /\ AfterAxis(t, c.axis, c.planned)
            /\ UNCHANGED <<slot, lock, sips, wanted, given>>
         \/ /\ (c.attempt = "bluestein" /\ Len(d.n) < 3) \/ Possible(c.attempt, AxisExtent(d, c.axis))
            /\ Fail(t)   \* NOT_SUPPORTED, or the planner threw

(* Compile the directions of the type, forward first, then wrap.           *)
Compiled(p) == {d \in {"forward", "inverse"} : p.exec[d] # Null}
NextDirection(p) ==
  LET left == Directions(p.desc.type) \ Compiled(p)
  IN  IF "forward" \in left THEN "forward" ELSE "inverse"
Compile(t) ==
  /\ At(t, "plan", "compile")
  /\ LET c == call[t]
         dir == NextDirection(c.plan)
         kind == IF GraphAllowed(c.plan.desc) THEN "graph" ELSE "raw"
         made == [c.plan EXCEPT !.exec[dir] = kind]
     IN  \/ /\ c.planned = 1..Len(c.plan.desc.n)
            /\ call' = [call EXCEPT ![t].plan = made,
                 ![t].pc = IF Compiled(made) = Directions(made.desc.type) THEN "sip" ELSE "compile"]
            /\ UNCHANGED <<slot, lock, sips, wanted, given>>
         \/ Fail(t)   \* an axis is missing, or the compiler threw

-----------------------------------------------------------------------------
(* SiP executors (FLAGFFT_NPU_ENABLE_SIP_EXECUTION).                       *)

FreshSip == CHOOSE i \in SipIds : i \notin DOMAIN sips
Executor(d, dir) ==
  [dir |-> dir, stream |-> DefaultStream, in |-> Null, out |-> Null,
   input |-> InputExtents(d.n, d.type), output |-> OutputExtents(d.n, d.type)]
SipCreated(p) == {d \in {"forward", "inverse"} : p.sip[d] # Null}

(* configure_npu_sip_execution: one executor per direction of the type; if  *)
(* one cannot be made both are destroyed, and the plan falls back to its    *)
(* own kernels unless SiP was asked for by name.                           *)
ConfigureNpuSipExecution(t) ==
  /\ At(t, "plan", "sip")
  /\ LET p == call[t].plan
         left == Directions(p.desc.type) \ SipCreated(p)
         dir == IF "forward" \in left THEN "forward" ELSE "inverse"
     IN  \/ /\ env.sip \in {"off", "triton"} \/ (env.sip = "auto" /\ ~NpuSipSupports(p.desc))
            /\ Goto(t, "publish")
            /\ UNCHANGED <<slot, lock, sips, wanted, given>>
         \/ /\ env.sip = "sip" /\ ~NpuSipSupports(p.desc)
            /\ Fail(t)
         \/ /\ env.sip \in {"auto", "sip"} /\ NpuSipSupports(p.desc)
            /\ SipIds \ DOMAIN sips # {}
            /\ LET made == [p EXCEPT !.sip[dir] = FreshSip, !.sipEnabled = (left = {dir})]
               IN  call' = [call EXCEPT ![t].plan = made,
                                        ![t].pc = IF left = {dir} THEN "publish" ELSE "sip"]
            /\ sips' = [i \in DOMAIN sips \cup {FreshSip} |->
                          IF i = FreshSip THEN Executor(p.desc, dir) ELSE sips[i]]
            /\ UNCHANGED <<slot, lock, wanted, given>>
         \/ /\ env.sip = "auto" /\ NpuSipSupports(p.desc)   \* a failed executor: use Triton
            /\ Release(p)
            /\ call' = [call EXCEPT ![t].plan.sip = NoExec, ![t].pc = "publish"]
            /\ UNCHANGED <<slot, lock, wanted, given>>
         \/ /\ env.sip = "sip" /\ NpuSipSupports(p.desc)    \* the same, and SiP was required
            /\ Fail(t)

Publish(t) ==
  /\ At(t, "plan", "publish")
  /\ LET h == call[t].h
     IN  /\ slot' = [slot EXCEPT ![h] = [call[t].plan EXCEPT !.initialized = TRUE]]
         /\ wanted' = [wanted EXCEPT ![h] = DefaultStream]
  /\ Return(t)
  /\ UNCHANGED <<lock, sips, given>>

-----------------------------------------------------------------------------
(* Calls on a handle.                                                      *)

(* Nobody enters a call on a handle that is being destroyed or created.    *)
Usable(h) == \A t \in Threads : On(t, h) => call[t].op \notin {"destroy", "plan"}

(* The checks before the mutex: a plan is there and whole, and for Exec     *)
(* buffers, entry point and type agree.  A call they refuse returns at once *)
(* and changes nothing.                                                    *)
Admitted(c) ==
  /\ slot[c.h] # Null
  /\ c.op \in {"exec", "describe"} => slot[c.h].initialized
  /\ c.op = "exec" => c.in # Null /\ c.out # Null /\ slot[c.h].desc.type = c.type
Enter(t, c) ==
  /\ ~Busy(t) /\ Usable(c.h) /\ Admitted(c)
  /\ call' = [call EXCEPT ![t] = c]
  /\ UNCHANGED <<slot, lock, sips, wanted, given>>

CallExec(t) ==
  \E h \in Handles, type \in EntryTypes, data \in DataArguments, dir \in {"forward", "inverse"} :
    /\ type \in RealForward => dir = "forward"
    /\ type \in RealInverse => dir = "inverse"
    /\ Enter(t, [op |-> "exec", h |-> h, pc |-> "lock", type |-> type,
                 in |-> data[1], out |-> data[2], dir |-> dir, ran |-> Null])
CallSetStream(t) ==
  \E h \in Handles, s \in Streams :
    Enter(t, [op |-> "stream", h |-> h, pc |-> "lock", stream |-> s])
CallDescribe(t) ==
  \E h \in Handles : Enter(t, [op |-> "describe", h |-> h, pc |-> "lock"])

Lock(t) ==
  /\ Busy(t) /\ call[t].op # "plan" /\ call[t].pc = "lock"
  /\ lock[call[t].h] = Null
  /\ lock' = [lock EXCEPT ![call[t].h] = t]
  /\ Goto(t, "work")
  /\ UNCHANGED <<slot, sips, wanted, given>>

Unlock(h) == lock' = [lock EXCEPT ![h] = Null]

(* The SiP executor of the direction is bound to the call's buffers: the    *)
(* tensors of the last call are kept when both pointers are the same.       *)
(* The second tensor may fail, which leaves none.                          *)
(* Mutant: only the input pointer is compared.                             *)
BindByInput(x, i, o) ==
  IF x.in = i THEN {x}
  ELSE {[x EXCEPT !.in = i, !.out = o], [x EXCEPT !.in = Null, !.out = Null]}
Bind(x, i, o) ==
  IF x.in = i /\ x.out = o THEN {x}
  ELSE {[x EXCEPT !.in = i, !.out = o], [x EXCEPT !.in = Null, !.out = Null]}
SipExecute(t) ==
  LET c == call[t]
      p == slot[c.h]
      id == p.sip[c.dir]
  IN  /\ p.sipEnabled /\ c.in # c.out
      /\ \E x \in Bind(sips[id], c.in, c.out) :
           /\ sips' = [sips EXCEPT ![id] = x]
           /\ IF x.in = Null
                THEN Goto(t, "done")
                ELSE call' = [call EXCEPT ![t].pc = "done",
                       ![t].ran = [engine |-> "sip", dir |-> x.dir, stream |-> x.stream,
                                   in |-> x.in, out |-> x.out,
                                   idist |-> Volume(x.input), odist |-> Volume(x.output)]]

(* Otherwise the compiled executable of the direction runs on the plan's    *)
(* stream; one-dimensional ones with the distances of the descriptor,       *)
(* the others on dense blocks.                                             *)
RawExecute(t) ==
  LET c == call[t]
      p == slot[c.h]
      d == p.desc
  IN  /\ ~(p.sipEnabled /\ c.in # c.out)
      /\ call' = [call EXCEPT ![t].pc = "done",
           ![t].ran = [engine |-> p.exec[c.dir], dir |-> c.dir, stream |-> p.stream,
                       in |-> c.in, out |-> c.out,
                       idist |-> IF Len(d.n) = 1 THEN d.idist ELSE Volume(InputExtents(d.n, d.type)),
                       odist |-> IF Len(d.n) = 1 THEN d.odist ELSE Volume(OutputExtents(d.n, d.type))]]
      /\ UNCHANGED sips

Execute(t) ==
  /\ At(t, "exec", "work")
  /\ SipExecute(t) \/ RawExecute(t)
  /\ UNCHANGED <<slot, lock, wanted, given>>
LeaveExec(t) ==
  /\ At(t, "exec", "done")
  /\ Unlock(call[t].h)
  /\ Return(t)
  /\ UNCHANGED <<slot, sips, wanted, given>>

(* The executors a stream change is passed on to.                          *)
(* Mutant: the inverse executor is not told.                               *)
ToldForward(p) == IF p.sipEnabled THEN {p.sip["forward"]} \ {Null} ELSE {}
Told(p) == IF p.sipEnabled THEN Owned(p) ELSE {}

(* flagfftSetStream: both executors are told even if the first refuses; the *)
(* plan's own stream is set only when both accepted.                       *)
SetStream(t) ==
  /\ At(t, "stream", "work")
  /\ LET c == call[t]
         p == slot[c.h]
         mine == Told(p)
     IN  \E took \in SUBSET mine :
           /\ sips' = [i \in DOMAIN sips |-> IF i \in took THEN [sips[i] EXCEPT !.stream = c.stream]
                                             ELSE sips[i]]
           /\ slot' = IF took = mine THEN [slot EXCEPT ![c.h].stream = c.stream] ELSE slot
           /\ wanted' = [wanted EXCEPT ![c.h] = IF took = mine THEN c.stream ELSE Null]
           /\ Unlock(c.h)
  /\ Return(t)
  /\ UNCHANGED given

(* flagfftGetPlanDescription: the text is made once, and its address given  *)
(* away.                                                                   *)
Text(p) == IF p.text # 0 THEN p.text ELSE p.text + 1
Describe(t) ==
  /\ At(t, "describe", "work")
  /\ LET h == call[t].h
         text == Text(slot[h])
     IN  /\ slot' = [slot EXCEPT ![h].text = text]
         /\ given' = [given EXCEPT ![h] = @ \cup {text}]
         /\ Unlock(h)
  /\ Return(t)
  /\ UNCHANGED <<sips, wanted>>

(* flagfftDestroy: the mutex is held only to mark the plan.                *)
(* Mutant: it does not wait for the mutex.                                 *)
CallDestroyAtOnce(t) ==
  /\ ~Busy(t)
  /\ \E h \in Handles :
       /\ slot[h] # Null
       /\ \A u \in Threads : On(u, h) => call[u].pc \in {"work", "done"} /\ call[u].op # "destroy"
       /\ call' = [call EXCEPT ![t] = [op |-> "destroy", h |-> h, pc |-> "delete"]]
  /\ UNCHANGED <<slot, lock, sips, wanted, given>>
CallDestroy(t) ==
  /\ ~Busy(t)
  /\ \E h \in Handles :
       /\ slot[h] # Null
       /\ \A u \in Threads : On(u, h) => call[u].pc \in {"work", "done"} /\ call[u].op # "destroy"
       /\ call' = [call EXCEPT ![t] = [op |-> "destroy", h |-> h, pc |-> "lock"]]
  /\ UNCHANGED <<slot, lock, sips, wanted, given>>
MarkDestroyed(t) ==
  /\ At(t, "destroy", "work")
  /\ Unlock(call[t].h)
  /\ Goto(t, "delete")
  /\ UNCHANGED <<slot, sips, wanted, given>>
Delete(t) ==
  /\ At(t, "destroy", "delete")
  /\ LET h == call[t].h
     IN  /\ Release(slot[h])
         /\ slot' = [slot EXCEPT ![h] = Null]
         /\ given' = [given EXCEPT ![h] = {}]
  /\ Return(t)
  /\ UNCHANGED <<lock, wanted>>

-----------------------------------------------------------------------------
Call(t) ==
  \/ CallPlan(t) \/ CallExec(t) \/ CallSetStream(t) \/ CallDescribe(t) \/ CallDestroy(t)
Proceed(t) ==
  \/ Validate(t) \/ PlanAxis(t) \/ Compile(t) \/ ConfigureNpuSipExecution(t) \/ Publish(t)
  \/ Lock(t) \/ Execute(t) \/ LeaveExec(t) \/ SetStream(t) \/ Describe(t)
  \/ MarkDestroyed(t) \/ Delete(t)

Next == (\E t \in Threads : Call(t) \/ Proceed(t)) /\ UNCHANGED env

Spec == Init /\ [][Next]_vars

-----------------------------------------------------------------------------
(* Properties.                                                             *)

(* Types of the state: a slot is empty or holds a plan, a mutex has at most *)
(* one holder, and executors are taken from the pool.                      *)
TypeOK ==
  /\ env \in Environments
  /\ slot \in [Handles -> Plans \cup {Null}]
  /\ lock \in [Handles -> Threads \cup {Null}]
  /\ DOMAIN sips \subseteq SipIds
  /\ wanted \in [Handles -> Streams \cup {Null}]
  /\ given \in [Handles -> SUBSET Nat]
  /\ \A t \in Threads : Busy(t) => call[t].h \in Handles

(* A call that passed the checks before the mutex finds, under the mutex,   *)
(* the executable of its direction: build_plan leaves no plan behind a      *)
(* handle whose type lacks one, whatever step of creation failed.          *)
ExecutableThere ==
  \A t \in Threads : At(t, "exec", "done") /\ call[t].ran # Null =>
    call[t].ran.engine # Null /\ call[t].ran.dir = call[t].dir

(* Every SiP executor is owned by a published plan or by a plan under       *)
(* construction: failures in the middle of creation leak none, and none is  *)
(* owned twice.                                                            *)
SipOwned ==
  LET held == [h \in Handles |-> IF slot[h] = Null THEN {} ELSE Owned(slot[h])]
      making == [t \in Threads |-> IF call[t].op = "plan" /\ call[t].pc # "validate"
                                     THEN Owned(call[t].plan) ELSE {}]
  IN  /\ DOMAIN sips = (UNION {held[h] : h \in Handles}) \cup (UNION {making[t] : t \in Threads})
      /\ \A g, h \in Handles : g # h => held[g] \cap held[h] = {}

(* After a SetStream that succeeded, and until one fails, both directions   *)
(* and both engines run on that stream.                                    *)
StreamHonoured ==
  \A t \in Threads : At(t, "exec", "done") /\ call[t].ran # Null /\ wanted[call[t].h] # Null =>
    call[t].ran.stream = wanted[call[t].h]

(* An execution reads and writes the buffers of its own call, although the  *)
(* SiP tensors are kept from one call to the next.                         *)
BuffersHonoured ==
  \A t \in Threads : At(t, "exec", "done") /\ call[t].ran # Null =>
    call[t].ran.in = call[t].in /\ call[t].ran.out = call[t].out

(* The distance between the transforms of a batch is the one the creating   *)
(* call described: for flagfftPlan1d/2d/3d the exact product of the         *)
(* extents, although the entry points multiply in C ints.                  *)
LayoutHonoured ==
  \A t \in Threads : At(t, "exec", "done") /\ call[t].ran # Null /\ slot[call[t].h] # Null =>
    LET d == slot[call[t].h].desc
        input == IF d.many THEN d.idist ELSE Volume(InputExtents(d.n, d.type))
        output == IF d.many THEN d.odist ELSE Volume(OutputExtents(d.n, d.type))
    IN  call[t].ran.idist = input /\ call[t].ran.odist = output

(* The address flagfftGetPlanDescription returned stays valid while the     *)
(* plan lives: the text behind it is never replaced.                       *)
DescriptionStable ==
  \A h \in Handles : slot[h] # Null => given[h] \subseteq {slot[h].text}

(* A call that holds the mutex works on a whole plan: it is still there,    *)
(* even if flagfftDestroy is entered meanwhile, it has the executable of    *)
(* the call's direction, and no text given to a caller was replaced.       *)
NoUseAfterFree ==
  /\ TypeOK
  /\ \A t \in Threads : Busy(t) /\ call[t].op \in {"exec", "stream", "describe"}
                          /\ call[t].pc \in {"work", "done"} => slot[call[t].h] # Null
  /\ ExecutableThere
  /\ DescriptionStable

=============================================================================
