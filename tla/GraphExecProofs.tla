--------------------------- MODULE GraphExecProofs ---------------------------
(***************************************************************************)
(* Proofs about GraphExec for any plans, streams, buffers and calls.       *)
(*                                                                         *)
(* First what is stored and captured, then, in the second part, what the   *)
(* device computes.                                                        *)
(*                                                                         *)
(* GraphComplete rests on TypeInv and GraphInv: what a capture holds is    *)
(* the sequence of its node up to the next launch.                         *)
(***************************************************************************)
EXTENDS GraphExec, TLAPS, SequenceTheorems

\* Plans whose recording cannot break off unnoticed: no launch fails while
\* recording, or the node looks at the result of the recorded sequence.
Checked(p) == "record" \notin Faults[p] \/ Node[p] \in {"leaf", "graph"}

\* The launches of one execute, by the kind of the node.
Length(p) == CASE Node[p] = "leaf" -> 1 [] Node[p] = "rc" -> 2
               [] Node[p] = "2d" -> 4 [] Node[p] = "graph" -> 6

\* The states are well typed and a call in progress has its two pointers.
TypeInv ==
    /\ TypeOK
    /\ i \in [Plan -> Nat]
    /\ DOMAIN graph = Plan /\ DOMAIN graphIO = Plan /\ DOMAIN taken = Plan
    /\ DOMAIN queue = Stream /\ DOMAIN captured = Stream
    /\ \A p \in Plan : pc[p] # "idle" => io[p] \in Buf \X Buf

\* The pointers do not change how many launches a node makes.
LEMMA SequenceLength ==
  ASSUME NEW p \in Plan, NEW in, NEW out
  PROVE  Len(Sequence(p, in, out)) = Length(p) /\ Length(p) \in 1..6
<1>1. CASE Node[p] = "leaf"
  BY <1>1 DEF Sequence, Length, K
<1>2. CASE Node[p] = "rc"
  BY <1>2 DEF Sequence, Length, K
<1>3. CASE Node[p] = "2d"
  BY <1>3 DEF Sequence, Length, K
<1>4. CASE Node[p] = "graph"
  BY <1>4 DEF Sequence, Length, K
<1> QED BY <1>1, <1>2, <1>3, <1>4, NodeType DEF Kinds

LEMMA LaunchesLength ==
  ASSUME NEW p \in Plan
  PROVE  /\ Len(Launches(p)) = Length(p) /\ Len(Launches(p)') = Length(p)
         /\ Length(p) \in 1..6
<1>1. Len(Launches(p)) = Length(p) /\ Length(p) \in 1..6
  BY SequenceLength DEF Launches
<1>2. Len(Launches(p)') = Length(p)
  BY SequenceLength DEF Launches
<1> QED BY <1>1, <1>2

\* One plan is at work on a stream at a time, on buffers of its own: the
\* caller's rule, kept while calls proceed.
ApartInv ==
    \A p, q \in Plan : p # q /\ pc[p] # "idle" /\ pc[q] # "idle" =>
        /\ stream[p] # stream[q]
        /\ {io[p][1], io[p][2]} \cap {io[q][1], io[q][2]} = {}

\* Every action that is a step of a call on plan p leaves the other plans,
\* and the pointers, the stream and the counter of p, as they are.
LEMMA HostFrame ==
  ASSUME TypeInv, NEW p \in Plan, HostStep(p)
  PROVE  /\ UNCHANGED <<stream, io, execs, mem>>
         /\ pc[p] # "idle" /\ pc' \in [Plan -> Points]
         /\ \A q \in Plan \ {p} : /\ pc'[q] = pc[q] /\ i'[q] = i[q]
                                  /\ graph'[q] = graph[q] /\ graphIO'[q] = graphIO[q]
                                  /\ taken'[q] = taken[q] /\ failed'[q] = failed[q]
         /\ \A s \in Stream \ {stream[p]} : /\ queue'[s] = queue[s]
                                            /\ capturing'[s] = capturing[s]
                                            /\ captured'[s] = captured[s]
         /\ \A b \in Buf \ {io[p][2]} : want'[b] = want[b]
<1> USE DEF TypeInv, TypeOK, Goto, Return, GiveUp, Submit, StopCapture, Store, Points,
            nodeVars, callVars, devVars
<1>1. CASE Replay(p)
  BY <1>1 DEF Replay
<1>2. CASE ReplayFails(p)
  BY <1>2 DEF ReplayFails
<1>3. CASE Launch(p)
  BY <1>3 DEF Launch
<1>4. CASE DirectFails(p)
  BY <1>4 DEF DirectFails
<1>5. CASE DirectDone(p)
  BY <1>5 DEF DirectDone
<1>6. CASE BeginCapture(p)
  BY <1>6 DEF BeginCapture
<1>7. CASE BeginFails(p)
  BY <1>7 DEF BeginFails
<1>8. CASE RecordFails(p)
  BY <1>8 DEF RecordFails
<1>9. CASE EndCapture(p)
  BY <1>9 DEF EndCapture, Recorded
<1>10. CASE EndFails(p)
  BY <1>10 DEF EndFails, Recorded
<1>11. CASE FirstLaunch(p)
  BY <1>11 DEF FirstLaunch
<1>12. CASE FirstLaunchFails(p)
  BY <1>12 DEF FirstLaunchFails
<1> QED BY <1>1, <1>2, <1>3, <1>4, <1>5, <1>6, <1>7, <1>8, <1>9, <1>10, <1>11, <1>12
        DEF HostStep

\* The caller's steps start a call on an idle plan, or leave calls alone.
LEMMA CallerTypes ==
  ASSUME TypeInv,
         \/ \E p \in Plan, in, out \in Buf : Exec(p, in, out)
         \/ \E p \in Plan, s \in Stream : SetStream(p, s)
         \/ \E b \in Buf, d \in Data : Load(b, d)
         \/ \E s \in Stream : Run(s)
  PROVE  TypeInv'
<1> USE DEF TypeInv, TypeOK, Points, nodeVars, callVars, devVars
<1>1. ASSUME NEW p \in Plan, NEW in \in Buf, NEW out \in Buf, Exec(p, in, out)
      PROVE  TypeInv'
  <2>1. \A q \in Plan : i'[q] \in 1..(Len(Launches(q)') + 1)
    BY <1>1, LaunchesLength DEF Exec
  <2>2. pc' \in [Plan -> Points] /\ io' \in [Plan -> (Buf \X Buf) \cup {<<NullPtr, NullPtr>>}]
        /\ i' \in [Plan -> Nat]
    BY <1>1 DEF Exec
  <2>3. \A q \in Plan : pc'[q] # "idle" => io'[q] \in Buf \X Buf
    BY <1>1 DEF Exec
  <2>4. DOMAIN execs' = Plan
    BY <1>1 DEF Exec
  <2>5. ASSUME NEW q \in Plan PROVE execs'[q] \in 0..MaxExecs[q]
    <3>1. MaxExecs[q] \in Nat /\ execs[q] \in 0..MaxExecs[q] /\ DOMAIN execs = Plan
      BY SwitchType
    <3>2. execs' = [execs EXCEPT ![p] = execs[p] + 1] /\ execs[p] < MaxExecs[p]
      BY <1>1 DEF Exec
    <3> HIDE DEF TypeInv, TypeOK
    <3> QED BY <3>1, <3>2
  <2> QED BY <1>1, <2>1, <2>2, <2>3, <2>4, <2>5 DEF Exec
<1>2. ASSUME NEW p \in Plan, NEW s \in Stream, SetStream(p, s) PROVE TypeInv'
  BY <1>2 DEF SetStream, Launches
<1>3. ASSUME NEW b \in Buf, NEW d \in Data, Load(b, d) PROVE TypeInv'
  BY <1>3 DEF Load, Launches
<1>4. ASSUME NEW s \in Stream, Run(s) PROVE TypeInv'
  BY <1>4 DEF Run, Ran, Launches
<1> QED BY <1>1, <1>2, <1>3, <1>4

\* So do the steps of a call.
LEMMA HostTypes ==
  ASSUME TypeInv, NEW p \in Plan, HostStep(p) PROVE TypeInv'
<1> DEFINE Rest == /\ i'[p] \in 1..(Length(p) + 1)
                   /\ i' \in [Plan -> Nat] /\ DOMAIN graph' = Plan
                   /\ DOMAIN graphIO' = Plan /\ DOMAIN taken' = Plan
                   /\ DOMAIN queue' = Stream /\ DOMAIN captured' = Stream
                   /\ graph'[p] # NoGraph => graphIO'[p] \in Buf \X Buf
                   /\ failed' \in [Plan -> BOOLEAN]
                   /\ capturing' \in [Stream -> Plan \cup {NoPlan}]
                   /\ DOMAIN want' = Buf
<1>1. Rest
  <2>0. i[p] \in 1..(Length(p) + 1) /\ Len(Launches(p)) = Length(p) /\ Length(p) \in 1..6
        /\ pc[p] # "idle" /\ io[p] \in Buf \X Buf
    BY HostFrame, SequenceLength DEF TypeInv, TypeOK, Launches
  <2> USE <2>0 DEF TypeInv, TypeOK, Goto, Return, GiveUp, Submit, StopCapture, Store,
              nodeVars, callVars, devVars
  <2>1. CASE Replay(p)
    BY <2>1 DEF Replay
  <2>2. CASE ReplayFails(p)
    BY <2>2 DEF ReplayFails
  <2>3. CASE Launch(p)
    BY <2>3 DEF Launch
  <2>4. CASE DirectFails(p)
    BY <2>4 DEF DirectFails
  <2>5. CASE DirectDone(p)
    BY <2>5 DEF DirectDone
  <2>6. CASE BeginCapture(p)
    BY <2>6 DEF BeginCapture
  <2>7. CASE BeginFails(p)
    BY <2>7 DEF BeginFails
  <2>8. CASE RecordFails(p)
    BY <2>8 DEF RecordFails
  <2>9. CASE EndCapture(p)
    BY <2>9 DEF EndCapture
  <2>10. CASE EndFails(p)
    BY <2>10 DEF EndFails
  <2>11. CASE FirstLaunch(p)
    BY <2>11 DEF FirstLaunch
  <2>12. CASE FirstLaunchFails(p)
    BY <2>12 DEF FirstLaunchFails
  <2> QED BY <2>1, <2>2, <2>3, <2>4, <2>5, <2>6, <2>7, <2>8, <2>9, <2>10, <2>11, <2>12
          DEF HostStep
<1>2. \A q \in Plan : i'[q] \in 1..(Len(Launches(q)') + 1)
  <2>1. ASSUME NEW q \in Plan \ {p} PROVE i'[q] \in 1..(Length(q) + 1)
    <3>1. i'[q] = i[q]
      BY HostFrame
    <3>2. i[q] \in 1..(Len(Launches(q)) + 1)
      BY DEF TypeInv, TypeOK
    <3> QED BY <3>1, <3>2, LaunchesLength
  <2> QED BY <1>1, <2>1, LaunchesLength
<1>3. \A q \in Plan : graph'[q] # NoGraph => graphIO'[q] \in Buf \X Buf
  <2>1. ASSUME NEW q \in Plan \ {p} PROVE graph'[q] # NoGraph => graphIO'[q] \in Buf \X Buf
    <3>1. graph'[q] = graph[q] /\ graphIO'[q] = graphIO[q]
      BY HostFrame
    <3> QED BY <3>1 DEF TypeInv, TypeOK
  <2> QED BY <1>1, <2>1
<1>4. \A q \in Plan : pc'[q] # "idle" => io'[q] \in Buf \X Buf
  BY <1>1, HostFrame DEF TypeInv, TypeOK
<1>5. /\ DOMAIN mem' = Buf \cup Temp
      /\ stream' \in [Plan -> Stream]
      /\ DOMAIN execs' = Plan /\ \A q \in Plan : execs'[q] \in 0..MaxExecs[q]
      /\ io' \in [Plan -> (Buf \X Buf) \cup {<<NullPtr, NullPtr>>}]
  BY HostFrame DEF TypeInv, TypeOK
<1>6. pc' \in [Plan -> Points]
  BY HostFrame
<1> HIDE DEF Rest
<1>7. TypeOK'
  BY <1>1, <1>2, <1>3, <1>5, <1>6 DEF TypeOK, Rest
<1> QED BY <1>1, <1>4, <1>7 DEF TypeInv, Rest

LEMMA TypeStep == TypeInv /\ [Next]_vars => TypeInv'
<1> SUFFICES ASSUME TypeInv, [Next]_vars PROVE TypeInv'
  OBVIOUS
<1>1. CASE Next
  <2>1. ASSUME NEW p \in Plan, HostStep(p) PROVE TypeInv'
    BY <2>1, HostTypes
  <2> QED BY <1>1, <2>1, CallerTypes DEF Next
<1>2. CASE UNCHANGED vars
  BY <1>2 DEF TypeInv, TypeOK, vars, nodeVars, callVars, devVars, Launches
<1> QED BY <1>1, <1>2

LEMMA TypeInit == Init => TypeInv
<1> SUFFICES ASSUME Init PROVE TypeInv
  OBVIOUS
<1>1. i = [p \in Plan |-> 1]
  BY DEF Init
<1>2. \A p \in Plan : i[p] \in 1..(Len(Launches(p)) + 1)
  BY <1>1, LaunchesLength
<1> QED BY <1>1, <1>2, StreamType, SwitchType DEF Init, TypeInv, TypeOK, Points
-----------------------------------------------------------------------------
LEMMA ApartInit == Init => ApartInv
BY DEF Init, ApartInv

\* Calls keep the caller's rule: a call begins only on a stream and on
\* buffers no other call uses, and an active plan changes neither.
LEMMA ApartStep == TypeInv /\ ApartInv /\ [Next]_vars => ApartInv'
<1> SUFFICES ASSUME TypeInv, ApartInv, [Next]_vars PROVE ApartInv'
  OBVIOUS
<1> USE DEF TypeInv, TypeOK, ApartInv, nodeVars, callVars, devVars
<1>1. ASSUME NEW p \in Plan, NEW in \in Buf, NEW out \in Buf, Exec(p, in, out)
      PROVE  ApartInv'
  <2>1. /\ stream' = stream /\ io'[p] = <<in, out>> /\ pc[p] = "idle"
        /\ \A q \in Plan \ {p} : pc'[q] = pc[q] /\ io'[q] = io[q]
    BY <1>1 DEF Exec
  <2>2. \A q \in Plan \ {p} : pc[q] # "idle" =>
           stream[q] # stream[p] /\ {in, out} \cap {io[q][1], io[q][2]} = {}
    BY <1>1 DEF Exec
  <2> QED BY <2>1, <2>2
<1>2. ASSUME NEW p \in Plan, NEW s \in Stream, SetStream(p, s) PROVE ApartInv'
  BY <1>2 DEF SetStream
<1>3. ASSUME NEW b \in Buf, NEW d \in Data, Load(b, d) PROVE ApartInv'
  BY <1>3 DEF Load
<1>4. ASSUME NEW s \in Stream, Run(s) PROVE ApartInv'
  BY <1>4 DEF Run
<1>5. ASSUME NEW p \in Plan, HostStep(p) PROVE ApartInv'
  <2>1. /\ stream' = stream /\ io' = io /\ pc[p] # "idle"
        /\ \A q \in Plan : pc'[q] # "idle" => pc[q] # "idle"
    BY <1>5, HostFrame
  <2> HIDE DEF TypeInv
  <2> QED BY <2>1
<1>6. CASE UNCHANGED vars
  BY <1>6 DEF vars
<1> QED BY <1>1, <1>2, <1>3, <1>4, <1>5, <1>6 DEF Next

\* While plan p records, its stream is captured for it and holds its launches
\* so far; a recording that broke off is one whose failure was a result code;
\* what end_capture handed over is those launches, all of them if p is Checked.
CaptureInv(p) ==
    /\ pc[p] \in {"record", "broken"} =>
          /\ capturing[stream[p]] = p
          /\ captured[stream[p]] = SubSeq(Launches(p), 1, i[p] - 1)
    /\ pc[p] \in {"begin", "record", "broken", "first"} => p \in GraphEnabled
    /\ pc[p] = "broken" => "record" \in Faults[p] /\ Node[p] # "leaf"
    /\ pc[p] = "first" =>
          /\ Node[p] # "leaf"
          /\ taken[p] = SubSeq(Launches(p), 1, i[p] - 1)
          /\ Checked(p) => i[p] = Length(p) + 1
    /\ pc[p] = "replay" => graph[p] # NoGraph /\ graphIO[p] = io[p]

\* A stored graph is the beginning of the sequence of its node for the stored
\* pointers, and all of it if p is Checked.
StoredInv(p) ==
    graph[p] # NoGraph =>
        \E n \in 0..Length(p) :
            /\ graph[p] = SubSeq(Sequence(p, graphIO[p][1], graphIO[p][2]), 1, n)
            /\ Checked(p) => n = Length(p)

GraphInv == \A p \in Plan : CaptureInv(p) /\ StoredInv(p)

LEMMA GraphInit == Init => GraphInv
BY DEF Init, GraphInv, CaptureInv, StoredInv

\* What GraphInv says of a plan depends on its own state and its stream.
LEMMA PlanFrame ==
  ASSUME NEW q \in Plan, CaptureInv(q), StoredInv(q),
         pc'[q] = pc[q], io'[q] = io[q], i'[q] = i[q], stream'[q] = stream[q],
         graph'[q] = graph[q], graphIO'[q] = graphIO[q], taken'[q] = taken[q],
         pc[q] \in {"record", "broken"} => /\ capturing'[stream[q]] = capturing[stream[q]]
                                           /\ captured'[stream[q]] = captured[stream[q]]
  PROVE  CaptureInv(q)' /\ StoredInv(q)'
<1>1. Launches(q)' = Launches(q)
  BY DEF Launches
<1>2. CaptureInv(q)'
  BY <1>1 DEF CaptureInv
<1>3. StoredInv(q)'
  BY DEF StoredInv
<1> QED BY <1>2, <1>3

Cell == Buf \cup Temp
Op == {"fft", "row", "col", "trans", "n2", "n1", "n0", "021", "210", "201"}
Kernel == [op : Op, src : Cell, dst : Cell]

\* The launches of an execute work on its buffers and the temporaries of its
\* plan.
LEMMA SequenceKernels ==
  ASSUME NEW p \in Plan, NEW in \in Buf, NEW out \in Buf
  PROVE  Sequence(p, in, out) \in Seq(Kernel)
<1>1. <<p, "temp1">> \in Cell /\ <<p, "temp2">> \in Cell /\ in \in Cell /\ out \in Cell
  BY DEF Cell, Temp
<1>2. \A op \in Op, src, dst \in Cell : K(op, src, dst) \in Kernel
  BY DEF K, Kernel
<1> HIDE DEF Cell, Kernel, K
<1>3. CASE Node[p] = "leaf"
  BY <1>1, <1>2, <1>3 DEF Sequence, Op
<1>4. CASE Node[p] = "rc"
  BY <1>1, <1>2, <1>4 DEF Sequence, Op
<1>5. CASE Node[p] = "2d"
  BY <1>1, <1>2, <1>5 DEF Sequence, Op
<1>6. CASE Node[p] = "graph"
  BY <1>1, <1>2, <1>6 DEF Sequence, Op
<1> QED BY <1>3, <1>4, <1>5, <1>6, NodeType DEF Kinds

\* Recording one more launch.
LEMMA PrefixGrows ==
  ASSUME NEW S, NEW L \in Seq(S), NEW n \in 1..Len(L)
  PROVE  /\ SubSeq(L, 1, n - 1) \o <<L[n]>> = SubSeq(L, 1, n)
         /\ SubSeq(L, 1, n - 1) \in Seq(S) /\ SubSeq(L, 1, n) \in Seq(S) /\ L[n] \in S
<1>1. SubSeq(L, 1, n) \in Seq(S) /\ Len(SubSeq(L, 1, n)) = n
      /\ \A m \in 1..n : SubSeq(L, 1, n)[m] = L[m]
  BY SubSeqProperties, n \in Int
<1>2. SubSeq(L, 1, n - 1) \in Seq(S) /\ Len(SubSeq(L, 1, n - 1)) = n - 1
      /\ \A m \in 1..(n - 1) : SubSeq(L, 1, n - 1)[m] = L[m]
  <2>1. CASE n = 1
    BY <2>1, SubSeqEmpty
  <2>2. CASE n > 1
    BY <2>2, SubSeqProperties
  <2> QED BY <2>1, <2>2
<1>3. ASSUME NEW A \in Seq(S), NEW B \in Seq(S), NEW x \in S, NEW k \in Nat,
             Len(A) = k, Len(B) = k + 1, \A m \in 1..k : A[m] = B[m], B[k + 1] = x
      PROVE  A \o <<x>> = B
  BY <1>3
<1>4. L[n] \in S
  OBVIOUS
<1> QED BY <1>1, <1>2, <1>3, <1>4

\* A step of a call on p keeps what GraphInv says of p: the launches that
\* pass through the capture into the stored graph are those of the sequence.
LEMMA HostGraph ==
  ASSUME TypeInv, NEW p \in Plan, CaptureInv(p), StoredInv(p), HostStep(p)
  PROVE  CaptureInv(p)' /\ StoredInv(p)'
<1> DEFINE L == Launches(p)
           Same == graph'[p] = graph[p] /\ graphIO'[p] = graphIO[p]
<1>1. /\ Len(L) = Length(p) /\ Length(p) \in 1..6 /\ L' = L /\ L \in Seq(Kernel)
      /\ i[p] \in 1..(Length(p) + 1) /\ io[p] \in Buf \X Buf /\ io' = io /\ stream' = stream
      /\ stream[p] \in Stream
  BY ZenonT(40), HostFrame, LaunchesLength, SequenceKernels DEF Launches, TypeInv, TypeOK
<1>2. SubSeq(L, 1, 0) = <<>> /\ SubSeq(L, 1, Length(p)) = L
  BY <1>1, SubSeqEmpty
<1>3. ASSUME Same PROVE StoredInv(p)'
  BY <1>3 DEF StoredInv
<1>4. ASSUME NEW n \in 0..Length(p), Store(p, SubSeq(L, 1, n)), Checked(p) => n = Length(p)
      PROVE  StoredInv(p)'
  BY <1>4 DEF Store, StoredInv, TypeInv, Launches
<1>5. ASSUME pc'[p] = "idle" PROVE CaptureInv(p)'
  BY <1>5 DEF CaptureInv
<1> HIDE DEF L
<1>6. ASSUME Return(p, TRUE) \/ Return(p, FALSE) PROVE pc'[p] = "idle"
  BY <1>6 DEF Return, TypeInv, TypeOK
<1>7. ASSUME GiveUp(p) PROVE CaptureInv(p)' /\ StoredInv(p)'
  BY <1>7, <1>6, <1>5, <1>3 DEF GiveUp
<1>8. CASE Replay(p) \/ ReplayFails(p) \/ DirectFails(p)
  BY <1>8, <1>3, <1>5, <1>6 DEF Replay, ReplayFails, DirectFails, nodeVars
<1>9. CASE Launch(p)
  <2>1. Same /\ pc' = pc /\ i'[p] = i[p] + 1 /\ i[p] \in 1..Length(p) /\ capturing' = capturing
        /\ pc[p] \in {"direct", "record"}
    BY <1>1, <1>9 DEF Launch, nodeVars, L, TypeInv
  <2>2. CASE pc[p] = "direct"
    BY <2>1, <2>2, <1>3 DEF CaptureInv
  <2>3. CASE pc[p] = "record"
    <3>1. capturing[stream[p]] = p /\ p # NoPlan /\ captured[stream[p]] = SubSeq(L, 1, i[p] - 1)
      BY <2>3, NoPlanFresh DEF CaptureInv, L
    <3>2. captured'[stream[p]] = SubSeq(L, 1, i[p] - 1) \o <<L[i[p]]>>
      BY <1>9, <1>1, <3>1 DEF Launch, Submit, L, TypeInv
    <3>3. captured'[stream[p]] = SubSeq(L, 1, i'[p] - 1)
      <4>1. i[p] \in 1..Len(L) /\ i'[p] - 1 = i[p]
        BY <2>1, <1>1
      <4>2. SubSeq(L, 1, i[p] - 1) \o <<L[i[p]]>> = SubSeq(L, 1, i[p])
        BY <4>1, <1>1, PrefixGrows
      <4> QED BY <3>2, <4>1, <4>2
    <3>4. CaptureInv(p)'
      BY <3>1, <3>3, <2>1, <2>3, <1>1 DEF CaptureInv, L
    <3> QED BY <3>4, <2>1, <1>3
  <2> QED BY <2>1, <2>2, <2>3
<1>10. CASE DirectDone(p)
  <2>1. Same
    BY <1>10 DEF DirectDone, nodeVars
  <2>2. CASE pc'[p] = "begin"
    <3>1. p \in GraphEnabled
      BY <2>2, <1>10 DEF DirectDone, Return, TypeInv, TypeOK
    <3> QED BY <2>1, <2>2, <3>1, <1>3 DEF CaptureInv
  <2>3. CASE pc'[p] = "idle"
    BY <2>1, <2>3, <1>3, <1>5
  <2> QED BY <2>1, <2>2, <2>3, <1>3, <1>10 DEF DirectDone, Return, Goto, TypeInv, TypeOK
<1>11. CASE BeginCapture(p)
  <2>1. Same /\ pc'[p] = "record" /\ i'[p] = 1 /\ capturing'[stream[p]] = p
        /\ captured'[stream[p]] = <<>> /\ p \in GraphEnabled
    BY <1>11, <1>1 DEF BeginCapture, Goto, nodeVars, TypeInv, TypeOK, CaptureInv
  <2>2. captured'[stream[p]] = SubSeq(L', 1, i'[p] - 1)
    BY <2>1, <1>1, <1>2
  <2> QED BY <2>1, <2>2, <1>1, <1>3 DEF CaptureInv, L
<1>12. CASE BeginFails(p) \/ EndFails(p) \/ FirstLaunchFails(p)
  BY <1>12, <1>7 DEF BeginFails, EndFails, FirstLaunchFails
<1>13. CASE RecordFails(p)
  <2>1. CASE Throws(p, i[p])
    BY <2>1, <1>13, <1>7 DEF RecordFails
  <2>2. CASE ~Throws(p, i[p])
    <3>1. Same /\ pc[p] = "record" /\ pc'[p] = "broken" /\ i'[p] = i[p] /\ "record" \in Faults[p]
          /\ UNCHANGED devVars /\ Node[p] # "leaf"
      BY <2>2, <1>13 DEF RecordFails, Goto, nodeVars, Throws, TypeInv, TypeOK
    <3> QED BY <3>1, <1>1, <1>3 DEF CaptureInv, devVars, L
  <2> QED BY <2>1, <2>2
<1>14. CASE EndCapture(p)
  <2>1. /\ captured[stream[p]] = SubSeq(L, 1, i[p] - 1)
        /\ pc[p] \in {"record", "broken"} /\ p \in GraphEnabled
        /\ pc[p] = "record" => i[p] = Length(p) + 1
        /\ pc[p] = "broken" => "record" \in Faults[p] /\ Node[p] # "leaf"
    BY <1>14, <1>1 DEF EndCapture, Recorded, CaptureInv, L
  <2>2. CASE Node[p] = "leaf"
    <3>1. Store(p, SubSeq(L, 1, Length(p))) /\ Return(p, TRUE)
      <4>1. i[p] - 1 = Length(p)
        BY <1>1, <2>1, <2>2
      <4> QED BY <1>14, <2>1, <2>2, <4>1 DEF EndCapture
    <3> QED BY <3>1, <1>1, <1>4, <1>5, <1>6
  <2>3. CASE Node[p] = "graph" /\ pc[p] = "broken"
    <3>1. Same /\ Return(p, FALSE)
      BY <1>14, <2>3 DEF EndCapture, nodeVars
    <3> QED BY <3>1, <1>3, <1>5, <1>6
  <2>4. CASE Node[p] # "leaf" /\ ~(Node[p] = "graph" /\ pc[p] = "broken")
    <3>1. Same /\ pc'[p] = "first" /\ taken'[p] = captured[stream[p]] /\ i' = i
      BY <1>14, <2>4 DEF EndCapture, nodeVars, TypeInv, TypeOK
    <3>2. Checked(p) => i[p] = Length(p) + 1
      BY <2>1, <2>4 DEF Checked
    <3> QED BY <3>1, <3>2, <2>1, <2>4, <1>1, <1>3 DEF CaptureInv, L, Checked
  <2> QED BY <2>2, <2>3, <2>4
<1>15. CASE FirstLaunch(p)
  <2>1. taken[p] = SubSeq(L, 1, i[p] - 1) /\ (Checked(p) => i[p] = Length(p) + 1)
    BY <1>15 DEF FirstLaunch, CaptureInv, L
  <2>2. Store(p, SubSeq(L, 1, i[p] - 1)) /\ Return(p, TRUE)
    BY <2>1, <1>15 DEF FirstLaunch
  <2>3. i[p] - 1 \in 0..Length(p)
    BY <1>1
  <2> QED BY <2>1, <2>2, <2>3, <1>1, <1>4, <1>5, <1>6
<1> QED BY <1>8, <1>9, <1>10, <1>11, <1>12, <1>13, <1>14, <1>15 DEF HostStep

\* A call starts with a replay only if a graph is stored for its pointers.
LEMMA ExecGraph ==
  ASSUME TypeInv, NEW p \in Plan, CaptureInv(p), StoredInv(p),
         NEW in \in Buf, NEW out \in Buf, Exec(p, in, out)
  PROVE  CaptureInv(p)' /\ StoredInv(p)'
<1>1. graph' = graph /\ graphIO' = graphIO
  BY DEF Exec, nodeVars
<1>2. io'[p] = <<in, out>>
      /\ pc'[p] = IF graph[p] # NoGraph /\ graphIO[p] = <<in, out>> THEN "replay" ELSE "direct"
  BY DEF Exec, TypeInv, TypeOK
<1> QED BY <1>1, <1>2 DEF CaptureInv, StoredInv

LEMMA GraphStep == TypeInv /\ ApartInv /\ GraphInv /\ [Next]_vars => GraphInv'
<1> SUFFICES ASSUME TypeInv, ApartInv, GraphInv, [Next]_vars,
                    NEW q \in Plan
             PROVE  CaptureInv(q)' /\ StoredInv(q)'
  BY DEF GraphInv
<1>0. CaptureInv(q) /\ StoredInv(q)
  BY DEF GraphInv
<1>1. ASSUME NEW p \in Plan, NEW in \in Buf, NEW out \in Buf, Exec(p, in, out)
      PROVE  CaptureInv(q)' /\ StoredInv(q)'
  <2>1. CASE q = p
    BY <1>0, <1>1, <2>1, ExecGraph
  <2>2. CASE q # p
    <3>1. /\ pc'[q] = pc[q] /\ io'[q] = io[q] /\ i'[q] = i[q]
          /\ UNCHANGED <<stream, graph, graphIO, taken, capturing, captured>>
      BY <1>1, <2>2 DEF Exec, TypeInv, TypeOK, nodeVars, devVars
    <3> QED BY <1>0, <3>1, PlanFrame
  <2> QED BY <2>1, <2>2
<1>2. ASSUME NEW p \in Plan, NEW s \in Stream, SetStream(p, s)
      PROVE  CaptureInv(q)' /\ StoredInv(q)'
  <2>1. pc[p] = "idle" /\ UNCHANGED <<nodeVars, callVars, devVars>>
        /\ \A r \in Plan \ {p} : stream'[r] = stream[r]
    BY <1>2 DEF SetStream, TypeInv, TypeOK
  <2>2. CASE q = p
    BY <1>0, <2>1, <2>2 DEF CaptureInv, StoredInv, nodeVars, callVars
  <2>3. CASE q # p
    BY <1>0, <2>1, <2>3, PlanFrame DEF nodeVars, callVars, devVars
  <2> QED BY <2>2, <2>3
<1>3. ASSUME NEW b \in Buf, NEW d \in Data, Load(b, d)
      PROVE  CaptureInv(q)' /\ StoredInv(q)'
  BY <1>0, <1>3, PlanFrame DEF Load, nodeVars, callVars, devVars
<1>4. ASSUME NEW s \in Stream, Run(s) PROVE CaptureInv(q)' /\ StoredInv(q)'
  BY <1>0, <1>4, PlanFrame DEF Run, nodeVars, callVars
<1>5. ASSUME NEW p \in Plan, HostStep(p) PROVE CaptureInv(q)' /\ StoredInv(q)'
  <2>1. CASE q = p
    BY <1>0, <1>5, <2>1, HostGraph
  <2>2. CASE q # p
    <3>1. /\ pc'[q] = pc[q] /\ io' = io /\ i'[q] = i[q] /\ stream' = stream
          /\ graph'[q] = graph[q] /\ graphIO'[q] = graphIO[q] /\ taken'[q] = taken[q]
          /\ pc[p] # "idle"
      BY <1>5, <2>2, HostFrame
    <3>2. ASSUME pc[q] \in {"record", "broken"} PROVE stream[q] \in Stream \ {stream[p]}
      BY <2>2, <3>1, <3>2 DEF ApartInv, TypeInv, TypeOK
    <3>3. pc[q] \in {"record", "broken"} => /\ capturing'[stream[q]] = capturing[stream[q]]
                                            /\ captured'[stream[q]] = captured[stream[q]]
      BY <1>5, <3>2, HostFrame
    <3> QED BY <1>0, <3>1, <3>3, PlanFrame
  <2> QED BY <2>1, <2>2
<1>6. CASE UNCHANGED vars
  BY <1>0, <1>6, PlanFrame DEF vars, nodeVars, callVars, devVars
<1> QED BY <1>1, <1>2, <1>3, <1>4, <1>5, <1>6 DEF Next
-----------------------------------------------------------------------------
IInv == TypeInv /\ ApartInv /\ GraphInv

\* The inductive invariant: calls of different plans stay apart, and what is
\* recorded for a plan is its own sequence of launches in order.
THEOREM GraphInductive == Spec => []IInv
<1>1. Init => IInv
  BY TypeInit, ApartInit, GraphInit DEF IInv
<1>2. IInv /\ [Next]_vars => IInv'
  BY TypeStep, ApartStep, GraphStep DEF IInv
<1> QED BY <1>1, <1>2, PTL DEF Spec

\* Whatever fails, a stored graph never holds a launch of another plan, of
\* other pointers or out of order: it is a beginning of the node's sequence,
\* and the whole sequence for the nodes that notice a broken recording.
GraphsBegin ==
    \A p \in Plan : graph[p] # NoGraph =>
        \E n \in 0..Length(p) :
            /\ graph[p] = SubSeq(Sequence(p, graphIO[p][1], graphIO[p][2]), 1, n)
            /\ Checked(p) => n = Length(p)

THEOREM GraphsAlwaysBegin == Spec => []GraphsBegin
<1>1. IInv => GraphsBegin
  BY DEF IInv, GraphInv, StoredInv, GraphsBegin
<1> QED BY <1>1, GraphInductive, PTL

\* A stored graph is the whole sequence of its node, provided that no launch
\* of a 2D node fails while it is recorded: those nodes drop the result
\* code of a recorded sequence, the others look at it or get an exception.
THEOREM GraphsComplete ==
  ASSUME \A p \in Plan : Checked(p)
  PROVE  Spec => []GraphComplete
<1>1. IInv => GraphComplete
  <2> SUFFICES ASSUME IInv, NEW p \in Plan, graph[p] # NoGraph
               PROVE  graph[p] = Sequence(p, graphIO[p][1], graphIO[p][2])
    BY DEF GraphComplete, IInv, TypeInv
  <2> DEFINE L == Sequence(p, graphIO[p][1], graphIO[p][2])
  <2>1. graph[p] = SubSeq(L, 1, Length(p))
    BY DEF IInv, GraphInv, StoredInv
  <2>2. L \in Seq(Kernel) /\ Len(L) = Length(p)
    BY SequenceKernels, SequenceLength DEF IInv, TypeInv, TypeOK
  <2>3. \A S : \A M \in Seq(S) : SubSeq(M, 1, Len(M)) = M
    OBVIOUS
  <2> HIDE DEF L
  <2> QED BY <2>1, <2>2, <2>3 DEF L
<1> QED BY <1>1, GraphInductive, PTL
-----------------------------------------------------------------------------
\* No exception of a launch leaves a recording: in each plan no launch fails
\* while recording, or the node turns the failure of a launch into a result code.
Caught == \A p \in Plan : "record" \notin Faults[p] \/ Node[p] \in {"rc", "graph"}

\* A stream is captured by the plan that records on it, and for no longer.
OwnerInv ==
    \A s \in Stream : capturing[s] # NoPlan =>
        pc[capturing[s]] \in {"record", "broken"} /\ stream[capturing[s]] = s

LEMMA OwnerStep ==
  ASSUME Caught, TypeInv, ApartInv, GraphInv, OwnerInv, [Next]_vars PROVE OwnerInv'
<1> SUFFICES ASSUME NEW s \in Stream, capturing'[s] # NoPlan
             PROVE  pc'[capturing'[s]] \in {"record", "broken"} /\ stream'[capturing'[s]] = s
  BY DEF OwnerInv
<1> DEFINE q == capturing[s]
           Kept == capturing'[s] = q /\ stream'[q] = stream[q] /\ pc'[q] = pc[q]
<1>1. ASSUME Kept PROVE pc'[capturing'[s]] \in {"record", "broken"} /\ stream'[capturing'[s]] = s
  BY <1>1 DEF OwnerInv
<1>2. capturing'[s] = q => q \in Plan /\ pc[q] # "idle"
  BY DEF OwnerInv, TypeInv, TypeOK
<1> HIDE DEF q
<1>3. ASSUME NEW p \in Plan, NEW in \in Buf, NEW out \in Buf, Exec(p, in, out) PROVE Kept
  BY <1>2, <1>3 DEF Exec, devVars, TypeInv, TypeOK, q
<1>4. ASSUME NEW p \in Plan, NEW t \in Stream, SetStream(p, t) PROVE Kept
  BY <1>2, <1>4 DEF SetStream, devVars, callVars, TypeInv, TypeOK, q
<1>5. ASSUME NEW b \in Buf, NEW d \in Data, Load(b, d) PROVE Kept
  BY <1>5 DEF Load, devVars, callVars, q
<1>6. ASSUME NEW t \in Stream, Run(t) PROVE Kept
  BY <1>6 DEF Run, callVars, q
<1>7. ASSUME NEW p \in Plan, HostStep(p)
      PROVE  pc'[capturing'[s]] \in {"record", "broken"} /\ stream'[capturing'[s]] = s
  <2>0. stream' = stream /\ stream[p] \in Stream
    BY <1>7, HostFrame DEF TypeInv, TypeOK
  <2>1. CASE s # stream[p]
    <3>1. capturing'[s] = q
      BY <1>7, <2>1, HostFrame DEF q
    <3>2. q # p
      BY <2>1, <3>1, <1>2 DEF OwnerInv, q
    <3> QED BY <1>1, <1>2, <1>7, <3>1, <3>2, HostFrame
  <2>2. CASE s = stream[p] /\ pc[p] \notin {"record", "broken"}
    <3>1. capturing[s] = NoPlan
      <4>1. ASSUME capturing[s] # NoPlan PROVE FALSE
        <5>1. capturing[s] \in Plan /\ stream[capturing[s]] = stream[p]
              /\ pc[capturing[s]] \in {"record", "broken"} /\ pc[p] # "idle"
          BY <1>7, <2>2, <4>1, HostFrame DEF OwnerInv, TypeInv, TypeOK
        <5>2. capturing[s] # p
          BY <2>2, <5>1
        <5> QED BY <5>1, <5>2 DEF ApartInv
      <4> QED BY <4>1
    <3>2. pc[p] = "begin" /\ BeginCapture(p)
      BY <1>7, <2>2, <3>1 DEF HostStep, Replay, ReplayFails, Launch, DirectFails, DirectDone,
         BeginFails, RecordFails, EndCapture, EndFails, FirstLaunch, FirstLaunchFails, GiveUp,
         devVars, BeginCapture, Goto, Recorded
    <3> QED BY <3>2, <2>0, <2>2 DEF BeginCapture, Goto, TypeInv, TypeOK
  <2>3. CASE s = stream[p] /\ pc[p] \in {"record", "broken"}
    <3>1. capturing[s] = p
      BY <2>3 DEF GraphInv, CaptureInv
    <3>2. CASE Launch(p)
      BY <3>1, <3>2, <2>3, <1>1 DEF Launch, q
    <3>3. CASE RecordFails(p)
      <4>1. ~Throws(p, i[p]) /\ i' = i
        BY <3>3 DEF RecordFails, Caught, Throws
      <4> QED BY <3>1, <3>3, <4>1, <2>0, <2>3 DEF RecordFails, Goto, devVars, TypeInv, TypeOK
    <3>4. CASE EndCapture(p) \/ EndFails(p)
      BY <3>4, <2>3 DEF EndCapture, EndFails, StopCapture, TypeInv, TypeOK
    <3> QED BY <1>7, <2>3, <3>2, <3>3, <3>4 DEF HostStep, Replay, ReplayFails, DirectFails,
         DirectDone, BeginCapture, BeginFails, FirstLaunch, FirstLaunchFails, Goto
  <2> QED BY <2>1, <2>2, <2>3
<1>8. ASSUME UNCHANGED vars PROVE Kept
  BY <1>8 DEF vars, devVars, callVars, q
<1> HIDE DEF Kept
<1> QED BY <1>1, <1>3, <1>4, <1>5, <1>6, <1>7, <1>8 DEF Next

THEOREM OwnerInductive ==
  ASSUME Caught
  PROVE  Spec => [](IInv /\ OwnerInv)
<1>1. Init => OwnerInv
  BY DEF Init, OwnerInv
<1>2. IInv /\ OwnerInv /\ [Next]_vars => OwnerInv'
  BY OwnerStep, Caught DEF IInv
<1> QED BY <1>1, <1>2, GraphInductive, PTL DEF Spec

\* No call returns with its stream still captured, provided that no exception
\* of a launch leaves a recording: end_capture then ends every capture,
\* successful or not.
THEOREM CapturesEnd ==
  ASSUME Caught
  PROVE  Spec => []CaptureEnds
<1>1. OwnerInv => CaptureEnds
  BY DEF OwnerInv, CaptureEnds
<1> QED BY <1>1, OwnerInductive, PTL
-----------------------------------------------------------------------------
(***************************************************************************)
(* The transforms are exact: proof of ResultExact.                         *)
(*                                                                         *)
(* The launches that are still queued have a result already: the memory    *)
(* the device will end in.  Yields(q, m, f) says that running the queue q  *)
(* on memory m leaves the cells q works on as in f.  The invariant speaks  *)
(* of one such final memory: in it a buffer holds what its last call       *)
(* promised, and a call in progress has got as far as its next launch.     *)
(***************************************************************************)

Content == Seq(Data \cup Op)
Memory == [Cell -> Content]

\* A queued launch reads or writes cell b.
Uses(q, b) == \E n \in 1..Len(q) : b = q[n].src \/ b = q[n].dst

\* The memories the device passes through while it works q off from m on.
History(q, m, h) ==
    /\ h \in [0..Len(q) -> Memory]
    /\ h[0] = m
    /\ \A n \in 1..Len(q) : h[n] = Ran(h[n - 1], q[n])
    /\ \A n \in 0..Len(q), b \in Cell :
          (\A j \in (n + 1)..Len(q) : q[j].dst # b) => h[n][b] = h[Len(q)][b]

Yields(q, m, f) ==
    \E h : History(q, m, h) /\ \A b \in Cell : Uses(q, b) => h[Len(q)][b] = f[b]

\* A launch changes the contents of the cell it writes, and no other.
LEMMA RanCells ==
  ASSUME NEW m \in Memory, NEW k \in Kernel
  PROVE  /\ Ran(m, k) \in Memory
         /\ Ran(m, k)[k.dst] = Append(m[k.src], k.op)
         /\ \A b \in Cell \ {k.dst} : Ran(m, k)[b] = m[b]
<1>1. k.src \in Cell /\ k.dst \in Cell /\ k.op \in Op
  BY DEF Kernel
<1>2. Append(m[k.src], k.op) \in Content
  BY <1>1 DEF Memory, Content
<1> QED BY <1>1, <1>2 DEF Ran, Memory

\* An empty queue leaves the memory as it is.
LEMMA YieldsNothing ==
  ASSUME NEW m \in Memory, NEW f PROVE Yields(<<>>, m, f)
<1> DEFINE h == [n \in 0..0 |-> m]
<1>1. Len(<<>>) = 0
  OBVIOUS
<1>2. h \in [0..0 -> Memory] /\ h[0] = m
  OBVIOUS
<1> HIDE DEF h
<1>3. History(<<>>, m, h)
  BY <1>1, <1>2 DEF History
<1> QED BY <1>1, <1>3 DEF Yields, Uses

\* A cell no queued launch writes holds already what it will hold.
LEMMA YieldsSettled ==
  ASSUME NEW q \in Seq(Kernel), NEW m, NEW h, History(q, m, h), NEW b \in Cell, ~Uses(q, b)
  PROVE  h[Len(q)][b] = m[b]
<1>1. \A j \in (0 + 1)..Len(q) : q[j].dst # b
  BY DEF Uses
<1>2. 0 \in 0..Len(q)
  OBVIOUS
<1> QED BY <1>1, <1>2 DEF History

\* One more launch is queued; cells it is the first to use are as in memory.
LEMMA YieldsMore ==
  ASSUME NEW q \in Seq(Kernel), NEW m \in Memory, NEW f \in Memory, Yields(q, m, f),
         NEW k \in Kernel,
         \A b \in {k.src, k.dst} : ~Uses(q, b) => f[b] = m[b]
  PROVE  Yields(q \o <<k>>, m, Ran(f, k))
<1>1. PICK h : History(q, m, h) /\ \A b \in Cell : Uses(q, b) => h[Len(q)][b] = f[b]
  BY DEF Yields
<1> DEFINE N == Len(q)
           r == q \o <<k>>
           last == Ran(h[N], k)
           g == [n \in 0..(N + 1) |-> IF n = N + 1 THEN last ELSE h[n]]
<1>2. /\ N \in Nat /\ Len(r) = N + 1 /\ r[N + 1] = k /\ r \in Seq(Kernel)
      /\ \A n \in 1..N : r[n] = q[n]
  OBVIOUS
<1>3. h \in [0..N -> Memory] /\ h[N] \in Memory /\ last \in Memory
  <2>1. h \in [0..N -> Memory]
    BY <1>1 DEF History
  <2>2. h[N] \in Memory
    BY <2>1, <1>2
  <2> QED BY <2>1, <2>2, RanCells
<1>4. g \in [0..(N + 1) -> Memory] /\ g[N + 1] = last /\ \A n \in 0..N : g[n] = h[n]
  BY <1>2, <1>3
<1>5. k.src \in Cell /\ k.dst \in Cell
  BY DEF Kernel
<1> HIDE DEF g, r, last
<1>6. \A n \in 1..(N + 1) : g[n] = Ran(g[n - 1], r[n])
  <2>1. ASSUME NEW n \in 1..N PROVE g[n] = Ran(g[n - 1], r[n])
    BY <1>1, <1>2, <1>4 DEF History
  <2>2. g[N + 1] = Ran(g[N], r[N + 1])
    BY <1>2, <1>4 DEF last
  <2> QED BY <1>2, <2>1, <2>2
<1>7. ASSUME NEW n \in 0..(N + 1), NEW b \in Cell,
             \A j \in (n + 1)..(N + 1) : r[j].dst # b
      PROVE  g[n][b] = g[N + 1][b]
  <2>1. CASE n = N + 1
    BY <2>1
  <2>2. CASE n \in 0..N
    <3>1. \A j \in (n + 1)..N : q[j].dst # b
      BY <1>2, <1>7, <2>2
    <3>2. h[n][b] = h[N][b]
      BY <1>1, <2>2, <3>1 DEF History
    <3>3. k.dst # b
      BY <1>2, <1>7, <2>2
    <3>4. last[b] = h[N][b]
      BY <1>3, <3>3, RanCells DEF last
    <3> QED BY <1>4, <2>2, <3>2, <3>4
  <2> QED BY <2>1, <2>2
<1>8. History(r, m, g)
  <2>1. g[0] = m
    BY <1>1, <1>2, <1>4 DEF History
  <2> QED BY <1>2, <1>4, <1>6, <1>7, <2>1 DEF History
<1>9. ASSUME NEW b \in Cell, b \in {k.src, k.dst} \/ Uses(q, b) PROVE h[N][b] = f[b]
  <2>1. CASE Uses(q, b)
    BY <1>1, <2>1
  <2>2. CASE ~Uses(q, b)
    BY <1>1, <1>9, <2>2, YieldsSettled
  <2> QED BY <2>1, <2>2
<1>10. ASSUME NEW b \in Cell, Uses(r, b) PROVE g[N + 1][b] = Ran(f, k)[b]
  <2>1. b \in {k.src, k.dst} \/ Uses(q, b)
    <3>1. PICK n \in 1..(N + 1) : b = r[n].src \/ b = r[n].dst
      BY <1>2, <1>10 DEF Uses
    <3>2. CASE n = N + 1
      BY <1>2, <3>1, <3>2
    <3>3. CASE n \in 1..N
      BY <1>2, <3>1, <3>3 DEF Uses
    <3> QED BY <3>2, <3>3, <1>2
  <2>2. h[N][b] = f[b] /\ h[N][k.src] = f[k.src]
    BY <1>5, <1>9, <2>1
  <2>3. last[b] = Ran(f, k)[b]
    <3>0. h[N] \in Memory
      BY <1>3
    <3>1. CASE b = k.dst
      <4>1. last[b] = Append(h[N][k.src], k.op)
        BY <3>0, <3>1, RanCells DEF last
      <4>2. Ran(f, k)[b] = Append(f[k.src], k.op)
        BY <3>1, RanCells
      <4> QED BY <2>2, <4>1, <4>2
    <3>2. CASE b # k.dst
      <4>1. last[b] = h[N][b]
        BY <3>0, <3>2, RanCells DEF last
      <4>2. Ran(f, k)[b] = f[b]
        BY <3>2, RanCells
      <4> QED BY <2>2, <4>1, <4>2
    <3> QED BY <3>1, <3>2
  <2> QED BY <1>4, <2>3
<1> QED BY <1>2, <1>8, <1>10 DEF Yields, r

\* Only the cells the queue works on count in the memory it ends in.
LEMMA YieldsElsewhere ==
  ASSUME NEW q, NEW m, NEW f, NEW g, Yields(q, m, f),
         \A b \in Cell : Uses(q, b) => g[b] = f[b]
  PROVE  Yields(q, m, g)
BY DEF Yields

\* A cell the queue does not work on may change under it.
LEMMA YieldsPatched ==
  ASSUME NEW q \in Seq(Kernel), NEW m \in Memory, NEW f, Yields(q, m, f),
         NEW c \in Cell, NEW v \in Content, ~Uses(q, c)
  PROVE  Yields(q, [m EXCEPT ![c] = v], f)
<1>1. PICK h : History(q, m, h) /\ \A b \in Cell : Uses(q, b) => h[Len(q)][b] = f[b]
  BY DEF Yields
<1> DEFINE N == Len(q)
           P(x) == [x EXCEPT ![c] = v]
           g == [n \in 0..N |-> P(h[n])]
<1>2. h \in [0..N -> Memory] /\ h[0] = m /\ N \in Nat
  BY <1>1 DEF History
<1>3. \A x \in Memory : /\ P(x) \in Memory /\ P(x)[c] = v
                        /\ \A b \in Cell \ {c} : P(x)[b] = x[b]
  BY DEF Memory
<1> HIDE DEF P
<1>4. g \in [0..N -> Memory] /\ \A n \in 0..N : g[n] = P(h[n])
  BY <1>2, <1>3
<1> HIDE DEF g
<1>5. ASSUME NEW n \in 1..N PROVE g[n] = Ran(g[n - 1], q[n])
  <2>1. q[n] \in Kernel /\ q[n].src # c /\ q[n].dst # c
    BY DEF Uses
  <2>2. n - 1 \in 0..N /\ n \in 0..N
    BY <1>2
  <2>3. h[n] = Ran(h[n - 1], q[n]) /\ h[n - 1] \in Memory
    BY <1>1, <1>2, <2>2 DEF History
  <2>4. Ran(P(h[n - 1]), q[n]) = P(Ran(h[n - 1], q[n]))
    BY <2>1, <2>3 DEF P, Ran, Memory, Kernel
  <2> QED BY <1>4, <2>2, <2>3, <2>4
<1>6. ASSUME NEW n \in 0..N, NEW b \in Cell, \A j \in (n + 1)..N : q[j].dst # b
      PROVE  g[n][b] = g[N][b]
  <2>1. h[n][b] = h[N][b] /\ h[n] \in Memory /\ h[N] \in Memory
    BY <1>1, <1>2, <1>6 DEF History
  <2>2. g[n] = P(h[n]) /\ g[N] = P(h[N])
    BY <1>2, <1>4
  <2> QED BY <1>3, <2>1, <2>2
<1>7. History(q, P(m), g)
  <2>1. g[0] = P(m)
    BY <1>2, <1>4
  <2> QED BY <1>4, <1>5, <1>6, <2>1 DEF History
<1>8. ASSUME NEW b \in Cell, Uses(q, b) PROVE g[N][b] = f[b]
  <2>1. h[N] \in Memory /\ g[N] = P(h[N]) /\ b # c
    BY <1>2, <1>4, <1>8
  <2> QED BY <1>1, <1>3, <1>8, <2>1
<1> QED BY <1>7, <1>8 DEF Yields, P

\* The device runs the first launch: the rest yields the same, and a cell
\* only that launch worked on is as it will be.
LEMMA YieldsRest ==
  ASSUME NEW q \in Seq(Kernel), q # <<>>, NEW m \in Memory, NEW f, Yields(q, m, f)
  PROVE  /\ Yields(Tail(q), Ran(m, Head(q)), f)
         /\ \A b \in Cell : Uses(q, b) /\ ~Uses(Tail(q), b) => Ran(m, Head(q))[b] = f[b]
<1>1. PICK h : History(q, m, h) /\ \A b \in Cell : Uses(q, b) => h[Len(q)][b] = f[b]
  BY DEF Yields
<1> DEFINE N == Len(q)
           r == Tail(q)
           g == [n \in 0..(N - 1) |-> h[n + 1]]
<1>2. /\ N \in Nat \ {0} /\ r \in Seq(Kernel) /\ Len(r) = N - 1 /\ Head(q) = q[1]
      /\ \A n \in 1..(N - 1) : r[n] = q[n + 1]
  OBVIOUS
<1>3. h \in [0..N -> Memory] /\ h[0] = m /\ h[1] = Ran(m, Head(q))
  BY <1>1, <1>2 DEF History
<1>4. g \in [0..(N - 1) -> Memory] /\ \A n \in 0..(N - 1) : g[n] = h[n + 1]
  <2>1. \A n \in 0..(N - 1) : n + 1 \in 0..N
    BY <1>2
  <2> QED BY <1>3, <2>1
<1> HIDE DEF g, r
<1>5. ASSUME NEW n \in 1..(N - 1) PROVE g[n] = Ran(g[n - 1], r[n])
  <2>1. n + 1 \in 1..N /\ n - 1 \in 0..(N - 1) /\ n \in 0..(N - 1) /\ (n + 1) - 1 = n
        /\ (n - 1) + 1 = n
    BY <1>2
  <2>2. h[n + 1] = Ran(h[n], q[n + 1])
    BY <1>1, <2>1 DEF History
  <2> QED BY <1>2, <1>4, <2>1, <2>2
<1>6. ASSUME NEW n \in 0..(N - 1), NEW b \in Cell, \A j \in (n + 1)..(N - 1) : r[j].dst # b
      PROVE  g[n][b] = g[N - 1][b]
  <2>1. \A j \in ((n + 1) + 1)..N : q[j].dst # b
    <3>1. ASSUME NEW j \in ((n + 1) + 1)..N PROVE q[j].dst # b
      <4>1. j - 1 \in (n + 1)..(N - 1) /\ j - 1 \in 1..(N - 1) /\ (j - 1) + 1 = j
        BY <1>2
      <4>2. r[j - 1] = q[j]
        BY <1>2, <4>1
      <4> QED BY <1>6, <4>1, <4>2
    <3> QED BY <3>1
  <2>2. n + 1 \in 0..N /\ N - 1 \in 0..(N - 1) /\ (N - 1) + 1 = N
    BY <1>2
  <2>3. h[n + 1][b] = h[N][b]
    BY <1>1, <2>1, <2>2 DEF History
  <2> QED BY <1>4, <2>2, <2>3
<1>7. History(r, Ran(m, Head(q)), g)
  <2>1. g[0] = h[1] /\ 0 \in 0..(N - 1)
    BY <1>2, <1>4
  <2> QED BY <1>2, <1>3, <1>4, <1>5, <1>6, <2>1 DEF History
<1>8. g[N - 1] = h[N]
  BY <1>2, <1>4
<1>9. \A b \in Cell : Uses(r, b) => Uses(q, b)
  <2>1. ASSUME NEW n \in 1..(N - 1) PROVE n + 1 \in 1..N /\ r[n] = q[n + 1]
    BY <1>2
  <2> QED BY <1>2, <2>1 DEF Uses
<1>10. Yields(r, Ran(m, Head(q)), f)
  BY <1>1, <1>2, <1>7, <1>8, <1>9 DEF Yields
<1>11. ASSUME NEW b \in Cell, Uses(q, b), ~Uses(r, b) PROVE Ran(m, Head(q))[b] = f[b]
  BY <1>1, <1>2, <1>7, <1>8, <1>11, YieldsSettled
<1> QED BY <1>10, <1>11 DEF r
-----------------------------------------------------------------------------
(* All streams together *)

\* The memory the device ends in once every stream is worked off.
Future(qs, m, f) ==
    /\ f \in Memory
    /\ \A s \in Stream : Yields(qs[s], m, f)
    /\ \A b \in Cell : (\A s \in Stream : ~Uses(qs[s], b)) => f[b] = m[b]

Queues == [Stream -> Seq(Kernel)]

\* No stream but s works on cell b.
Alone(qs, s, b) == \A u \in Stream \ {s} : ~Uses(qs[u], b)

\* No two streams work on one cell.
Disjoint(qs) == \A s \in Stream, b \in Cell : Uses(qs[s], b) => Alone(qs, s, b)

\* The cells a queue works on, after a launch is added or taken.
LEMMA UsesMore ==
  ASSUME NEW q \in Seq(Kernel), NEW k \in Kernel, NEW b
  PROVE  Uses(q \o <<k>>, b) <=> Uses(q, b) \/ b \in {k.src, k.dst}
<1> DEFINE r == q \o <<k>>
           N == Len(q)
<1>1. N \in Nat /\ Len(r) = N + 1 /\ r[N + 1] = k /\ \A n \in 1..N : r[n] = q[n]
  OBVIOUS
<1> HIDE DEF r
<1>2. ASSUME Uses(r, b) PROVE Uses(q, b) \/ b \in {k.src, k.dst}
  <2>1. PICK n \in 1..(N + 1) : b = r[n].src \/ b = r[n].dst
    BY <1>1, <1>2 DEF Uses
  <2>2. CASE n = N + 1
    BY <1>1, <2>1, <2>2
  <2>3. CASE n \in 1..N
    BY <1>1, <2>1, <2>3 DEF Uses
  <2> QED BY <1>1, <2>2, <2>3
<1>3. ASSUME Uses(q, b) PROVE Uses(r, b)
  <2>1. PICK n \in 1..N : b = q[n].src \/ b = q[n].dst
    BY <1>3 DEF Uses
  <2>2. n \in 1..(N + 1) /\ r[n] = q[n]
    BY <1>1
  <2> QED BY <1>1, <2>1, <2>2 DEF Uses
<1>4. ASSUME b \in {k.src, k.dst} PROVE Uses(r, b)
  <2>1. N + 1 \in 1..Len(r)
    BY <1>1
  <2> QED BY <1>1, <1>4, <2>1 DEF Uses
<1> QED BY <1>2, <1>3, <1>4 DEF r

LEMMA UsesTail ==
  ASSUME NEW q \in Seq(Kernel), q # <<>>, NEW b
  PROVE  /\ Uses(Tail(q), b) => Uses(q, b)
         /\ Uses(q, b) => Uses(Tail(q), b) \/ b \in {Head(q).src, Head(q).dst}
         /\ Uses(q, Head(q).src) /\ Uses(q, Head(q).dst)
<1>1. /\ Len(q) \in Nat \ {0} /\ Len(Tail(q)) = Len(q) - 1 /\ Head(q) = q[1]
      /\ \A n \in 1..(Len(q) - 1) : Tail(q)[n] = q[n + 1]
  OBVIOUS
<1>2. \A n \in 1..(Len(q) - 1) : n + 1 \in 1..Len(q)
  BY <1>1
<1>3. \A n \in 1..Len(q) : n = 1 \/ (n - 1 \in 1..(Len(q) - 1) /\ (n - 1) + 1 = n)
  BY <1>1
<1>4. Uses(Tail(q), b) => Uses(q, b)
  BY <1>1, <1>2 DEF Uses
<1>5. ASSUME Uses(q, b) PROVE Uses(Tail(q), b) \/ b \in {Head(q).src, Head(q).dst}
  <2>1. PICK n \in 1..Len(q) : b = q[n].src \/ b = q[n].dst
    BY <1>5 DEF Uses
  <2>2. CASE n = 1
    BY <1>1, <2>1, <2>2
  <2>3. CASE n # 1
    <3>1. n - 1 \in 1..(Len(q) - 1) /\ Tail(q)[n - 1] = q[n]
      BY <1>1, <1>3, <2>3
    <3> QED BY <1>1, <2>1, <3>1 DEF Uses
  <2> QED BY <2>2, <2>3
<1>6. 1 \in 1..Len(q)
  BY <1>1
<1> QED BY <1>1, <1>4, <1>5, <1>6 DEF Uses

\* A launch is added to stream s, on cells no other stream works on.
LEMMA FutureMore ==
  ASSUME NEW qs \in Queues, NEW m \in Memory, NEW f, Future(qs, m, f),
         NEW s \in Stream, NEW k \in Kernel, Alone(qs, s, k.src), Alone(qs, s, k.dst)
  PROVE  Future([qs EXCEPT ![s] = @ \o <<k>>], m, Ran(f, k))
<1> DEFINE rs == [qs EXCEPT ![s] = @ \o <<k>>]
           g == Ran(f, k)
<1>1. /\ rs[s] = qs[s] \o <<k>> /\ \A u \in Stream \ {s} : rs[u] = qs[u]
      /\ \A u \in Stream : qs[u] \in Seq(Kernel)
  BY DEF Queues
<1>2. f \in Memory /\ g \in Memory /\ k.src \in Cell /\ k.dst \in Cell
      /\ \A b \in Cell \ {k.dst} : g[b] = f[b]
  BY RanCells DEF Future, Kernel
<1>3. Yields(rs[s], m, g)
  <2>1. ASSUME NEW b \in {k.src, k.dst}, ~Uses(qs[s], b) PROVE f[b] = m[b]
    <3>1. \A u \in Stream : ~Uses(qs[u], b)
      BY <2>1 DEF Alone
    <3> QED BY <1>2, <3>1 DEF Future
  <2>2. Yields(qs[s], m, f)
    BY DEF Future
  <2> HIDE DEF g, rs
  <2>3. Yields(qs[s] \o <<k>>, m, Ran(f, k))
    BY <1>1, <1>2, <2>1, <2>2, YieldsMore
  <2> QED BY <1>1, <2>3 DEF g
<1>4. ASSUME NEW u \in Stream \ {s} PROVE Yields(rs[u], m, g)
  <2>1. \A b \in Cell : Uses(qs[u], b) => g[b] = f[b]
    BY <1>2 DEF Alone
  <2>2. Yields(qs[u], m, f)
    BY DEF Future
  <2> HIDE DEF g, rs
  <2> QED BY <1>1, <2>1, <2>2, YieldsElsewhere
<1>5. ASSUME NEW b \in Cell, \A u \in Stream : ~Uses(rs[u], b) PROVE g[b] = m[b]
  <2>1. ~Uses(qs[s], b) /\ b # k.dst
    <3>1. ~Uses(qs[s] \o <<k>>, b)
      BY <1>1, <1>5
    <3> QED BY <1>1, <3>1, UsesMore
  <2>2. \A u \in Stream : ~Uses(qs[u], b)
    BY <1>1, <1>5, <2>1
  <2> QED BY <1>2, <2>1, <2>2 DEF Future
<1> QED BY <1>2, <1>3, <1>4, <1>5 DEF Future

\* The device runs a launch of stream s.
LEMMA FutureRun ==
  ASSUME NEW qs \in Queues, NEW m \in Memory, NEW f, Future(qs, m, f), Disjoint(qs),
         NEW s \in Stream, qs[s] # <<>>
  PROVE  Future([qs EXCEPT ![s] = Tail(@)], Ran(m, Head(qs[s])), f)
<1> DEFINE rs == [qs EXCEPT ![s] = Tail(@)]
           k == Head(qs[s])
           w == Ran(m, k)
<1>1. /\ rs[s] = Tail(qs[s]) /\ \A u \in Stream \ {s} : rs[u] = qs[u]
      /\ \A u \in Stream : qs[u] \in Seq(Kernel)
  BY DEF Queues
<1>2. k \in Kernel /\ k.dst \in Cell /\ k.src \in Cell
  <2>1. k \in Kernel
    BY <1>1
  <2> QED BY <2>1 DEF Kernel
<1>3. Uses(qs[s], k.dst) /\ Uses(qs[s], k.src)
  BY <1>1, UsesTail
<1>4. w \in Memory /\ \A b \in Cell \ {k.dst} : w[b] = m[b]
  BY <1>2, RanCells
<1>5. Yields(qs[s], m, f)
  BY DEF Future
<1>6. Yields(rs[s], w, f) /\ \A b \in Cell : Uses(qs[s], b) /\ ~Uses(rs[s], b) => w[b] = f[b]
  BY <1>1, <1>5, YieldsRest
<1>7. ASSUME NEW u \in Stream \ {s} PROVE Yields(rs[u], w, f)
  <2>1. ~Uses(qs[u], k.dst)
    BY <1>2, <1>3 DEF Disjoint, Alone
  <2>2. Append(m[k.src], k.op) \in Content
    BY <1>2 DEF Memory, Content, Kernel
  <2>3. Yields(qs[u], m, f)
    BY DEF Future
  <2>4. Yields(qs[u], [m EXCEPT ![k.dst] = Append(m[k.src], k.op)], f)
    BY <1>1, <1>2, <2>1, <2>2, <2>3, YieldsPatched
  <2> QED BY <1>1, <2>4 DEF Ran
<1>8. ASSUME NEW b \in Cell, \A u \in Stream : ~Uses(rs[u], b) PROVE f[b] = w[b]
  <2>1. CASE Uses(qs[s], b)
    BY <1>6, <1>8, <2>1
  <2>2. CASE ~Uses(qs[s], b)
    <3>1. \A u \in Stream : ~Uses(qs[u], b)
      BY <1>1, <1>8, <2>2
    <3>2. b # k.dst
      BY <1>3, <2>2
    <3> QED BY <1>4, <3>1, <3>2 DEF Future
  <2> QED BY <2>1, <2>2
<1> QED BY <1>6, <1>7, <1>8 DEF Future

\* The caller loads a cell no stream works on.
LEMMA FutureLoad ==
  ASSUME NEW qs \in Queues, NEW m \in Memory, NEW f, Future(qs, m, f),
         NEW c \in Cell, NEW v \in Content, \A s \in Stream : ~Uses(qs[s], c)
  PROVE  Future(qs, [m EXCEPT ![c] = v], [f EXCEPT ![c] = v])
<1> DEFINE w == [m EXCEPT ![c] = v]
           g == [f EXCEPT ![c] = v]
<1>1. /\ g \in Memory /\ g[c] = v /\ w[c] = v
      /\ \A b \in Cell \ {c} : g[b] = f[b] /\ w[b] = m[b]
  BY DEF Future, Memory
<1>2. ASSUME NEW s \in Stream PROVE Yields(qs[s], w, g)
  <2>1. qs[s] \in Seq(Kernel) /\ Yields(qs[s], m, f)
    BY DEF Queues, Future
  <2>2. Yields(qs[s], w, f)
    BY <2>1, YieldsPatched
  <2>3. \A b \in Cell : Uses(qs[s], b) => g[b] = f[b]
    BY <1>1
  <2> HIDE DEF g, w
  <2> QED BY <2>2, <2>3, YieldsElsewhere
<1>3. ASSUME NEW b \in Cell, \A s \in Stream : ~Uses(qs[s], b) PROVE g[b] = w[b]
  BY <1>1, <1>3 DEF Future
<1> QED BY <1>1, <1>2, <1>3 DEF Future
-----------------------------------------------------------------------------
(* A whole transform *)

\* Contents c after the first n operations of the node of p.
Done(p, n, c) == c \o [m \in 1..n |-> Sequence(p, 0, 0)[m].op]

\* The cells a transform by p works on.
Work(p, in, out) == {in, out, <<p, "temp1">>, <<p, "temp2">>}

\* Each launch reads what the one before it wrote, from the input through
\* the temporaries to the output.
LEMMA SequenceChain ==
  ASSUME NEW p \in Plan, NEW in \in Buf, NEW out \in Buf, NEW L, L = Sequence(p, in, out)
  PROVE  /\ L \in Seq(Kernel) /\ Len(L) = Length(p)
         /\ L[1].src = in /\ L[Length(p)].dst = out
         /\ \A n \in 1..Length(p) : L[n].src \in Work(p, in, out) /\ L[n].dst \in Work(p, in, out)
         /\ \A n \in 1..(Length(p) - 1) : /\ L[n + 1].src = L[n].dst
                                          /\ L[n].dst \in {<<p, "temp1">>, <<p, "temp2">>}
         /\ \A n \in 1..Length(p) : /\ L[n].op = Sequence(p, 0, 0)[n].op
                                    /\ Sequence(p, 0, 0)[n].op \in Op
<1>1. L \in Seq(Kernel) /\ Len(L) = Length(p)
  BY SequenceKernels, SequenceLength
<1>0. \A a, b, c : K(a, b, c).op = a /\ K(a, b, c).src = b /\ K(a, b, c).dst = c
  BY DEF K
<1> DEFINE t1 == <<p, "temp1">>
           t2 == <<p, "temp2">>
<1>6. \A b \in {in, out, t1, t2} : b \in Work(p, in, out)
  BY DEF Work
<1>2. CASE Node[p] = "leaf"
  <2>1. Length(p) = 1 /\ L = <<K("fft", in, out)>> /\ Sequence(p, 0, 0) = <<K("fft", 0, 0)>>
    BY <1>2 DEF Length, Sequence
  <2> QED BY <1>1, <2>1 DEF K, Work, Op
<1>3. CASE Node[p] = "rc"
  <2>1. Length(p) = 2 /\ L[1] = K("row", in, t1) /\ L[2] = K("col", t1, out)
    BY <1>3 DEF Length, Sequence
  <2>2. Sequence(p, 0, 0)[1].op = "row" /\ Sequence(p, 0, 0)[2].op = "col"
    BY <1>3 DEF Sequence, K
  <2>3. 1..2 = {1, 2} /\ 1..1 = {1}
    OBVIOUS
  <2> HIDE DEF t1, t2
  <2>4. \A n \in 1..2 : L[n].src \in {in, out, t1, t2} /\ L[n].dst \in {in, out, t1, t2}
    BY <1>0, <2>1, <2>3
  <2>5. \A n \in 1..1 : L[n + 1].src = L[n].dst /\ L[n].dst \in {t1, t2}
    BY <1>0, <2>1, <2>3
  <2>6. \A n \in 1..2 : L[n].op = Sequence(p, 0, 0)[n].op /\ Sequence(p, 0, 0)[n].op \in Op
    BY <1>0, <2>1, <2>2, <2>3 DEF Op
  <2> QED BY <1>0, <1>1, <1>6, <2>1, <2>4, <2>5, <2>6 DEF t1, t2
<1>4. CASE Node[p] = "2d"
  <2>1. /\ Length(p) = 4 /\ L[1] = K("row", in, t1)
        /\ L[2] = K("trans", t1, t2)
        /\ L[3] = K("col", t2, t1) /\ L[4] = K("trans", t1, out)
    BY <1>4 DEF Length, Sequence
  <2>2. /\ Sequence(p, 0, 0)[1].op = "row" /\ Sequence(p, 0, 0)[2].op = "trans"
        /\ Sequence(p, 0, 0)[3].op = "col" /\ Sequence(p, 0, 0)[4].op = "trans"
    BY <1>4 DEF Sequence, K
  <2>3. 1..4 = {1, 2, 3, 4} /\ 1..3 = {1, 2, 3}
    OBVIOUS
  <2> HIDE DEF t1, t2
  <2>4. \A n \in 1..4 : L[n].src \in {in, out, t1, t2} /\ L[n].dst \in {in, out, t1, t2}
    BY <1>0, <2>1, <2>3
  <2>5. \A n \in 1..3 : L[n + 1].src = L[n].dst /\ L[n].dst \in {t1, t2}
    BY <1>0, <2>1, <2>3
  <2>6. \A n \in 1..4 : L[n].op = Sequence(p, 0, 0)[n].op /\ Sequence(p, 0, 0)[n].op \in Op
    BY <1>0, <2>1, <2>2, <2>3 DEF Op
  <2> QED BY <1>0, <1>1, <1>6, <2>1, <2>4, <2>5, <2>6 DEF t1, t2
<1>5. CASE Node[p] = "graph"
  <2>1. /\ Length(p) = 6 /\ L[1] = K("n2", in, t1)
        /\ L[2] = K("021", t1, t2)
        /\ L[3] = K("n1", t2, t1)
        /\ L[4] = K("210", t1, t2)
        /\ L[5] = K("n0", t2, t1) /\ L[6] = K("201", t1, out)
    BY <1>5 DEF Length, Sequence
  <2>2. /\ Sequence(p, 0, 0)[1].op = "n2" /\ Sequence(p, 0, 0)[2].op = "021"
        /\ Sequence(p, 0, 0)[3].op = "n1" /\ Sequence(p, 0, 0)[4].op = "210"
        /\ Sequence(p, 0, 0)[5].op = "n0" /\ Sequence(p, 0, 0)[6].op = "201"
    BY <1>5 DEF Sequence, K
  <2>3. 1..6 = {1, 2, 3, 4, 5, 6} /\ 1..5 = {1, 2, 3, 4, 5}
    OBVIOUS
  <2> HIDE DEF t1, t2
  <2>4. \A n \in 1..6 : L[n].src \in {in, out, t1, t2} /\ L[n].dst \in {in, out, t1, t2}
    BY <1>0, <2>1, <2>3
  <2>5. \A n \in 1..5 : L[n + 1].src = L[n].dst /\ L[n].dst \in {t1, t2}
    BY <1>0, <2>1, <2>3
  <2>6. \A n \in 1..6 : L[n].op = Sequence(p, 0, 0)[n].op /\ Sequence(p, 0, 0)[n].op \in Op
    BY <1>0, <2>1, <2>2, <2>3 DEF Op
  <2> QED BY <1>0, <1>1, <1>6, <2>1, <2>4, <2>5, <2>6 DEF t1, t2
<1> QED BY <1>2, <1>3, <1>4, <1>5, NodeType DEF Kinds

\* The first n entries of a function.
First(op, n) == [m \in 1..n |-> op[m]]

\* One more operation lengthens the contents by it.
LEMMA DoneMore ==
  ASSUME NEW p \in Plan, NEW n \in 0..(Length(p) - 1), NEW c \in Content
  PROVE  /\ Done(p, 0, c) = c
         /\ Done(p, n, c) \in Content /\ Done(p, n + 1, c) \in Content
         /\ Append(Done(p, n, c), Sequence(p, 0, 0)[n + 1].op) = Done(p, n + 1, c)
<1> DEFINE op == [m \in 1..Length(p) |-> Sequence(p, 0, 0)[m].op]
           T == Data \cup Op
<1>1. Length(p) \in 1..6 /\ n \in Nat /\ n + 1 \in 1..Length(p)
  BY SequenceLength
<1>2. \A m \in 1..Length(p) : op[m] \in T
  <2>1. CASE Node[p] = "leaf"
    BY <2>1 DEF Sequence, Length, K, Op
  <2>2. CASE Node[p] = "rc"
    BY <2>2 DEF Sequence, Length, K, Op
  <2>3. CASE Node[p] = "2d"
    BY <2>3 DEF Sequence, Length, K, Op
  <2>4. CASE Node[p] = "graph"
    BY <2>4 DEF Sequence, Length, K, Op
  <2> QED BY <2>1, <2>2, <2>3, <2>4, NodeType DEF Kinds
<1>3. \A m \in 1..(n + 1) : m \in 1..Length(p)
  BY <1>1
<1>4. /\ Done(p, n, c) = c \o First(op, n) /\ Done(p, n + 1, c) = c \o First(op, n + 1)
      /\ Sequence(p, 0, 0)[n + 1].op = op[n + 1]
  BY <1>1, <1>3 DEF Done, First
<1>5. c \in Seq(T)
  BY DEF Content
<1> HIDE DEF op, T
<1>6. /\ c \o First(op, n) \in Seq(T) /\ c \o First(op, n + 1) \in Seq(T)
      /\ Append(c \o First(op, n), op[n + 1]) = c \o First(op, n + 1)
  <2> DEFINE a == [m \in 1..n |-> op[m]]
             e == [m \in 1..(n + 1) |-> op[m]]
  <2>0. n \in Nat
    BY <1>1
  <2>9. \A m \in 1..(n + 1) : op[m] \in T
    BY <1>2, <1>3
  <2>1. a \in Seq(T) /\ e \in Seq(T) /\ Len(a) = n /\ Len(e) = n + 1
    BY <2>0, <2>9
  <2>2. e[n + 1] = op[n + 1] /\ op[n + 1] \in T /\ \A m \in 1..n : e[m] = a[m]
    BY <2>0, <2>9
  <2> HIDE DEF a, e
  <2>3. Append(c \o a, op[n + 1]) = c \o e
    <3> DEFINE x == op[n + 1]
    <3>1. x \in T
      BY <2>2
    <3>2. a \in Seq(T)
      BY <2>1
    <3>3. e \in Seq(T)
      BY <2>1
    <3>4. Len(a) = n
      BY <2>1
    <3>5. Len(e) = n + 1
      BY <2>1
    <3>6. e[n + 1] = x
      BY <2>2
    <3>7. \A m \in 1..n : e[m] = a[m]
      BY <2>2
    <3> HIDE DEF x
    <3>8. Append(c \o a, x) = c \o e
      BY <3>1, <3>2, <3>3, <3>4, <3>5, <3>6, <3>7
    <3> QED BY <3>8 DEF x
  <2>4. c \o a \in Seq(T) /\ c \o e \in Seq(T)
    BY <1>5, <2>1
  <2> QED BY <2>3, <2>4 DEF a, e, First
<1>7. Done(p, 0, c) = c
  <2>1. [m \in 1..0 |-> Sequence(p, 0, 0)[m].op] = <<>>
    OBVIOUS
  <2> QED BY <1>5, <2>1 DEF Done
<1> QED BY <1>4, <1>6, <1>7 DEF T, Content

\* In memory f the contents c have got through the first n launches.
Carried(f, L, in, p, n, c) ==
    (IF n = 0 THEN f[in] ELSE f[L[n].dst]) = Done(p, n, c)

\* A launch carries them one further, and leaves the caller's buffers alone
\* that it does not write.
LEMMA CarryOn ==
  ASSUME NEW p \in Plan, NEW in \in Buf, NEW out \in Buf, NEW L, L = Sequence(p, in, out),
         NEW f \in Memory, NEW n \in 0..(Length(p) - 1)
  PROVE  /\ \A c \in Content : Carried(f, L, in, p, n, c)
                             => Carried(Ran(f, L[n + 1]), L, in, p, n + 1, c)
         /\ \A b \in Cell \ Work(p, in, out) : Ran(f, L[n + 1])[b] = f[b]
         /\ \A b \in Buf \ {out} : Ran(f, L[n + 1])[b] = f[b]
         /\ Ran(f, L[n + 1]) \in Memory
<1>1. /\ Length(p) \in 1..6 /\ n + 1 \in 1..Length(p) /\ L \in Seq(Kernel) /\ Len(L) = Length(p)
      /\ L[1].src = in /\ L[Length(p)].dst = out
      /\ \A k \in 1..Length(p) : L[k].src \in Work(p, in, out) /\ L[k].dst \in Work(p, in, out)
      /\ \A k \in 1..(Length(p) - 1) : /\ L[k + 1].src = L[k].dst
                                       /\ L[k].dst \in {<<p, "temp1">>, <<p, "temp2">>}
      /\ \A k \in 1..Length(p) : L[k].op = Sequence(p, 0, 0)[k].op
  <2>1. Length(p) \in 1..6
    BY SequenceLength
  <2>2. n + 1 \in 1..Length(p)
    BY <2>1
  <2> QED BY <2>1, <2>2, SequenceChain
<1> DEFINE k == L[n + 1]
<1>2. k \in Kernel
  <2>1. n + 1 \in 1..Len(L)
    BY <1>1
  <2> QED BY <1>1, <2>1
<1>3. k.src \in Cell /\ k.dst \in Cell
  BY <1>2 DEF Kernel
<1> HIDE DEF k
<1>4. /\ Ran(f, k) \in Memory /\ Ran(f, k)[k.dst] = Append(f[k.src], k.op)
      /\ \A b \in Cell \ {k.dst} : Ran(f, k)[b] = f[b]
  BY <1>2, RanCells
<1>5. k.dst \in Work(p, in, out) /\ (n + 1 < Length(p) => k.dst \in Temp) /\ (n + 1 = Length(p) => k.dst = out)
  <2>1. n + 1 < Length(p) => n + 1 \in 1..(Length(p) - 1)
    BY <1>1
  <2> QED BY <1>1, <2>1 DEF k, Temp
<1>6. ASSUME NEW b \in Buf \ {out} PROVE Ran(f, k)[b] = f[b]
  <2>1. b # k.dst
    BY <1>1, <1>5, BuffersApart DEF Temp
  <2> QED BY <1>4, <2>1 DEF Cell
<1>7. ASSUME NEW c \in Content, Carried(f, L, in, p, n, c)
      PROVE  Carried(Ran(f, k), L, in, p, n + 1, c)
  <2>1. f[k.src] = Done(p, n, c)
    <3>1. CASE n = 0
      BY <1>1, <1>7, <3>1 DEF Carried, k
    <3>2. CASE n # 0
      <4>1. n \in 1..(Length(p) - 1)
        BY <3>2
      <4> QED BY <1>1, <1>7, <3>2, <4>1 DEF Carried, k
    <3> QED BY <3>1, <3>2
  <2>2. k.op = Sequence(p, 0, 0)[n + 1].op
    BY <1>1 DEF k
  <2>3. Append(Done(p, n, c), Sequence(p, 0, 0)[n + 1].op) = Done(p, n + 1, c)
    BY DoneMore
  <2>4. Ran(f, k)[k.dst] = Done(p, n + 1, c)
    BY <1>4, <2>1, <2>2, <2>3
  <2>5. n + 1 # 0
    BY <1>1
  <2> QED BY <2>4, <2>5 DEF Carried, k
<1> QED BY <1>4, <1>5, <1>6, <1>7 DEF k

\* The contents after the last launch are the transform.
LEMMA DoneAll ==
  ASSUME NEW p \in Plan, NEW in \in Buf, NEW out \in Buf, NEW f, NEW c \in Content, c # <<>>
  PROVE  /\ Carried(f, Sequence(p, in, out), in, p, 0, c) <=> f[in] = c
         /\ Carried(f, Sequence(p, in, out), in, p, Length(p), c) <=> f[out] = Transform(p, c)
<1>1. 0 \in 0..(Length(p) - 1) /\ Length(p) # 0
  BY SequenceLength
<1>2. Done(p, 0, c) = c
  BY <1>1, DoneMore
<1>3. Sequence(p, in, out)[Length(p)].dst = out
  BY SequenceChain
<1>4. Transform(p, c) = Done(p, Length(p), c)
  <2>1. Len(Sequence(p, 0, 0)) = Length(p)
    BY SequenceLength
  <2> QED BY <2>1 DEF Transform, Done
<1> QED BY <1>1, <1>2, <1>3, <1>4 DEF Carried

\* Memories f and g differ at most in the output and the temporaries of p.
Elsewhere(f, g, p, in, out) ==
    /\ \A b \in Cell \ Work(p, in, out) : g[b] = f[b]
    /\ \A b \in Buf \ {out} : g[b] = f[b]

\* In g the output holds the transform of what the input holds in f.
Transformed(f, g, p, in, out) ==
    /\ Elsewhere(f, g, p, in, out)
    /\ \A c \in Content \ {<<>>} : f[in] = c => g[out] = Transform(p, c)

\* A whole transform is added to stream s: it transforms what the device will
\* end in.
LEMMA FutureWhole ==
  ASSUME NEW qs \in Queues, NEW m \in Memory, NEW f, Future(qs, m, f), NEW s \in Stream,
         NEW p \in Plan, NEW in \in Buf, NEW out \in Buf,
         \A b \in Work(p, in, out) : Alone(qs, s, b),
         NEW r, r = [qs EXCEPT ![s] = @ \o Sequence(p, in, out)]
  PROVE  \E g : Future(r, m, g) /\ Transformed(f, g, p, in, out)
<1> DEFINE L == Sequence(p, in, out)
           rs(n) == [qs EXCEPT ![s] = qs[s] \o SubSeq(L, 1, n)]
           Same(g) == Elsewhere(f, g, p, in, out)
           Stage(n) == \E g : /\ Future(rs(n), m, g) /\ Same(g)
                              /\ \A c \in Content : f[in] = c => Carried(g, L, in, p, n, c)
<1>1. L \in Seq(Kernel) /\ Len(L) = Length(p) /\ Length(p) \in 1..6
      /\ \A n \in 1..Length(p) : L[n].src \in Work(p, in, out) /\ L[n].dst \in Work(p, in, out)
  BY SequenceChain, SequenceLength
<1>2. Stage(0)
  <2>1. rs(0) = qs
    <3>1. SubSeq(L, 1, 0) = <<>>
      BY SubSeqEmpty
    <3>2. qs[s] \in Seq(Kernel)
      BY DEF Queues
    <3>3. qs[s] \o <<>> = qs[s]
      BY <3>2
    <3> QED BY <3>1, <3>3 DEF Queues
  <2>2. \A c \in Content : Done(p, 0, c) = c
    <3>1. 0 \in 0..(Length(p) - 1)
      BY <1>1
    <3> QED BY <3>1, DoneMore
  <2>3. Future(rs(0), m, f) /\ Same(f)
    BY <2>1 DEF Elsewhere
  <2> HIDE DEF rs, Same
  <2> QED BY <2>2, <2>3 DEF Carried
<1>3. ASSUME NEW n \in 0..(Length(p) - 1), Stage(n) PROVE Stage(n + 1)
  <2>1. PICK g : /\ Future(rs(n), m, g) /\ Same(g)
                 /\ \A c \in Content : f[in] = c => Carried(g, L, in, p, n, c)
    BY <1>3
  <2> DEFINE k == L[n + 1]
  <2>2. n + 1 \in 1..Len(L) /\ (n + 1) - 1 = n
    BY <1>1
  <2>3. /\ SubSeq(L, 1, n) \o <<k>> = SubSeq(L, 1, n + 1) /\ k \in Kernel
        /\ SubSeq(L, 1, n) \in Seq(Kernel)
        /\ k.src \in Work(p, in, out) /\ k.dst \in Work(p, in, out)
    BY <1>1, <2>2, PrefixGrows
  <2>4. SubSeq(L, 1, n) \in Seq(Kernel)
    BY <2>3
  <2>11. k \in Kernel
    BY <2>3
  <2> HIDE DEF L, k
  <2>5. /\ rs(n) \in Queues /\ rs(n)[s] = qs[s] \o SubSeq(L, 1, n)
        /\ \A u \in Stream \ {s} : rs(n)[u] = qs[u]
    BY <2>3 DEF Queues
  <2>6. rs(n + 1) = [rs(n) EXCEPT ![s] = @ \o <<k>>]
    <3>1. qs[s] \o SubSeq(L, 1, n + 1) = (qs[s] \o SubSeq(L, 1, n)) \o <<k>>
      <4>1. qs[s] \in Seq(Kernel)
        BY DEF Queues
      <4>2. <<k>> \in Seq(Kernel)
        BY <2>3
      <4>3. (qs[s] \o SubSeq(L, 1, n)) \o <<k>> = qs[s] \o (SubSeq(L, 1, n) \o <<k>>)
        <5>1. \A a, b, c \in Seq(Kernel) : (a \o b) \o c = a \o (b \o c)
          BY ConcatAssociative
        <5> QED BY <2>4, <4>1, <4>2, <5>1, Zenon
      <4> QED BY <2>3, <4>3
    <3> QED BY <3>1 DEF Queues
  <2>7. Alone(rs(n), s, k.src) /\ Alone(rs(n), s, k.dst)
    <3>1. \A b \in Work(p, in, out) : Alone(rs(n), s, b)
      BY <2>5 DEF Alone
    <3> QED BY <2>3, <3>1
  <2> HIDE DEF rs
  <2>8. Future(rs(n + 1), m, Ran(g, k))
    <3>1. rs(n) \in Queues
      BY <2>5
    <3>2. Future(rs(n), m, g)
      BY <2>1
    <3> QED BY <3>1, <3>2, <2>11, <2>6, <2>7, FutureMore
  <2>9. g \in Memory
    BY <2>1 DEF Future
  <2>10. Same(Ran(g, k)) /\ \A c \in Content : f[in] = c => Carried(Ran(g, k), L, in, p, n + 1, c)
    BY <2>1, <2>9, CarryOn DEF L, k, Elsewhere
  <2> QED BY <2>8, <2>10
<1>4. Stage(Length(p))
  <2> HIDE DEF Stage
  <2>1. Stage(1)
    <3>1. 0 \in 0..(Length(p) - 1) /\ 0 + 1 = 1
      BY <1>1
    <3> QED BY <1>2, <1>3, <3>1
  <2>2. ASSUME NEW n \in 1..5, Stage(n), n < Length(p) PROVE Stage(n + 1)
    <3>1. n \in 0..(Length(p) - 1)
      BY <1>1, <2>2
    <3> QED BY <1>3, <2>2, <3>1
  <2>3. 2 <= Length(p) => Stage(2)
    BY <1>1, <2>1, <2>2, 1 + 1 = 2
  <2>4. 3 <= Length(p) => Stage(3)
    BY <1>1, <2>3, <2>2, 2 + 1 = 3
  <2>5. 4 <= Length(p) => Stage(4)
    BY <1>1, <2>4, <2>2, 3 + 1 = 4
  <2>6. 5 <= Length(p) => Stage(5)
    BY <1>1, <2>5, <2>2, 4 + 1 = 5
  <2>7. 6 <= Length(p) => Stage(6)
    BY <1>1, <2>6, <2>2, 5 + 1 = 6
  <2> QED BY <1>1, <2>1, <2>3, <2>4, <2>5, <2>6, <2>7
<1>5. PICK g : /\ Future(rs(Length(p)), m, g) /\ Same(g)
               /\ \A c \in Content : f[in] = c => Carried(g, L, in, p, Length(p), c)
  BY <1>4
<1>6. rs(Length(p)) = [qs EXCEPT ![s] = @ \o L]
  <2>1. SubSeq(L, 1, Length(p)) = L
    <3> HIDE DEF L
    <3> QED BY <1>1
  <2> QED BY <2>1
<1>7. ASSUME NEW c \in Content \ {<<>>}, f[in] = c PROVE g[out] = Transform(p, c)
  BY <1>5, <1>7, DoneAll
<1> HIDE DEF rs, Same
<1>8. Future(r, m, g) /\ Same(g)
  BY <1>5, <1>6
<1> QED BY <1>7, <1>8 DEF Same, Transformed

\* A transform of contents is contents.
LEMMA TransformType ==
  ASSUME NEW p \in Plan, NEW c \in Content PROVE Transform(p, c) \in Content
<1>1. CASE c = <<>>
  BY <1>1 DEF Transform
<1>2. CASE c # <<>>
  <2>1. Length(p) - 1 \in 0..(Length(p) - 1) /\ (Length(p) - 1) + 1 = Length(p)
    BY SequenceLength
  <2>2. Done(p, Length(p), c) \in Content
    BY <2>1, DoneMore
  <2>3. Len(Sequence(p, 0, 0)) = Length(p)
    BY SequenceLength
  <2> QED BY <1>2, <2>2, <2>3 DEF Transform, Done
<1> QED BY <1>1, <1>2

LEMMA UsesWhole ==
  ASSUME NEW q \in Seq(Kernel), NEW p \in Plan, NEW in \in Buf, NEW out \in Buf, NEW b,
         Uses(q \o Sequence(p, in, out), b)
  PROVE  Uses(q, b) \/ b \in Work(p, in, out)
<1> DEFINE L == Sequence(p, in, out)
           r == q \o L
<1>1. L \in Seq(Kernel)
  BY SequenceChain
<1>2. \A n \in 1..Len(L) : L[n].src \in Work(p, in, out) /\ L[n].dst \in Work(p, in, out)
  BY SequenceChain
<1> HIDE DEF L
<1>3. PICK n \in 1..Len(r) : b = r[n].src \/ b = r[n].dst
  BY DEF Uses, L
<1>4. /\ Len(q) \in Nat /\ Len(L) \in Nat /\ Len(r) = Len(q) + Len(L)
      /\ \A m \in 1..(Len(q) + Len(L)) : r[m] = IF m <= Len(q) THEN q[m] ELSE L[m - Len(q)]
  BY <1>1
<1>5. CASE n <= Len(q)
  <2>1. n \in 1..Len(q) /\ r[n] = q[n]
    BY <1>3, <1>4, <1>5
  <2> QED BY <1>3, <2>1 DEF Uses
<1>6. CASE ~(n <= Len(q))
  <2>1. n - Len(q) \in 1..Len(L) /\ r[n] = L[n - Len(q)]
    BY <1>3, <1>4, <1>6
  <2> QED BY <1>2, <1>3, <2>1
<1> QED BY <1>5, <1>6
-----------------------------------------------------------------------------
(* The invariant *)

\* No recording loses a launch: none fails while recording, or the node
\* gives up when it ends the capture of a broken sequence.
Unbroken == \A p \in Plan : "record" \notin Faults[p] \/ Node[p] = "graph"

\* The nodes that launch a new graph after the direct run, on the same
\* buffers, are used out of place.
Repeatable == \A p \in InPlace \cap GraphEnabled : Node[p] = "leaf"

DeviceType == queue \in Queues /\ mem \in Memory /\ want \in [Buf -> Content]

Alias == \A p \in Plan : pc[p] # "idle" /\ io[p][1] = io[p][2] => p \in InPlace

\* Cells have one stream at a time: the temporaries of a plan that of the
\* plan, the buffers of a call that of the call.
OwnInv ==
    /\ Disjoint(queue)
    /\ \A p \in Plan, t \in {"temp1", "temp2"} : Alone(queue, stream[p], <<p, t>>)
    /\ \A p \in Plan : pc[p] # "idle" =>
          Alone(queue, stream[p], io[p][1]) /\ Alone(queue, stream[p], io[p][2])

\* How far the call on p is, in the memory f the device will end in.
Progress(f, p) ==
    LET in == io[p][1]
        c == want[in]
    IN  CASE pc[p] = "replay" -> f[in] = c
          [] pc[p] = "direct" -> Carried(f, Launches(p), in, p, i[p] - 1, c)
          [] OTHER -> f[io[p][2]] = Transform(p, c)

\* The buffers no call is writing will hold what their last call promised, and
\* the calls in progress are as far as their program point says.
ResultIn(f) ==
    /\ Future(queue, mem, f)
    /\ \A b \in Buf : (\A p \in Plan : pc[p] # "idle" => b # io[p][2]) /\ want[b] # <<>>
                     => f[b] = want[b]
    /\ \A p \in Plan : pc[p] # "idle" /\ want[io[p][1]] # <<>> => Progress(f, p)

ResultInv == DeviceType /\ Alias /\ OwnInv /\ \E f : ResultIn(f)

LEMMA TouchedUses == \A s, b : Touched(s, b) <=> Uses(queue[s], b)
BY DEF Touched, Pending, Uses

LEMMA ResultInit == Init => ResultInv
<1> SUFFICES ASSUME Init PROVE ResultInv
  OBVIOUS
<1>1. /\ queue = [s \in Stream |-> <<>>] /\ mem = [b \in Buf \cup Temp |-> <<>>]
      /\ want = [b \in Buf |-> <<>>] /\ pc = [p \in Plan |-> "idle"]
  BY DEF Init
<1>2. \A s \in Stream : queue[s] = <<>>
  BY <1>1
<1>3. \A s \in Stream : \A b : ~Uses(queue[s], b)
  BY <1>2 DEF Uses
<1>4. <<>> \in Seq(Kernel) /\ <<>> \in Content
  BY DEF Content
<1>5. DeviceType
  BY <1>1, <1>4 DEF DeviceType, Queues, Memory, Cell
<1>6. OwnInv
  BY <1>3 DEF OwnInv, Disjoint, Alone
<1>7. Future(queue, mem, mem)
  BY <1>2, <1>5, YieldsNothing DEF Future, DeviceType
<1>8. ResultIn(mem)
  BY <1>1, <1>7 DEF ResultIn
<1> QED BY <1>1, <1>5, <1>6, <1>8 DEF ResultInv, Alias
-----------------------------------------------------------------------------
(* The caller and the device *)

\* A call begins: its input holds what the device will end with, and no other
\* stream works on its buffers.
LEMMA ResultExec ==
  ASSUME IInv, ResultInv, NEW p \in Plan, NEW in \in Buf, NEW out \in Buf, Exec(p, in, out)
  PROVE  ResultInv'
<1>1. /\ pc[p] = "idle" /\ pc'[p] \in {"replay", "direct"} /\ io'[p] = <<in, out>> /\ i'[p] = 1
      /\ UNCHANGED <<stream, queue, mem, want>>
      /\ \A q \in Plan \ {p} : pc'[q] = pc[q] /\ io'[q] = io[q] /\ i'[q] = i[q]
      /\ in = out => p \in InPlace
  BY DEF Exec, devVars, IInv, TypeInv, TypeOK
<1>2. DeviceType'
  BY <1>1 DEF DeviceType, ResultInv
<1>3. Alias'
  BY <1>1 DEF Alias, ResultInv
<1>4. OwnInv'
  <2>1. Alone(queue, stream[p], in) /\ Alone(queue, stream[p], out)
    BY TouchedUses DEF Exec, Alone
  <2> QED BY <1>1, <2>1 DEF OwnInv, ResultInv
<1>5. PICK f : ResultIn(f)
  BY DEF ResultInv
<1>6. ASSUME want[in] # <<>> PROVE f[in] = want[in]
  <2>1. \A q \in Plan : pc[q] # "idle" => in # io[q][2]
    BY <1>1 DEF Exec
  <2> QED BY <1>5, <1>6, <2>1 DEF ResultIn
<1>7. ASSUME want[in] # <<>> PROVE Progress(f, p)'
  <2>1. want[in] \in Content
    BY DEF ResultInv, DeviceType
  <2>2. Carried(f, Sequence(p, in, out), in, p, 0, want[in])
    BY <1>6, <1>7, <2>1, DoneAll
  <2>3. Launches(p)' = Sequence(p, in, out) /\ i'[p] - 1 = 0 /\ io'[p][1] = in /\ want' = want
    BY <1>1 DEF Launches
  <2>4. CASE pc'[p] = "replay"
    BY <1>6, <1>7, <2>3, <2>4 DEF Progress
  <2>5. CASE pc'[p] = "direct"
    BY <2>2, <2>3, <2>5 DEF Progress
  <2> QED BY <1>1, <2>4, <2>5
<1>8. ASSUME NEW q \in Plan \ {p}, Progress(f, q) PROVE Progress(f, q)'
  <2>1. Launches(q)' = Launches(q)
    BY <1>1 DEF Launches
  <2> QED BY <1>1, <1>8, <2>1 DEF Progress
<1>9. ResultIn(f)'
  <2>1. Future(queue, mem, f)'
    BY <1>1, <1>5 DEF ResultIn
  <2>2. ASSUME NEW b \in Buf, \A q \in Plan : pc'[q] # "idle" => b # io'[q][2], want'[b] # <<>>
        PROVE  f[b] = want'[b]
    <3>1. \A q \in Plan : pc[q] # "idle" => b # io[q][2]
      BY <1>1, <2>2
    <3> QED BY <1>1, <1>5, <2>2, <3>1 DEF ResultIn
  <2>3. ASSUME NEW q \in Plan, pc'[q] # "idle", want'[io'[q][1]] # <<>> PROVE Progress(f, q)'
    <3>1. CASE q = p
      BY <1>1, <1>7, <2>3, <3>1
    <3>2. CASE q # p
      <4>1. Progress(f, q)
        BY <1>1, <1>5, <2>3, <3>2 DEF ResultIn
      <4> QED BY <1>8, <3>2, <4>1
    <3> QED BY <3>1, <3>2
  <2> QED BY <2>1, <2>2, <2>3 DEF ResultIn
<1> QED BY <1>2, <1>3, <1>4, <1>9 DEF ResultInv

\* A plan moves to another stream only when its old one is worked off.
LEMMA ResultSetStream ==
  ASSUME IInv, ResultInv, NEW p \in Plan, NEW s \in Stream, SetStream(p, s) PROVE ResultInv'
<1>1. /\ UNCHANGED <<pc, io, i, queue, mem, want>> /\ stream'[p] = s /\ pc[p] = "idle"
      /\ queue[stream[p]] = <<>> /\ \A q \in Plan \ {p} : stream'[q] = stream[q]
      /\ stream[p] \in Stream
  BY DEF SetStream, callVars, devVars, IInv, TypeInv, TypeOK
<1>2. DeviceType' /\ Alias' /\ Disjoint(queue)'
  BY <1>1 DEF DeviceType, Alias, OwnInv, ResultInv
<1>3. OwnInv'
  <2>1. \A b : ~Uses(queue[stream[p]], b)
    BY <1>1 DEF Uses
  <2>2. \A t \in {"temp1", "temp2"} : Alone(queue, s, <<p, t>>)
    BY <1>1, <2>1 DEF OwnInv, ResultInv, Alone
  <2> QED BY <1>1, <1>2, <2>2 DEF OwnInv, ResultInv
<1>4. PICK f : ResultIn(f)
  BY DEF ResultInv
<1>5. ResultIn(f)'
  <2>1. \A q \in Plan : Progress(f, q)' <=> Progress(f, q)
    BY <1>1 DEF Progress, Launches
  <2> QED BY <1>1, <1>4, <2>1 DEF ResultIn
<1> QED BY <1>2, <1>3, <1>5 DEF ResultInv

\* What the cells of a call hold is what its progress is about.
LEMMA ProgressCells ==
  ASSUME IInv, NEW q \in Plan, pc[q] # "idle", NEW f, NEW g, Progress(f, q),
         \A b \in Work(q, io[q][1], io[q][2]) : g[b] = f[b]
  PROVE  Progress(g, q)
<1>1. io[q][1] \in Buf /\ io[q][2] \in Buf /\ i[q] \in 1..(Length(q) + 1)
  BY LaunchesLength DEF IInv, TypeInv, TypeOK
<1>2. i[q] - 1 = 0 \/ i[q] - 1 \in 1..Length(q)
  BY <1>1, LaunchesLength
<1>3. i[q] - 1 \in 1..Length(q) => Launches(q)[i[q] - 1].dst \in Work(q, io[q][1], io[q][2])
  BY <1>1, SequenceChain DEF Launches
<1>4. io[q][1] \in Work(q, io[q][1], io[q][2]) /\ io[q][2] \in Work(q, io[q][1], io[q][2])
  BY DEF Work
<1>5. CASE pc[q] = "replay"
  BY <1>4, <1>5 DEF Progress
<1>6. CASE pc[q] = "direct"
  <2>1. CASE i[q] - 1 = 0
    BY <1>4, <1>6, <2>1 DEF Progress, Carried
  <2>2. CASE i[q] - 1 # 0
    BY <1>2, <1>3, <1>6, <2>2 DEF Progress, Carried
  <2> QED BY <2>1, <2>2
<1>7. CASE pc[q] \notin {"replay", "direct"}
  BY <1>4, <1>7 DEF Progress
<1> QED BY <1>5, <1>6, <1>7

\* The caller loads a buffer no call and no queued launch uses.
LEMMA ResultLoad ==
  ASSUME IInv, ResultInv, NEW b \in Buf, NEW d \in Data, Load(b, d) PROVE ResultInv'
<1>1. /\ UNCHANGED <<stream, pc, io, i, queue>> /\ mem' = [mem EXCEPT ![b] = <<d>>]
      /\ want' = [want EXCEPT ![b] = <<d>>]
      /\ \A p \in Plan : pc[p] # "idle" => b \notin {io[p][1], io[p][2]}
  BY DEF Load, callVars, devVars
<1>2. b \in Cell /\ \A s \in Stream : ~Uses(queue[s], b)
  BY TouchedUses DEF Load, Cell
<1>3. <<d>> \in Content
  BY DEF Content
<1>4. queue \in Queues /\ mem \in Memory /\ want \in [Buf -> Content]
  BY DEF ResultInv, DeviceType
<1>5. DeviceType' /\ Alias' /\ OwnInv'
  <2>1. mem' \in Memory /\ want' \in [Buf -> Content]
    BY <1>1, <1>2, <1>3, <1>4 DEF Memory
  <2> QED BY <1>1, <1>4, <2>1 DEF DeviceType, Alias, OwnInv, ResultInv
<1>6. PICK f : ResultIn(f)
  BY DEF ResultInv
<1> DEFINE g == [f EXCEPT ![b] = <<d>>]
<1>7. Future(queue, mem', g)
  BY <1>1, <1>2, <1>3, <1>4, <1>6, FutureLoad DEF ResultIn
<1>8. g[b] = <<d>> /\ \A c \in Cell \ {b} : g[c] = f[c]
  BY <1>2, <1>6 DEF ResultIn, Future, Memory
<1> HIDE DEF g
<1>9. ASSUME NEW c \in Buf, \A p \in Plan : pc[p] # "idle" => c # io[p][2], want'[c] # <<>>
      PROVE  g[c] = want'[c]
  <2>1. CASE c = b
    BY <1>1, <1>4, <1>8, <2>1
  <2>2. CASE c # b
    BY <1>1, <1>4, <1>6, <1>8, <1>9, <2>2 DEF ResultIn, Cell
  <2> QED BY <2>1, <2>2
<1>10. ASSUME NEW p \in Plan, pc[p] # "idle", want'[io[p][1]] # <<>> PROVE Progress(g, p)'
  <2>1. io[p][1] \in Buf \ {b} /\ io[p][2] \in Buf \ {b}
    BY <1>1, <1>10 DEF IInv, TypeInv
  <2>2. want'[io[p][1]] = want[io[p][1]]
    BY <1>1, <1>4, <2>1
  <2>3. Progress(f, p)
    BY <1>6, <1>10, <2>2 DEF ResultIn
  <2>4. \A c \in Work(p, io[p][1], io[p][2]) : g[c] = f[c]
    <3>1. \A c \in Work(p, io[p][1], io[p][2]) : c \in Cell \ {b}
      BY <2>1, BuffersApart DEF Work, Cell, Temp
    <3> QED BY <1>8, <3>1
  <2>5. Progress(g, p)
    BY <1>10, <2>3, <2>4, ProgressCells
  <2> QED BY <1>1, <2>2, <2>5 DEF Progress, Launches
<1>11. ResultIn(g)'
  BY <1>1, <1>7, <1>9, <1>10 DEF ResultIn
<1> QED BY <1>5, <1>11 DEF ResultInv

\* The device runs a launch: what it will end with stays the same.
LEMMA ResultRun ==
  ASSUME IInv, ResultInv, NEW s \in Stream, Run(s) PROVE ResultInv'
<1>1. /\ UNCHANGED <<stream, pc, io, i, want>> /\ queue[s] # <<>>
      /\ mem' = Ran(mem, Head(queue[s])) /\ queue' = [queue EXCEPT ![s] = Tail(@)]
  BY DEF Run, callVars
<1>2. queue \in Queues /\ mem \in Memory /\ want \in [Buf -> Content] /\ queue[s] \in Seq(Kernel)
  BY DEF ResultInv, DeviceType, Queues
<1>3. Head(queue[s]) \in Kernel /\ Tail(queue[s]) \in Seq(Kernel)
  BY <1>1, <1>2
<1>4. DeviceType'
  <2>1. mem' \in Memory
    BY <1>1, <1>2, <1>3, RanCells
  <2>2. queue' \in Queues
    BY <1>1, <1>2, <1>3 DEF Queues
  <2> QED BY <1>1, <1>2, <2>1, <2>2 DEF DeviceType
<1>5. \A u \in Stream : \A b : Uses(queue'[u], b) => Uses(queue[u], b)
  <2>1. \A b : Uses(Tail(queue[s]), b) => Uses(queue[s], b)
    BY <1>1, <1>2, UsesTail
  <2> QED BY <1>1, <1>2, <2>1 DEF Queues
<1>6. \A u \in Stream : \A b : Alone(queue, u, b) => Alone(queue', u, b)
  BY <1>5 DEF Alone
<1>7. OwnInv'
  <2>1. Disjoint(queue')
    BY <1>5, <1>6 DEF Disjoint, OwnInv, ResultInv
  <2>2. stream \in [Plan -> Stream]
    BY DEF IInv, TypeInv, TypeOK
  <2> QED BY <1>1, <1>6, <2>1, <2>2 DEF OwnInv, ResultInv
<1>8. PICK f : ResultIn(f)
  BY DEF ResultInv
<1>9. Future(queue', mem', f)
  BY <1>1, <1>2, <1>8, FutureRun DEF ResultIn, OwnInv, ResultInv
<1>10. ResultIn(f)'
  <2>1. \A p \in Plan : Progress(f, p)' <=> Progress(f, p)
    BY <1>1 DEF Progress, Launches
  <2> QED BY <1>1, <1>8, <1>9, <2>1 DEF ResultIn
<1>11. Alias'
  BY <1>1 DEF Alias, ResultInv
<1> QED BY <1>4, <1>7, <1>10, <1>11 DEF ResultInv
-----------------------------------------------------------------------------
(* The steps of a call *)

\* A step of the call on p that hands launches on its own cells to its own
\* stream keeps the cells of other plans and calls to their streams.
LEMMA HostOwn ==
  ASSUME IInv, OwnInv, NEW p \in Plan, HostStep(p),
         \A b : Uses(queue'[stream[p]], b) =>
                  Uses(queue[stream[p]], b) \/ b \in Work(p, io[p][1], io[p][2])
  PROVE  OwnInv'
<1> DEFINE s == stream[p]
           W == Work(p, io[p][1], io[p][2])
<1>1. /\ UNCHANGED <<stream, io>> /\ pc[p] # "idle" /\ s \in Stream
      /\ \A q \in Plan : pc'[q] # "idle" => pc[q] # "idle"
      /\ \A u \in Stream \ {s} : queue'[u] = queue[u]
  BY HostFrame DEF IInv, TypeInv, TypeOK
<1>2. \A b \in W : Alone(queue, s, b)
  BY <1>1 DEF OwnInv, Work
<1>3. \A b : Alone(queue, s, b) => Alone(queue', s, b)
  BY <1>1 DEF Alone
<1>4. ASSUME NEW u \in Stream \ {s}, NEW b, b \notin W, Alone(queue, u, b) PROVE Alone(queue', u, b)
  BY <1>1, <1>4 DEF Alone
<1> HIDE DEF W
<1>5. Disjoint(queue')
  <2>1. ASSUME NEW b \in Cell, Uses(queue'[s], b) PROVE Alone(queue', s, b)
    <3>1. Uses(queue[s], b) \/ b \in W
      BY <2>1 DEF W
    <3>2. Alone(queue, s, b)
      BY <1>1, <1>2, <3>1 DEF OwnInv, Disjoint
    <3> QED BY <1>3, <3>2
  <2>2. ASSUME NEW u \in Stream \ {s}, NEW b \in Cell, Uses(queue'[u], b)
        PROVE  Alone(queue', u, b)
    <3>1. Uses(queue[u], b)
      BY <1>1, <2>2
    <3>2. Alone(queue, u, b)
      BY <3>1 DEF OwnInv, Disjoint
    <3>3. b \notin W
      BY <1>2, <3>1 DEF Alone
    <3> QED BY <1>4, <3>2, <3>3
  <2> QED BY <2>1, <2>2 DEF Disjoint
<1>6. ASSUME NEW q \in Plan, NEW t \in {"temp1", "temp2"} PROVE Alone(queue', stream[q], <<q, t>>)
  <2>1. Alone(queue, stream[q], <<q, t>>) /\ stream[q] \in Stream
    BY DEF OwnInv, IInv, TypeInv, TypeOK
  <2>2. CASE stream[q] = s
    BY <1>3, <2>1, <2>2
  <2>3. CASE stream[q] # s
    <3>1. <<q, t>> \notin {io[p][1], io[p][2]}
      BY <1>1, BuffersApart DEF IInv, TypeInv
    <3>2. <<q, t>> \notin W
      BY <2>3, <3>1 DEF W, Work
    <3> QED BY <1>4, <2>1, <2>3, <3>2
  <2> QED BY <2>2, <2>3
<1>7. ASSUME NEW q \in Plan, pc'[q] # "idle", NEW b \in {io[q][1], io[q][2]}
      PROVE  Alone(queue', stream[q], b)
  <2>1. Alone(queue, stream[q], b) /\ stream[q] \in Stream /\ b \in Buf /\ pc[q] # "idle"
    BY <1>1, <1>7 DEF OwnInv, IInv, TypeInv, TypeOK
  <2>2. CASE stream[q] = s
    BY <1>3, <2>1, <2>2
  <2>3. CASE stream[q] # s
    <3>1. b \notin {io[p][1], io[p][2]}
      BY <1>1, <2>1, <2>3 DEF IInv, ApartInv
    <3>2. b \notin W
      BY <2>1, <3>1, BuffersApart DEF W, Work
    <3> QED BY <1>4, <2>1, <2>3, <3>2
  <2> QED BY <2>2, <2>3
<1> QED BY <1>1, <1>5, <1>6, <1>7 DEF OwnInv

\* So the invariant is kept if its launches end as the call promises.
LEMMA HostResult ==
  ASSUME IInv, ResultInv, NEW p \in Plan, HostStep(p), NEW f, ResultIn(f), NEW g,
         NEW in, NEW out, in = io[p][1], out = io[p][2],
         Future(queue', mem, g), queue' \in Queues, want' \in [Buf -> Content],
         Elsewhere(f, g, p, in, out),
         \A b : Uses(queue'[stream[p]], b) => Uses(queue[stream[p]], b) \/ b \in Work(p, in, out),
         pc'[p] = "idle" /\ want'[out] # <<>> => g[out] = want'[out],
         pc'[p] # "idle" => want' = want,
         pc'[p] # "idle" /\ want[in] # <<>> => Progress(g, p)'
  PROVE  ResultInv'
<1>1. /\ UNCHANGED <<stream, io, mem>> /\ pc[p] # "idle" /\ in \in Buf /\ out \in Buf
      /\ \A q \in Plan \ {p} : pc'[q] = pc[q] /\ i'[q] = i[q]
      /\ \A b \in Buf \ {out} : want'[b] = want[b]
  BY HostFrame DEF IInv, TypeInv
<1>2. OwnInv'
  BY HostOwn DEF ResultInv
<1>3. Alias'
  <2>1. \A q \in Plan : pc'[q] # "idle" => pc[q] # "idle"
    BY <1>1
  <2> QED BY <1>1, <2>1 DEF Alias, ResultInv
<1>4. DeviceType'
  BY <1>1 DEF DeviceType, ResultInv
<1>5. ASSUME NEW b \in Buf, \A q \in Plan : pc'[q] # "idle" => b # io[q][2], want'[b] # <<>>
      PROVE  g[b] = want'[b]
  <2>1. CASE b = out
    <3>1. pc'[p] = "idle"
      BY <1>5, <2>1
    <3> QED BY <1>5, <2>1, <3>1
  <2>2. CASE b # out
    <3>1. g[b] = f[b] /\ want'[b] = want[b]
      BY <1>1, <2>2 DEF Elsewhere
    <3>2. \A q \in Plan : pc[q] # "idle" => b # io[q][2]
      BY <1>1, <1>5, <2>2
    <3> QED BY <1>5, <3>1, <3>2 DEF ResultIn
  <2> QED BY <2>1, <2>2
<1>6. ASSUME NEW q \in Plan \ {p}, pc'[q] # "idle", want'[io[q][1]] # <<>> PROVE Progress(g, q)'
  <2>1. pc[q] # "idle" /\ pc'[q] = pc[q] /\ i'[q] = i[q] /\ io[q][1] \in Buf /\ io[q][2] \in Buf
    BY <1>1, <1>6 DEF IInv, TypeInv
  <2>2. io[q][1] \notin {in, out} /\ io[q][2] \notin {in, out}
    BY <1>1, <2>1 DEF IInv, ApartInv
  <2>3. want'[io[q][1]] = want[io[q][1]]
    BY <1>1, <2>1, <2>2
  <2>4. Progress(f, q)
    BY <1>6, <2>1, <2>3 DEF ResultIn
  <2>5. ASSUME NEW b \in Work(q, io[q][1], io[q][2]) PROVE g[b] = f[b]
    <3>1. CASE b \in {io[q][1], io[q][2]}
      BY <2>1, <2>2, <3>1 DEF Elsewhere
    <3>2. CASE b \in {<<q, "temp1">>, <<q, "temp2">>}
      <4>1. b \in Cell /\ b \notin Buf
        BY <3>2, BuffersApart DEF Cell, Temp
      <4>2. b \notin Work(p, in, out)
        BY <1>1, <3>2, <4>1 DEF Work
      <4> QED BY <4>1, <4>2 DEF Elsewhere
    <3> QED BY <3>1, <3>2 DEF Work
  <2>6. Progress(g, q)
    BY <2>1, <2>4, <2>5, ProgressCells
  <2> QED BY <1>1, <2>1, <2>3, <2>6 DEF Progress, Launches
<1>7. ASSUME NEW q \in Plan, pc'[q] # "idle", want'[io[q][1]] # <<>> PROVE Progress(g, q)'
  <2>1. CASE q = p
    BY <1>7, <2>1
  <2>2. CASE q # p
    BY <1>6, <1>7, <2>2
  <2> QED BY <2>1, <2>2
<1>8. ResultIn(g)'
  BY <1>1, <1>5, <1>7 DEF ResultIn
<1> QED BY <1>2, <1>3, <1>4, <1>8 DEF ResultInv

\* A step that hands nothing to the device.
LEMMA HostQuiet ==
  ASSUME IInv, ResultInv, NEW p \in Plan, HostStep(p), NEW f, ResultIn(f),
         queue' = queue, want' \in [Buf -> Content],
         pc'[p] = "idle" /\ want'[io[p][2]] # <<>> => f[io[p][2]] = want'[io[p][2]],
         pc'[p] # "idle" => want' = want,
         pc'[p] # "idle" /\ want[io[p][1]] # <<>> => Progress(f, p)'
  PROVE  ResultInv'
<1>1. Future(queue', mem, f) /\ queue' \in Queues
  BY DEF ResultIn, ResultInv, DeviceType
<1>2. Elsewhere(f, f, p, io[p][1], io[p][2])
  BY DEF Elsewhere
<1> QED BY <1>1, <1>2, HostResult

\* What a return does to the promises.
LEMMA ReturnWant ==
  ASSUME IInv, ResultInv, NEW p \in Plan, pc[p] # "idle", NEW ok \in BOOLEAN, Return(p, ok)
  PROVE  /\ pc'[p] = "idle" /\ want' \in [Buf -> Content]
         /\ want'[io[p][2]] # <<>> => ok /\ want[io[p][1]] # <<>>
                                     /\ want'[io[p][2]] = Transform(p, want[io[p][1]])
<1>1. io[p][1] \in Buf /\ io[p][2] \in Buf /\ want \in [Buf -> Content] /\ pc \in [Plan -> Points]
  BY DEF IInv, TypeInv, TypeOK, ResultInv, DeviceType
<1>2. Transform(p, want[io[p][1]]) \in Content /\ <<>> \in Content
  BY <1>1, TransformType DEF Content
<1>3. want[io[p][1]] = <<>> => Transform(p, want[io[p][1]]) = <<>>
  BY DEF Transform
<1> HIDE DEF Content
<1> QED BY <1>1, <1>2, <1>3 DEF Return

\* The call returns what the device is going to end with.
LEMMA HostReturn ==
  ASSUME IInv, ResultInv, NEW p \in Plan, HostStep(p), NEW f, ResultIn(f), queue' = queue,
         NEW ok \in BOOLEAN, Return(p, ok),
         ok /\ want[io[p][1]] # <<>> => f[io[p][2]] = Transform(p, want[io[p][1]])
  PROVE  ResultInv'
<1>1. pc[p] # "idle"
  BY HostFrame DEF IInv
<1>2. /\ pc'[p] = "idle" /\ want' \in [Buf -> Content]
      /\ want'[io[p][2]] # <<>> => ok /\ want[io[p][1]] # <<>>
                                  /\ want'[io[p][2]] = Transform(p, want[io[p][1]])
  BY <1>1, ReturnWant
<1> QED BY <1>2, HostQuiet

\* The whole sequence is launched at once, from a replay graph.
LEMMA HostWhole ==
  ASSUME IInv, ResultInv, NEW p \in Plan, HostStep(p), NEW f, ResultIn(f), Return(p, TRUE),
         queue' = [queue EXCEPT ![stream[p]] = @ \o Launches(p)],
         want[io[p][1]] # <<>> => f[io[p][1]] = want[io[p][1]]
  PROVE  ResultInv'
<1> SUFFICES ASSUME NEW in, NEW out, NEW s, in = io[p][1], out = io[p][2], s = stream[p]
             PROVE  ResultInv'
  OBVIOUS
<1> DEFINE r == [queue EXCEPT ![s] = @ \o Sequence(p, in, out)]
<1>1. pc[p] # "idle" /\ mem' = mem
  BY HostFrame DEF IInv
<1>2. in \in Buf
  BY <1>1 DEF IInv, TypeInv
<1>3. out \in Buf
  BY <1>1 DEF IInv, TypeInv
<1>4. s \in Stream
  BY DEF IInv, TypeInv, TypeOK
<1>5. /\ pc'[p] = "idle" /\ want' \in [Buf -> Content]
      /\ want'[out] # <<>> => want[in] # <<>> /\ want'[out] = Transform(p, want[in])
  BY <1>1, ReturnWant
<1>6. queue \in Queues
  BY DEF ResultInv, DeviceType
<1>7. mem \in Memory
  BY DEF ResultInv, DeviceType
<1>8. Future(queue, mem, f)
  BY DEF ResultIn
<1>9. \A b \in Work(p, in, out) : Alone(queue, s, b)
  BY <1>1 DEF ResultInv, OwnInv, Work
<1>10. queue' = r
  BY DEF Launches
<1> HIDE DEF r
<1>11. PICK g : Future(r, mem, g) /\ Transformed(f, g, p, in, out)
  BY <1>2, <1>3, <1>4, <1>6, <1>7, <1>8, <1>9, FutureWhole DEF r
<1>12. queue[s] \in Seq(Kernel)
  BY <1>4, <1>6 DEF Queues
<1>13. queue'[s] = queue[s] \o Sequence(p, in, out)
  BY <1>4, <1>6, <1>10 DEF Queues, r
<1>14. Future(queue', mem, g) /\ queue' \in Queues
  <2>1. Sequence(p, in, out) \in Seq(Kernel)
    BY <1>2, <1>3, SequenceKernels
  <2>2. queue[s] \o Sequence(p, in, out) \in Seq(Kernel)
    BY <1>12, <2>1
  <2> QED BY <1>6, <1>10, <1>11, <2>2 DEF Queues, r
<1>15. want'[out] # <<>> => g[out] = want'[out]
  <2>1. want[in] \in Content
    BY <1>2 DEF ResultInv, DeviceType
  <2> QED BY <1>5, <1>11, <2>1 DEF Transformed
<1>16. ASSUME NEW b, Uses(queue'[s], b) PROVE Uses(queue[s], b) \/ b \in Work(p, in, out)
  <2>1. Uses(queue[s] \o Sequence(p, in, out), b)
    BY <1>13, <1>16
  <2> QED BY <1>2, <1>3, <1>12, <2>1, UsesWhole
<1>17. Elsewhere(f, g, p, in, out)
  BY <1>11 DEF Transformed
<1>18. \A b : Uses(queue'[stream[p]], b) =>
                Uses(queue[stream[p]], b) \/ b \in Work(p, in, out)
  BY <1>16
<1>19. pc'[p] = "idle"
  BY <1>5
<1>20. want' \in [Buf -> Content]
  BY <1>5
<1> QED BY <1>14, <1>15, <1>17, <1>18, <1>19, <1>20, HostResult

\* One launch of the direct run.
LEMMA HostLaunch ==
  ASSUME IInv, ResultInv, NEW p \in Plan, Launch(p), NEW f, ResultIn(f), pc[p] = "direct",
         capturing[stream[p]] = NoPlan
  PROVE  ResultInv'
<1> SUFFICES ASSUME NEW in, NEW out, NEW s, NEW L, NEW n, in = io[p][1], out = io[p][2],
                    s = stream[p], L = Launches(p), n = i[p] - 1
             PROVE  ResultInv'
  OBVIOUS
<1> DEFINE k == L[n + 1]
           W == Work(p, in, out)
           g == Ran(f, k)
<1>0. HostStep(p)
  BY DEF HostStep
<1>1. /\ in \in Buf /\ out \in Buf /\ s \in Stream
      /\ UNCHANGED <<pc, io, stream, want, mem>>
  BY HostFrame, <1>0 DEF Launch, IInv, TypeInv, TypeOK
<1>2. L = Sequence(p, in, out)
  BY DEF Launches
<1>3. /\ n \in 0..(Length(p) - 1) /\ n + 1 = i[p] /\ i'[p] - 1 = n + 1
      /\ i[p] <= Len(Launches(p)) /\ n + 1 \in 1..Length(p)
  <2>1. i[p] \in Nat /\ i[p] \in 1..Length(p) /\ i[p] <= Len(Launches(p))
    BY LaunchesLength DEF Launch, IInv, TypeInv, TypeOK
  <2>2. i'[p] = i[p] + 1
    BY DEF Launch, IInv, TypeInv
  <2>3. Length(p) \in 1..6
    BY SequenceLength
  <2> QED BY <2>1, <2>2, <2>3
<1>4. queue' = [queue EXCEPT ![s] = @ \o <<k>>]
  BY <1>3 DEF Launch, Submit
<1>5. k \in Kernel /\ k.src \in W /\ k.dst \in W
  <2>1. L \in Seq(Kernel)
    BY <1>1, <1>2, SequenceChain
  <2>2. Len(L) = Length(p) /\ \A m \in 1..Length(p) : L[m].src \in W /\ L[m].dst \in W
    BY <1>1, <1>2, SequenceChain
  <2> HIDE DEF W
  <2> QED BY <1>3, <2>1, <2>2
<1>6. queue \in Queues /\ mem \in Memory /\ f \in Memory /\ Future(queue, mem, f)
  BY DEF ResultInv, DeviceType, ResultIn, Future
<1>7. queue[s] \in Seq(Kernel)
  BY <1>1, <1>6 DEF Queues
<1>8. \A b \in W : Alone(queue, s, b)
  BY DEF ResultInv, OwnInv, Work
<1>9. /\ \A c \in Content : Carried(f, L, in, p, n, c) => Carried(g, L, in, p, n + 1, c)
      /\ Elsewhere(f, g, p, in, out)
  <2>1. in \in Buf
    BY <1>1
  <2>2. out \in Buf
    BY <1>1
  <2>3. f \in Memory
    BY <1>6
  <2>4. n \in 0..(Length(p) - 1)
    BY <1>3
  <2> HIDE DEF g, W
  <2> QED BY <2>1, <2>2, <2>3, <2>4, <1>2, CarryOn, SMTT(60) DEF g, k, Elsewhere
<1> HIDE DEF k, W
<1>10. Future(queue', mem, g)
  BY <1>1, <1>4, <1>5, <1>6, <1>8, FutureMore
<1>11. queue' \in Queues
  <2>1. queue[s] \o <<k>> \in Seq(Kernel)
    BY <1>5, <1>7
  <2> QED BY <1>4, <1>6, <2>1 DEF Queues
<1>12. ASSUME NEW b, Uses(queue'[s], b) PROVE Uses(queue[s], b) \/ b \in W
  <2>1. queue'[s] = queue[s] \o <<k>>
    BY <1>1, <1>4, <1>6 DEF Queues
  <2>2. k \in Kernel
    BY <1>5
  <2>3. Uses(queue[s] \o <<k>>, b) <=> Uses(queue[s], b) \/ b \in {k.src, k.dst}
    BY <1>7, <2>2, UsesMore
  <2> QED BY <1>5, <1>12, <2>1, <2>3
<1> HIDE DEF g
<1>13. ASSUME want[in] # <<>> PROVE Progress(g, p)'
  <2>1. Carried(f, L, in, p, n, want[in])
    BY <1>13 DEF ResultIn, Progress
  <2>2. want[in] \in Content
    BY <1>1 DEF ResultInv, DeviceType
  <2>3. Carried(g, L, in, p, n + 1, want'[in])
    BY <1>1, <1>9, <2>1, <2>2
  <2>4. Launches(p)' = L /\ io'[p][1] = in /\ pc'[p] = "direct"
    BY <1>1 DEF Launches
  <2> QED BY <1>3, <2>3, <2>4 DEF Progress
<1>14. pc'[p] # "idle" /\ want' = want /\ want' \in [Buf -> Content]
  BY <1>1 DEF ResultInv, DeviceType
<1> QED BY <1>0, <1>9, <1>10, <1>11, <1>12, <1>13, <1>14, HostResult DEF W
\* A step of a call after its direct run that does not return.
LEMMA HostOther ==
  ASSUME IInv, ResultInv, NEW p \in Plan, HostStep(p), NEW f, ResultIn(f),
         queue' = queue, want' = want, pc'[p] \in {"begin", "record", "broken", "first"},
         want[io[p][1]] # <<>> => f[io[p][2]] = Transform(p, want[io[p][1]])
  PROVE  ResultInv'
<1>1. io' = io /\ want' \in [Buf -> Content] /\ pc'[p] # "idle"
  BY HostFrame DEF IInv, ResultInv, DeviceType
<1>2. want[io[p][1]] # <<>> => Progress(f, p)'
  BY <1>1 DEF Progress
<1> QED BY <1>1, <1>2, HostQuiet

\* Only a call that records has its stream captured.
LEMMA Uncaptured ==
  ASSUME IInv, OwnerInv, NEW p \in Plan, pc[p] # "idle", pc[p] \notin {"record", "broken"}
  PROVE  capturing[stream[p]] = NoPlan
<1> SUFFICES ASSUME capturing[stream[p]] # NoPlan PROVE FALSE
  OBVIOUS
<1>1. stream[p] \in Stream
  BY DEF IInv, TypeInv, TypeOK
<1>2. capturing[stream[p]] \in Plan /\ stream[capturing[stream[p]]] = stream[p]
      /\ pc[capturing[stream[p]]] \in {"record", "broken"}
  BY <1>1 DEF OwnerInv, IInv, TypeInv, TypeOK
<1>3. capturing[stream[p]] # p
  BY <1>2
<1> QED BY <1>2, <1>3 DEF IInv, ApartInv

\* The replay graph of a node holds its whole sequence.
LEMMA ReplayResult ==
  ASSUME Unbroken, IInv, OwnerInv, ResultInv, NEW p \in Plan, Replay(p) PROVE ResultInv'
<1>0. HostStep(p)
  BY DEF HostStep
<1>1. PICK f : ResultIn(f)
  BY DEF ResultInv
<1>2. pc[p] = "replay" /\ Return(p, TRUE) /\ capturing[stream[p]] = NoPlan
  BY Uncaptured DEF Replay
<1>3. graph[p] = Launches(p)
  <2>1. Checked(p)
    BY DEF Unbroken, Checked
  <2>2. graph[p] = SubSeq(Launches(p), 1, Length(p))
    BY <1>2, <2>1 DEF IInv, GraphInv, CaptureInv, StoredInv, Launches
  <2>3. Launches(p) \in Seq(Kernel)
    BY <1>2, SequenceKernels DEF Launches, IInv, TypeInv
  <2>4. Len(Launches(p)) = Length(p)
    BY LaunchesLength
  <2>5. \A M \in Seq(Kernel) : SubSeq(M, 1, Len(M)) = M
    OBVIOUS
  <2> QED BY <2>2, <2>3, <2>4, <2>5
<1>4. queue' = [queue EXCEPT ![stream[p]] = @ \o Launches(p)]
  BY <1>2, <1>3 DEF Replay, Submit
<1>5. want[io[p][1]] # <<>> => f[io[p][1]] = want[io[p][1]]
  BY <1>1, <1>2 DEF ResultIn, Progress
<1> QED BY <1>0, <1>1, <1>2, <1>4, <1>5, HostWhole

\* A new graph is launched after the direct run: on the input it has left as
\* it was.
LEMMA FirstLaunchResult ==
  ASSUME Unbroken, Repeatable, IInv, OwnerInv, ResultInv, NEW p \in Plan, FirstLaunch(p)
  PROVE  ResultInv'
<1>0. HostStep(p)
  BY DEF HostStep
<1>1. PICK f : ResultIn(f)
  BY DEF ResultInv
<1>2. pc[p] = "first" /\ Return(p, TRUE) /\ capturing[stream[p]] = NoPlan
  BY Uncaptured DEF FirstLaunch
<1>3. io[p][1] \in Buf /\ io[p][1] # io[p][2]
  <2>1. Node[p] # "leaf" /\ p \in GraphEnabled /\ io[p] \in Buf \X Buf
    BY <1>2 DEF IInv, GraphInv, CaptureInv, TypeInv
  <2> QED BY <1>2, <2>1 DEF Repeatable, ResultInv, Alias
<1>4. taken[p] = Launches(p)
  <2>1. Checked(p)
    BY DEF Unbroken, Checked
  <2>2. taken[p] = SubSeq(Launches(p), 1, i[p] - 1) /\ i[p] = Length(p) + 1
    BY <1>2, <2>1 DEF IInv, GraphInv, CaptureInv
  <2>3. Launches(p) \in Seq(Kernel)
    BY <1>2, SequenceKernels DEF Launches, IInv, TypeInv
  <2>4. Len(Launches(p)) = Length(p) /\ Length(p) \in 1..6
    BY LaunchesLength
  <2>5. \A M \in Seq(Kernel) : SubSeq(M, 1, Len(M)) = M
    OBVIOUS
  <2>6. i[p] - 1 = Len(Launches(p))
    BY <2>2, <2>4
  <2> QED BY <2>2, <2>3, <2>5, <2>6
<1>5. queue' = [queue EXCEPT ![stream[p]] = @ \o Launches(p)]
  BY <1>2, <1>4 DEF FirstLaunch, Submit
<1>6. want[io[p][1]] # <<>> => f[io[p][1]] = want[io[p][1]]
  <2>1. \A q \in Plan : pc[q] # "idle" => io[p][1] # io[q][2]
    BY <1>2, <1>3 DEF IInv, ApartInv
  <2> QED BY <1>1, <1>3, <2>1 DEF ResultIn
<1> QED BY <1>0, <1>1, <1>2, <1>5, <1>6, HostWhole

\* The direct run is complete: its output will hold the transform.
LEMMA DirectDoneResult ==
  ASSUME IInv, ResultInv, NEW p \in Plan, DirectDone(p) PROVE ResultInv'
<1>0. HostStep(p)
  BY DEF HostStep
<1>1. PICK f : ResultIn(f)
  BY DEF ResultInv
<1>2. pc[p] = "direct" /\ queue' = queue /\ io[p][1] \in Buf /\ io[p][2] \in Buf
  BY DEF DirectDone, devVars, IInv, TypeInv
<1>3. i[p] - 1 = Length(p)
  BY LaunchesLength DEF DirectDone, IInv, TypeInv, TypeOK
<1>4. ASSUME want[io[p][1]] # <<>> PROVE f[io[p][2]] = Transform(p, want[io[p][1]])
  <2>1. Carried(f, Launches(p), io[p][1], p, Length(p), want[io[p][1]])
    BY <1>1, <1>2, <1>3, <1>4 DEF ResultIn, Progress
  <2>2. want[io[p][1]] \in Content
    BY <1>2 DEF ResultInv, DeviceType
  <2> QED BY <1>2, <1>4, <2>1, <2>2, DoneAll DEF Launches
<1>5. CASE pc'[p] = "begin" /\ want' = want
  BY <1>0, <1>1, <1>2, <1>4, <1>5, HostOther
<1>6. CASE Return(p, TRUE)
  BY <1>0, <1>1, <1>2, <1>4, <1>6, HostReturn
<1> QED BY <1>5, <1>6 DEF DirectDone, Goto, IInv, TypeInv, TypeOK

\* The steps of a capture, successful or not: the output of the direct run is
\* on its way already.
LEMMA CaptureResult ==
  ASSUME Unbroken, IInv, OwnerInv, ResultInv, NEW p \in Plan,
         \/ BeginCapture(p) \/ BeginFails(p) \/ RecordFails(p) \/ EndCapture(p) \/ EndFails(p)
         \/ FirstLaunchFails(p) \/ (Launch(p) /\ pc[p] = "record")
  PROVE  ResultInv'
<1>0. HostStep(p)
  BY DEF HostStep
<1>1. PICK f : ResultIn(f)
  BY DEF ResultInv
<1>2. pc[p] \in {"begin", "record", "broken", "first"} /\ pc \in [Plan -> Points]
  BY DEF BeginCapture, BeginFails, RecordFails, EndCapture, EndFails, FirstLaunchFails,
         Recorded, Goto, IInv, TypeInv, TypeOK
<1>3. want[io[p][1]] # <<>> => f[io[p][2]] = Transform(p, want[io[p][1]])
  BY <1>1, <1>2 DEF ResultIn, Progress
<1>4. ASSUME queue' = queue, Return(p, TRUE) PROVE ResultInv'
  BY <1>0, <1>1, <1>3, <1>4, HostReturn
<1>5. ASSUME queue' = queue, want' = want, pc'[p] \in {"begin", "record", "broken", "first"}
      PROVE  ResultInv'
  BY <1>0, <1>1, <1>3, <1>5, HostOther
<1>6. CASE BeginCapture(p)
  <2>1. queue' = queue /\ want' = want /\ pc'[p] = "record"
    BY <1>2, <1>6 DEF BeginCapture, Goto
  <2> QED BY <1>5, <2>1
<1>7. CASE BeginFails(p) \/ FirstLaunchFails(p)
  BY <1>4, <1>7 DEF BeginFails, FirstLaunchFails, GiveUp, devVars
<1>8. CASE RecordFails(p)
  <2>1. CASE Throws(p, i[p])
    BY <1>4, <1>8, <2>1 DEF RecordFails, GiveUp, devVars
  <2>2. CASE ~Throws(p, i[p])
    <3>1. queue' = queue /\ want' = want /\ pc'[p] = "broken"
      BY <1>2, <1>8, <2>2 DEF RecordFails, Goto, devVars
    <3> QED BY <1>5, <3>1
  <2> QED BY <2>1, <2>2
<1>9. CASE EndFails(p)
  BY <1>4, <1>9 DEF EndFails, GiveUp, StopCapture
<1>10. CASE EndCapture(p)
  <2>0. queue' = queue
    BY <1>10 DEF EndCapture, StopCapture
  <2>1. CASE Node[p] = "leaf"
    BY <1>4, <1>10, <2>0, <2>1 DEF EndCapture
  <2>2. CASE Node[p] = "graph" /\ pc[p] = "broken"
    <3>1. Return(p, FALSE)
      BY <1>10, <2>2 DEF EndCapture
    <3> QED BY <1>0, <1>1, <2>0, <3>1, HostReturn
  <2>3. CASE Node[p] # "leaf" /\ ~(Node[p] = "graph" /\ pc[p] = "broken")
    <3>1. want' = want /\ pc'[p] = "first"
      BY <1>2, <1>10, <2>3 DEF EndCapture
    <3> QED BY <1>5, <2>0, <3>1
  <2> QED BY <2>1, <2>2, <2>3
<1>11. CASE Launch(p) /\ pc[p] = "record"
  <2>1. capturing[stream[p]] # NoPlan
    BY <1>11, NoPlanFresh DEF IInv, GraphInv, CaptureInv
  <2>2. queue' = queue /\ want' = want /\ pc'[p] = "record"
    BY <1>11, <2>1 DEF Launch, Submit
  <2> QED BY <1>5, <2>2
<1> QED BY <1>6, <1>7, <1>8, <1>9, <1>10, <1>11

LEMMA ResultStep ==
  ASSUME Unbroken, Repeatable, IInv, OwnerInv, ResultInv, [Next]_vars PROVE ResultInv'
<1>1. ASSUME NEW p \in Plan, HostStep(p) PROVE ResultInv'
  <2>0. PICK f : ResultIn(f)
    BY DEF ResultInv
  <2>1. CASE Replay(p)
    BY <2>1, ReplayResult
  <2>2. CASE FirstLaunch(p)
    BY <2>2, FirstLaunchResult
  <2>3. CASE ReplayFails(p) \/ DirectFails(p)
    <3>1. Return(p, FALSE) /\ queue' = queue
      BY <2>3 DEF ReplayFails, DirectFails, devVars
    <3> QED BY <1>1, <2>0, <3>1, HostReturn
  <2>4. CASE Launch(p) /\ pc[p] = "direct"
    <3>1. capturing[stream[p]] = NoPlan
      BY <2>4, Uncaptured
    <3> QED BY <2>0, <2>4, <3>1, HostLaunch
  <2>5. CASE DirectDone(p)
    BY <2>5, DirectDoneResult
  <2>6. CASE \/ BeginCapture(p) \/ BeginFails(p) \/ RecordFails(p) \/ EndCapture(p)
             \/ EndFails(p) \/ FirstLaunchFails(p) \/ (Launch(p) /\ pc[p] = "record")
    BY <2>6, CaptureResult
  <2>7. Launch(p) => pc[p] \in {"direct", "record"}
    BY DEF Launch
  <2> QED BY <1>1, <2>1, <2>2, <2>3, <2>4, <2>5, <2>6, <2>7 DEF HostStep
<1>2. CASE UNCHANGED vars
  <2>1. /\ UNCHANGED <<stream, pc, io, i, queue, mem, want>>
    BY <1>2 DEF vars, callVars, devVars
  <2>2. DeviceType' /\ Alias' /\ OwnInv'
    BY <2>1 DEF ResultInv, DeviceType, Alias, OwnInv
  <2>3. PICK f : ResultIn(f)
    BY DEF ResultInv
  <2>4. ResultIn(f)'
    BY <2>1, <2>3 DEF ResultIn, Progress, Launches
  <2> QED BY <2>2, <2>4 DEF ResultInv
<1> QED BY <1>1, <1>2, ResultExec, ResultSetStream, ResultLoad, ResultRun DEF Next
-----------------------------------------------------------------------------
\* The invariant of the results: the device is on its way to a memory in which
\* every buffer holds what its last successful call promised and every call in
\* progress is as far as its next launch.  It holds provided that no recording
\* loses a launch and that the nodes that launch a new graph after the direct
\* run are not used in place; without either, the code returns wrong results.
THEOREM ResultInductive ==
  ASSUME Unbroken, Repeatable
  PROVE  Spec => []ResultInv
<1>1. Caught
  BY DEF Unbroken, Caught
<1>2. Init => ResultInv
  BY ResultInit
<1>3. IInv /\ OwnerInv /\ ResultInv /\ [Next]_vars => ResultInv'
  BY ResultStep, Unbroken, Repeatable
<1>4. Spec => [](IInv /\ OwnerInv)
  BY <1>1, OwnerInductive
<1> QED BY <1>2, <1>3, <1>4, PTL DEF Spec

\* When every call has returned and the device has caught up, each output
\* holds exactly the transform its last successful flagfftExec* call promised,
\* whatever graphs were replayed and whichever other plans, streams and
\* failures came in between, under the same two provisos.
THEOREM ResultsExact ==
  ASSUME Unbroken, Repeatable
  PROVE  Spec => []ResultExact
<1>1. ResultInv => ResultExact
  <2> SUFFICES ASSUME ResultInv, Quiet, NEW b \in Buf, want[b] # <<>> PROVE mem[b] = want[b]
    BY DEF ResultExact
  <2>1. PICK f : ResultIn(f)
    BY DEF ResultInv
  <2>2. f[b] = want[b]
    BY <2>1 DEF ResultIn, Quiet
  <2>3. \A s \in Stream : ~Uses(queue[s], b)
    BY DEF Quiet, Uses
  <2>4. f[b] = mem[b]
    BY <2>1, <2>3 DEF ResultIn, Future, Cell
  <2> QED BY <2>2, <2>4
<1> QED BY <1>1, ResultInductive, PTL
=============================================================================
