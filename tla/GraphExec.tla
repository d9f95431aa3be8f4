------------------------------ MODULE GraphExec ------------------------------
(***************************************************************************)
(* Execution of plans with replay graphs: flagfftExec* and                 *)
(* flagfftSetStream (src/exec/c_api_exec.cpp) down to the raw nodes that   *)
(* record their launches into a CudaGraph and replay it when they are      *)
(* called again with the same pointers (src/exec/raw_nodes.cpp):           *)
(*   "leaf"  CompiledRawLeafNode with a Raw1DGraphState                    *)
(*   "rc"    CompiledRaw2DRCNode                                           *)
(*   "2d"    CompiledRaw2DNode                                             *)
(*   "graph" CompiledRawGraphNode around a CompiledRaw3DNode               *)
(*                                                                         *)
(* Launches are asynchronous.  A stream is a queue the device works off,   *)
(* unless it is being captured: then launches are recorded, not run.       *)
(* Device memory holds, for every buffer, the data it was loaded with and  *)
(* the operations applied to it since, so a transform that runs twice,     *)
(* not at all, in part or on stale data is visible.                        *)
(*                                                                         *)
(* plan->mutex makes the calls on one plan sequential; the calls of        *)
(* different plans run in different threads and interleave.  The caller    *)
(* keeps to the rules of stream programming: no two calls at a time on one *)
(* stream, and buffers are not handed from stream to stream before the     *)
(* first one is done.                                                      *)
(***************************************************************************)
EXTENDS Naturals, Sequences

CONSTANTS
    Plan,           \* plan handles
    Node,           \* Node[p]: kind of the compiled node of plan p
    GraphEnabled,   \* plans whose node has graph_enabled_ set
    Buf,            \* device buffers of the caller
    Data,           \* what the caller loads into them
    Stream,         \* backend streams
    DefaultStream,  \* the stream of a new plan
    NoPlan,         \* owner of the capture of a stream that is not captured
    NullPtr,        \* the null device pointer
    NoGraph,        \* a node that holds no graph
    InPlace,        \* plans the caller uses in place (input = output)
    Faults,         \* Faults[p]: which backend calls may fail in plan p
    MaxExecs        \* bound: MaxExecs[p] is the number of calls on plan p

Kinds == {"leaf", "rc", "2d", "graph"}
FaultKinds == {"direct", "record", "begin", "end", "launch"}

ASSUME NodeType == Node \in [Plan -> Kinds]
ASSUME StreamType == DefaultStream \in Stream
ASSUME NoPlanFresh == NoPlan \notin Plan
ASSUME SwitchType == /\ InPlace \subseteq Plan
                     /\ GraphEnabled \subseteq Plan
                     /\ Faults \in [Plan -> SUBSET FaultKinds]
                     /\ MaxExecs \in [Plan -> Nat]
\* A plan allocates its temporaries; the caller never sees them.
ASSUME BuffersApart == Buf \cap (Plan \X {"temp1", "temp2"}) = {}

VARIABLES
    stream,     \* stream[p]: plan->state.stream
    pc,         \* pc[p]: where the current call on plan p stands
    io,         \* io[p]: <<input, output>> of the call
    i,          \* i[p]: next launch of the sequence
    graph,      \* graph[p]: launches of the stored graph, or NoGraph
    graphIO,    \* graphIO[p]: <<graph_in_, graph_out_>>
    failed,     \* failed[p]: graph_failed_
    taken,      \* taken[p]: the graph of end_capture, until it is stored
    execs,      \* execs[p]: calls made so far
    queue,      \* queue[s]: launches the device has still to run
    capturing,  \* capturing[s]: plan that captures stream s
    captured,   \* captured[s]: launches recorded so far
    mem,        \* mem[b]: contents of device memory
    want        \* want[b]: contents the caller may rely on, <<>> if none

nodeVars == <<graph, graphIO, failed>>
callVars == <<pc, io, i, taken, execs>>
devVars == <<queue, capturing, captured>>
vars == <<stream, nodeVars, callVars, devVars, mem, want>>

Temp == Plan \X {"temp1", "temp2"}
Points == {"idle", "replay", "direct", "begin", "record", "broken", "first"}

K(op, src, dst) == [op |-> op, src |-> src, dst |-> dst]

\* The launches of one execute, in program order.
Sequence(p, in, out) ==
    LET t1 == <<p, "temp1">>
        t2 == <<p, "temp2">>
    IN  CASE Node[p] = "leaf"  -> <<K("fft", in, out)>>
          [] Node[p] = "rc"    -> <<K("row", in, t1), K("col", t1, out)>>
          [] Node[p] = "2d"    -> <<K("row", in, t1), K("trans", t1, t2),
                                    K("col", t2, t1), K("trans", t1, out)>>
          [] Node[p] = "graph" -> <<K("n2", in, t1), K("021", t1, t2),
                                    K("n1", t2, t1), K("210", t1, t2),
                                    K("n0", t2, t1), K("201", t1, out)>>

Launches(p) == Sequence(p, io[p][1], io[p][2])

\* A launch that fails inside a child node becomes a result code; one that
\* the node makes itself throws.  CompiledRaw3DNode catches its own.
Throws(p, n) == Node[p] = "leaf" \/ (Node[p] = "2d" /\ n \in {2, 4})

\* What a correct transform makes of contents c.
Transform(p, c) ==
    IF c = <<>> THEN <<>>
    ELSE LET seq == Sequence(p, 0, 0)
         IN  c \o [n \in 1..Len(seq) |-> seq[n].op]

Ran(m, k) == [m EXCEPT ![k.dst] = Append(m[k.src], k.op)]

\* Plans, calls, streams and graphs keep their types; a stored graph has its
\* pair of pointers.
TypeOK ==
    /\ stream \in [Plan -> Stream]
    /\ pc \in [Plan -> Points]
    /\ io \in [Plan -> (Buf \X Buf) \cup {<<NullPtr, NullPtr>>}]
    /\ \A p \in Plan : i[p] \in 1..(Len(Launches(p)) + 1)
    /\ \A p \in Plan : graph[p] # NoGraph => graphIO[p] \in Buf \X Buf
    /\ failed \in [Plan -> BOOLEAN]
    /\ DOMAIN execs = Plan
    /\ \A p \in Plan : execs[p] \in 0..MaxExecs[p]
    /\ capturing \in [Stream -> Plan \cup {NoPlan}]
    /\ DOMAIN mem = Buf \cup Temp /\ DOMAIN want = Buf

Init ==
    /\ stream = [p \in Plan |-> DefaultStream]
    /\ pc = [p \in Plan |-> "idle"]
    /\ io = [p \in Plan |-> <<NullPtr, NullPtr>>]
    /\ i = [p \in Plan |-> 1]
    /\ graph = [p \in Plan |-> NoGraph]
    /\ graphIO = io
    /\ failed = [p \in Plan |-> FALSE]
    /\ taken = [p \in Plan |-> <<>>]
    /\ execs = [p \in Plan |-> 0]
    /\ queue = [s \in Stream |-> <<>>]
    /\ capturing = [s \in Stream |-> NoPlan]
    /\ captured = [s \in Stream |-> <<>>]
    /\ mem = [b \in Buf \cup Temp |-> <<>>]
    /\ want = [b \in Buf |-> <<>>]
-----------------------------------------------------------------------------
Goto(p, from, to) ==
    /\ pc[p] = from
    /\ pc' = [pc EXCEPT ![p] = to]

\* The call returns.  On FLAGFFT_SUCCESS its output is the transform of its
\* input; on an error nothing is promised about the output.
Return(p, ok) ==
    LET in == io[p][1]
        out == io[p][2]
    IN  /\ pc' = [pc EXCEPT ![p] = "idle"]
        /\ want' = [want EXCEPT ![out] = IF ok THEN Transform(p, want[in])
                                               ELSE <<>>]

\* Hand launches to a stream: recorded while it is captured, else queued.
Submit(s, ks) ==
    IF capturing[s] = NoPlan
    THEN queue' = [queue EXCEPT ![s] = @ \o ks] /\ UNCHANGED captured
    ELSE captured' = [captured EXCEPT ![s] = @ \o ks] /\ UNCHANGED queue

Pending(s) == {queue[s][n] : n \in 1..Len(queue[s])}
Touched(s, b) == \E k \in Pending(s) : b \in {k.src, k.dst}
-----------------------------------------------------------------------------
(* The caller *)

\* Mutant: the pointers of the stored graph are not compared.
ExecIgnoringPointers(p, in, out) ==
    /\ pc[p] = "idle"
    /\ execs[p] < MaxExecs[p]
    /\ in = out => p \in InPlace
    /\ \A q \in Plan \ {p} :
          pc[q] # "idle" => /\ stream[q] # stream[p]
                            /\ {in, out} \cap {io[q][1], io[q][2]} = {}
    /\ \A s \in Stream \ {stream[p]} : ~Touched(s, in) /\ ~Touched(s, out)
    /\ pc' = [pc EXCEPT ![p] = IF graph[p] # NoGraph
                               THEN "replay" ELSE "direct"]
    /\ io' = [io EXCEPT ![p] = <<in, out>>]
    /\ i' = [i EXCEPT ![p] = 1]
    /\ execs' = [execs EXCEPT ![p] = @ + 1]
    /\ UNCHANGED <<stream, nodeVars, taken, devVars, mem, want>>

\* flagfftExec* up to the choice between replay and direct launches.
Exec(p, in, out) ==
    /\ pc[p] = "idle"
    /\ execs[p] < MaxExecs[p]
    /\ in = out => p \in InPlace
    /\ \A q \in Plan \ {p} :
          pc[q] # "idle" => /\ stream[q] # stream[p]
                            /\ {in, out} \cap {io[q][1], io[q][2]} = {}
    /\ \A s \in Stream \ {stream[p]} : ~Touched(s, in) /\ ~Touched(s, out)
    /\ pc' = [pc EXCEPT ![p] = IF graph[p] # NoGraph /\ graphIO[p] = <<in, out>>
                               THEN "replay" ELSE "direct"]
    /\ io' = [io EXCEPT ![p] = <<in, out>>]
    /\ i' = [i EXCEPT ![p] = 1]
    /\ execs' = [execs EXCEPT ![p] = @ + 1]
    /\ UNCHANGED <<stream, nodeVars, taken, devVars, mem, want>>

\* flagfftSetStream, after the caller has synchronised the old stream.
SetStream(p, s) ==
    /\ pc[p] = "idle"
    /\ queue[stream[p]] = <<>>
    /\ stream' = [stream EXCEPT ![p] = s]
    /\ UNCHANGED <<nodeVars, callVars, devVars, mem, want>>

\* The caller fills a buffer that nothing on the device is using.
Load(b, d) ==
    /\ \A s \in Stream : ~Touched(s, b)
    /\ \A p \in Plan : pc[p] # "idle" => b \notin {io[p][1], io[p][2]}
    /\ mem' = [mem EXCEPT ![b] = <<d>>]
    /\ want' = [want EXCEPT ![b] = <<d>>]
    /\ UNCHANGED <<stream, nodeVars, callVars, devVars>>
-----------------------------------------------------------------------------
(* execute of the graph nodes *)

Replay(p) ==
    /\ pc[p] = "replay"
    /\ Submit(stream[p], graph[p])
    /\ Return(p, TRUE)
    /\ UNCHANGED <<stream, nodeVars, io, i, taken, execs, capturing, mem>>

ReplayFails(p) ==
    /\ pc[p] = "replay"
    /\ "launch" \in Faults[p]
    /\ Return(p, FALSE)
    /\ UNCHANGED <<stream, nodeVars, io, i, taken, execs, devVars, mem>>

\* One launch of the sequence, in the direct run or while recording.
Launch(p) ==
    /\ pc[p] \in {"direct", "record"}
    /\ i[p] <= Len(Launches(p))
    /\ Submit(stream[p], <<Launches(p)[i[p]]>>)
    /\ i' = [i EXCEPT ![p] = @ + 1]
    /\ UNCHANGED <<stream, nodeVars, pc, io, taken, execs, capturing, mem, want>>

\* A launch of the direct run fails: the call returns an error.
DirectFails(p) ==
    /\ pc[p] = "direct"
    /\ "direct" \in Faults[p]
    /\ i[p] <= Len(Launches(p))
    /\ Return(p, FALSE)
    /\ UNCHANGED <<stream, nodeVars, io, i, taken, execs, devVars, mem>>

DirectDone(p) ==
    /\ pc[p] = "direct"
    /\ i[p] > Len(Launches(p))
    /\ IF p \in GraphEnabled /\ graph[p] = NoGraph /\ ~failed[p]
       THEN Goto(p, "direct", "begin") /\ UNCHANGED want
       ELSE Return(p, TRUE)
    /\ UNCHANGED <<stream, nodeVars, io, i, taken, execs, devVars, mem>>

BeginCapture(p) ==
    /\ Goto(p, "begin", "record")
    /\ capturing[stream[p]] = NoPlan
    /\ capturing' = [capturing EXCEPT ![stream[p]] = p]
    /\ captured' = [captured EXCEPT ![stream[p]] = <<>>]
    /\ i' = [i EXCEPT ![p] = 1]
    /\ UNCHANGED <<stream, nodeVars, io, taken, execs, queue, mem, want>>

\* Any exception of the capture is caught: no graph for this plan any more,
\* and the call succeeds with the direct run.
GiveUp(p) ==
    /\ failed' = [failed EXCEPT ![p] = TRUE]
    /\ taken' = [taken EXCEPT ![p] = <<>>]
    /\ Return(p, TRUE)
    /\ UNCHANGED <<stream, graph, graphIO, io, i, execs, mem>>

BeginFails(p) ==
    /\ pc[p] = "begin"
    /\ "begin" \in Faults[p] \/ capturing[stream[p]] # NoPlan
    /\ GiveUp(p)
    /\ UNCHANGED devVars

\* A launch fails while recording.  An exception goes past end_capture; a
\* result code ends the sequence and end_capture follows.
RecordFails(p) ==
    /\ pc[p] = "record"
    /\ "record" \in Faults[p]
    /\ i[p] <= Len(Launches(p))
    /\ IF Throws(p, i[p])
       THEN GiveUp(p)
       ELSE /\ Goto(p, "record", "broken")
            /\ UNCHANGED <<stream, nodeVars, io, i, taken, execs, mem, want>>
    /\ UNCHANGED devVars

Recorded(p) ==
    pc[p] = "broken" \/ (pc[p] = "record" /\ i[p] > Len(Launches(p)))

StopCapture(s) ==
    /\ capturing' = [capturing EXCEPT ![s] = NoPlan]
    /\ captured' = [captured EXCEPT ![s] = <<>>]
    /\ UNCHANGED queue

Store(p, ks) ==
    /\ graph' = [graph EXCEPT ![p] = ks]
    /\ graphIO' = [graphIO EXCEPT ![p] = io[p]]
    /\ UNCHANGED failed

\* Mutant: nobody looks at the result of the recorded sequence.
EndCaptureUnchecked(p) ==
    LET ks == captured[stream[p]]
    IN  /\ Recorded(p)
        /\ StopCapture(stream[p])
        /\ IF Node[p] = "leaf"
           THEN Store(p, ks) /\ Return(p, TRUE) /\ UNCHANGED taken
           ELSE /\ pc' = [pc EXCEPT ![p] = "first"]
                /\ taken' = [taken EXCEPT ![p] = ks]
                /\ UNCHANGED <<nodeVars, want>>
        /\ UNCHANGED <<stream, io, i, execs, mem>>

\* Mutant: the error of a broken sequence is returned before end_capture.
EndCaptureSkipped(p) ==
    LET ks == captured[stream[p]]
    IN  /\ Recorded(p)
        /\ IF pc[p] = "broken"
           THEN Return(p, FALSE) /\ UNCHANGED <<nodeVars, taken, devVars>>
           ELSE /\ pc' = [pc EXCEPT ![p] = "first"]
                /\ taken' = [taken EXCEPT ![p] = ks]
                /\ StopCapture(stream[p])
                /\ UNCHANGED <<nodeVars, want>>
        /\ UNCHANGED <<stream, io, i, execs, mem>>

\* end_capture succeeds.  The leaf keeps the graph without launching it;
\* CompiledRawGraphNode returns the error of a broken sequence, the 2D nodes
\* do not look at it.
EndCapture(p) ==
    LET ks == captured[stream[p]]
    IN  /\ Recorded(p)
        /\ StopCapture(stream[p])
        /\ CASE Node[p] = "leaf" ->
                   Store(p, ks) /\ Return(p, TRUE) /\ UNCHANGED taken
             [] Node[p] = "graph" /\ pc[p] = "broken" ->
                   Return(p, FALSE) /\ UNCHANGED <<nodeVars, taken>>
             [] OTHER -> /\ pc' = [pc EXCEPT ![p] = "first"]
                         /\ taken' = [taken EXCEPT ![p] = ks]
                         /\ UNCHANGED <<nodeVars, want>>
        /\ UNCHANGED <<stream, io, i, execs, mem>>

\* Mutant: a failure leaves the stream captured.
EndFailsCapturing(p) ==
    /\ Recorded(p)
    /\ "end" \in Faults[p]
    /\ GiveUp(p)
    /\ UNCHANGED devVars

\* end_capture fails, for an invalidated capture or at instantiation; the
\* stream is no longer captured.
EndFails(p) ==
    /\ Recorded(p)
    /\ "end" \in Faults[p]
    /\ StopCapture(stream[p])
    /\ GiveUp(p)

\* The new graph is launched once and kept.
FirstLaunch(p) ==
    /\ pc[p] = "first"
    /\ Submit(stream[p], taken[p])
    /\ Store(p, taken[p])
    /\ taken' = [taken EXCEPT ![p] = <<>>]
    /\ Return(p, TRUE)
    /\ UNCHANGED <<stream, io, i, execs, capturing, mem>>

FirstLaunchFails(p) ==
    /\ pc[p] = "first"
    /\ "launch" \in Faults[p]
    /\ GiveUp(p)
    /\ UNCHANGED devVars
-----------------------------------------------------------------------------
\* The device runs the next launch of a stream.
Run(s) ==
    /\ queue[s] # <<>>
    /\ mem' = Ran(mem, Head(queue[s]))
    /\ queue' = [queue EXCEPT ![s] = Tail(@)]
    /\ UNCHANGED <<stream, nodeVars, callVars, capturing, captured, want>>

HostStep(p) ==
    \/ Replay(p) \/ ReplayFails(p) \/ Launch(p) \/ DirectFails(p)
    \/ DirectDone(p) \/ BeginCapture(p) \/ BeginFails(p) \/ RecordFails(p)
    \/ EndCapture(p) \/ EndFails(p) \/ FirstLaunch(p) \/ FirstLaunchFails(p)

Next ==
    \/ \E p \in Plan :
          \/ \E in, out \in Buf : Exec(p, in, out)
          \/ \E s \in Stream : SetStream(p, s)
          \/ HostStep(p)
    \/ \E b \in Buf, d \in Data : Load(b, d)
    \/ \E s \in Stream : Run(s)

Spec == Init /\ [][Next]_vars

\* A thread inside flagfftExec* is scheduled and the device works off its
\* queues; nothing is assumed about the caller.
Fairness ==
    /\ \A p \in Plan : WF_vars(HostStep(p))
    /\ \A s \in Stream : WF_vars(Run(s))

FairSpec == Spec /\ Fairness
-----------------------------------------------------------------------------
(* Properties *)

Quiet == /\ \A p \in Plan : pc[p] = "idle"
         /\ \A s \in Stream : queue[s] = <<>>

\* When every call has returned and the device has caught up, each output
\* holds exactly the transform its last successful flagfftExec* call
\* promised: not run twice, not on stale data, not from another call's graph.
ResultExact ==
    Quiet => \A b \in Buf : want[b] # <<>> => mem[b] = want[b]

\* A stored graph is the whole sequence of its node for the two pointers it
\* is replayed for.
GraphComplete ==
    /\ TypeOK
    /\ \A p \in Plan :
        graph[p] # NoGraph =>
            graph[p] = Sequence(p, graphIO[p][1], graphIO[p][2])

\* No call returns with its stream still being captured, whichever call of the
\* backend fails (CompiledRawGraphNode::execute; a 2D node whose own launch
\* throws while recording is the exception, see FallsBack).
CaptureEnds ==
    \A s \in Stream : capturing[s] # NoPlan => pc[capturing[s]] # "idle"

\* "Any capture/instantiation failure falls back to direct launches for the
\* lifetime of the plan" (CompiledRaw2DNode::execute): a call after such a
\* failure finds its stream open, so that its launches run.
FallsBack ==
    \A p \in Plan :
        failed[p] /\ pc[p] = "direct" => capturing[stream[p]] = NoPlan

\* What successful calls promised does arrive in device memory, also after
\* captures that failed: no launch is left behind in a recording.
ResultsArrive ==
    <>[](\A b \in Buf : want[b] # <<>> => mem[b] = want[b])
=============================================================================
