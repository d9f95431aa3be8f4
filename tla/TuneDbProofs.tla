---------------------------- MODULE TuneDbProofs ----------------------------
(***************************************************************************)
(* TuneDb for any number of tune processes, readers, candidates, workloads  *)
(* and runs: what the file holds and what plan creation serves.             *)
(***************************************************************************)
EXTENDS TuneDb, TLAPS

(* What a transaction has written so far, by the phase of its process.     *)
DraftOf(t) ==
  /\ tuner[t].phase \in {"trials", "forward"} => draft = rows
  /\ tuner[t].phase = "inverse" => draft = Replaced(rows, WinnerRow(t, "forward"))
  /\ tuner[t].phase = "commit" =>
       draft = Replaced(Replaced(rows, WinnerRow(t, "forward")), WinnerRow(t, "inverse"))

HasWinner == {"reference", "open", "trials_table", "rows_table", "begin"} \cup InTransaction
(* A run in progress: it has a number, what it may choose is accurate.     *)
RunSound(t) ==
  /\ tuner[t].phase \in Working \cup InTransaction => tuner[t].run # 0
  /\ tuner[t].screened \subseteq tuner[t].accurate
  /\ tuner[t].phase \in HasWinner => tuner[t].winner \in Plans /\ tuner[t].winner \in tuner[t].accurate

(* A trial on record that vouches for a plan under a workload and policy.  *)
Vouched(plan, request, policy) ==
  \E x \in trials : x.plan = plan /\ x.request = request /\ x.policy = policy /\ x.accurate
Workload(key) == [n |-> key.n, batch |-> key.bucket, dtype |-> key.dtype]
RowsVouched == \A x \in rows : x.plan \in Plans => Vouched(x.plan, Workload(x.key), x.key.policy)
ReaderSound(r) ==
  /\ reader[r].row \in Plans => Vouched(reader[r].row, reader[r].request, Policy[r])
  /\ reader[r].plan \in Plans => Vouched(reader[r].plan, reader[r].request, Policy[r])

IInv ==
  /\ TypeOK /\ LockOwned
  /\ \A t \in Tuners : DraftOf(t) /\ RunSound(t)
  /\ OneRowPerKey /\ PairConsistent /\ ReportedIsStored
  /\ RowsVouched /\ \A r \in Readers : ReaderSound(r)

-----------------------------------------------------------------------------
(* What a step does to the record of one tune process.                     *)

Phases == Working \cup InTransaction \cup Finished

(* The fields a change of phase keeps, and the other processes' records.   *)
LEMMA GoesEffect ==
  ASSUME tuner \in [Tuners -> TunerRecords], NEW t \in Tuners, NEW phase \in Phases, Goes(t, phase)
  PROVE  /\ tuner' \in [Tuners -> TunerRecords]
         /\ \A u \in Tuners : u # t => tuner'[u] = tuner[u]
         /\ tuner'[t].phase = phase /\ tuner'[t].request = tuner[t].request
         /\ tuner'[t].screened = tuner[t].screened /\ tuner'[t].accurate = tuner[t].accurate
         /\ tuner'[t].winner = tuner[t].winner /\ tuner'[t].run = tuner[t].run
         /\ tuner'[t].save = tuner[t].save
  BY DEF Goes, TunerRecords, Phases

(* The record of an idle process is well typed.                            *)
LEMMA FreshTunerType == FreshTuner \in TunerRecords /\ SomeRequest \in Requests
<1>1. SomeRequest \in Requests
  BY TuneDbAssumption, Zenon DEF SomeRequest
<1>2. 0 \in 0..MaxRuns
  BY TuneDbAssumption
<1> QED
  BY <1>1, <1>2 DEF FreshTuner, TunerRecords, Finished

(* A run that ends keeps its number and whether it was to save.            *)
LEMMA EndsEffect ==
  ASSUME tuner \in [Tuners -> TunerRecords], NEW t \in Tuners, NEW phase \in Finished, Ends(t, phase)
  PROVE  /\ tuner' \in [Tuners -> TunerRecords]
         /\ \A u \in Tuners : u # t => tuner'[u] = tuner[u]
         /\ tuner'[t].phase = phase /\ tuner'[t].screened = {}
         /\ tuner'[t].run = tuner[t].run /\ tuner'[t].save = tuner[t].save
<1> DEFINE record == [FreshTuner EXCEPT !.phase = phase, !.run = tuner[t].run, !.save = tuner[t].save]
<1>1. tuner[t].run \in 0..MaxRuns /\ tuner[t].save \in BOOLEAN
  BY DEF TunerRecords
<1>2. /\ record \in TunerRecords
      /\ record.phase = phase /\ record.screened = {}
      /\ record.run = tuner[t].run /\ record.save = tuner[t].save
  BY <1>1, FreshTunerType DEF FreshTuner, TunerRecords, Finished
<1>3. tuner' = [tuner EXCEPT ![t] = record]
  BY DEF Ends
<1> HIDE DEF record
<1> QED
  BY <1>2, <1>3

-----------------------------------------------------------------------------
(* The file.                                                               *)

(* Replacing a row leaves one row for its key and direction, and changes     *)
(* nothing else.                                                            *)
LEMMA ReplacedKeepsOneRow ==
  ASSUME NEW table, NEW row, \A r, s \in table : r.key = s.key /\ r.dir = s.dir => r = s
  PROVE  \A r, s \in Replaced(table, row) : r.key = s.key /\ r.dir = s.dir => r = s
  BY DEF Replaced

(* The winner's row is a row.                                              *)
LEMMA WinnerRowType ==
  ASSUME TypeOK, NEW t \in Tuners, NEW dir \in Directions, tuner[t].winner \in Plans
  PROVE  /\ WinnerRow(t, dir) \in Rows /\ WinnerRow(t, dir).dir = dir
         /\ WinnerRow(t, dir).plan = tuner[t].winner /\ WinnerRow(t, dir).run = tuner[t].run
         /\ WinnerRow(t, dir).key = RowKey(tuner[t].request, t)
<1>1. tuner[t].request \in Requests /\ tuner[t].run \in 0..MaxRuns
  BY DEF TypeOK, TunerRecords
<1>2. Policy[t] \in Policies
  BY TuneDbAssumption DEF Processes
<1>3. RowKey(tuner[t].request, t) \in Keys
  BY <1>1, <1>2 DEF RowKey, Keys, Requests, Buckets
<1> QED
  BY <1>1, <1>3 DEF WinnerRow, Rows

(* The key of a workload determines the workload: no two batches share a      *)
(* bucket.                                                                  *)
LEMMA KeyDeterminesWorkload ==
  ASSUME NEW request \in Requests, NEW p \in Processes
  PROVE  /\ Workload(RowKey(request, p)) = request
         /\ RowKey(request, p).policy = Policy[p]
<1>1. request.batch \in Nat \ {0}
  BY TuneDbAssumption DEF Requests
<1>2. Bucket(request.batch) = request.batch
  BY <1>1 DEF Bucket
<1> QED
  BY <1>2 DEF Workload, RowKey, Requests

-----------------------------------------------------------------------------
(* Steps of one tune process that leave the committed tables alone.        *)

(* How such a step may move the lock and the transaction.                  *)
LockMoves(t) ==
  /\ writer' = t <=> tuner'[t].phase \in InTransaction
  /\ \/ writer' = writer /\ draft' = draft
     \/ writer \in {t, NoProcess} /\ writer' \in {t, NoProcess}

(* A step of one process that only changes its record, the lock and the       *)
(* draft preserves the invariant if it does so for that process.             *)
LEMMA TunerStep ==
  ASSUME IInv, NEW t \in Tuners,
         tuner' \in [Tuners -> TunerRecords],
         \A u \in Tuners : u # t => tuner'[u] = tuner[u],
         UNCHANGED <<rows, trials, shared, reader>>,
         tables' \in {"absent", "none", "trials", "both"}, runs' \in 0..MaxRuns,
         pending' \in BOOLEAN, draft' \subseteq Rows,
         LockMoves(t), DraftOf(t)', RunSound(t)',
         tuner'[t].phase = "passed" /\ tuner'[t].save => \E x \in trials : x.run = tuner'[t].run
  PROVE  IInv'
<1>1. NoProcess \notin Tuners
  BY TuneDbAssumption DEF Processes
<1>2. TypeOK'
  BY DEF IInv, TypeOK, LockMoves
<1>3. LockOwned'
  <2> SUFFICES ASSUME NEW u \in Tuners
               PROVE  writer' = u <=> tuner'[u].phase \in InTransaction
    BY DEF LockOwned
  <2>1. CASE u = t
    BY <2>1 DEF LockMoves
  <2>2. CASE u # t
    BY <2>2, <1>1 DEF IInv, LockOwned, LockMoves
  <2> QED
    BY <2>1, <2>2
<1>4. ASSUME NEW u \in Tuners
      PROVE  DraftOf(u)' /\ RunSound(u)'
  <2>1. CASE u = t
    BY <2>1
  <2>2. CASE u # t
    <3>1. tuner'[u] = tuner[u]
      BY <2>2
    <3>2. RunSound(u)'
      BY <3>1 DEF IInv, RunSound
    <3>3. \A dir : WinnerRow(u, dir)' = WinnerRow(u, dir)
      BY <3>1 DEF WinnerRow, RowKey
    <3>4. CASE tuner[u].phase \in InTransaction
      <4>1. writer = u
        BY <3>4 DEF IInv, LockOwned
      <4>2. draft' = draft
        BY <4>1, <2>2, <1>1 DEF LockMoves
      <4> QED
        BY <3>1, <3>2, <3>3, <4>2 DEF IInv, DraftOf
    <3>5. CASE tuner[u].phase \notin InTransaction
      BY <3>1, <3>2, <3>5 DEF DraftOf, InTransaction
    <3> QED
      BY <3>4, <3>5
  <2> QED
    BY <2>1, <2>2
<1>5. OneRowPerKey' /\ PairConsistent'
  BY DEF IInv, OneRowPerKey, PairConsistent
<1>6. ReportedIsStored'
  BY DEF IInv, ReportedIsStored
<1>7. RowsVouched' /\ \A r \in Readers : ReaderSound(r)'
  BY DEF IInv, RowsVouched, ReaderSound, Vouched
<1> QED
  BY <1>2, <1>3, <1>4, <1>5, <1>6, <1>7 DEF IInv

(* Ending a run outside a transaction, or giving the transaction up.       *)
LEMMA EndStep ==
  ASSUME IInv, NEW t \in Tuners, NEW phase \in {"failed", "crashed"}, Ends(t, phase),
         UNCHANGED <<tables, rows, trials, shared, reader, runs>>,
         \/ writer = t /\ RollBack
         \/ writer # t /\ UNCHANGED <<writer, pending, draft>>
  PROVE  IInv'
<1>1. tuner \in [Tuners -> TunerRecords] /\ TypeOK
  BY DEF IInv, TypeOK
<1>2. /\ tuner' \in [Tuners -> TunerRecords]
      /\ \A u \in Tuners : u # t => tuner'[u] = tuner[u]
      /\ tuner'[t].phase = phase /\ tuner'[t].screened = {}
      /\ tuner'[t].run = tuner[t].run /\ tuner'[t].save = tuner[t].save
  BY <1>1, EndsEffect DEF Finished
<1>3. LockMoves(t) /\ pending' \in BOOLEAN /\ draft' \subseteq Rows
  <2>1. NoProcess # t
    BY TuneDbAssumption DEF Processes
  <2>2. phase \notin InTransaction
    BY DEF InTransaction
  <2>3. pending' \in BOOLEAN /\ draft' \subseteq Rows
    BY <1>1 DEF RollBack, TypeOK
  <2>4. CASE writer = t /\ RollBack
    BY <1>2, <2>1, <2>2, <2>3, <2>4 DEF LockMoves, RollBack
  <2>5. CASE writer # t /\ UNCHANGED <<writer, pending, draft>>
    BY <1>2, <2>2, <2>3, <2>5 DEF LockMoves
  <2> QED
    BY <2>4, <2>5
<1>4. DraftOf(t)' /\ RunSound(t)'
  BY <1>2 DEF DraftOf, RunSound, HasWinner, Working, InTransaction
<1> QED
  BY <1>1, <1>2, <1>3, <1>4, TunerStep DEF TypeOK

(* A change of phase outside a transaction.                                *)
LEMMA PhaseStep ==
  ASSUME IInv, NEW t \in Tuners, tuner[t].phase \in HasWinner \ InTransaction,
         NEW phase \in HasWinner \ InTransaction, Goes(t, phase),
         UNCHANGED <<rows, trials, writer, pending, draft, shared, reader, runs>>,
         tables' \in {"absent", "none", "trials", "both"}
  PROVE  IInv'
<1>1. tuner \in [Tuners -> TunerRecords] /\ TypeOK
  BY DEF IInv, TypeOK
<1>2. /\ tuner' \in [Tuners -> TunerRecords]
      /\ \A u \in Tuners : u # t => tuner'[u] = tuner[u]
      /\ tuner'[t].phase = phase /\ tuner'[t].request = tuner[t].request
      /\ tuner'[t].screened = tuner[t].screened /\ tuner'[t].accurate = tuner[t].accurate
      /\ tuner'[t].winner = tuner[t].winner /\ tuner'[t].run = tuner[t].run
      /\ tuner'[t].save = tuner[t].save
  BY <1>1, GoesEffect DEF Phases, HasWinner, Working, InTransaction, Finished
<1>3. writer # t
  BY DEF IInv, LockOwned
<1>4. LockMoves(t)
  BY <1>2, <1>3 DEF LockMoves
<1>5. DraftOf(t)' /\ RunSound(t)'
  BY <1>2 DEF IInv, DraftOf, RunSound, HasWinner, Working, InTransaction
<1>6. phase # "passed"
  BY DEF HasWinner, InTransaction
<1> QED
  BY <1>1, <1>2, <1>4, <1>5, <1>6, TunerStep DEF TypeOK

-----------------------------------------------------------------------------
(* Measuring.                                                              *)

(* A run starts.                                                           *)
LEMMA StartTuneStep ==
  ASSUME IInv, NEW t \in Tuners, NEW request \in Requests, NEW finalists \in Finalists,
         NEW save \in BOOLEAN, StartTune(t, request, finalists, save)
  PROVE  IInv'
<1> DEFINE record == [FreshTuner EXCEPT !.run = runs + 1, !.save = save,
                        !.request = IF finalists = 0 THEN SomeRequest ELSE request,
                        !.finalists = finalists,
                        !.phase = IF finalists = 0 THEN "failed" ELSE "screen"]
<1>1. TypeOK /\ tuner \in [Tuners -> TunerRecords] /\ runs \in 0..MaxRuns /\ MaxRuns \in Nat
  BY TuneDbAssumption DEF IInv, TypeOK
<1>2. runs' = runs + 1 /\ runs' \in 0..MaxRuns /\ runs' # 0
  BY <1>1 DEF StartTune
<1>3. /\ record \in TunerRecords /\ record.run # 0 /\ record.screened = {}
      /\ record.phase \in {"failed", "screen"}
  BY <1>1, <1>2, FreshTunerType DEF FreshTuner, TunerRecords, Working, Finished, StartTune
<1>4. tuner' = [tuner EXCEPT ![t] = record]
  BY DEF StartTune
<1>5. /\ writer # t
      /\ UNCHANGED <<tables, rows, trials, writer, pending, draft, shared, reader>>
  BY DEF IInv, LockOwned, StartTune, Finished, InTransaction, database
<1> HIDE DEF record
<1>6. /\ tuner' \in [Tuners -> TunerRecords] /\ tuner'[t] = record
      /\ \A u \in Tuners : u # t => tuner'[u] = tuner[u]
  BY <1>1, <1>3, <1>4
<1>7. LockMoves(t)
  BY <1>3, <1>5, <1>6 DEF LockMoves, InTransaction
<1>8. DraftOf(t)' /\ RunSound(t)'
  BY <1>3, <1>6 DEF DraftOf, RunSound, HasWinner, InTransaction
<1> QED
  BY <1>1, <1>2, <1>3, <1>5, <1>6, <1>7, <1>8, TunerStep DEF TypeOK

(* The candidates are screened, the finalists timed, the reference timed.  *)
LEMMA MeasureStep ==
  ASSUME IInv, NEW t \in Tuners, Measure(t)
  PROVE  IInv'
<1>1. TypeOK /\ tuner \in [Tuners -> TunerRecords] /\ RunSound(t)
  BY DEF IInv, TypeOK
<1>2. /\ writer # t
      /\ UNCHANGED <<tables, rows, trials, writer, pending, draft, shared, reader, runs>>
  BY DEF IInv, LockOwned, Measure, Screen, Final, Reference, InTransaction, database
<1>3. ASSUME Ends(t, "failed")
      PROVE  IInv'
  BY <1>2, <1>3, EndStep
<1>4. ASSUME NEW record \in TunerRecords, tuner' = [tuner EXCEPT ![t] = record],
             record.phase \in {"final", "reference"}, record.run # 0,
             record.screened \subseteq record.accurate,
             record.phase = "reference" => record.winner \in Plans \cap record.accurate
      PROVE  IInv'
  <2>1. /\ tuner' \in [Tuners -> TunerRecords] /\ tuner'[t] = record
        /\ \A u \in Tuners : u # t => tuner'[u] = tuner[u]
    BY <1>1, <1>4
  <2>2. LockMoves(t)
    BY <1>2, <1>4, <2>1 DEF LockMoves, InTransaction
  <2>3. DraftOf(t)' /\ RunSound(t)'
    BY <1>4, <2>1 DEF DraftOf, RunSound, HasWinner, InTransaction
  <2> QED
    BY <1>1, <1>2, <1>4, <2>1, <2>2, <2>3, TunerStep DEF TypeOK
<1>5. CASE Screen(t)
  <2>1. PICK forward \in SUBSET Plans, inverse \in SUBSET Plans :
          \/ Ends(t, "failed")
          \/ tuner' = [tuner EXCEPT ![t].screened = GatePasses(forward, inverse),
                                    ![t].accurate = forward \cap inverse, ![t].phase = "final"]
    BY <1>5 DEF Screen
  <2> DEFINE record == [tuner[t] EXCEPT !.screened = forward \cap inverse,
                                        !.accurate = forward \cap inverse, !.phase = "final"]
  <2>2. CASE tuner' # [tuner EXCEPT ![t] = record]
    BY <1>3, <2>1, <2>2 DEF GatePasses
  <2>3. CASE tuner' = [tuner EXCEPT ![t] = record]
    <3>1. /\ record \in TunerRecords /\ record.phase = "final" /\ record.run = tuner[t].run
          /\ record.screened = record.accurate
      BY <1>1 DEF TunerRecords, Working
    <3>2. tuner[t].run # 0
      BY <1>1, <1>5 DEF RunSound, Screen, Working
    <3> QED
      BY <1>4, <2>3, <3>1, <3>2
  <2> QED
    BY <2>2, <2>3
<1>6. CASE Final(t)
  <2>1. CASE Ends(t, "failed")
    BY <1>3, <2>1
  <2>2. CASE ~Ends(t, "failed")
    <3>1. PICK p \in tuner[t].screened :
            tuner' = [tuner EXCEPT ![t].winner = p, ![t].screened = {}, ![t].accurate = @ \cap {p},
                                   ![t].phase = "reference"]
      BY <1>6, <2>2 DEF Final
    <3> DEFINE record == [tuner[t] EXCEPT !.winner = p, !.screened = {}, !.accurate = @ \cap {p},
                                          !.phase = "reference"]
    <3>2. tuner' = [tuner EXCEPT ![t] = record]
      BY <3>1
    <3>3. p \in Plans /\ p \in tuner[t].accurate /\ tuner[t].run # 0
      BY <1>1, <1>6, <3>1 DEF RunSound, Final, Working, TunerRecords
    <3>4. /\ record \in TunerRecords /\ record.phase = "reference" /\ record.run = tuner[t].run
          /\ record.screened = {} /\ record.winner = p /\ record.accurate = tuner[t].accurate \cap {p}
      BY <1>1, <3>3 DEF TunerRecords, Working
    <3> QED
      BY <1>4, <3>2, <3>3, <3>4
  <2> QED
    BY <2>1, <2>2
<1>7. CASE Reference(t)
  <2>1. CASE Goes(t, "open")
    <3>1. tuner[t].phase = "reference"
      BY <1>7 DEF Reference
    <3>2. {"reference", "open"} \subseteq HasWinner \ InTransaction
      BY DEF HasWinner, InTransaction
    <3> QED
      BY <1>1, <1>2, <2>1, <3>1, <3>2, PhaseStep DEF TypeOK
  <2>2. CASE ~tuner[t].save /\ Ends(t, "passed")
    <3>1. /\ tuner' \in [Tuners -> TunerRecords]
          /\ \A u \in Tuners : u # t => tuner'[u] = tuner[u]
          /\ tuner'[t].phase = "passed" /\ tuner'[t].screened = {}
          /\ tuner'[t].save = tuner[t].save
      BY <1>1, <2>2, EndsEffect DEF Finished
    <3>2. LockMoves(t)
      BY <1>2, <3>1 DEF LockMoves, InTransaction
    <3>3. DraftOf(t)' /\ RunSound(t)'
      BY <3>1 DEF DraftOf, RunSound, HasWinner, Working, InTransaction
    <3> QED
      BY <1>1, <1>2, <2>2, <3>1, <3>2, <3>3, TunerStep DEF TypeOK
  <2> QED
    BY <1>3, <1>7, <2>1, <2>2 DEF Reference
<1> QED
  BY <1>5, <1>6, <1>7 DEF Measure

-----------------------------------------------------------------------------
(* Saving.                                                                 *)

(* Steps before the transaction, and failed ones.                          *)
LEMMA PrepareStep ==
  ASSUME IInv, NEW t \in Tuners,
         OpenDb(t) \/ CreateTrials(t) \/ CreateMeasurements(t) \/ Close(t) \/ Crash(t)
  PROVE  IInv'
<1>1. TypeOK
  BY DEF IInv
<1>2. {"open", "trials_table", "rows_table", "begin"} \subseteq HasWinner \ InTransaction
  BY DEF HasWinner, InTransaction
<1>3. tuner[t].phase \in HasWinner \ InTransaction => writer # t
  BY DEF IInv, LockOwned
<1>4. CASE OpenDb(t)
  <2>1. CASE Goes(t, "trials_table")
    BY <1>1, <1>2, <1>4, <2>1, PhaseStep DEF OpenDb, TypeOK
  <2>2. CASE ~Goes(t, "trials_table")
    BY <1>2, <1>3, <1>4, <2>2, EndStep DEF OpenDb
  <2> QED
    BY <2>1, <2>2
<1>5. ASSUME NEW phase \in {"trials_table", "rows_table"}, NEW before,
             NEW after \in {"trials", "both"}, NEW next \in {"rows_table", "begin"},
             CreateTable(t, phase, before, after, next)
      PROVE  IInv'
  <2>1. tuner[t].phase \in HasWinner \ InTransaction /\ next \in HasWinner \ InTransaction
    BY <1>2, <1>5 DEF CreateTable
  <2>2. CASE Goes(t, next)
    <3>1. tables' \in {"absent", "none", "trials", "both"}
      BY <1>1, <1>5 DEF CreateTable, TypeOK
    <3> QED
      BY <1>5, <2>1, <2>2, <3>1, PhaseStep DEF CreateTable
  <2>3. CASE ~Goes(t, next)
    BY <1>3, <1>5, <2>1, <2>3, EndStep DEF CreateTable
  <2> QED
    BY <2>2, <2>3
<1>6. CASE Close(t)
  <2>1. writer = t
    BY <1>6 DEF IInv, LockOwned, Close, InTransaction
  <2> QED
    BY <1>6, <2>1, EndStep DEF Close
<1>7. CASE Crash(t)
  BY <1>7, EndStep DEF Crash
<1> QED
  BY <1>4, <1>5, <1>6, <1>7 DEF CreateTrials, CreateMeasurements

(* A step inside the transaction: the winner stays, the draft grows.       *)
LEMMA TransactionStep ==
  ASSUME IInv, NEW t \in Tuners, NEW phase \in InTransaction, Goes(t, phase),
         tuner[t].phase \in HasWinner,
         UNCHANGED <<tables, rows, trials, pending, shared, reader, runs>>,
         writer \in {t, NoProcess}, writer' = t, draft' \subseteq Rows, DraftOf(t)'
  PROVE  IInv'
<1>1. tuner \in [Tuners -> TunerRecords] /\ TypeOK
  BY DEF IInv, TypeOK
<1>2. /\ tuner' \in [Tuners -> TunerRecords]
      /\ \A u \in Tuners : u # t => tuner'[u] = tuner[u]
      /\ tuner'[t].phase = phase /\ tuner'[t].request = tuner[t].request
      /\ tuner'[t].screened = tuner[t].screened /\ tuner'[t].accurate = tuner[t].accurate
      /\ tuner'[t].winner = tuner[t].winner /\ tuner'[t].run = tuner[t].run
      /\ tuner'[t].save = tuner[t].save
  BY <1>1, GoesEffect DEF Phases
<1>3. LockMoves(t)
  BY <1>2 DEF LockMoves
<1>4. RunSound(t)'
  BY <1>2 DEF IInv, RunSound, HasWinner, Working
<1>5. phase # "passed"
  BY DEF InTransaction
<1> QED
  BY <1>1, <1>2, <1>3, <1>4, <1>5, TunerStep DEF TypeOK

(* The transaction up to COMMIT.                                           *)
LEMMA WriteStep ==
  ASSUME IInv, NEW t \in Tuners,
         Begin(t) \/ InsertTrials(t) \/ StatementFails(t) \/ WriteForward(t) \/ WriteInverse(t)
  PROVE  IInv'
<1>1. TypeOK /\ tuner \in [Tuners -> TunerRecords] /\ DraftOf(t)
  BY DEF IInv, TypeOK
<1>2. /\ {"begin", "trials", "forward", "inverse"} \subseteq HasWinner
      /\ {"trials", "forward", "inverse", "commit", "close"} = InTransaction
  BY DEF HasWinner, InTransaction
<1>3. tuner[t].phase \in InTransaction => writer = t
  BY DEF IInv, LockOwned
<1>4. ASSUME NEW phase \in InTransaction, Goes(t, phase)
      PROVE  /\ tuner'[t].phase = phase
             /\ \A dir : WinnerRow(t, dir)' = WinnerRow(t, dir)
  <2>1. /\ tuner'[t].phase = phase /\ tuner'[t].request = tuner[t].request
        /\ tuner'[t].winner = tuner[t].winner /\ tuner'[t].run = tuner[t].run
    BY <1>1, <1>4, GoesEffect DEF Phases
  <2> QED
    BY <2>1 DEF WinnerRow, RowKey
<1>5. CASE Begin(t)
  <2>1. CASE writer = NoProcess
    <3>1. /\ Goes(t, "trials") /\ writer' = t /\ draft' = rows /\ tuner[t].phase = "begin"
          /\ UNCHANGED <<tables, rows, trials, pending, shared, reader, runs>>
      BY <1>5, <2>1 DEF Begin, CanReserve
    <3>2. DraftOf(t)' /\ draft' \subseteq Rows
      BY <1>1, <1>2, <1>4, <3>1 DEF DraftOf, TypeOK
    <3> QED
      BY <1>2, <2>1, <3>1, <3>2, TransactionStep
  <2>2. CASE writer # NoProcess
    <3>1. writer # t
      BY <1>5 DEF IInv, LockOwned, Begin, InTransaction
    <3> QED
      BY <1>5, <2>2, <3>1, EndStep DEF Begin, CanReserve
  <2> QED
    BY <2>1, <2>2
<1>6. CASE InsertTrials(t) \/ StatementFails(t)
  <2>1. PICK phase \in {"forward", "close"} :
          /\ Goes(t, phase) /\ tuner[t].phase \in {"trials", "forward", "inverse"}
          /\ phase = "forward" => tuner[t].phase = "trials"
          /\ UNCHANGED <<tables, rows, trials, writer, pending, draft, shared, reader, runs>>
    BY <1>6 DEF InsertTrials, StatementFails, database
  <2>2. DraftOf(t)' /\ draft' \subseteq Rows
    BY <1>1, <1>2, <1>4, <2>1 DEF DraftOf, TypeOK
  <2> QED
    BY <1>2, <1>3, <2>1, <2>2, TransactionStep
<1>7. CASE WriteForward(t) \/ WriteInverse(t)
  <2>1. PICK dir \in Directions, next \in {"inverse", "commit"} :
          /\ WriteWinner(t, dir, next)
          /\ \/ dir = "forward" /\ next = "inverse"
             \/ dir = "inverse" /\ next = "commit"
    BY <1>7 DEF WriteForward, WriteInverse, Directions
  <2>2. /\ tuner[t].phase = dir /\ Goes(t, next) /\ draft' = Replaced(draft, WinnerRow(t, dir))
        /\ UNCHANGED <<tables, rows, trials, writer, pending, shared, reader, runs>>
    BY <2>1 DEF WriteWinner
  <2>3. tuner[t].winner \in Plans
    BY <1>2, <2>1, <2>2 DEF IInv, RunSound, Directions
  <2>4. draft' \subseteq Rows
    BY <1>1, <2>2, <2>3, WinnerRowType DEF Replaced, TypeOK
  <2>5. next \in InTransaction /\ dir \in InTransaction /\ dir \in HasWinner
    BY <1>2, <2>1
  <2>6. DraftOf(t)'
    BY <1>1, <1>4, <2>1, <2>2, <2>5 DEF DraftOf
  <2> QED
    BY <1>3, <2>2, <2>4, <2>5, <2>6, TransactionStep
<1> QED
  BY <1>5, <1>6, <1>7

(* COMMIT: both rows and the trials appear together.                       *)
LEMMA CommitStep ==
  ASSUME IInv, NEW t \in Tuners, Commit(t)
  PROVE  IInv'
<1> DEFINE f == WinnerRow(t, "forward")
           i == WinnerRow(t, "inverse")
<1>1. TypeOK /\ tuner \in [Tuners -> TunerRecords] /\ tuner[t].phase = "commit"
  BY DEF IInv, TypeOK, Commit
<1>2. /\ writer = t /\ tuner[t].run # 0
      /\ tuner[t].winner \in Plans /\ tuner[t].winner \in tuner[t].accurate
  BY <1>1 DEF IInv, LockOwned, RunSound, HasWinner, InTransaction
<1>3. NoProcess \notin Tuners
  BY TuneDbAssumption DEF Processes
<1>4. CASE ~CanCommit
  <2>1. /\ Goes(t, "close") /\ pending' = TRUE
        /\ UNCHANGED <<tables, rows, trials, writer, draft, shared, reader, runs>>
    BY <1>4 DEF Commit
  <2>2. /\ tuner' \in [Tuners -> TunerRecords]
        /\ \A u \in Tuners : u # t => tuner'[u] = tuner[u]
        /\ tuner'[t].phase = "close" /\ tuner'[t].screened = tuner[t].screened
        /\ tuner'[t].accurate = tuner[t].accurate
        /\ tuner'[t].winner = tuner[t].winner /\ tuner'[t].run = tuner[t].run
    BY <1>1, <2>1, GoesEffect DEF Phases, InTransaction
  <2>3. LockMoves(t) /\ DraftOf(t)' /\ RunSound(t)'
    <3>1. LockMoves(t)
      BY <1>2, <2>1, <2>2 DEF LockMoves, InTransaction
    <3>2. DraftOf(t)'
      BY <2>2 DEF DraftOf
    <3>3. RunSound(t)'
      BY <1>2, <2>2 DEF IInv, RunSound, HasWinner, Working
    <3> QED
      BY <3>1, <3>2, <3>3
  <2> QED
    BY <1>1, <2>1, <2>2, <2>3, TunerStep DEF TypeOK
<1>5. CASE CanCommit
  <2>1. /\ rows' = Replaced(Replaced(rows, f), i) /\ trials' = trials \cup {TrialRow(t)}
        /\ writer' = NoProcess /\ pending' = FALSE /\ draft' = {} /\ Ends(t, "passed")
        /\ UNCHANGED <<tables, shared, reader, runs>>
    BY <1>1, <1>5 DEF Commit, IInv, DraftOf
  <2>2. /\ tuner' \in [Tuners -> TunerRecords]
        /\ \A u \in Tuners : u # t => tuner'[u] = tuner[u]
        /\ tuner'[t].phase = "passed" /\ tuner'[t].screened = {}
        /\ tuner'[t].run = tuner[t].run /\ tuner'[t].save = tuner[t].save
    BY <1>1, <2>1, EndsEffect DEF Finished
  <2>3. /\ f \in Rows /\ f.dir = "forward" /\ f.plan = tuner[t].winner
        /\ f.run = tuner[t].run /\ f.key = RowKey(tuner[t].request, t)
        /\ i \in Rows /\ i.dir = "inverse" /\ i.plan = tuner[t].winner
        /\ i.run = tuner[t].run /\ i.key = RowKey(tuner[t].request, t)
    BY <1>1, <1>2, WinnerRowType DEF Directions
  <2>4. /\ TrialRow(t) \in Trials /\ TrialRow(t).run = tuner[t].run
        /\ TrialRow(t).plan = tuner[t].winner /\ TrialRow(t).request = tuner[t].request
        /\ TrialRow(t).policy = Policy[t] /\ TrialRow(t).accurate = TRUE
    <3>1. tuner[t].request \in Requests /\ tuner[t].run \in 0..MaxRuns
      BY <1>1 DEF TunerRecords
    <3>2. Policy[t] \in Policies
      BY TuneDbAssumption DEF Processes
    <3> QED
      BY <1>2, <3>1, <3>2 DEF TrialRow, Trials
  <2> HIDE DEF f, i
  <2>5. TypeOK'
    <3>1. rows' \subseteq Rows
      BY <1>1, <2>1, <2>3 DEF Replaced, TypeOK
    <3> QED
      BY <1>1, <2>1, <2>2, <2>4, <3>1 DEF TypeOK
  <2>6. \A u \in Tuners : u # t => tuner[u].phase \notin InTransaction
    BY <1>2 DEF IInv, LockOwned
  <2>7. LockOwned'
    BY <1>3, <2>1, <2>2, <2>6 DEF LockOwned, InTransaction
  <2>8. ASSUME NEW u \in Tuners
        PROVE  DraftOf(u)' /\ RunSound(u)'
    <3>1. CASE u = t
      BY <2>2, <3>1 DEF DraftOf, RunSound, HasWinner, Working, InTransaction
    <3>2. CASE u # t
      BY <2>2, <2>6, <3>2 DEF IInv, DraftOf, RunSound, InTransaction
    <3> QED
      BY <3>1, <3>2
  <2>9. OneRowPerKey'
    <3>1. \A r, s \in Replaced(rows, f) : r.key = s.key /\ r.dir = s.dir => r = s
      BY ReplacedKeepsOneRow DEF IInv, OneRowPerKey
    <3> QED
      BY <2>1, <3>1, ReplacedKeepsOneRow DEF OneRowPerKey
  <2>10. f \in rows' /\ i \in rows'
    BY <2>1, <2>3 DEF Replaced
  <2>11. \A r \in rows' : r = f \/ r = i \/ (r \in rows /\ r.key # f.key)
    <3>1. \A r \in rows : r.dir \in {"forward", "inverse"}
      BY <1>1 DEF TypeOK, Rows, Directions
    <3> QED
      BY <2>1, <2>3, <3>1 DEF Replaced
  <2>12. \A r \in rows : r.key # f.key => r \in rows'
    BY <2>1, <2>3 DEF Replaced
  <2>13. PairConsistent'
    <3> SUFFICES ASSUME NEW r \in rows', r.run # 0
                 PROVE  \E s \in rows' : s.key = r.key /\ s.dir # r.dir /\ s.run = r.run /\ s.plan = r.plan
      BY DEF PairConsistent
    <3>1. CASE r = f
      BY <2>3, <2>10, <3>1
    <3>2. CASE r = i
      BY <2>3, <2>10, <3>2
    <3>3. CASE r \in rows /\ r.key # f.key
      BY <2>12, <3>3 DEF IInv, PairConsistent
    <3> QED
      BY <2>11, <3>1, <3>2, <3>3
  <2>14. ReportedIsStored'
    BY <2>1, <2>2, <2>4 DEF IInv, ReportedIsStored
  <2>15. \A plan, request, policy : Vouched(plan, request, policy) => Vouched(plan, request, policy)'
    BY <2>1 DEF Vouched
  <2>16. \A plan, request, policy :
           plan = tuner[t].winner /\ request = tuner[t].request /\ policy = Policy[t]
             => Vouched(plan, request, policy)'
    BY <2>1, <2>4 DEF Vouched
  <2>17. RowsVouched'
    <3>1. /\ Workload(f.key) = tuner[t].request /\ f.key.policy = Policy[t]
          /\ Workload(i.key) = tuner[t].request /\ i.key.policy = Policy[t]
      <4>1. tuner[t].request \in Requests /\ t \in Processes
        BY <1>1 DEF TunerRecords, Processes
      <4> QED
        BY <2>3, <4>1, KeyDeterminesWorkload
    <3> SUFFICES ASSUME NEW x \in rows', x.plan \in Plans
                 PROVE  Vouched(x.plan, Workload(x.key), x.key.policy)'
      BY DEF RowsVouched
    <3>2. CASE x = f \/ x = i
      BY <2>3, <2>16, <3>1, <3>2
    <3>3. CASE x \in rows
      BY <2>15, <3>3 DEF IInv, RowsVouched
    <3> QED
      BY <2>11, <3>2, <3>3
  <2>18. \A r \in Readers : ReaderSound(r)'
    BY <2>1, <2>15 DEF IInv, ReaderSound
  <2> QED
    BY <2>5, <2>7, <2>8, <2>9, <2>13, <2>14, <2>17, <2>18 DEF IInv
<1> QED
  BY <1>4, <1>5

-----------------------------------------------------------------------------
(* Plan creation.                                                          *)

(* A lookup, and the plan made of it.                                      *)
LEMMA LookupStep ==
  ASSUME IInv, NEW r \in Readers, Lookup(r) \/ \E q \in Requests : StartLookup(r, q)
  PROVE  IInv'
<1>1. TypeOK /\ reader \in [Readers -> ReaderRecords] /\ reader[r] \in ReaderRecords
  BY DEF IInv, TypeOK
<1>2. UNCHANGED <<tables, rows, trials, writer, pending, draft, tuner, runs>>
  BY DEF Lookup, Select, Parse, FromJson, Build, StartLookup, database
<1>3. shared' \subseteq Readers
  BY <1>1 DEF Lookup, Select, Parse, FromJson, Build, StartLookup, TypeOK
<1>4. ASSUME NEW record \in ReaderRecords, reader' = [reader EXCEPT ![r] = record],
             record.row \in Plans => Vouched(record.row, record.request, Policy[r]),
             record.plan \in Plans => Vouched(record.plan, record.request, Policy[r])
      PROVE  IInv'
  <2>1. reader' \in [Readers -> ReaderRecords] /\ reader'[r] = record
        /\ \A q \in Readers : q # r => reader'[q] = reader[q]
    BY <1>1, <1>4
  <2>2. TypeOK' /\ LockOwned' /\ OneRowPerKey' /\ PairConsistent' /\ ReportedIsStored'
    BY <1>1, <1>2, <1>3, <2>1 DEF IInv, TypeOK, LockOwned, OneRowPerKey, PairConsistent, ReportedIsStored
  <2>3. \A plan, request, policy : Vouched(plan, request, policy) <=> Vouched(plan, request, policy)'
    BY <1>2 DEF Vouched
  <2>4. RowsVouched'
    BY <1>2, <2>3 DEF IInv, RowsVouched
  <2>5. ASSUME NEW q \in Readers
        PROVE  ReaderSound(q)'
    <3>1. CASE q = r
      BY <1>4, <2>1, <2>3, <3>1 DEF ReaderSound
    <3>2. CASE q # r
      BY <2>1, <2>3, <3>2 DEF IInv, ReaderSound
    <3> QED
      BY <3>1, <3>2
  <2>6. \A u \in Tuners : DraftOf(u)' /\ RunSound(u)'
    BY <1>2 DEF IInv, DraftOf, RunSound, WinnerRow, RowKey
  <2> QED
    BY <2>2, <2>4, <2>5, <2>6 DEF IInv
<1>5. NoPlan \notin Plans /\ Automatic \notin Plans /\ Garbage \notin Plans
  BY TuneDbAssumption
<1>6. ReaderSound(r)
  BY DEF IInv
<1>7. ASSUME NEW phase \in {"lookup", "read", "build"}, reader' = [reader EXCEPT ![r].phase = phase]
      PROVE  IInv'
  <2> DEFINE record == [reader[r] EXCEPT !.phase = phase]
  <2>1. /\ record \in ReaderRecords /\ record.row = reader[r].row
        /\ record.plan = reader[r].plan /\ record.request = reader[r].request
    BY <1>1 DEF ReaderRecords
  <2>2. reader' = [reader EXCEPT ![r] = record]
    BY <1>7
  <2> HIDE DEF record
  <2> QED
    BY <1>4, <1>6, <2>1, <2>2 DEF ReaderSound
<1>8. CASE Select(r)
  <2>1. CASE LookupError(r)
    BY <1>7, <2>1 DEF LookupError
  <2>2. CASE ~LookupError(r)
    <3> DEFINE found == IF Found(r) = {} THEN NoPlan ELSE Newest(Found(r)).plan
               record == [reader[r] EXCEPT !.phase = "parse", !.row = found]
    <3>1. reader' = [reader EXCEPT ![r] = record]
      BY <1>8, <2>2 DEF Select
    <3>2. Found(r) # {} => Newest(Found(r)) \in Found(r)
      <4> SUFFICES ASSUME NEW x \in Found(r)
                   PROVE  Newest(Found(r)) \in Found(r)
        OBVIOUS
      <4>1. \A y \in Found(r) : y = x
        BY DEF IInv, OneRowPerKey, Found
      <4>2. x.run \in 0..MaxRuns
        BY <1>1 DEF TypeOK, Rows, Found
      <4>3. \A y \in Found(r) : y.run <= x.run
        BY <4>1, <4>2
      <4> QED
        BY <4>3 DEF Newest
    <3>3. found \in Plans \cup {Garbage, NoPlan}
      BY <1>1, <3>2 DEF TypeOK, Rows, Found
    <3>4. found \in Plans => Vouched(found, reader[r].request, Policy[r])
      <4> SUFFICES ASSUME found \in Plans
                   PROVE  Vouched(found, reader[r].request, Policy[r])
        OBVIOUS
      <4>1. PICK x \in rows : found = x.plan /\ x.key = RowKey(reader[r].request, r)
        BY <1>5, <3>2 DEF Found
      <4>2. reader[r].request \in Requests /\ r \in Processes
        BY <1>1 DEF ReaderRecords, Processes
      <4>3. Workload(x.key) = reader[r].request /\ x.key.policy = Policy[r]
        BY <4>1, <4>2, KeyDeterminesWorkload
      <4>4. Vouched(x.plan, Workload(x.key), x.key.policy)
        BY <4>1 DEF IInv, RowsVouched
      <4> QED
        BY <4>1, <4>3, <4>4
    <3>5. /\ record \in ReaderRecords /\ record.row = found
          /\ record.plan = reader[r].plan /\ record.request = reader[r].request
      BY <1>1, <3>3 DEF ReaderRecords
    <3> HIDE DEF found, record
    <3> QED
      BY <1>4, <1>6, <3>1, <3>4, <3>5 DEF ReaderSound
  <2> QED
    BY <2>1, <2>2
<1>9. CASE Parse(r)
  BY <1>7, <1>9 DEF Parse
<1>10. FreshReader \in ReaderRecords
  BY FreshTunerType DEF FreshReader, ReaderRecords
<1>11. CASE FromJson(r)
  <2>1. CASE reader[r].row \in Plans
    <3> DEFINE record == [reader[r] EXCEPT !.phase = "planned", !.plan = reader[r].row, !.row = NoPlan]
    <3>1. /\ record \in ReaderRecords /\ record.row = NoPlan
          /\ record.plan = reader[r].row /\ record.request = reader[r].request
      BY <1>1, <2>1 DEF ReaderRecords
    <3>2. reader' = [reader EXCEPT ![r] = record]
      BY <1>11, <2>1 DEF FromJson
    <3> HIDE DEF record
    <3> QED
      BY <1>4, <1>5, <1>6, <2>1, <3>1, <3>2 DEF ReaderSound
  <2>2. CASE reader[r].row \notin Plans
    <3> DEFINE record == [reader[r] EXCEPT !.phase = "build", !.row = NoPlan]
    <3>1. /\ record \in ReaderRecords /\ record.row = NoPlan
          /\ record.plan = reader[r].plan /\ record.request = reader[r].request
      BY <1>1 DEF ReaderRecords
    <3>2. reader' = [reader EXCEPT ![r] = record]
      BY <1>11, <2>2 DEF FromJson
    <3> HIDE DEF record
    <3> QED
      BY <1>4, <1>5, <1>6, <3>1, <3>2 DEF ReaderSound
  <2> QED
    BY <2>1, <2>2
<1>12. CASE Build(r)
  <2> DEFINE record == [FreshReader EXCEPT !.phase = "planned", !.plan = Automatic]
  <2>1. record \in ReaderRecords /\ record.row = NoPlan /\ record.plan = Automatic
    BY <1>10 DEF ReaderRecords, FreshReader
  <2>2. reader' = [reader EXCEPT ![r] = record]
    BY <1>12 DEF Build
  <2> HIDE DEF record
  <2> QED
    BY <1>4, <1>5, <2>1, <2>2
<1>13. CASE \E q \in Requests : StartLookup(r, q)
  <2>1. PICK q \in Requests : StartLookup(r, q)
    BY <1>13
  <2> DEFINE record == [FreshReader EXCEPT !.phase = "lookup", !.request = q]
  <2>2. record \in ReaderRecords /\ record.row = NoPlan /\ record.plan = NoPlan
    BY <1>10 DEF ReaderRecords, FreshReader
  <2>3. reader' = [reader EXCEPT ![r] = record]
    BY <2>1 DEF StartLookup
  <2> HIDE DEF record
  <2> QED
    BY <1>4, <1>5, <2>2, <2>3
<1> QED
  BY <1>8, <1>9, <1>11, <1>12, <1>13 DEF Lookup

-----------------------------------------------------------------------------
(* The invariant holds at the start.                                       *)
LEMMA InitSound == Init => IInv
<1> SUFFICES ASSUME Init
             PROVE  IInv
  OBVIOUS
<1>1. NoProcess \notin Tuners /\ 0 \in 0..MaxRuns
  BY TuneDbAssumption DEF Processes
<1>2. rows \in {{}, OldRows} /\ OldRows \subseteq Rows
  BY TuneDbAssumption DEF Init
<1>3. \A t \in Tuners : tuner[t] = FreshTuner
  BY DEF Init
<1>4. \A r \in Readers : reader[r] = FreshReader
  BY DEF Init
<1>5. FreshReader \in ReaderRecords
  BY FreshTunerType DEF FreshReader, ReaderRecords
<1>6. TypeOK
  BY <1>1, <1>2, <1>5, FreshTunerType DEF Init, TypeOK
<1>7. LockOwned
  BY <1>1, <1>3 DEF Init, LockOwned, FreshTuner, InTransaction
<1>8. \A t \in Tuners : DraftOf(t) /\ RunSound(t)
  BY <1>3 DEF DraftOf, RunSound, FreshTuner, HasWinner, Working, InTransaction
<1>9. OneRowPerKey /\ PairConsistent
  BY <1>2, TuneDbAssumption DEF OneRowPerKey, PairConsistent
<1>10. ReportedIsStored
  BY <1>3 DEF ReportedIsStored, FreshTuner
<1>11. RowsVouched
  BY <1>2, TuneDbAssumption DEF RowsVouched
<1>12. \A r \in Readers : ReaderSound(r)
  BY <1>4, TuneDbAssumption DEF ReaderSound, FreshReader
<1> QED
  BY <1>6, <1>7, <1>8, <1>9, <1>10, <1>11, <1>12 DEF IInv

(* Every step keeps it.                                                    *)
LEMMA StepSound == IInv /\ [Next]_vars => IInv'
<1> SUFFICES ASSUME IInv, [Next]_vars
             PROVE  IInv'
  OBVIOUS
<1>1. CASE \E t \in Tuners : Measure(t) \/ Persist(t) \/ Crash(t)
  BY <1>1, MeasureStep, PrepareStep, WriteStep, CommitStep DEF Persist
<1>2. CASE \E t \in Tuners, q \in Requests, f \in Finalists, save \in BOOLEAN : StartTune(t, q, f, save)
  BY <1>2, StartTuneStep
<1>3. CASE (\E r \in Readers : Lookup(r)) \/ \E r \in Readers, q \in Requests : StartLookup(r, q)
  BY <1>3, LookupStep
<1>4. CASE UNCHANGED vars
  BY ZenonT(40), <1>4 DEF vars, IInv, TypeOK, LockOwned, DraftOf, RunSound, OneRowPerKey, PairConsistent,
              ReportedIsStored, RowsVouched, ReaderSound, Vouched, WinnerRow, RowKey
<1> QED
  BY <1>1, <1>2, <1>3, <1>4 DEF Next

(* The inductive invariant holds in every reachable state.                 *)
THEOREM TuneInductive == Spec => []IInv
  BY InitSound, StepSound, PTL DEF Spec

(* Types are kept by every step of tuners and readers.                     *)
THEOREM TuneTypeCorrect == Spec => []TypeOK
<1>1. IInv => TypeOK
  BY DEF IInv
<1> QED
  BY <1>1, TuneInductive, PTL

(* However many tune processes interleave, fail or are killed, the write      *)
(* lock is held exactly by the process inside its transaction                 *)
(* (persist_results and the destructor of SqliteDb).                          *)
THEOREM LockAlwaysOwned == Spec => []LockOwned
<1>1. IInv => LockOwned
  BY DEF IInv
<1> QED
  BY <1>1, TuneInductive, PTL

(* The committed table never has two rows for a key and a direction: the      *)
(* ORDER BY of the lookup never has to choose (write_winner).                 *)
THEOREM OneRowAlways == Spec => []OneRowPerKey
<1>1. IInv => OneRowPerKey
  BY DEF IInv
<1> QED
  BY <1>1, TuneInductive, PTL

(* Forward and inverse rows of a key are always of one run and one plan      *)
(* (persist_results).                                                        *)
THEOREM PairAlways == Spec => []PairConsistent
<1>1. IInv => PairConsistent
  BY DEF IInv
<1> QED
  BY <1>1, TuneInductive, PTL

(* A run that reports a saved result has its trials in the file             *)
(* (run_decomposition_tune_impl).                                           *)
THEOREM ReportsTrue == Spec => []ReportedIsStored
<1>1. IInv => ReportedIsStored
  BY DEF IInv
<1> QED
  BY <1>1, TuneInductive, PTL

(* Every tuned plan that plan creation serves has a trial on record, on this  *)
(* very length, batch, type and policy, accurate in both directions           *)
(* (lookup_tuned_plan_json).                                                  *)
THEOREM OnlyVerifiedServed == Spec => []ServedVerified
<1>1. IInv => ServedVerified
  BY DEF IInv, ServedVerified, ReaderSound, Vouched
<1> QED
  BY <1>1, TuneInductive, PTL
=============================================================================
