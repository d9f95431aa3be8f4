------------------------------- MODULE TuneDb -------------------------------
(***************************************************************************)
(* The tuned-plan database: `flagfft tune` processes measure the candidate   *)
(* plans of a request and write the winner into an SQLite file (tune.cpp);   *)
(* plan creation looks the file up before it asks the plan builder           *)
(* (lookup_tuned_plan_json, lookup_or_build_root).  Tuners and readers are    *)
(* separate processes; any tuner may be killed at any step.                  *)
(*                                                                         *)
(* SQLite is external: one writer at a time (RESERVED), readers share, a      *)
(* commit needs the readers gone, an unfinished transaction is rolled back    *)
(* when its connection or process goes away.  The code sets no busy timeout,  *)
(* so a lock that is not free is an error at once.  Timings are not           *)
(* modelled: any candidate that passed may be the fastest.                   *)
(***************************************************************************)
EXTENDS Naturals, FiniteSets

CONSTANTS
  Tuners, Readers,   \* processes
  Plans,             \* candidate plans
  Garbage,           \* plan_json no version of plan_node_from_json accepts
  Automatic,         \* the plan the builder would make
  NoPlan, NoProcess,
  Lengths, Batches, Dtypes,
  Policies,          \* values of FLAGFFT_EXECUTION_POLICY
  Policy,            \* process -> the policy its environment sets
  Finalists,         \* values of --finalists tried
  OldRows,           \* rows an earlier installation may have left
  MaxRuns            \* bound: the number of tune runs

Processes == Tuners \cup Readers
Requests == [n : Lengths, batch : Batches, dtype : Dtypes]
Directions == {"forward", "inverse"}
(* A row of tune_trials: a winner, the workload it was measured on, and        *)
(* whether both recorded accuracies are within the limit.                      *)
Trials == [run : 0..MaxRuns, plan : Plans, request : Requests, policy : Policies, accurate : BOOLEAN]

(* Mutant: all batches above one share a bucket.                           *)
BucketCoarse(batch) == IF batch <= 1 THEN 1 ELSE 2
(* batch_bucket and the columns a row is looked up by; the code generator's  *)
(* fingerprint contains the execution policy (on every backend but maca).   *)
Bucket(batch) == IF batch <= 1 THEN 1 ELSE batch
Buckets == {Bucket(b) : b \in Batches}
Keys == [n : Lengths, bucket : Buckets, dtype : Dtypes, policy : Policies]
RowKey(request, p) ==
  [n |-> request.n, bucket |-> Bucket(request.batch), dtype |-> request.dtype, policy |-> Policy[p]]
Rows == [key : Keys, dir : Directions, plan : Plans \cup {Garbage}, run : 0..MaxRuns]

ASSUME TuneDbAssumption ==
  /\ Tuners \cap Readers = {} /\ NoProcess \notin Processes
  /\ Garbage \notin Plans /\ Automatic \notin Plans \cup {Garbage, NoPlan}
  /\ NoPlan \notin Plans \cup {Garbage}
  /\ Policy \in [Processes -> Policies]
  /\ Batches \subseteq Nat \ {0} /\ Requests # {} /\ Finalists \subseteq Nat /\ MaxRuns \in Nat
  /\ OldRows \subseteq Rows
  /\ \A r \in OldRows : r.plan = Garbage /\ r.run = 0
  /\ \A r, s \in OldRows : r.key = s.key /\ r.dir = s.dir => r = s

VARIABLES
  tables,   \* which of tune_trials and tuned_measurements the file has; "absent": no file
  rows,     \* tuned_measurements as committed
  trials,   \* tune_trials as committed (only the winners' rows)
  writer,   \* the process in a transaction (RESERVED), or NoProcess
  pending,  \* that process has asked for the exclusive lock (PENDING)
  draft,    \* tuned_measurements as the transaction sees it
  shared,   \* readers with a SHARED lock
  tuner,    \* what each tune process is doing
  reader,   \* what each plan creation is doing
  runs      \* tune runs started

vars == <<tables, rows, trials, writer, pending, draft, shared, tuner, reader, runs>>
database == <<tables, rows, trials, writer, pending, draft>>

Working == {"screen", "final", "reference", "open", "trials_table", "rows_table", "begin"}
InTransaction == {"trials", "forward", "inverse", "commit", "close"}
Finished == {"idle", "passed", "failed", "crashed"}
TunerRecords ==
  [phase : Working \cup InTransaction \cup Finished, request : Requests,
   screened : SUBSET Plans, accurate : SUBSET Plans, winner : Plans \cup {NoPlan},
   finalists : Finalists \cup {0}, run : 0..MaxRuns, save : BOOLEAN]
ReaderRecords ==
  [phase : {"idle", "lookup", "parse", "read", "build", "planned"}, request : Requests,
   row : Plans \cup {Garbage, NoPlan}, plan : Plans \cup {Automatic, NoPlan}]
SomeRequest == CHOOSE q \in Requests : TRUE
FreshTuner ==
  [phase |-> "idle", request |-> SomeRequest, screened |-> {}, accurate |-> {}, winner |-> NoPlan,
   finalists |-> 0, run |-> 0, save |-> FALSE]
FreshReader == [phase |-> "idle", request |-> SomeRequest, row |-> NoPlan, plan |-> NoPlan]

Init ==
  /\ \/ tables = "absent" /\ rows = {}
     \/ tables = "both" /\ rows = OldRows
  /\ trials = {} /\ writer = NoProcess /\ pending = FALSE /\ draft = {} /\ shared = {}
  /\ tuner = [t \in Tuners |-> FreshTuner]
  /\ reader = [r \in Readers |-> FreshReader]
  /\ runs = 0

-----------------------------------------------------------------------------
(* Measuring (run_decomposition_tune_impl).  It shares nothing with other     *)
(* processes, so the loops over the candidates are one step each.             *)

Goes(t, phase) == tuner' = [tuner EXCEPT ![t].phase = phase]
(* The run is over: with it goes all it knew but its number and its report. *)
Ends(t, phase) ==
  tuner' = [tuner EXCEPT ![t] = [FreshTuner EXCEPT !.phase = phase, !.run = tuner[t].run,
                                                   !.save = tuner[t].save]]

(* The command line is checked, the candidates are enumerated.             *)
StartTune(t, request, finalists, save) ==
  /\ tuner[t].phase \in Finished /\ runs < MaxRuns
  /\ runs' = runs + 1
  /\ tuner' = [tuner EXCEPT ![t] =
                 [FreshTuner EXCEPT !.run = runs + 1, !.save = save,
                                    !.request = IF finalists = 0 THEN SomeRequest ELSE request,
                                    !.finalists = finalists,
                                    !.phase = IF finalists = 0 THEN "failed" ELSE "screen"]]
  /\ UNCHANGED <<database, shared, reader>>

(* The correctness gate: the candidates whose output was right in both       *)
(* directions.                                                              *)
GatePasses(forward, inverse) == forward \cap inverse
(* Each candidate is compiled, verified in both directions and timed; one     *)
(* that throws on the way is in neither set.  All failed: the run ends.      *)
Screen(t) ==
  /\ tuner[t].phase = "screen"
  /\ \E forward, inverse \in SUBSET Plans :
       IF GatePasses(forward, inverse) = {} THEN Ends(t, "failed")
       ELSE tuner' = [tuner EXCEPT ![t].screened = GatePasses(forward, inverse),
                                   ![t].accurate = forward \cap inverse, ![t].phase = "final"]
  /\ UNCHANGED <<database, shared, reader, runs>>
(* The fastest of the screened candidates, at most --finalists, are timed     *)
(* again and the fastest wins; an exception here ends the run.               *)
Final(t) ==
  /\ tuner[t].phase = "final"
  /\ \/ \E F \in SUBSET tuner[t].screened :
          /\ F # {} /\ \/ Cardinality(F) = tuner[t].finalists
                       \/ F = tuner[t].screened /\ Cardinality(F) < tuner[t].finalists
          /\ \E p \in F :
               tuner' = [tuner EXCEPT ![t].winner = p, ![t].screened = {}, ![t].accurate = @ \cap {p},
                                      ![t].phase = "reference"]
     \/ Ends(t, "failed")
  /\ UNCHANGED <<database, shared, reader, runs>>
(* The vendor library is timed; then the result is reported or saved.      *)
Reference(t) ==
  /\ tuner[t].phase = "reference"
  /\ \/ tuner[t].save /\ Goes(t, "open")
     \/ ~tuner[t].save /\ Ends(t, "passed")
     \/ Ends(t, "failed")
  /\ UNCHANGED <<database, shared, reader, runs>>

-----------------------------------------------------------------------------
(* SQLite's locks, as the code meets them (external).                      *)
CanRead == ~pending
CanReserve == writer = NoProcess
CanCommit == shared = {}

(* Saving (persist_results).  The path may be disabled.                    *)
OpenDb(t) ==
  /\ tuner[t].phase = "open"
  /\ \/ tables' = (IF tables = "absent" THEN "none" ELSE tables) /\ Goes(t, "trials_table")
     \/ UNCHANGED tables /\ Ends(t, "failed")
  /\ UNCHANGED <<rows, trials, writer, pending, draft, shared, reader, runs>>
(* CREATE TABLE IF NOT EXISTS, each a transaction of its own.              *)
CreateTable(t, phase, before, after, next) ==
  /\ tuner[t].phase = phase
  /\ IF ~CanRead \/ (tables = before /\ ~(CanReserve /\ CanCommit))
     THEN Ends(t, "failed") /\ UNCHANGED tables
     ELSE Goes(t, next) /\ tables' = IF tables = before THEN after ELSE tables
  /\ UNCHANGED <<rows, trials, writer, pending, draft, shared, reader, runs>>
CreateTrials(t) == CreateTable(t, "trials_table", "none", "trials", "rows_table")
CreateMeasurements(t) == CreateTable(t, "rows_table", "trials", "both", "begin")
(* BEGIN IMMEDIATE.                                                        *)
Begin(t) ==
  /\ tuner[t].phase = "begin"
  /\ IF CanReserve
     THEN writer' = t /\ draft' = rows /\ Goes(t, "trials")
     ELSE UNCHANGED <<writer, draft>> /\ Ends(t, "failed")
  /\ UNCHANGED <<tables, rows, trials, pending, shared, reader, runs>>
(* Any statement of the transaction may fail, a full disk for instance.    *)
StatementFails(t) ==
  /\ tuner[t].phase \in {"trials", "forward", "inverse"} /\ Goes(t, "close")
  /\ UNCHANGED <<database, shared, reader, runs>>
InsertTrials(t) ==
  /\ tuner[t].phase = "trials" /\ Goes(t, "forward")
  /\ UNCHANGED <<database, shared, reader, runs>>
(* Mutant: the old row is left in the table.                               *)
ReplacedKeepsOld(table, row) == table \cup {row}
(* write_winner: DELETE the rows of the key, INSERT the winner.            *)
Replaced(table, row) == {r \in table : ~(r.key = row.key /\ r.dir = row.dir)} \cup {row}
WinnerRow(t, dir) ==
  [key |-> RowKey(tuner[t].request, t), dir |-> dir,
   plan |-> tuner[t].winner, run |-> tuner[t].run]
(* Mutant: the statements are not in a transaction.                        *)
WriteWinnerAutocommit(t, dir, next) ==
  /\ tuner[t].phase = dir
  /\ draft' = Replaced(draft, WinnerRow(t, dir)) /\ rows' = draft' /\ Goes(t, next)
  /\ UNCHANGED <<tables, trials, writer, pending, shared, reader, runs>>
WriteWinner(t, dir, next) ==
  /\ tuner[t].phase = dir
  /\ draft' = Replaced(draft, WinnerRow(t, dir)) /\ Goes(t, next)
  /\ UNCHANGED <<tables, rows, trials, writer, pending, shared, reader, runs>>
WriteForward(t) == WriteWinner(t, "forward", "inverse")
WriteInverse(t) == WriteWinner(t, "inverse", "commit")
TrialRow(t) ==
  [run |-> tuner[t].run, plan |-> tuner[t].winner, request |-> tuner[t].request,
   policy |-> Policy[t], accurate |-> tuner[t].winner \in tuner[t].accurate]
(* Mutant: a COMMIT that finds readers is taken for a success.             *)
CommitUnchecked(t) ==
  /\ tuner[t].phase = "commit"
  /\ writer' = NoProcess /\ pending' = FALSE /\ draft' = {} /\ Ends(t, "passed")
  /\ IF CanCommit THEN rows' = draft /\ trials' = trials \cup {TrialRow(t)}
     ELSE UNCHANGED <<rows, trials>>
  /\ UNCHANGED <<tables, shared, reader, runs>>
(* Mutant: COMMIT waits for a moment without readers.                      *)
CommitWaits(t) ==
  /\ tuner[t].phase = "commit" /\ CanCommit
  /\ rows' = draft /\ trials' = trials \cup {TrialRow(t)}
  /\ writer' = NoProcess /\ draft' = {} /\ Ends(t, "passed")
  /\ UNCHANGED <<tables, pending, shared, reader, runs>>
(* COMMIT: with a reader in the file it fails, holding the PENDING lock     *)
(* until the connection is closed.                                          *)
Commit(t) ==
  /\ tuner[t].phase = "commit"
  /\ IF CanCommit
     THEN /\ rows' = draft /\ trials' = trials \cup {TrialRow(t)}
          /\ writer' = NoProcess /\ pending' = FALSE /\ draft' = {} /\ Ends(t, "passed")
     ELSE /\ pending' = TRUE /\ Goes(t, "close")
          /\ UNCHANGED <<rows, trials, writer, draft>>
  /\ UNCHANGED <<tables, shared, reader, runs>>
(* The exception closes the connection: SQLite rolls back.                 *)
RollBack == writer' = NoProcess /\ pending' = FALSE /\ draft' = {}
(* Mutant: the connection outlives the exception.                          *)
CloseLeaks(t) ==
  /\ tuner[t].phase = "close" /\ Ends(t, "failed")
  /\ UNCHANGED <<tables, rows, trials, writer, pending, draft, shared, reader, runs>>
Close(t) ==
  /\ tuner[t].phase = "close" /\ RollBack /\ Ends(t, "failed")
  /\ UNCHANGED <<tables, rows, trials, shared, reader, runs>>
(* A tune process is killed; its journal is rolled back.                   *)
Crash(t) ==
  /\ tuner[t].phase \in Working \cup InTransaction /\ Ends(t, "crashed")
  /\ IF writer = t THEN RollBack ELSE UNCHANGED <<writer, pending, draft>>
  /\ UNCHANGED <<tables, rows, trials, shared, reader, runs>>

-----------------------------------------------------------------------------
(* Plan creation (lookup_or_build_root, lookup_tuned_plan_json).           *)

StartLookup(r, request) ==
  /\ reader[r].phase \in {"idle", "planned"}
  /\ reader' = [reader EXCEPT ![r] = [FreshReader EXCEPT !.phase = "lookup", !.request = request]]
  /\ UNCHANGED <<database, shared, tuner, runs>>
(* Mutant: the lookup is repeated until the database answers.              *)
LookupErrorRetries(r) == UNCHANGED reader
LookupError(r) == reader' = [reader EXCEPT ![r].phase = "build"]
(* The rows of the request's key; the newest of them.                      *)
Found(r) ==
  {x \in rows : x.key = RowKey(reader[r].request, r) /\ x.dir = "forward"}
Newest(S) == CHOOSE x \in S : \A y \in S : y.run <= x.run
(* No file, a setting that disables it, no table, a busy file: no plan.     *)
(* The SELECT reads under a SHARED lock.                                    *)
Select(r) ==
  /\ reader[r].phase = "lookup"
  /\ \/ LookupError(r) /\ UNCHANGED shared
     \/ /\ tables = "both" /\ CanRead
        /\ shared' = shared \cup {r}
        /\ reader' = [reader EXCEPT ![r].phase = "parse",
                                    ![r].row = IF Found(r) = {} THEN NoPlan ELSE Newest(Found(r)).plan]
  /\ UNCHANGED <<database, tuner, runs>>
(* The text is parsed, the statement and the connection are closed.        *)
Parse(r) ==
  /\ reader[r].phase = "parse" /\ shared' = shared \ {r}
  /\ reader' = [reader EXCEPT ![r].phase = IF reader[r].row = NoPlan THEN "build" ELSE "read"]
  /\ UNCHANGED <<database, tuner, runs>>
(* plan_node_from_json: a plan, or an exception that is swallowed.         *)
FromJson(r) ==
  /\ reader[r].phase = "read"
  /\ reader' = [reader EXCEPT ![r] = IF reader[r].row \in Plans
                                     THEN [@ EXCEPT !.phase = "planned", !.plan = reader[r].row, !.row = NoPlan]
                                     ELSE [@ EXCEPT !.phase = "build", !.row = NoPlan]]
  /\ UNCHANGED <<database, shared, tuner, runs>>
(* The plan builder makes the plan.                                        *)
Build(r) ==
  /\ reader[r].phase = "build"
  /\ reader' = [reader EXCEPT ![r] = [FreshReader EXCEPT !.phase = "planned", !.plan = Automatic]]
  /\ UNCHANGED <<database, shared, tuner, runs>>

-----------------------------------------------------------------------------
Persist(t) ==
  \/ OpenDb(t) \/ CreateTrials(t) \/ CreateMeasurements(t) \/ Begin(t) \/ InsertTrials(t)
  \/ StatementFails(t) \/ WriteForward(t) \/ WriteInverse(t) \/ Commit(t) \/ Close(t)
Measure(t) == Screen(t) \/ Final(t) \/ Reference(t)
Lookup(r) == Select(r) \/ Parse(r) \/ FromJson(r) \/ Build(r)
Next ==
  \/ \E t \in Tuners : Measure(t) \/ Persist(t) \/ Crash(t)
  \/ \E t \in Tuners, q \in Requests, f \in Finalists, save \in BOOLEAN : StartTune(t, q, f, save)
  \/ \E r \in Readers : Lookup(r)
  \/ \E r \in Readers, q \in Requests : StartLookup(r, q)

Spec == Init /\ [][Next]_vars
(* A process that runs goes on running: no step of it waits for another.   *)
FairSpec ==
  /\ Spec
  /\ \A t \in Tuners : WF_vars(Measure(t) \/ Persist(t))
  /\ \A r \in Readers : WF_vars(Lookup(r))

-----------------------------------------------------------------------------
(* Properties.                                                             *)

(* Variables have their types.                                             *)
TypeOK ==
  /\ tables \in {"absent", "none", "trials", "both"}
  /\ rows \subseteq Rows /\ draft \subseteq Rows
  /\ trials \subseteq Trials /\ runs \in 0..MaxRuns
  /\ writer \in Tuners \cup {NoProcess} /\ pending \in BOOLEAN /\ shared \subseteq Readers
  /\ tuner \in [Tuners -> TunerRecords] /\ reader \in [Readers -> ReaderRecords]

(* The transaction belongs to the process that is in it, and to nobody once   *)
(* that process has failed, crashed or committed: a lost lock would keep       *)
(* every later tune run from saving.                                           *)
LockOwned ==
  \A t \in Tuners : writer = t <=> tuner[t].phase \in InTransaction

(* However runs interleave and crash, the file holds at most one row for a     *)
(* key and a direction (DELETE and INSERT of write_winner in one transaction). *)
OneRowPerKey ==
  \A r, s \in rows : r.key = s.key /\ r.dir = s.dir => r = s

(* The forward and the inverse row of a key come from one run: nobody sees a   *)
(* winner written for one direction only (persist_results).                    *)
PairConsistent ==
  \A r \in rows : r.run # 0 =>
    \E s \in rows : s.key = r.key /\ s.dir # r.dir /\ s.run = r.run /\ s.plan = r.plan

(* A tuned plan that plan creation uses passed the correctness gate in both    *)
(* directions for this length, batch and type under this execution policy.     *)
ServedVerified ==
  \A r \in Readers : reader[r].plan \in Plans =>
    \E x \in trials : /\ x.plan = reader[r].plan /\ x.request = reader[r].request
                      /\ x.policy = Policy[r] /\ x.accurate

(* A run that was asked to save reports success only after its rows and        *)
(* trials are in the file.                                                     *)
ReportedIsStored ==
  \A t \in Tuners : tuner[t].phase = "passed" /\ tuner[t].save =>
    \E x \in trials : x.run = tuner[t].run

(* Plan creation always gets a plan, whatever state the file is in.        *)
AlwaysPlanned == \A r \in Readers : reader[r].phase = "lookup" ~> reader[r].phase = "planned"
(* A tune run ends; a busy file does not hang it.                          *)
TuneEnds == \A t \in Tuners : tuner[t].phase = "screen" ~> tuner[t].phase \in Finished
=============================================================================
