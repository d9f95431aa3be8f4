SPECIFICATION FairSpec
CONSTANTS
  t1 = t1
  t2 = t2
  r1 = r1
  Tuners = {t1, t2}
  Readers = {r1}
  Plans = {pa, pb}
  Garbage = Garbage
  Automatic = Automatic
  NoPlan = NoPlan
  NoProcess = NoProcess
  Lengths = {8}
  Batches = {2, 3}
  Dtypes = {"complex64"}
  Policies = {"legacy", "native"}
  Policy <- MCPolicy
  Finalists = {0, 2}
  OldRows <- MCOldRows
  MaxRuns = 2
INVARIANTS LockOwned OneRowPerKey PairConsistent ServedVerified ReportedIsStored
PROPERTIES AlwaysPlanned TuneEnds
