SPECIFICATION FairSpec
CONSTANTS
  MaxN = 64
  Radices <- MCRadices
  NaturalRadices <- MCNaturalRadices
  DirectDftMaxN = 3
  LeafMaxN = 32
  MaxLanes = 4
  WideRows <- MCWideRows
  SmemLimit = 32
  MaxRaderPrime = 13
  Window = 2
  Pow2ConvMax = 32
  CrossRadix = 2
  ColLength = 4
  RegisterRadices = {2}
  LeafOrders <- MCLeafOrders
  HeuristicOrder <- MCHeuristicOrder
  ConvRows <- MCConvRows
  BalancedRows <- MCBalancedRows
  RaderRows <- MCRaderRows
  PreferRows <- MCPreferRows
  RootRows <- MCRootRows
  TailRows <- MCTailRows
  NpuLengths <- MCNpuLengths
  NpuBatch <- MCNpuBatch
  NpuRefused = {3}
  Jobs <- MCJobs
INVARIANTS PlanWellFormed DirectOrderKept HeuristicAtRoot TuneListSound NeverReentered
PROPERTY Terminates
