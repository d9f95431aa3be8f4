SPECIFICATION Spec
CONSTANTS
  Threads = {t1, t2}
  Handles = {h1}
  Streams = {s0, s1}
  b1 = b1
  b2 = b2
  b3 = b3
  Buffers = {b1, b2, b3}
  DataArguments <- MCDataArguments
  DefaultStream = s0
  Null = Null
  SipIds = {1, 2}
  Requests <- MCRequests
  Environments <- MCEnvironments
  EntryTypes = {"C2C", "R2C"}
  IntMax = 31
  GraphMax = 16
  SipMaxFactor = 5
  DirectDftMaxN = 6
INVARIANTS SipOwned StreamHonoured BuffersHonoured LayoutHonoured NoUseAfterFree
