CONSTANTS
  w1 = w1
  w2 = w2
  p1 = p1
  p2 = p2
  k1 = k1
  k2 = k2
  NoWorker = NoWorker
  Outputs = {"artifact", "log"}
  ZeroSized = {"log"}
  Required = {"artifact"}
  Workers = {w1, w2}
  Procs = {p1, p2}
  ProcOf <- OneProcessEach
  Keys = {k1, k2}
  Produces = {{"artifact"}}
  Limit = 1
  MaxRequests = 4
  MaxCrashes = 1
SPECIFICATION Spec
CHECK_DEADLOCK FALSE
INVARIANTS
  OneBuilder
  CompilesOnlyWhenNeeded
  PartialOnlyAfterCrash
PROPERTY Completes
