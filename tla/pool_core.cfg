CHECK_DEADLOCK FALSE
SPECIFICATION Spec
CONSTANTS
  r1 = r1  r2 = r2  r3 = r3  q1 = q1  q2 = q2
  w1 = w1  w2 = w2  w3 = w3  c1 = c1  c2 = c2
  NoReq = NoReq
  PriMin = 0
  PriMax = 1
  Reqs = {r1, r2}
  QuitReqs = {q1, q2}
  Workers = {w1, w2}
  Clients = {c1}
  PriArgs = {0}
  Wanted = 2
  MaxIdle = 0
  PollLimits = {0, 1}
  PollTimeLimit = TRUE
  IdleTimeouts = TRUE
  CreateFails = TRUE
  CallbackResults = {0, 1}
  Cancelling = TRUE
  ParallelArgs = {0, 1, 2}
  IdleArgs = {0, 1}
  UIntMod = 8
SYMMETRY Symmetry
INVARIANTS
  TypeOK
  PipeMirrorsResults
  RequestCounts
  ThreadCounts
  OneOwner
  CallbackHasResult
PROPERTY
  FlushWaits
