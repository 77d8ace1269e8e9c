SPECIFICATION Spec
CONSTANTS
  r1 = r1  r2 = r2  r3 = r3  t1 = t1  t2 = t2
  NoReq = NoReq  NoThread = NoThread
  Reqs = {r1, r2}
  Pris = {0, 1}
  Threads = {t1, t2}
  Submitters = {t1}
  Pollers = {t2}
  AllocFails = FALSE
SYMMETRY Symmetry
CHECK_DEADLOCK TRUE
INVARIANTS
  CallbackGetsWrapper
