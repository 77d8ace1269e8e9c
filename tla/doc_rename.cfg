SPECIFICATION Spec
CONSTANTS
  Ops = {"link", "symlink", "rename"}
  Inputs <- MCInputs
  IntMod = 1024
  LongMod = 4096
  Garbage = {0, 5}
  PriMin <- Lowest
  PriMax = 4
  AllocFails = FALSE
INVARIANT
  SecondPathArrives
