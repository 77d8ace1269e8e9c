SPECIFICATION Spec
CONSTANTS
  g1 = g1  g2 = g2  r1 = r1  r2 = r2  r3 = r3
  No = No
  Groups = {g1, g2}
  Plain = {r1, r2}
  Limits <- Unlimited
  Cancelling = TRUE
  MaxDepth = 2
SYMMETRY Symmetry
INVARIANTS
  ListsMatch
  MembersFirst
  FramesLive
  NoneLeftBehind
  FeederFed
