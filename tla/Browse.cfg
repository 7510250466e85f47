CONSTANTS
  Users = {u1, u2}
  Keys = {k1, k2, k3}
  None = None
  MaxDepth = 4
  MaxQueue = 3
  Faulty = TRUE
  Patient = FALSE
SPECIFICATION FairSpec
INVARIANTS TypeOK ProfileShowsTapped
PROPERTY LoadingEnds
