CONSTANTS
  Users = {u1, u2}
  Keys = {k1, k2, k3, k4, k5}
  None = None
  MaxDepth = 6
  MaxQueue = 3
  Faulty = FALSE
  Patient = TRUE
SPECIFICATION Spec

INVARIANT ListOfItsProfile
