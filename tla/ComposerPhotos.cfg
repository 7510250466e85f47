CONSTANTS
  Accounts = {u1}
  Texts = {}
  Images = {i1}
  Places = {}
  Posts = {p1, p2}
  Positions = {}
  None = None
  MaxQueue = 1
  MaxDrafts = 0
  MaxChits = 2
  Faulty = FALSE
SPECIFICATION Spec
SYMMETRY PostChitSymmetry
INVARIANTS PhotoOnItsChit PhotoOnOneChit RemovedPhotoStaysOff
