CONSTANTS
  Accounts = {u1}
  Texts = {x1}
  Images = {i1}
  Places = {}
  Posts = {p1}
  Positions = {}
  None = None
  MaxQueue = 1
  MaxDrafts = 0
  MaxChits = 1
  Faulty = TRUE
SPECIFICATION FairSpec
PROPERTIES  PhotoLeavesComposer
