CONSTANTS
  Accounts = {u1}
  Texts = {x1}
  Images = {}
  Places = {c1}
  Posts = {}
  Positions = {l1}
  None = None
  MaxQueue = 2
  MaxDrafts = 1
  MaxChits = 0
  Faulty = TRUE
SPECIFICATION Spec
INVARIANTS TypeOK ChipFitsCoords DraftsAreMine
PROPERTIES OwnDraftsKept
