CONSTANTS
  Accounts = {u1, u2}
  Texts = {x1}
  Images = {}
  Places = {}
  Posts = {}
  Positions = {}
  None = None
  MaxQueue = 2
  MaxDrafts = 2
  MaxChits = 0
  Faulty = FALSE
SPECIFICATION Spec
PROPERTIES DraftsKept
