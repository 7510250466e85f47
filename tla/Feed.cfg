CONSTANTS
  Chains = {c1, c2}
  MaxChits = 2
  Faulty = TRUE
SPECIFICATION FairSpec
INVARIANTS TypeOK RefreshIsComplete
PROPERTY RefreshEnds
