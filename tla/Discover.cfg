CONSTANTS
  ann = ann
  bob = bob
  amp = amp
  u1 = u1
  u2 = u2
  qAnn = qAnn
  qBob = qBob
  Empty = Empty
  Texts <- AllTexts
  Queries <- AllQueries
  QueryOf <- ReadAs
  Found <- Finds
  Users <- AllUsers
  Other = u1
  Searches = {c1, c2}
  SearchFaulty = TRUE
  FormButtonProps <- WiredButtonProps
  FormInputProps <- WiredInputProps
  Presses = {p1, p2}
  Faulty = TRUE
SPECIFICATION DiscoverSpec
SYMMETRY DiscoverSymmetry
INVARIANTS DiscoverTypeOK ResultsOnTheWay TitleExplained
