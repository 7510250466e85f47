CONSTANTS
  FormButtonProps <- WiredButtonProps
  FormInputProps <- WiredInputProps
  Regs = {r1, r2}
  SignUpFaulty = TRUE
  Accounts = {u1, u2}
  None = None
  Saves = {s1}
  EditFaulty = TRUE
SPECIFICATION FairAccountSpec
INVARIANTS AccountTypeOK DeadFormExplained ProfileKeepsItsOwner
PROPERTIES TypedSurvives SubmittedFormIsLeft
