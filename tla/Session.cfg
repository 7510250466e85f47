CONSTANTS
  FormButtonProps <- WiredButtonProps
  FormInputProps <- WiredInputProps
  Users = {u1, u2}
  Tokens = {t1, t2}
  Logins = {a1, a2}
  Loads = {l1}
  Logouts = {o1}
  NoUser = NoUser
  NoToken = NoToken
  Null = Null
  Faulty = TRUE
SPECIFICATION Spec
SYMMETRY SessionSymmetry
INVARIANTS TypeOK KeysAreIssued DeadKeyExplained RemovedKeyIsDead
