CONSTANTS
  FormButtonProps <- WiredButtonProps
  FormInputProps <- WiredInputProps
  Users = {u1}
  Tokens = {t1, t2}
  Logins = {a1}
  Loads = {l1}
  Logouts = {o1}
  NoUser = NoUser
  NoToken = NoToken
  Null = Null
  Faulty = FALSE
SPECIFICATION FairSpec

PROPERTIES GrantedLoginIsStored LogoutEndsSession ImplementsSessionKey
