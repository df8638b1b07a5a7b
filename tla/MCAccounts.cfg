SPECIFICATION Spec
CONSTANTS
  Names = {ann, ben}
  short = short
  other = other
  long = long
  Passwords <- MCPasswords
  Head <- MCHead
  Ids = {u1, u2, u3}
  Procs = {p1, p2, p3}
  MaxFaults = 2
  None = None
SYMMETRY Symmetry
INVARIANTS
  AccountsTypeOK
  OneUserPerName
  TokensNameUsers
PROPERTIES
  HonoursRegistry
