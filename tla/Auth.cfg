SPECIFICATION AuthSpec
CONSTANTS
  Clients = {c1, c2}
  Instances = {i1, i2}
  Names <- MCNames
  NoAt <- MCNoAt
  ann = ann
  bob = bob
  blank = blank
  Spellings = {lower, mixed}
  Lower = lower
  Passwords <- MCPasswords
  Length <- MCLength
  MinLength = 1
  MaxLength = 2
  Key <- MCKey
  p1 = p1
  p2 = p2
  short = short
  long = long
  TTL = 2
  ClockSkew = 1
  MaxIds = 2
  MaxTime = 3
  None = None
SYMMETRY Symmetry
INVARIANTS
  OneUserPerAddress
  TokenNamesOwner
  LoginWorks
  TokenLifetime
CHECK_DEADLOCK FALSE
