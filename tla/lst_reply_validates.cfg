SPECIFICATION LSpec

CONSTANTS
  d1 = d1
  a1 = a1
  r1 = r1
  r2 = r2
  None = None
  Secret = "secret"
  Intruder = "other"
  Self = 0
  Count = 3
  AddressSpace = 2
  Disconnects <- MCDisconnects
  CoAs <- MCCoAs
  Readers <- OneReader
  Creds <- MCCreds

INVARIANT
  ReplyValidates

CHECK_DEADLOCK FALSE
