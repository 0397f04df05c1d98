SPECIFICATION Spec
CONSTANTS
  c1 = c1
  s1 = s1
  s2 = s2
  Clients <- OneClient
  NoClient = NoClient
  MaxRequests = 3
  Sessions <- OneSession
  NoSession = NoSession
  NoSlot = NoSlot
  Credentials <- BearerOrCookie
  AuthEnabled = TRUE
  StoreFails = TRUE
  MaxEpoch = 1
CHECK_DEADLOCK FALSE
INVARIANTS
  TypeOK
  PolicyIsFresh
  OwnerSeesItself
  AdminByGrant
  RegisteredWhileAlive
