SPECIFICATION FairSpec
CONSTANTS
  c1 = c1
  s1 = s1
  s2 = s2
  Clients <- OneClient
  NoClient = NoClient
  MaxRequests = 2
  Sessions <- TwoSessions
  NoSession = NoSession
  NoSlot = NoSlot
  Credentials <- BearerOrNobody
  AuthEnabled = FALSE
  StoreFails = FALSE
  MaxEpoch = 1
CHECK_DEADLOCK FALSE
INVARIANTS
  AdminByGrant
PROPERTIES
  RequestsAnswered
  DeletedSessionsEnd
