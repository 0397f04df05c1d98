SPECIFICATION Spec
CONSTANTS
  c1 = c1
  c2 = c2
  t1 = t1
  t2 = t2
  Clients <- TwoClients
  Tools <- TwoTools
  Spellings <- SafeAndSlash
  OwnParams <- MCOwnParams
  Limits <- MCLimits
  Responses <- MCResponses
  Fresh <- MCFresh
  Shapes <- MCShapes
  Strays <- MCStrays
  MaxEntries = 2
  TTL = 1
  SuffixLen = 1
  None = None
  NoCall = NoCall
  MaxEvents = 3
  MaxTime = 2
SYMMETRY Symmetry
CHECK_DEADLOCK FALSE
INVARIANTS
  HintLeadsToWholeText
  PagesStayWithOwner
PROPERTIES
  MissIsHonest
  ReadingAdvances
