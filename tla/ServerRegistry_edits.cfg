SPECIFICATION Spec
CONSTANTS
  i1 = i1
  home = home
  work = work
  j1 = j1
  j2 = j2
  Ids <- OneId
  Domains <- MCDomains
  DefaultDom <- home
  Jobs <- TwoJobs
  NoServer = NoServer
  NoMeta = NoMeta
  NoJob = NoJob
  Vias <- RestAndMcp
SYMMETRY JobSymmetry
INVARIANTS
  TypeOK
  EditsSurviveUpgrades
  DanglingHasCause
