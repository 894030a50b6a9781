SPECIFICATION Spec
CONSTANTS
  w1 = w1
  w2 = w2
  p1 = p1
  p2 = p2
  PlanFileLimits <- MCPlanFileLimits
  Unpriced <- MCUnpriced
  EuroCountries = {"PT"}
  Questions <- MCQuestions
  Horizon = 5
  CrudWorkers = {w1, w2}
  Items = {1, 2}
  ItemCodes = {"a", "b"}
  Parents = {"p"}
  Tags = {"t", "u"}
  Ghost = Ghost
  CrudRequests <- MCCrudRequests
  MaxCrudCalls = 5
  Versions = {1, 2}
  Artifacts = {3}
  OldObjects = {1, 3}
  MaxToolRuns = 4
  Papers = {d}
  Cases = {"r"}
  People = {"u", "v"}
  MaxPaperVersion = 2
  Nobody = Nobody
  Forms = {"form"}
  Signatories = {p1, p2}
  SoleSigner <- MCSoleSigner
  Taxpayers = {p1, p2}
  Callers = {w1, w2}
  MaxAttempts = 3
  MaxFormLinks = 2
  Denied = Denied
  Seats = {"s1", "s2"}
  Rescuers = {w1, w2}
  MaxRescues = 2
  Readers <- MCReaders
  NoReader = NoReader
  None = None
  Nil = Nil
  Absent = Absent
  WebWorkers = {w1, w2}
  NoFile = NoFile
  Domains <- MCDomains
  EntityName <- MCEntityName
  AssociationName <- MCAssociationName
  DomainForms <- MCDomainForms
  MaxForms = 3
CHECK_DEADLOCK FALSE
SYMMETRY Symmetry
INVARIANTS GeneratedDomainWorks IdentifiersAgree BillingPageIsHonest ObjectsAreSafe ToolsReportTheTruth OpenCaseMatchesPaper SealIsSound DoorsAgree
PROPERTIES CommitsKeepOthersWork DoubleKeepsLifecycle RescueIsForTheSuspended
