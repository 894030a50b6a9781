SPECIFICATION FairSpec
CONSTANTS
  a1 = a1
  a2 = a2
  c1 = c1
  ann = ann
  bob = bob
  cpf = cpf
  Emails = {ann, bob}
  Documents = {cpf}
  AuthWorkers = {a1, a2}
  CoreWorkers = {c1}
  MaxUid = 2
  MaxToken = 2
  MaxWaiting = 1
  NoEmail = NoEmail
  NoDocument = NoDocument
  Nobody = Nobody
CHECK_DEADLOCK FALSE
INVARIANTS ServicesAgree
PROPERTIES RequestsEnd
