SPECIFICATION FairSpec
CONSTANTS
  w1 = w1
  w2 = w2
  t1 = t1
  t2 = t2
  c1 = c1
  c2 = c2
  Tenants = {t1, t2}
  Cnpjs = {c1, c2}
  Workers = {w1, w2}
  MaxTx = 3
  NoTenant = NoTenant
  NoCnpj = NoCnpj
  BadCnpj = BadCnpj
CHECK_DEADLOCK FALSE
INVARIANTS IdentityIsAudited
PROPERTIES BusinessKeepsCnpj TransactionsEnd
