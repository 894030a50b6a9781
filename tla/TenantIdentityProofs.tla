------------------------- MODULE TenantIdentityProofs ------------------------
(***************************************************************************)
(* Proofs about TenantIdentity, for every number of tenants, CNPJs and     *)
(* processes: a business keeps its CNPJ and the audit trail is exact.      *)
(***************************************************************************)
EXTENDS TenantIdentity, TLAPS

Ops == {"idle", "convert", "migrate", "billing", "lifetime"}

Transaction == [op : Ops, t : Tenants \cup {NoTenant}, held : 0..2,
                cnpj : Cnpjs \cup {NoCnpj, BadCnpj}, flag : BOOLEAN, out : Statuses]

\* The transaction has locked the row of its tenant.
HasTenant(w) ==
    \/ tx[w].op \in {"convert", "migrate", "lifetime"} /\ tx[w].held >= 1
    \/ tx[w].op = "billing" /\ tx[w].held = 2

TransactionsAreWellFormed ==
    /\ tx \in [Workers -> Transaction]
    /\ \A w \in Workers :
          /\ tx[w].op # "idle" => tx[w].t \in Tenants
          /\ tx[w].op = "idle" => tx[w].out = "none" /\ tx[w].held = 0
          /\ tx[w].op \in {"convert", "migrate"} =>
                tx[w].held <= 1 /\ tx[w].cnpj \in Cnpjs \cup {BadCnpj}
          /\ tx[w].op = "migrate" => tx[w].cnpj \in Cnpjs

LocksAreExclusive ==
    \A v, w \in Workers :
        v # w /\ tx[v].t = tx[w].t => ~(HasTenant(v) /\ HasTenant(w))

\* A transaction that has decided still holds its tenant's lock, and what it
\* decided from still holds: a conversion finds a person, a billing event a
\* person or the business with the CNPJ it carries.
DecisionsStillHold ==
    \A w \in Workers : tx[w].out # "none" =>
        /\ tx[w].op \in {"convert", "migrate", "billing"} /\ HasTenant(w)
        /\ tx[w].out = "format_valid" => /\ tx[w].op # "billing"
                                         /\ tenant[tx[w].t].kind = "personal"
        /\ tx[w].out = "stripe_format_valid" =>
              /\ tx[w].op = "billing"
              /\ tenant[tx[w].t].kind = "business" => tenant[tx[w].t].cnpj = tx[w].cnpj
        /\ tx[w].out \in {"format_valid", "stripe_format_valid"} => tx[w].cnpj \in Cnpjs

\* The inductive invariant.
IndInv ==
    /\ TypeOK
    /\ AuditMatchesRows
    /\ TransactionsAreWellFormed
    /\ LocksAreExclusive
    /\ DecisionsStillHold

-----------------------------------------------------------------------------
(***************************************************************************)
(* Facts used by many actions                                              *)
(***************************************************************************)

LEMMA IdleIsTransaction == Idle \in Transaction
  BY DEF Idle, Transaction, Ops, Statuses

\* How many rows each transaction locks, and which.
LEMMA LockOrders ==
  /\ \A op \in {"convert", "migrate"} :
       Len(LockOrder(op)) = 1 /\ LockOrder(op)[1] = "tenant"
  /\ Len(LockOrder("billing")) = 2 /\ LockOrder("billing")[1] = "account"
  /\ LockOrder("billing")[2] = "tenant"
  /\ Len(LockOrder("lifetime")) = 2 /\ LockOrder("lifetime")[1] = "tenant"
  /\ LockOrder("lifetime")[2] = "account"
  /\ Len(LockOrder("idle")) = 0
<1>1. /\ Len(LockOrder("convert")) = 1 /\ LockOrder("convert")[1] = "tenant"
      /\ Len(LockOrder("migrate")) = 1 /\ LockOrder("migrate")[1] = "tenant"
  BY DEF LockOrder
<1>2. /\ Len(LockOrder("billing")) = 2 /\ LockOrder("billing")[1] = "account"
      /\ LockOrder("billing")[2] = "tenant"
  BY DEF LockOrder
<1>3. /\ Len(LockOrder("lifetime")) = 2 /\ LockOrder("lifetime")[1] = "tenant"
      /\ LockOrder("lifetime")[2] = "account"
  BY DEF LockOrder
<1>4. Len(LockOrder("idle")) = 0
  BY DEF LockOrder
<1> QED
  BY <1>1, <1>2, <1>3, <1>4

\* No transaction holds more rows than it locks.
LEMMA HeldInRange ==
  ASSUME NEW c \in Transaction, c.op = "idle" => c.held = 0,
         c.op \in {"convert", "migrate"} => c.held <= 1
  PROVE  c.held \in 0..Len(LockOrder(c.op))
<1>1. c.held \in 0..2 /\ c.op \in Ops
  BY DEF Transaction
<1>2. CASE c.op = "idle"
  BY <1>1, <1>2, LockOrders
<1>3. CASE c.op \in {"convert", "migrate"}
  BY <1>1, <1>3, LockOrders
<1>4. CASE c.op \in {"billing", "lifetime"}
  <2>1. Len(LockOrder(c.op)) = 2
    BY <1>4, LockOrders
  <2> QED
    BY <1>1, <2>1
<1> QED
  BY <1>1, <1>2, <1>3, <1>4 DEF Ops

LEMMA AllHeldInRange ==
  ASSUME TransactionsAreWellFormed, NEW w \in Workers
  PROVE  tx[w].held \in 0..Len(LockOrder(tx[w].op))
  BY HeldInRange DEF TransactionsAreWellFormed

\* A transaction that holds its tenant has its row among those it has locked.
LEMMA HeldTenant ==
  ASSUME IndInv, NEW w \in Workers, HasTenant(w)
  PROVE  <<"tenant", tx[w].t>> \in Held(w)
<1>1. tx[w] \in Transaction /\ tx[w].held \in 0..Len(LockOrder(tx[w].op))
  BY DEF IndInv, TypeOK, TransactionsAreWellFormed
<1>2. CASE tx[w].op \in {"convert", "migrate"}
  BY <1>1, <1>2, LockOrders DEF HasTenant, Held, Transaction
<1>3. CASE tx[w].op = "lifetime"
  BY <1>1, <1>3, LockOrders DEF HasTenant, Held, Transaction
<1>4. CASE tx[w].op = "billing"
  BY <1>1, <1>4, LockOrders DEF HasTenant, Held, Transaction
<1> QED
  BY <1>2, <1>3, <1>4 DEF HasTenant

\* A transaction with every lock it wants holds its tenant.
LEMMA LockedHasTenant ==
  ASSUME IndInv, NEW w \in Workers, Locked(w)
  PROVE  HasTenant(w) /\ tx[w].t \in Tenants /\ tx[w] \in Transaction
<1>1. /\ tx[w] \in Transaction /\ tx[w].held \in 0..Len(LockOrder(tx[w].op))
      /\ tx[w].op # "idle" /\ tx[w].t \in Tenants
  BY DEF IndInv, TypeOK, TransactionsAreWellFormed, Locked
<1>2. ~(tx[w].held < Len(LockOrder(tx[w].op)))
  BY DEF Locked, Wants
<1> QED
  BY <1>1, <1>2, LockOrders DEF Transaction, Ops, HasTenant

\* The transaction of worker w becomes c, and every other one stays.
LEMMA TransactionMoves ==
  ASSUME IndInv, NEW w \in Workers, NEW c \in Transaction, tx' = [tx EXCEPT ![w] = c]
  PROVE  /\ tx' \in [Workers -> Transaction] /\ tx'[w] = c
         /\ \A v \in Workers \ {w} : tx'[v] = tx[v]
  BY DEF IndInv, TransactionsAreWellFormed

\* A step that only ends a transaction preserves the invariant.
LEMMA Ended ==
  ASSUME IndInv, NEW w \in Workers, End(w)
  PROVE  /\ tx' \in [Workers -> Transaction] /\ tx'[w] = Idle
         /\ \A v \in Workers \ {w} : tx'[v] = tx[v]
         /\ Idle.op = "idle" /\ Idle.held = 0 /\ Idle.out = "none"
         /\ TransactionsAreWellFormed' /\ LocksAreExclusive'
         /\ \A v \in Workers : tx'[v].out # "none" => v # w
<1>1. /\ tx' \in [Workers -> Transaction] /\ tx'[w] = Idle
      /\ \A v \in Workers \ {w} : tx'[v] = tx[v]
  BY IdleIsTransaction, TransactionMoves DEF End
<1>2. Idle.op = "idle" /\ Idle.held = 0 /\ Idle.out = "none"
  BY DEF Idle
<1>3. TransactionsAreWellFormed'
  BY <1>1, <1>2 DEF IndInv, TransactionsAreWellFormed
<1>4. LocksAreExclusive'
  BY <1>1, <1>2 DEF IndInv, LocksAreExclusive, HasTenant
<1> QED
  BY <1>1, <1>2, <1>3, <1>4

LEMMA EndedQuietly ==
  ASSUME IndInv, NEW w \in Workers, End(w),
         UNCHANGED <<tenant, account, started, converted, granted>>
  PROVE  IndInv'
<1>1. \A v \in Workers : tx'[v].held \in 0..Len(LockOrder(tx'[v].op))
  BY Ended, HeldInRange DEF TransactionsAreWellFormed
<1>2. TypeOK' /\ AuditMatchesRows'
  BY <1>1, Ended DEF IndInv, TypeOK, AuditMatchesRows, TransactionsAreWellFormed
<1>3. DecisionsStillHold'
  BY Ended DEF IndInv, DecisionsStillHold, HasTenant
<1> QED
  BY <1>2, <1>3, Ended DEF IndInv

-----------------------------------------------------------------------------
(***************************************************************************)
(* Every action preserves the invariant                                    *)
(***************************************************************************)

\* A step that moves one transaction and writes no row.
LEMMA QuietMove ==
  ASSUME IndInv, NEW w \in Workers, NEW c \in Transaction, tx' = [tx EXCEPT ![w] = c],
         c.op # "idle", c.t \in Tenants,
         c.op \in {"convert", "migrate"} => c.held <= 1 /\ c.cnpj \in Cnpjs \cup {BadCnpj},
         c.op = "migrate" => c.cnpj \in Cnpjs,
         UNCHANGED <<tenant, account, converted, granted>>, started' \in 0..MaxTx,
         HasTenant(w)' =>
            \A v \in Workers \ {w} : tx[v].t = c.t => ~HasTenant(v),
         c.out # "none" =>
            /\ c.op \in {"convert", "migrate", "billing"} /\ HasTenant(w)'
            /\ c.out = "format_valid" => c.op # "billing" /\ tenant[c.t].kind = "personal"
            /\ c.out = "stripe_format_valid" =>
                  /\ c.op = "billing"
                  /\ tenant[c.t].kind = "business" => tenant[c.t].cnpj = c.cnpj
            /\ c.out \in {"format_valid", "stripe_format_valid"} => c.cnpj \in Cnpjs
  PROVE  IndInv'
<1>1. /\ tx' \in [Workers -> Transaction] /\ tx'[w] = c
      /\ \A v \in Workers \ {w} : tx'[v] = tx[v]
  BY TransactionMoves
<1>2. TransactionsAreWellFormed'
  BY <1>1 DEF IndInv, TransactionsAreWellFormed
<1>3. \A v \in Workers : tx'[v].held \in 0..Len(LockOrder(tx'[v].op))
  BY <1>2, HeldInRange DEF TransactionsAreWellFormed
<1>4. TypeOK' /\ AuditMatchesRows'
  BY <1>1, <1>3 DEF IndInv, TypeOK, AuditMatchesRows
<1>5. \A v \in Workers \ {w} : HasTenant(v)' = HasTenant(v)
  BY <1>1 DEF HasTenant
<1>6. LocksAreExclusive'
  BY <1>1, <1>5 DEF IndInv, LocksAreExclusive
<1>7. DecisionsStillHold'
  BY <1>1, <1>5 DEF IndInv, DecisionsStillHold
<1> QED
  BY <1>2, <1>4, <1>6, <1>7 DEF IndInv

\* A request, an event or a command starts a transaction without a lock.
LEMMA BeginStep ==
  ASSUME IndInv, NEW w \in Workers, NEW t \in Tenants, NEW op \in Ops \ {"idle"},
         NEW cnpj \in Cnpjs \cup {NoCnpj, BadCnpj}, NEW flag \in BOOLEAN,
         op \in {"convert", "migrate"} => cnpj \in Cnpjs \cup {BadCnpj},
         op = "migrate" => cnpj \in Cnpjs,
         Begin(w, op, t, cnpj, flag)
  PROVE  IndInv'
<1> DEFINE c == [Idle EXCEPT !.op = op, !.t = t, !.cnpj = cnpj, !.flag = flag]
<1>1. c \in Transaction
  BY IdleIsTransaction DEF Transaction
<1>2. c.op = op /\ c.t = t /\ c.held = 0 /\ c.out = "none" /\ c.cnpj = cnpj
  BY DEF Idle
<1>3. started' \in 0..MaxTx /\ tx' = [tx EXCEPT ![w] = c]
  BY MaxTxAssumption DEF Begin, IndInv, TypeOK
<1>4. tx'[w] = c
  BY <1>3 DEF IndInv, TransactionsAreWellFormed
<1> HIDE DEF c
<1>5. ~HasTenant(w)'
  BY <1>2, <1>4 DEF HasTenant
<1>6. /\ c.op # "idle" /\ (c.op = "migrate" => c.cnpj \in Cnpjs)
      /\ c.op \in {"convert", "migrate"} => c.held <= 1 /\ c.cnpj \in Cnpjs \cup {BadCnpj}
  BY <1>2
<1>7. UNCHANGED <<tenant, account, converted, granted>>
  BY DEF Begin
<1> QED
  BY <1>1, <1>2, <1>3, <1>5, <1>6, <1>7, QuietMove

\* FOR UPDATE: the row is free, so its lock stays exclusive.
LEMMA LockStep ==
  ASSUME IndInv, NEW w \in Workers, Lock(w)
  PROVE  IndInv'
<1> DEFINE c == [tx[w] EXCEPT !.held = @ + 1]
<1>1. /\ tx[w] \in Transaction /\ tx[w].held \in 0..2
      /\ tx[w].held < Len(LockOrder(tx[w].op))
      /\ Wants(w) = {<<LockOrder(tx[w].op)[tx[w].held + 1], tx[w].t>>}
      /\ tx[w].op # "idle" => tx[w].t \in Tenants
  BY DEF Lock, Wants, IndInv, TransactionsAreWellFormed, Transaction
<1>2. tx[w].op # "idle" /\ tx[w].held + 1 <= Len(LockOrder(tx[w].op))
  BY <1>1, LockOrders
<1>3. /\ tx[w].held + 1 \in 0..2
      /\ tx[w].op \in {"convert", "migrate"} => tx[w].held + 1 <= 1
  <2>1. CASE tx[w].op \in {"convert", "migrate"}
    BY <1>1, <1>2, <2>1, LockOrders
  <2>2. CASE tx[w].op \in {"billing", "lifetime"}
    <3>1. Len(LockOrder(tx[w].op)) = 2
      BY <2>2, LockOrders
    <3> QED
      BY <1>1, <1>2, <2>2, <3>1
  <2> QED
    BY <1>1, <1>2, <2>1, <2>2 DEF Transaction, Ops
<1>4. /\ c \in Transaction /\ c.held = tx[w].held + 1
      /\ c.op = tx[w].op /\ c.t = tx[w].t /\ c.out = tx[w].out /\ c.cnpj = tx[w].cnpj
  BY <1>1, <1>3 DEF Transaction
<1>5. tx' = [tx EXCEPT ![w] = c] /\ tx'[w] = c
  BY <1>1, <1>3 DEF Lock, IndInv, TransactionsAreWellFormed
<1> HIDE DEF c
<1>6. ASSUME HasTenant(w)', NEW v \in Workers \ {w}, tx[v].t = c.t
      PROVE  ~HasTenant(v)
  <2>1. CASE HasTenant(w)
    BY <1>4, <1>6, <2>1 DEF IndInv, LocksAreExclusive
  <2>2. CASE ~HasTenant(w)
    <3>1. LockOrder(tx[w].op)[tx[w].held + 1] = "tenant"
      BY <1>1, <1>4, <1>5, <1>6, <2>2, LockOrders DEF HasTenant
    <3>2. <<"tenant", tx[w].t>> \in Wants(w)
      BY <1>1, <3>1
    <3>3. <<"tenant", tx[w].t>> \notin Held(v)
      BY <3>2 DEF Lock, Blocks
    <3> QED
      BY <1>4, <1>6, <3>3, HeldTenant
  <2> QED
    BY <2>1, <2>2
<1>7. tx[w].out = "none"
  <2>1. ASSUME tx[w].out # "none" PROVE FALSE
    <3>1. tx[w].op \in {"convert", "migrate", "billing"} /\ HasTenant(w)
      BY <2>1 DEF IndInv, DecisionsStillHold
    <3>2. CASE tx[w].op \in {"convert", "migrate"}
      <4>1. Len(LockOrder(tx[w].op)) = 1 /\ tx[w].held >= 1
        BY <3>1, <3>2, LockOrders DEF HasTenant
      <4> QED
        BY <1>1, <4>1
    <3>3. CASE tx[w].op = "billing"
      <4>1. Len(LockOrder(tx[w].op)) = 2 /\ tx[w].held = 2
        BY <3>1, <3>3, LockOrders DEF HasTenant
      <4> QED
        BY <1>1, <4>1
    <3> QED
      BY <3>1, <3>2, <3>3
  <2> QED
    BY <2>1
<1>8. HasTenant(w)' => \A v \in Workers \ {w} : tx[v].t = c.t => ~HasTenant(v)
  BY <1>6
<1>9. /\ c.op # "idle" /\ c.t \in Tenants /\ (c.op = "migrate" => c.cnpj \in Cnpjs)
      /\ c.op \in {"convert", "migrate"} => c.held <= 1 /\ c.cnpj \in Cnpjs \cup {BadCnpj}
  BY <1>1, <1>2, <1>3, <1>4 DEF IndInv, TransactionsAreWellFormed
<1>10. UNCHANGED <<tenant, account, converted, granted>> /\ started' \in 0..MaxTx
  BY DEF Lock, IndInv, TypeOK
<1> QED
  BY <1>4, <1>5, <1>7, <1>8, <1>9, <1>10, QuietMove

\* A transaction that decides has every lock, and decides from the row as it is.
LEMMA DecideStep ==
  ASSUME IndInv, NEW w \in Workers, NEW out \in Statuses \ {"none"}, Locked(w), Goto(w, out),
         tx[w].op \in {"convert", "migrate", "billing"},
         out = "format_valid" => /\ tx[w].op # "billing"
                                 /\ tenant[tx[w].t].kind = "personal",
         out = "stripe_format_valid" =>
            /\ tx[w].op = "billing"
            /\ tenant[tx[w].t].kind = "business" => tenant[tx[w].t].cnpj = tx[w].cnpj,
         out \in {"format_valid", "stripe_format_valid"} => tx[w].cnpj \in Cnpjs,
         UNCHANGED <<tenant, account, started, converted, granted>>
  PROVE  IndInv'
<1> DEFINE c == [tx[w] EXCEPT !.out = out]
<1>1. HasTenant(w) /\ tx[w].t \in Tenants /\ tx[w] \in Transaction
  BY LockedHasTenant
<1>2. /\ c \in Transaction /\ c.held = tx[w].held
      /\ c.op = tx[w].op /\ c.t = tx[w].t /\ c.out = out /\ c.cnpj = tx[w].cnpj
  BY <1>1 DEF Transaction
<1>3. tx' = [tx EXCEPT ![w] = c] /\ tx'[w] = c
  BY DEF Goto, IndInv, TransactionsAreWellFormed
<1> HIDE DEF c
<1>4. HasTenant(w)'
  BY <1>1, <1>2, <1>3 DEF HasTenant
<1>5. \A v \in Workers \ {w} : tx[v].t = c.t => ~HasTenant(v)
  BY <1>1, <1>2 DEF IndInv, LocksAreExclusive
<1>6. /\ c.op = "migrate" => c.cnpj \in Cnpjs
      /\ c.op \in {"convert", "migrate"} => c.held <= 1 /\ c.cnpj \in Cnpjs \cup {BadCnpj}
  BY <1>2 DEF IndInv, TransactionsAreWellFormed
<1>7. c.op # "idle" /\ c.t \in Tenants /\ started' \in 0..MaxTx
  BY <1>1, <1>2 DEF IndInv, TypeOK
<1>8. c.out # "none" =>
        /\ c.op \in {"convert", "migrate", "billing"} /\ HasTenant(w)'
        /\ c.out = "format_valid" => c.op # "billing" /\ tenant[c.t].kind = "personal"
        /\ c.out = "stripe_format_valid" =>
              /\ c.op = "billing"
              /\ tenant[c.t].kind = "business" => tenant[c.t].cnpj = c.cnpj
        /\ c.out \in {"format_valid", "stripe_format_valid"} => c.cnpj \in Cnpjs
  BY <1>2, <1>4
<1> QED
  BY <1>2, <1>3, <1>5, <1>6, <1>7, <1>8, QuietMove

\* The answer to a billing event is one of the statuses, and a valid one is
\* never another CNPJ for a business.
LEMMA IdentityStatusCorrect ==
  ASSUME NEW row \in TenantRows, NEW t \in Tenants, NEW named \in BOOLEAN,
         NEW cnpj \in Cnpjs \cup {NoCnpj, BadCnpj}
  PROVE  /\ IdentityStatus(row, t, cnpj, named) \in Statuses \ {"none", "format_valid"}
         /\ IdentityStatus(row, t, cnpj, named) = "stripe_format_valid" =>
              cnpj \in Cnpjs /\ (row.kind = "business" => row.cnpj = cnpj)
<1>1. CASE cnpj \in Cnpjs /\ row.kind = "business" /\ row.cnpj # cnpj
  BY <1>1, NamesAssumption DEF IdentityStatus, Statuses
<1>2. CASE cnpj \in Cnpjs /\ ~(row.kind = "business" /\ row.cnpj # cnpj)
  BY <1>2, NamesAssumption DEF IdentityStatus, Statuses
<1>3. CASE cnpj \notin Cnpjs
  BY <1>3 DEF IdentityStatus, Statuses
<1> QED
  BY <1>1, <1>2, <1>3

LEMMA CheckStep ==
  ASSUME IndInv, NEW w \in Workers, CheckConvert(w) \/ CheckMigrate(w) \/ CheckBilling(w)
  PROVE  IndInv'
<1>1. /\ Locked(w) /\ tx[w].op \in {"convert", "migrate", "billing"}
      /\ UNCHANGED <<tenant, account, started, converted, granted>>
  BY DEF CheckConvert, CheckMigrate, CheckBilling
<1>2. tx[w] \in Transaction /\ tx[w].t \in Tenants /\ tenant[tx[w].t] \in TenantRows
  BY <1>1, LockedHasTenant DEF IndInv, TypeOK
<1>3. CASE End(w)
  BY <1>1, <1>3, EndedQuietly
<1>4. CASE (CheckConvert(w) \/ CheckMigrate(w)) /\ ~End(w)
  <2>1. /\ Goto(w, "format_valid") /\ tenant[tx[w].t].kind = "personal"
        /\ tx[w].op # "billing"
    BY <1>2, <1>4 DEF CheckConvert, CheckMigrate, TenantRows
  <2>2. tx[w].cnpj \in Cnpjs
    BY <1>4, <2>1 DEF CheckConvert, CheckMigrate, IndInv, TransactionsAreWellFormed
  <2>3. "format_valid" \in Statuses \ {"none"}
    BY DEF Statuses
  <2> QED
    BY <1>1, <2>1, <2>2, <2>3, DecideStep
<1>5. CASE CheckBilling(w)
  <2>1. PICK out : out = IdentityStatus(tenant[tx[w].t], tx[w].t, tx[w].cnpj, tx[w].flag)
    OBVIOUS
  <2>2. /\ out \in Statuses \ {"none", "format_valid"}
        /\ out = "stripe_format_valid" =>
             /\ tx[w].cnpj \in Cnpjs
             /\ tenant[tx[w].t].kind = "business" => tenant[tx[w].t].cnpj = tx[w].cnpj
    BY <1>2, <2>1, IdentityStatusCorrect DEF Transaction
  <2>3. Goto(w, out) /\ tx[w].op = "billing"
    BY <1>5, <2>1 DEF CheckBilling
  <2> QED
    BY <1>1, <2>2, <2>3, DecideStep
<1> QED
  BY <1>3, <1>4, <1>5

\* What CommitIdentity writes, under the tenant's lock.
LEMMA CommitWrites ==
  ASSUME IndInv, NEW w \in Workers, CommitIdentity(w)
  PROVE  /\ tx[w].t \in Tenants
         /\ tenant' \in [Tenants -> TenantRows]
         /\ \A t \in Tenants \ {tx[w].t} : tenant'[t] = tenant[t] /\ converted'[t] = converted[t]
         /\ tenant'[tx[w].t].kind = "business" <=> tenant'[tx[w].t].cnpj # NoCnpj
         /\ tenant[tx[w].t].kind = "business" =>
              /\ tenant'[tx[w].t].kind = "business"
              /\ tenant'[tx[w].t].cnpj = tenant[tx[w].t].cnpj
         /\ converted' \in [Tenants -> Nat]
         /\ converted'[tx[w].t] = IF tenant'[tx[w].t].kind = "business" THEN 1 ELSE 0
<1>1. /\ tx[w].out # "none" /\ tx[w] \in Transaction
      /\ tx[w].op \in {"convert", "migrate", "billing"} /\ tx[w].t \in Tenants
  BY DEF CommitIdentity, IndInv, TransactionsAreWellFormed, DecisionsStillHold
<1>2. PICK t \in Tenants : t = tx[w].t
  BY <1>1
<1>3. tenant \in [Tenants -> TenantRows] /\ tenant[t] \in TenantRows
  BY DEF IndInv, TypeOK
<1>4. /\ tenant[t].kind = "business" <=> tenant[t].cnpj # NoCnpj
      /\ converted \in [Tenants -> Nat]
      /\ converted[t] = IF tenant[t].kind = "business" THEN 1 ELSE 0
  BY DEF IndInv, TypeOK, AuditMatchesRows
<1>5. CASE tx[w].out \in {"format_valid", "stripe_format_valid"}
  <2>1. /\ tx[w].cnpj \in Cnpjs
        /\ tx[w].op # "billing" => tenant[t].kind = "personal"
        /\ tenant[t].kind = "business" => tenant[t].cnpj = tx[w].cnpj
    BY <1>1, <1>2, <1>5 DEF IndInv, DecisionsStillHold
  <2>2. tenant' = [tenant EXCEPT ![t] =
                     [kind |-> "business", cnpj |-> tx[w].cnpj, status |-> tx[w].out]]
    BY <1>2, <1>5 DEF CommitIdentity
  <2>3. [kind |-> "business", cnpj |-> tx[w].cnpj, status |-> tx[w].out] \in TenantRows
    BY <1>1, <2>1 DEF TenantRows, Transaction
  <2>4. /\ tenant' \in [Tenants -> TenantRows]
        /\ tenant'[t].kind = "business" /\ tenant'[t].cnpj = tx[w].cnpj
        /\ \A u \in Tenants \ {t} : tenant'[u] = tenant[u]
    BY <1>3, <2>2, <2>3
  <2>5. converted' = [converted EXCEPT ![t] = IF tenant[t].kind = "personal" THEN @ + 1 ELSE @]
    BY <1>2, <1>5, <2>1 DEF CommitIdentity
  <2>6. tenant[t].kind = "personal" <=> tenant[t].kind # "business"
    BY <1>3 DEF TenantRows
  <2>7. /\ converted' \in [Tenants -> Nat] /\ converted'[t] = 1
        /\ \A u \in Tenants \ {t} : converted'[u] = converted[u]
    BY <1>4, <2>5, <2>6
  <2> QED
    BY <1>2, <2>1, <2>4, <2>7, NamesAssumption
<1>6. CASE tx[w].out \notin {"format_valid", "stripe_format_valid"}
  <2>1. tenant' = [tenant EXCEPT ![t] = [@ EXCEPT !.status = tx[w].out]]
    BY <1>2, <1>6 DEF CommitIdentity
  <2>2. [tenant[t] EXCEPT !.status = tx[w].out] \in TenantRows
    BY <1>1, <1>3 DEF TenantRows, Transaction
  <2>3. /\ tenant' \in [Tenants -> TenantRows]
        /\ tenant'[t].kind = tenant[t].kind /\ tenant'[t].cnpj = tenant[t].cnpj
        /\ \A u \in Tenants \ {t} : tenant'[u] = tenant[u]
    BY <1>3, <2>1, <2>2 DEF TenantRows
  <2>4. converted' = converted
    BY <1>2, <1>4, <1>6 DEF CommitIdentity
  <2> QED
    BY <1>2, <1>4, <2>3, <2>4
<1> QED
  BY <1>5, <1>6

\* No transaction that has decided sees its tenant change: the commit holds the
\* only lock on it.
LEMMA CommitIdentityStep ==
  ASSUME IndInv, NEW w \in Workers, CommitIdentity(w)
  PROVE  IndInv'
<1>1. tx[w].out # "none" /\ HasTenant(w) /\ End(w)
  BY DEF CommitIdentity, IndInv, DecisionsStillHold
<1>2. \A v \in Workers : tx'[v].held \in 0..Len(LockOrder(tx'[v].op))
  BY <1>1, Ended, HeldInRange DEF TransactionsAreWellFormed
<1>3. /\ account' \in [Tenants -> [business : BOOLEAN, lifetime : BOOLEAN]]
      /\ \A t \in Tenants : account'[t].lifetime = account[t].lifetime
  <2>1. PICK u \in Tenants : u = tx[w].t
    BY CommitWrites
  <2>2. account' = [account EXCEPT ![u].business = TRUE] \/ account' = account
    BY <2>1 DEF CommitIdentity
  <2>3. account \in [Tenants -> [business : BOOLEAN, lifetime : BOOLEAN]]
    BY DEF IndInv, TypeOK
  <2>4. CASE account' = [account EXCEPT ![u].business = TRUE]
    BY <2>3, <2>4
  <2>5. CASE account' = account
    BY <2>3, <2>5
  <2> QED
    BY <2>2, <2>4, <2>5
<1>4. /\ UNCHANGED <<started, granted>> /\ DOMAIN tx' = Workers
  BY <1>1, Ended DEF CommitIdentity
<1>5. TypeOK'
  BY <1>2, <1>3, <1>4, CommitWrites DEF IndInv, TypeOK
<1>6. AuditMatchesRows'
  BY <1>3, <1>4, CommitWrites DEF IndInv, AuditMatchesRows
<1>7. DecisionsStillHold'
  <2>1. ASSUME NEW v \in Workers, tx'[v].out # "none"
        PROVE  v # w /\ tx'[v] = tx[v] /\ tx[v].t # tx[w].t /\ tenant'[tx[v].t] = tenant[tx[v].t]
    <3>1. v # w /\ tx'[v] = tx[v]
      BY <1>1, <2>1, Ended
    <3>2. HasTenant(v) /\ tx[v].t \in Tenants
      BY <2>1, <3>1 DEF IndInv, DecisionsStillHold, TransactionsAreWellFormed
    <3>3. tx[v].t # tx[w].t
      BY <1>1, <3>1, <3>2 DEF IndInv, LocksAreExclusive
    <3> QED
      BY <3>1, <3>2, <3>3, CommitWrites
  <2> QED
    BY <2>1 DEF IndInv, DecisionsStillHold, HasTenant
<1> QED
  BY <1>1, <1>5, <1>6, <1>7, Ended DEF IndInv

\* The flag and its billing event are written together.
LEMMA CommitLifetimeStep ==
  ASSUME IndInv, NEW w \in Workers, CommitLifetime(w)
  PROVE  IndInv'
<1>1. /\ End(w) /\ tx[w].t \in Tenants /\ tx[w].flag \in BOOLEAN
      /\ UNCHANGED <<tenant, started, converted>>
  BY LockedHasTenant DEF CommitLifetime, Transaction
<1>2. \A v \in Workers : tx'[v].held \in 0..Len(LockOrder(tx'[v].op))
  BY <1>1, Ended, HeldInRange DEF TransactionsAreWellFormed
<1>3. PICK t \in Tenants : t = tx[w].t
  BY <1>1
<1>4. /\ account' \in [Tenants -> [business : BOOLEAN, lifetime : BOOLEAN]]
      /\ account'[t].lifetime = tx[w].flag
      /\ \A u \in Tenants \ {t} : account'[u] = account[u]
  BY <1>1, <1>3 DEF CommitLifetime, IndInv, TypeOK
<1>5. /\ granted' \in [Tenants -> Int]
      /\ \A u \in Tenants \ {t} : granted'[u] = granted[u]
      /\ granted'[t] = IF account[t].lifetime = tx[w].flag THEN granted[t]
                       ELSE IF tx[w].flag THEN granted[t] + 1 ELSE granted[t] - 1
  BY <1>1, <1>3 DEF CommitLifetime, IndInv, TypeOK
<1>6. granted[t] = IF account[t].lifetime THEN 1 ELSE 0
  BY DEF IndInv, AuditMatchesRows
<1>7. account[t].lifetime \in BOOLEAN
  BY DEF IndInv, TypeOK
<1>8. granted'[t] = IF account'[t].lifetime THEN 1 ELSE 0
  BY <1>1, <1>4, <1>5, <1>6, <1>7
<1>9. TypeOK'
  BY <1>1, <1>2, <1>4, <1>5, Ended DEF IndInv, TypeOK
<1>10. AuditMatchesRows'
  BY <1>1, <1>4, <1>5, <1>8 DEF IndInv, AuditMatchesRows
<1>11. DecisionsStillHold'
  BY <1>1, Ended DEF IndInv, DecisionsStillHold, HasTenant
<1> QED
  BY <1>1, <1>9, <1>10, <1>11, Ended DEF IndInv

LEMMA LeaveBusinessPlanStep ==
  ASSUME IndInv, NEW t \in Tenants, LeaveBusinessPlan(t)
  PROVE  IndInv'
<1>1. /\ account' \in [Tenants -> [business : BOOLEAN, lifetime : BOOLEAN]]
      /\ \A u \in Tenants : account'[u].lifetime = account[u].lifetime
  BY DEF LeaveBusinessPlan, IndInv, TypeOK
<1>2. UNCHANGED <<tenant, tx, started, converted, granted>>
  BY DEF LeaveBusinessPlan
<1>3. TypeOK' /\ AuditMatchesRows'
  BY <1>1, <1>2 DEF IndInv, TypeOK, AuditMatchesRows
<1> QED
  BY <1>2, <1>3 DEF IndInv, TransactionsAreWellFormed, LocksAreExclusive,
     DecisionsStillHold, HasTenant

-----------------------------------------------------------------------------
(***************************************************************************)
(* The theorems                                                            *)
(***************************************************************************)

LEMMA InitInvariant == Init => IndInv
<1> SUFFICES ASSUME Init PROVE IndInv
  OBVIOUS
<1>1. tx \in [Workers -> Transaction] /\ \A w \in Workers : tx[w] = Idle
  BY IdleIsTransaction DEF Init
<1>2. Idle.op = "idle" /\ Idle.held = 0 /\ Idle.out = "none"
  BY DEF Idle
<1>3. TransactionsAreWellFormed
  BY <1>1, <1>2 DEF TransactionsAreWellFormed
<1>4. \A w \in Workers : tx[w].held \in 0..Len(LockOrder(tx[w].op))
  BY <1>3, AllHeldInRange
<1>5. TypeOK
  BY <1>1, <1>4, MaxTxAssumption, NamesAssumption DEF Init, TypeOK, TenantRows, Statuses
<1>6. AuditMatchesRows
  BY DEF Init, AuditMatchesRows
<1>7. LocksAreExclusive /\ DecisionsStillHold
  BY <1>1, <1>2 DEF LocksAreExclusive, DecisionsStillHold, HasTenant
<1> QED
  BY <1>3, <1>5, <1>6, <1>7 DEF IndInv

LEMMA StepInvariant == IndInv /\ [Next]_vars => IndInv'
<1> SUFFICES ASSUME IndInv, [Next]_vars PROVE IndInv'
  OBVIOUS
<1>1. ASSUME NEW w \in Workers, Step(w) \/ Abort(w)
      PROVE  IndInv'
  <2>1. CASE DeadlockDetected(w) \/ Abort(w)
    BY <2>1, EndedQuietly DEF DeadlockDetected, Abort
  <2> QED
    BY <1>1, <2>1, LockStep, CheckStep, CommitIdentityStep, CommitLifetimeStep DEF Step
<1>2. ASSUME NEW w \in Workers, NEW t \in Tenants, NEW cnpj \in Cnpjs \cup {BadCnpj},
             ConvertToBusiness(w, t, cnpj) \/ MigrateBusinessTenant(w, t, cnpj)
      PROVE  IndInv'
  BY <1>2, BeginStep DEF ConvertToBusiness, MigrateBusinessTenant, Ops
<1>3. ASSUME NEW w \in Workers, NEW t \in Tenants, NEW cnpj \in Cnpjs \cup {NoCnpj, BadCnpj},
             NEW named \in BOOLEAN, BillingIdentity(w, t, cnpj, named)
      PROVE  IndInv'
  BY <1>3, BeginStep DEF BillingIdentity, Ops
<1>4. ASSUME NEW w \in Workers, NEW t \in Tenants, NEW enabled \in BOOLEAN,
             ChangeLifetimeAccess(w, t, enabled)
      PROVE  IndInv'
  BY <1>4, BeginStep DEF ChangeLifetimeAccess, Ops
<1>5. CASE UNCHANGED vars
  BY <1>5 DEF vars, IndInv, TypeOK, AuditMatchesRows, TransactionsAreWellFormed,
     LocksAreExclusive, DecisionsStillHold, HasTenant
<1> QED
  BY <1>1, <1>2, <1>3, <1>4, <1>5, LeaveBusinessPlanStep DEF Next

\* The inductive invariant holds in every reachable state.
THEOREM Invariant == Spec => []IndInv
  BY InitInvariant, StepInvariant, PTL DEF Spec

\* A tenant is a business exactly if it has a CNPJ, with one conversion in the
\* audit trail, and the grants add up to the lifetime flag, for any number of
\* tenants and of processes that convert, bill and grant at once.
THEOREM IdentityAudited == Spec => []IdentityIsAudited
<1>1. IndInv => IdentityIsAudited
  BY DEF IndInv, IdentityIsAudited
<1> QED
  BY <1>1, Invariant, PTL

\* A business never changes its CNPJ and never becomes a person again: each
\* writer decides and commits under the tenant's row lock.
THEOREM BusinessCnpjKept == Spec => BusinessKeepsCnpj
<1>1. ASSUME IndInv, [Next]_vars
      PROVE  [\A t \in Tenants : tenant[t].kind = "business" =>
                tenant'[t].kind = "business" /\ tenant'[t].cnpj = tenant[t].cnpj]_vars
  <2>1. UNCHANGED tenant \/ \E w \in Workers : CommitIdentity(w)
    BY <1>1, ZenonT(60) DEF Next, Step, Abort, ConvertToBusiness, MigrateBusinessTenant, BillingIdentity,
       ChangeLifetimeAccess, Begin, LeaveBusinessPlan, Lock, DeadlockDetected, CheckConvert,
       CheckMigrate, CheckBilling, CommitLifetime, vars
  <2>2. ASSUME NEW w \in Workers, CommitIdentity(w), NEW t \in Tenants,
               tenant[t].kind = "business"
        PROVE  tenant'[t].kind = "business" /\ tenant'[t].cnpj = tenant[t].cnpj
    BY <1>1, <2>2, CommitWrites
  <2> QED
    BY <2>1, <2>2, SMTT(60)
<1> QED
  BY <1>1, Invariant, PTL DEF Spec, BusinessKeepsCnpj
=============================================================================
