--------------------------- MODULE TenantIdentity ----------------------------
(***************************************************************************)
(* The legal identity of a tenant of core_api: how a personal workspace    *)
(* becomes a business with a CNPJ, by its administrator, by a billing      *)
(* event that carries the customer's tax id, or by the operator's          *)
(* migration, and how complimentary lifetime access is granted.  Every     *)
(* transaction takes row locks one by one, in the order its code does, and *)
(* keeps them to its end.  Billing takes the account row and then the      *)
(* tenant row, the lifetime command takes them the other way round:        *)
(* PostgreSQL's deadlock detection is part of the model.                   *)
(***************************************************************************)
EXTENDS Integers, Sequences, FiniteSets

CONSTANTS Tenants,
          Cnpjs,           \* CNPJs that pass protect_cnpj
          Workers,         \* processes: API workers and operators' commands
          MaxTx,           \* bound: transactions started
          NoTenant, NoCnpj, BadCnpj

ASSUME MaxTxAssumption == MaxTx \in Nat
ASSUME NamesAssumption == NoTenant \notin Tenants /\ {NoCnpj, BadCnpj} \cap Cnpjs = {}

VARIABLES tenant,          \* tenants row: kind, cnpj, status
          account,         \* billing_accounts row: business plan, lifetime
          tx,              \* worker -> its transaction
          started,         \* transactions started
          converted,       \* audit_events: conversions of a tenant
          granted          \* billing_events: lifetime grants less revocations

vars == <<tenant, account, tx, started, converted, granted>>

\* registration_verification_status.
Statuses == {"none", "format_valid", "stripe_format_valid", "stripe_cnpj_required",
             "stripe_cnpj_invalid", "stripe_cnpj_mismatch", "stripe_cnpj_conflict",
             "stripe_name_required"}

TenantRows == [kind : {"personal", "business"}, cnpj : Cnpjs \cup {NoCnpj}, status : Statuses]

Idle == [op |-> "idle", t |-> NoTenant, held |-> 0, cnpj |-> NoCnpj, flag |-> FALSE,
         out |-> "none"]

\* Mutant: the billing event reads the tenant without a lock.
LockOrderAccountOnly(op) ==
    CASE op \in {"convert", "migrate"} -> <<"tenant">>
      [] op = "billing" -> <<"account">>
      [] op = "lifetime" -> <<"tenant", "account">>
      [] op = "idle" -> <<>>

\* The rows a transaction locks with FOR UPDATE, in order.  A migration also
\* locks the membership it found its tenant by, and the one it writes, behind
\* the tenant's row; no other transaction of this module asks for those.
LockOrder(op) ==
    CASE op = "convert"  -> <<"tenant">>
      [] op = "migrate"  -> <<"tenant">>
      [] op = "billing"  -> <<"account", "tenant">>
      [] op = "lifetime" -> <<"tenant", "account">>
      [] op = "idle"     -> <<>>

TypeOK ==
    /\ tenant \in [Tenants -> TenantRows]
    /\ \A t \in Tenants : tenant[t].kind = "business" <=> tenant[t].cnpj # NoCnpj
    /\ account \in [Tenants -> [business : BOOLEAN, lifetime : BOOLEAN]]
    /\ DOMAIN tx = Workers
    /\ \A w \in Workers : tx[w].held \in 0..Len(LockOrder(tx[w].op))
    /\ started \in 0..MaxTx
    /\ converted \in [Tenants -> Nat]
    /\ granted \in [Tenants -> Int]

-----------------------------------------------------------------------------
(* Row locks *)

\* The rows a worker's transaction has locked, and the one it asks for.
Held(w) == {<<LockOrder(tx[w].op)[i], tx[w].t>> : i \in 1..tx[w].held}
Wants(w) == IF tx[w].held < Len(LockOrder(tx[w].op))
              THEN {<<LockOrder(tx[w].op)[tx[w].held + 1], tx[w].t>>} ELSE {}
Blocks(v, w) == Held(v) \cap Wants(w) # {}

Locked(w) == tx[w].op # "idle" /\ Wants(w) = {} /\ tx[w].out = "none"

Begin(w, op, t, cnpj, flag) ==
    /\ tx[w] = Idle
    /\ started < MaxTx
    /\ started' = started + 1
    /\ tx' = [tx EXCEPT ![w] = [Idle EXCEPT !.op = op, !.t = t, !.cnpj = cnpj, !.flag = flag]]
    /\ UNCHANGED <<tenant, account, converted, granted>>

Lock(w) ==
    /\ Wants(w) # {}
    /\ \A v \in Workers \ {w} : ~Blocks(v, w)
    /\ tx' = [tx EXCEPT ![w].held = @ + 1]
    /\ UNCHANGED <<tenant, account, started, converted, granted>>

Goto(w, out) == tx' = [tx EXCEPT ![w].out = out]
End(w) == tx' = [tx EXCEPT ![w] = Idle]

\* Mutant: nobody looks for deadlocks.
DeadlockIgnored(w) == FALSE /\ UNCHANGED vars /\ End(w)

\* PostgreSQL ends one of two transactions that wait for each other.
DeadlockDetected(w) ==
    /\ \E v \in Workers \ {w} : Blocks(v, w) /\ Blocks(w, v)
    /\ End(w)
    /\ UNCHANGED <<tenant, account, started, converted, granted>>

-----------------------------------------------------------------------------
(* The transactions *)

\* Another tenant has the CNPJ, as far as committed rows show.
Conflict(t, cnpj) == \E u \in Tenants \ {t} : tenant[u].cnpj = cnpj

\* business_features_enabled.
BusinessFeatures(t) == account[t].lifetime \/ account[t].business

ConvertToBusiness(w, t, cnpj) == Begin(w, "convert", t, cnpj, TRUE)

\* Under the row's lock: only a personal tenant on a business plan, with a CNPJ
\* nobody else has, is converted.
CheckConvert(w) ==
    LET t == tx[w].t IN
    /\ Locked(w) /\ tx[w].op = "convert"
    /\ IF \/ tenant[t].kind = "business"
          \/ ~BusinessFeatures(t)
          \/ tx[w].cnpj = BadCnpj
          \/ Conflict(t, tx[w].cnpj)
         THEN End(w) ELSE Goto(w, "format_valid")
    /\ UNCHANGED <<tenant, account, started, converted, granted>>

\* migrate_business_tenant: a tenant that has this CNPJ already only gets its new
\* administrator; auth_api or the seat limit may refuse him and end it all.
MigrateBusinessTenant(w, t, cnpj) == cnpj \in Cnpjs /\ Begin(w, "migrate", t, cnpj, TRUE)

CheckMigrate(w) ==
    LET t == tx[w].t IN
    /\ Locked(w) /\ tx[w].op = "migrate"
    /\ \/ End(w)
       \/ /\ BusinessFeatures(t)
          /\ tenant[t].kind = "personal" /\ ~Conflict(t, tx[w].cnpj)
          /\ Goto(w, "format_valid")
    /\ UNCHANGED <<tenant, account, started, converted, granted>>

\* A subscription event with the customer's identity: a tax id or none, and a
\* name or none (flag).
BillingIdentity(w, t, cnpj, named) == Begin(w, "billing", t, cnpj, named)

\* Mutant: a business may change its CNPJ at the provider.
IdentityFollowsProvider(row, t, cnpj, named) ==
    CASE cnpj = NoCnpj -> "stripe_cnpj_required"
      [] cnpj = BadCnpj -> "stripe_cnpj_invalid"
      [] cnpj \in Cnpjs -> IF Conflict(t, cnpj) THEN "stripe_cnpj_conflict"
                           ELSE IF ~named THEN "stripe_name_required" ELSE "stripe_format_valid"

\* apply_billing_business_identity, in the order of its early returns.
IdentityStatus(row, t, cnpj, named) ==
    CASE cnpj = NoCnpj -> "stripe_cnpj_required"
      [] cnpj = BadCnpj -> "stripe_cnpj_invalid"
      [] cnpj \in Cnpjs /\ row.kind = "business" /\ row.cnpj # cnpj -> "stripe_cnpj_mismatch"
      [] cnpj \in Cnpjs /\ ~(row.kind = "business" /\ row.cnpj # cnpj) ->
           IF Conflict(t, cnpj) THEN "stripe_cnpj_conflict"
           ELSE IF ~named THEN "stripe_name_required" ELSE "stripe_format_valid"

CheckBilling(w) ==
    LET t == tx[w].t IN
    /\ Locked(w) /\ tx[w].op = "billing"
    /\ Goto(w, IdentityStatus(tenant[t], t, tx[w].cnpj, tx[w].flag))
    /\ UNCHANGED <<tenant, account, started, converted, granted>>

\* Mutant: the registration is written and the kind is not.
CommitWithoutKind(w) ==
    LET t == tx[w].t
        valid == tx[w].out \in {"format_valid", "stripe_format_valid"}
    IN /\ tx[w].out # "none"
       /\ tenant' = [tenant EXCEPT ![t].status = tx[w].out,
                                   ![t].cnpj = IF valid THEN tx[w].cnpj ELSE @]
       /\ End(w)
       /\ UNCHANGED <<account, started, converted, granted>>

\* The commit of a conversion, and of a billing event, which also puts the
\* account on its business plan.
CommitIdentity(w) ==
    LET t == tx[w].t
        valid == tx[w].out \in {"format_valid", "stripe_format_valid"}
    IN /\ tx[w].out # "none"
       /\ tenant' = [tenant EXCEPT ![t] =
            IF valid THEN [kind |-> "business", cnpj |-> tx[w].cnpj, status |-> tx[w].out]
                     ELSE [@ EXCEPT !.status = tx[w].out]]
       /\ converted' = [converted EXCEPT ![t] =
            IF valid /\ (tx[w].op # "billing" \/ tenant[t].kind = "personal") THEN @ + 1 ELSE @]
       /\ account' = IF tx[w].op = "billing" THEN [account EXCEPT ![t].business = TRUE]
                                             ELSE account
       /\ End(w)
       /\ UNCHANGED <<started, granted>>

\* A subscription event of another plan takes the account row only.
LeaveBusinessPlan(t) ==
    /\ account[t].business
    /\ \A w \in Workers : <<"account", t>> \notin Held(w)
    /\ account' = [account EXCEPT ![t].business = FALSE]
    /\ UNCHANGED <<tenant, tx, started, converted, granted>>

\* change_lifetime_access records a change, and nothing when there is none.
ChangeLifetimeAccess(w, t, enabled) == Begin(w, "lifetime", t, NoCnpj, enabled)

CommitLifetime(w) ==
    LET t == tx[w].t IN
    /\ Locked(w) /\ tx[w].op = "lifetime"
    /\ account' = [account EXCEPT ![t].lifetime = tx[w].flag]
    /\ granted' = [granted EXCEPT ![t] =
         IF account[t].lifetime = tx[w].flag THEN @
         ELSE IF tx[w].flag THEN @ + 1 ELSE @ - 1]
    /\ End(w)
    /\ UNCHANGED <<tenant, started, converted>>

\* The connection is lost: the transaction is rolled back.
Abort(w) ==
    /\ tx[w] # Idle
    /\ End(w)
    /\ UNCHANGED <<tenant, account, started, converted, granted>>

-----------------------------------------------------------------------------
Init ==
    /\ tenant = [t \in Tenants |-> [kind |-> "personal", cnpj |-> NoCnpj, status |-> "none"]]
    /\ account = [t \in Tenants |-> [business |-> FALSE, lifetime |-> FALSE]]
    /\ tx = [w \in Workers |-> Idle]
    /\ started = 0
    /\ converted = [t \in Tenants |-> 0]
    /\ granted = [t \in Tenants |-> 0]

Step(w) ==
    \/ Lock(w) \/ DeadlockDetected(w)
    \/ CheckConvert(w) \/ CheckMigrate(w) \/ CheckBilling(w)
    \/ CommitIdentity(w) \/ CommitLifetime(w)

Next ==
    \/ \E w \in Workers :
          \/ Step(w) \/ Abort(w)
          \/ \E t \in Tenants :
                \/ \E cnpj \in Cnpjs \cup {BadCnpj} :
                      ConvertToBusiness(w, t, cnpj) \/ MigrateBusinessTenant(w, t, cnpj)
                \/ \E cnpj \in Cnpjs \cup {NoCnpj, BadCnpj}, named \in BOOLEAN :
                      BillingIdentity(w, t, cnpj, named)
                \/ \E enabled \in BOOLEAN : ChangeLifetimeAccess(w, t, enabled)
    \/ \E t \in Tenants : LeaveBusinessPlan(t)

\* A transaction that can go on does: its process is scheduled.
Fairness == \A w \in Workers : WF_vars(Step(w))

Spec == Init /\ [][Next]_vars
FairSpec == Spec /\ Fairness

-----------------------------------------------------------------------------
(* Properties *)

\* A business is a business for good, under the CNPJ it was converted with: every
\* writer decides under the tenant's row lock (convert_to_business,
\* apply_billing_business_identity, migrate_business_tenant).
BusinessKeepsCnpj ==
    [][\A t \in Tenants : tenant[t].kind = "business" =>
          tenant'[t].kind = "business" /\ tenant'[t].cnpj = tenant[t].cnpj]_vars

\* The audit trail has one conversion for a business and none for a person, and
\* the staff's billing events add up to the lifetime flag.
AuditMatchesRows ==
    \A t \in Tenants :
        /\ converted[t] = IF tenant[t].kind = "business" THEN 1 ELSE 0
        /\ granted[t] = IF account[t].lifetime THEN 1 ELSE 0

\* A tenant is a business exactly if it has a CNPJ, and its rows are what the
\* audit trail tells (convert_to_business, change_lifetime_access).
IdentityIsAudited == TypeOK /\ AuditMatchesRows

\* Every transaction ends, although the lifetime command and the billing webhook
\* lock the tenant and its account in opposite orders.
TransactionsEnd == \A w \in Workers : tx[w].op # "idle" ~> tx[w].op = "idle"
=============================================================================
