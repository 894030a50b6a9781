--------------------------- MODULE BillingWebhook ---------------------------
(***************************************************************************)
(* The billing account of one tenant and the events the payment provider   *)
(* reports about it: the event ledger of receive_webhook, checkout and     *)
(* synchronisation, grace periods, the file allowance's period, and the    *)
(* team that a downgrade to a single seat cuts down.                       *)
(*                                                                         *)
(* The provider delivers an event at least once, in any order, to any      *)
(* worker.  receive_webhook handles it in several transactions; the last   *)
(* one reads the account before it locks it, and the session keeps that    *)
(* copy: the attributes a handler sees are the ones read first, and only   *)
(* the columns it changed are written back (Merged).                       *)
(*                                                                         *)
(* Left out: columns that are only shown (the end of the period, a         *)
(* scheduled cancellation, amounts), the tenant's tax registration, which  *)
(* a business plan's events also refresh and nothing here reads, and the   *)
(* e-mails, whose failure is swallowed.                                    *)
(***************************************************************************)
EXTENDS Integers, Sequences, FiniteSets

CONSTANTS
  Workers,      \* worker processes of the Core API
  Kinds,        \* kinds of event the webhook endpoint is subscribed to
  Statuses,     \* statuses that the provider's subscriptions go through
  Plans,        \* products that can be bought
  Roles,        \* roles of members other than administrators
  MemberLimits, \* PLAN_MEMBER_LIMITS
  FileLimit,    \* PLAN_FILE_LIMITS, the same for every product
  GraceDays,    \* BILLING_GRACE_PERIOD_DAYS
  LostAnswers,  \* may an answer be lost on its way to the provider?
  MaxMember,    \* bound: members a team may ever have
  MaxTime,      \* bound: days
  MaxSub,       \* bound: subscriptions
  MaxCustomer,  \* bound: customers
  MaxEvents     \* bound: events the provider emits

AllKinds == {"checkout", "subscription", "paid", "failed"}
BusinessPlans == {"intermediate", "team"}
AllPlans == {"base"} \cup BusinessPlans

\* The provider's statuses that _subscription_status knows, and any other.
ProviderStatus == {"active", "trialing", "past_due", "incomplete", "unpaid",
                   "canceled", "incomplete_expired", "paused", "other"}

ASSUME KindsAssumption ==
  /\ Kinds \subseteq AllKinds /\ Plans \subseteq AllPlans
  /\ Statuses \subseteq ProviderStatus
  /\ Roles \subseteq {"member", "auditor"}
ASSUME LimitsAssumption ==
  /\ MemberLimits \in [BusinessPlans -> Nat \ {0}]
  /\ FileLimit \in Nat /\ GraceDays \in Nat \ {0} /\ LostAnswers \in BOOLEAN
ASSUME BoundsAssumption ==
  /\ MaxMember \in Nat \ {0} /\ MaxTime \in Nat \ {0} /\ MaxSub \in Nat \ {0}
  /\ MaxCustomer \in Nat \ {0} /\ MaxEvents \in Nat

VARIABLES
  account,    \* billing_accounts, the tenant's row
  ledger,     \* billing_events: the status of each event, "absent" before
  payments,   \* billing_payments: the status of each invoice
  member,     \* tenant_members, numbered in the order they joined
  tx,         \* the call each worker has in flight
  now,        \* the clock, for grace periods and the provider's stamps
  subs,       \* the provider: subscriptions
  sessions,   \* the provider: checkout sessions that may be paid
  customers,  \* the provider: customers created so far
  events,     \* the provider: events emitted, by identifier
  acked       \* the provider: events answered with 2xx, not sent again

rowVars == <<account, ledger, payments, member>>
providerVars == <<subs, sessions, customers, events, acked>>
vars == <<rowVars, tx, now, providerVars>>

(***************************************************************************)
(* Rows, events and calls in flight                                        *)
(***************************************************************************)

Members == 1..MaxMember
Times == 0..MaxTime
EventIds == 1..MaxEvents
Emitted == 1..Len(events)
Invoices == (1..MaxSub) \X (1..MaxTime)

AccountRow == [status: {"not_configured", "pending", "active", "past_due",
                        "unpaid", "cancelled", "paused"},
               product: AllPlans \cup {"none"}, sub: 0..MaxSub,
               customer: 0..MaxCustomer, grace: 0..(MaxTime + GraceDays),
               last: Times, files: 0..FileLimit, period: Times]
MemberRow == [role: {"none", "admin", "member", "auditor"}, active: BOOLEAN]
Subscription == [status: ProviderStatus \cup {"none"},
                 product: AllPlans \cup {"none"},
                 customer: 0..MaxCustomer, period: Times]
EventRow == [kind: AllKinds, created: Times, sub: 1..MaxSub,
             status: ProviderStatus, product: AllPlans,
             customer: 1..MaxCustomer, period: Times, cycle: BOOLEAN]

NewAccount == [status |-> "not_configured", product |-> "none", sub |-> 0,
               customer |-> 0, grace |-> 0, last |-> 0, files |-> 0,
               period |-> 0]
NoSubscription == [status |-> "none", product |-> "none", customer |-> 0,
                   period |-> 0]

Ops == {"idle", "read", "recorded", "seen", "failing", "checkout", "sync",
        "add", "team", "suspending"}   \* the last three: TenantTeam
Call == [op: Ops, event: 0..MaxEvents, fresh: BOOLEAN, known: BOOLEAN,
         seen: AccountRow, product: AllPlans \cup {"none"},
         sub: Subscription, out: SUBSET Members, user: 0..MaxMember,
         role: {"none", "admin", "member", "auditor"}]
Idle == [op |-> "idle", event |-> 0, fresh |-> FALSE, known |-> FALSE,
         seen |-> NewAccount, product |-> "none", sub |-> NoSubscription,
         out |-> {}, user |-> 0, role |-> "none"]

TypeOK ==
  /\ account \in AccountRow
  /\ ledger \in [EventIds -> {"absent", "received", "processed",
                              "ignored_stale", "failed"}]
  /\ payments \in [Invoices -> {"none", "paid", "failed"}]
  /\ member \in [Members -> MemberRow]
  /\ tx \in [Workers -> Call]
  /\ now \in 1..MaxTime
  /\ subs \in [1..MaxSub -> Subscription]
  /\ sessions \subseteq [customer: 1..MaxCustomer, product: AllPlans]
  /\ customers \in 0..MaxCustomer
  /\ events \in Seq(EventRow) /\ Len(events) <= MaxEvents
  /\ acked \subseteq EventIds

\* A tenant as provision_owner leaves it: its owner and an account.
Init ==
  /\ account = NewAccount
  /\ ledger = [e \in EventIds |-> "absent"]
  /\ payments = [i \in Invoices |-> "none"]
  /\ member = [m \in Members |->
                 IF m = 1 THEN [role |-> "admin", active |-> TRUE]
                          ELSE [role |-> "none", active |-> FALSE]]
  /\ tx = [w \in Workers |-> Idle]
  /\ now = 1
  /\ subs = [i \in 1..MaxSub |-> NoSubscription]
  /\ sessions = {} /\ customers = 0 /\ events = <<>> /\ acked = {}

(***************************************************************************)
(* What an account grants                                                  *)
(***************************************************************************)

\* _paid_access_enabled
PaidAccess(a) ==
  a.status = "active" \/ (a.status = "past_due" /\ a.grace > now)

\* member_limit: one seat without a business product.
MemberLimit(a) ==
  IF PaidAccess(a) /\ a.product \in BusinessPlans
  THEN MemberLimits[a.product] ELSE 1

\* business_features_enabled
BusinessFeatures(a) == a.product \in BusinessPlans /\ PaidAccess(a)

\* _subscription_requires_portal
RequiresPortal(a) ==
  a.sub # 0 /\ a.status \in {"active", "pending", "past_due", "unpaid", "paused"}

ActiveMembers == {m \in Members : member[m].active}
ActiveAdmins == {m \in ActiveMembers : member[m].role = "admin"}

\* The administrator that reconcile_single_member_plan keeps: the first to join.
FirstAdmin == CHOOSE m \in ActiveAdmins : \A n \in ActiveAdmins : m <= n

\* Mutant of Reconciled: an ended business plan keeps its seats.
ReconciledByProduct(a) ==
  IF a.product \in BusinessPlans \/ ActiveAdmins = {} THEN member
  ELSE [m \in Members |-> [member[m] EXCEPT !.active = @ /\ m = FirstAdmin]]

\* reconcile_single_member_plan: with one seat only that administrator stays.
Reconciled(a) ==
  IF MemberLimit(a) # 1 \/ ActiveAdmins = {} THEN member
  ELSE [m \in Members |-> [member[m] EXCEPT !.active = @ /\ m = FirstAdmin]]

(***************************************************************************)
(* _apply_event                                                            *)
(***************************************************************************)

\* Mutant of SubscriptionStatus: the provider's spelling is stored.
SubscriptionStatusVerbatim(s) == s

\* _subscription_status
SubscriptionStatus(s) ==
  CASE s \in {"active", "trialing"}             -> "active"
    [] s \in {"past_due", "incomplete"}         -> "past_due"
    [] s \in {"canceled", "incomplete_expired"} -> "cancelled"
    [] s \in {"unpaid", "paused"}               -> s
    [] OTHER                                    -> "not_configured"

\* Mutant of SyncUsagePeriod: a reset for a period that is not newer.
SyncUsagePeriodAlways(a, start, reset) ==
  [a EXCEPT !.files = IF reset THEN 0 ELSE @,
            !.period = IF a.period = 0 \/ reset THEN start ELSE @]

\* _sync_usage_period: only a renewal for a later period resets the usage.
SyncUsagePeriod(a, start, reset) ==
  LET later == reset /\ start > a.period IN
  [a EXCEPT !.files = IF later /\ a.period # 0 THEN 0 ELSE @,
            !.period = IF a.period = 0 \/ later THEN start ELSE @]

\* checkout.session.completed
CheckoutCompleted(a, e) ==
  [a EXCEPT !.customer = e.customer, !.sub = e.sub, !.product = e.product,
            !.status = IF @ = "active" THEN @ ELSE "pending"]

\* invoice.payment_succeeded
InvoicePaid(a, e) ==
  SyncUsagePeriod([a EXCEPT !.customer = e.customer, !.status = "active",
                            !.grace = 0], e.period, e.cycle)

\* Mutant of InvoiceFailed: every failure opens a grace period.
InvoiceFailedAgain(a, e) ==
  [a EXCEPT !.customer = e.customer, !.status = "past_due",
            !.grace = now + GraceDays]

\* invoice.payment_failed: the first failure opens the grace period.
InvoiceFailed(a, e) ==
  IF a.status # "past_due" \/ a.grace = 0
  THEN [a EXCEPT !.customer = e.customer, !.status = "past_due",
                 !.grace = now + GraceDays]
  ELSE [a EXCEPT !.customer = e.customer]

\* Mutant of Stale: no comparison of the provider's stamps.
NeverStale(a, e) == FALSE

\* An older customer.subscription event is not applied.
Stale(a, e) == e.kind = "subscription" /\ a.last # 0 /\ e.created < a.last

\* customer.subscription.*, also used by synchronize_account, which has no stamp.
SubscriptionChanged(a, sub, i, created) ==
  LET s == SubscriptionStatus(sub.status)
      b == [a EXCEPT !.customer = sub.customer, !.sub = i,
                     !.product = sub.product, !.status = s,
                     !.last = IF created # 0 THEN created ELSE @,
                     !.grace = CASE s = "past_due" /\ @ = 0 -> now + GraceDays
                                 [] s \in {"active", "cancelled", "unpaid",
                                           "paused"} -> 0
                                 [] OTHER -> @]
  IN  IF s = "active" THEN SyncUsagePeriod(b, sub.period, FALSE) ELSE b

\* What _apply_event makes of the account it sees.  A stale event has already
\* refreshed the customer when it is refused.
Applied(a, e) ==
  CASE Stale(a, e)            -> [a EXCEPT !.customer = e.customer]
    [] e.kind = "checkout"    -> CheckoutCompleted(a, e)
    [] e.kind = "paid"        -> InvoicePaid(a, e)
    [] e.kind = "failed"      -> InvoiceFailed(a, e)
    [] OTHER                  -> SubscriptionChanged(a, e, e.sub, e.created)

\* Mutant of Merged: every column is written back.
WholeRow(row, seen, new) == new

\* The UPDATE of a session: the columns whose value it changed.
Merged(row, seen, new) ==
  [c \in DOMAIN row |-> IF new[c] # seen[c] THEN new[c] ELSE row[c]]

(***************************************************************************)
(* receive_webhook                                                         *)
(***************************************************************************)

Settled == {"processed", "ignored_stale"}

\* Mutant of IsInvoice: only successful payments are recorded.
IsPaidInvoice(e) == events[e].kind = "paid"

\* The events that _apply_event records as payments.
IsInvoice(e) == events[e].kind \in {"paid", "failed"}

Begin(w, call) == tx[w].op = "idle" /\ tx' = [tx EXCEPT ![w] = call]
Continue(w, call) == tx' = [tx EXCEPT ![w] = call]
Finish(w) == tx' = [tx EXCEPT ![w] = Idle]

\* Mutant of AccountCalls: add_member without _lock_team.
AccountCallsOfBilling == {"sync"}

\* Calls that hold the account row between two steps.
AccountCalls == {"sync", "add"}

\* SELECT ... FOR UPDATE on the account row, and UPDATE of it.
AccountLocked == \E w \in Workers : tx[w].op \in AccountCalls

\* SELECT ... FOR UPDATE on the event row.
EventLocked(e) == \E w \in Workers : tx[w].op = "seen" /\ tx[w].event = e

\* An answer reaches the provider or is lost.
Answer(e) ==
  \/ acked' = acked \cup {e}
  \/ LostAnswers /\ acked' = acked

\* A delivery of an event that is already settled is a duplicate.
ReceiveDuplicate(w, e) ==
  /\ tx[w].op = "idle"
  /\ ledger[e] \in Settled
  /\ Answer(e)
  /\ UNCHANGED <<rowVars, tx, now, subs, sessions, customers, events>>

\* Mutant of Receive: an event that was only received counts as handled.
ReceiveOnlyNew(w, e) ==
  /\ ledger[e] = "absent"
  /\ Begin(w, [Idle EXCEPT !.op = "read", !.event = e, !.fresh = TRUE,
                           !.known = IsInvoice(e) =>
                                       account.customer = events[e].customer])
  /\ UNCHANGED <<rowVars, now, providerVars>>

\* The first reads: the event's status, and the tenant.  Invoices name no
\* tenant: it is looked up by customer.
Receive(w, e) ==
  /\ ledger[e] \notin Settled
  /\ Begin(w, [Idle EXCEPT !.op = "read", !.event = e,
                           !.fresh = ledger[e] = "absent",
                           !.known = IsInvoice(e) =>
                                       account.customer = events[e].customer])
  /\ UNCHANGED <<rowVars, now, providerVars>>

\* The provider cannot give the customer's business identity: 503.
IdentityUnavailable(w) ==
  /\ tx[w].op = "read"
  /\ events[tx[w].event].kind \in {"checkout", "subscription"}
  /\ events[tx[w].event].product \in BusinessPlans
  /\ Finish(w)
  /\ UNCHANGED <<rowVars, now, providerVars>>

\* The event is recorded as received, unless an earlier delivery did so.
Record(w) ==
  LET e == tx[w].event IN
  /\ tx[w].op = "read"
  /\ tx[w].fresh => ledger[e] = "absent"
  /\ ledger' = [ledger EXCEPT ![e] = IF tx[w].fresh THEN "received" ELSE @]
  /\ Continue(w, [tx[w] EXCEPT !.op = "recorded"])
  /\ UNCHANGED <<account, payments, member, now, providerVars>>

\* Another delivery recorded it meanwhile (IntegrityError): answered as a
\* duplicate.
RecordDuplicate(w) ==
  LET e == tx[w].event IN
  /\ tx[w].op = "read"
  /\ tx[w].fresh /\ ledger[e] # "absent"
  /\ Answer(e)
  /\ Finish(w)
  /\ UNCHANGED <<rowVars, now, subs, sessions, customers, events>>

\* The processing transaction locks the event and reads the account.
Process(w) ==
  /\ tx[w].op = "recorded"
  /\ ~EventLocked(tx[w].event)
  /\ ledger[tx[w].event] \notin Settled
  /\ Continue(w, [tx[w] EXCEPT !.op = "seen", !.seen = account])
  /\ UNCHANGED <<rowVars, now, providerVars>>

ProcessDuplicate(w) ==
  /\ tx[w].op = "recorded"
  /\ ~EventLocked(tx[w].event)
  /\ ledger[tx[w].event] \in Settled
  /\ Answer(tx[w].event)
  /\ Finish(w)
  /\ UNCHANGED <<rowVars, now, subs, sessions, customers, events>>

\* Then it locks the account, applies the event to the copy it holds and
\* commits.  An event of no known tenant is processed without effect.
Apply(w) ==
  LET e == tx[w].event
      ev == events[e]
      new == Applied(tx[w].seen, ev)
  IN
  /\ tx[w].op = "seen"
  /\ tx[w].known => ~AccountLocked
  /\ IF tx[w].known
     THEN /\ account' = Merged(account, tx[w].seen, new)
          /\ ledger' = [ledger EXCEPT ![e] = IF Stale(tx[w].seen, ev)
                                             THEN "ignored_stale"
                                             ELSE "processed"]
          /\ payments' = IF IsInvoice(e)
                         THEN [payments EXCEPT ![<<ev.sub, ev.period>>] = ev.kind]
                         ELSE payments
          /\ member' = IF ev.kind = "subscription" /\ ~Stale(tx[w].seen, ev)
                       THEN Reconciled(new) ELSE member
     ELSE /\ ledger' = [ledger EXCEPT ![e] = "processed"]
          /\ UNCHANGED <<account, payments, member>>
  /\ Answer(e)
  /\ Finish(w)
  /\ UNCHANGED <<now, subs, sessions, customers, events>>

\* An exception rolls the processing back ...
ApplyFails(w) ==
  /\ tx[w].op = "seen"
  /\ Continue(w, [tx[w] EXCEPT !.op = "failing"])
  /\ UNCHANGED <<rowVars, now, providerVars>>

\* ... and a new transaction marks the event as failed, whatever it is now.
MarkFailed(w) ==
  /\ tx[w].op = "failing"
  /\ ~EventLocked(tx[w].event)
  /\ ledger' = [ledger EXCEPT ![tx[w].event] = "failed"]
  /\ Finish(w)
  /\ UNCHANGED <<account, payments, member, now, providerVars>>

(***************************************************************************)
(* Checkout, synchronisation, usage                                        *)
(***************************************************************************)

\* create_checkout reads the account without locking it ...
CreateCheckout(w, p) ==
  /\ ~RequiresPortal(account)
  /\ ~(account.status = "active" /\ account.product = p)
  /\ Begin(w, [Idle EXCEPT !.op = "checkout", !.seen = account, !.product = p])
  /\ UNCHANGED <<rowVars, now, providerVars>>

\* ... creates a customer if it saw none, and a session, and commits.
CheckoutCommit(w) ==
  LET seen == tx[w].seen
      c == IF seen.customer = 0 THEN customers + 1 ELSE seen.customer
  IN
  /\ tx[w].op = "checkout"
  /\ c <= MaxCustomer
  /\ seen.customer = 0 => ~AccountLocked
  /\ customers' = IF seen.customer = 0 THEN c ELSE customers
  /\ account' = Merged(account, seen, [seen EXCEPT !.customer = c])
  /\ sessions' = sessions \cup {[customer |-> c, product |-> tx[w].product]}
  /\ Finish(w)
  /\ UNCHANGED <<ledger, payments, member, now, subs, events, acked>>

\* synchronize_account locks the account and asks the provider ...
Synchronize(w) ==
  /\ account.sub # 0
  /\ ~AccountLocked
  /\ Begin(w, [Idle EXCEPT !.op = "sync", !.sub = subs[account.sub]])
  /\ UNCHANGED <<rowVars, now, providerVars>>

\* ... and applies the answer as a subscription event without a stamp.
SynchronizeCommit(w) ==
  LET new == SubscriptionChanged(account, tx[w].sub, account.sub, 0) IN
  /\ tx[w].op = "sync"
  /\ account' = new
  /\ member' = Reconciled(new)
  /\ Finish(w)
  /\ UNCHANGED <<ledger, payments, now, providerVars>>

\* consume_document of a paid plan.
ConsumeDocument(w) ==
  /\ tx[w].op = "idle"
  /\ ~AccountLocked
  /\ PaidAccess(account)
  /\ account.files < FileLimit
  /\ account' = [account EXCEPT !.files = @ + 1]
  /\ UNCHANGED <<ledger, payments, member, tx, now, providerVars>>

\* A process dies, or a call to the provider fails: the open transaction rolls
\* back and nothing is answered.
Crash(w) ==
  /\ tx[w].op # "idle"
  /\ Finish(w)
  /\ UNCHANGED <<rowVars, now, providerVars>>

(***************************************************************************)
(* The payment provider, as the handlers see it                            *)
(***************************************************************************)

Event(kind, i, s, t, cycle) ==
  [kind |-> kind, created |-> t, sub |-> i, status |-> s.status,
   product |-> s.product, customer |-> s.customer, period |-> s.period,
   cycle |-> cycle]

\* The kinds of event the endpoint is subscribed to are sent, in this order.
Sent(k) == IF k \in Kinds THEN <<k>> ELSE <<>>

\* A change of subscription i at time t, and the events about it.
Change(i, s, t, new, cycle) ==
  /\ t <= MaxTime /\ s.status \in Statuses
  /\ Len(events) + Len(new) <= MaxEvents
  /\ now' = t
  /\ subs' = [subs EXCEPT ![i] = s]
  /\ events' = events \o [n \in 1..Len(new) |-> Event(new[n], i, s, t, cycle)]
  /\ UNCHANGED <<rowVars, tx, customers, acked>>

\* A customer completes a checkout session, the first payment included or not.
Pay(i, session, status, t) ==
  /\ subs[i].status = "none" /\ \A j \in 1..(i - 1) : subs[j].status # "none"
  /\ sessions' = sessions \ {session}
  /\ Change(i, [status |-> status, product |-> session.product,
                customer |-> session.customer, period |-> t], t,
            Sent("checkout") \o Sent("subscription")
              \o (IF status = "incomplete" THEN <<>> ELSE Sent("paid")), FALSE)

\* A renewal is paid or fails.
Renew(i, t, ok) ==
  /\ subs[i].status \in {"active", "trialing"} /\ t > subs[i].period
  /\ Change(i, [subs[i] EXCEPT !.period = t,
                               !.status = IF ok THEN "active" ELSE "past_due"],
            t, Sent(IF ok THEN "paid" ELSE "failed") \o Sent("subscription"), TRUE)
  /\ UNCHANGED sessions

\* A failed renewal, or a first payment, is paid after all.
Recover(i, t) ==
  /\ subs[i].status \in {"past_due", "incomplete"}
  /\ Change(i, [subs[i] EXCEPT !.status = "active"], t,
            Sent("paid") \o Sent("subscription"), subs[i].status = "past_due")
  /\ UNCHANGED sessions

Moves == {<<"active", "canceled">>, <<"active", "paused">>,
          <<"paused", "active">>, <<"past_due", "unpaid">>,
          <<"past_due", "canceled">>, <<"unpaid", "canceled">>,
          <<"trialing", "canceled">>, <<"trialing", "paused">>,
          <<"incomplete", "incomplete_expired">>, <<"active", "other">>}

\* A subscription changes status, or product, without an invoice.
Move(i, t, to, p) ==
  /\ \/ <<subs[i].status, to>> \in Moves /\ p = subs[i].product
     \/ subs[i].status = "active" /\ to = "active" /\ p # subs[i].product
  /\ Change(i, [subs[i] EXCEPT !.status = to, !.product = p], t,
            Sent("subscription"), FALSE)
  /\ UNCHANGED sessions

Tick ==
  /\ now < MaxTime
  /\ now' = now + 1
  /\ UNCHANGED <<rowVars, tx, providerVars>>

Provider ==
  \/ \E i \in 1..MaxSub, t \in {now, now + 1} :
       \/ \E session \in sessions, status \in {"active", "trialing", "incomplete"} :
            Pay(i, session, status, t)
       \/ \E ok \in BOOLEAN : Renew(i, t, ok)
       \/ Recover(i, t)
       \/ \E to \in ProviderStatus, p \in Plans : Move(i, t, to, p)
  \/ Tick

Webhook(w) ==
  \/ \E e \in Emitted : ReceiveDuplicate(w, e) \/ Receive(w, e)
  \/ IdentityUnavailable(w)
  \/ Record(w) \/ RecordDuplicate(w)
  \/ Process(w) \/ ProcessDuplicate(w)
  \/ Apply(w) \/ ApplyFails(w) \/ MarkFailed(w)

Billing(w) ==
  \/ Webhook(w)
  \/ \E p \in Plans : CreateCheckout(w, p)
  \/ CheckoutCommit(w)
  \/ Synchronize(w) \/ SynchronizeCommit(w)
  \/ ConsumeDocument(w)
  \/ Crash(w)

Next == Provider \/ \E w \in Workers : Billing(w)

Spec == Init /\ [][Next]_vars

\* The provider sends an unanswered event again until it is answered, worker
\* processes are scheduled, no error lasts for ever, and gunicorn kills a
\* worker whose call never ends.
FairSpec ==
  /\ Spec
  /\ \A e \in EventIds :
       SF_vars(e \notin acked /\ e \in Emitted /\ \E w \in Workers : Receive(w, e))
  /\ \A w \in Workers :
       /\ SF_vars(Record(w)) /\ SF_vars(Process(w)) /\ SF_vars(Apply(w))
       /\ WF_vars(Crash(w))

(***************************************************************************)
(* Properties                                                              *)
(***************************************************************************)

\* Once all these events are settled the account shows the subscription as one
\* of the newest of them does.
ShowsNewest(Known) ==
  LET Newest == {e \in Known : \A f \in Known :
                   events[f].created <= events[e].created}
  IN  (Known # {} /\ \A e \in Known : ledger[e] \in Settled) =>
        \E e \in Newest :
          /\ account.status = SubscriptionStatus(events[e].status)
          /\ account.product = events[e].product

\* The billing account is well formed and, whatever the order, the repetition
\* and the failures of deliveries, current when everything is settled
\* (receive_webhook, _apply_event, synchronize_account).
AccountIsCurrent == TypeOK /\ ShowsNewest(Emitted)

\* A delivery commits, and another call has changed one of these columns since
\* its session read the account: it judges the old values.
CommitsOldCopy(columns) ==
  \E w \in Workers :
    /\ tx[w].op = "seen" /\ tx[w].known
    /\ tx'[w].op = "idle" /\ ledger'[tx[w].event] \in Settled
    /\ \E c \in columns : tx[w].seen[c] # account[c]

\* A grace period that runs is not extended by another failed payment, a late
\* event or a synchronisation: it ends when the first failure said it would.
\* Only a delivery whose copy shows neither the failure nor the deadline opens
\* it again (_apply_event).
GraceIsNotExtended ==
  [][(account.status = "past_due" /\ account.grace # 0
        /\ account'.status = "past_due")
       => account'.grace = account.grace \/ CommitsOldCopy({"status", "grace"})]_vars

\* The file counter goes back only when a later billing period begins ...
ResetsOncePerPeriod ==
  account'.files < account.files =>
    account'.period > account.period \/ CommitsOldCopy({"period"})

\* ... and a period that follows another one begins at zero.
LaterPeriodResets ==
  account.period # 0 /\ account'.period # account.period =>
    account'.files = 0 \/ CommitsOldCopy({"period", "files"})

\* The file counter is reset once per billing period, however often and in
\* whatever order invoices are delivered and uploads are counted between; only
\* a delivery whose copy shows an older period or counter does otherwise
\* (_sync_usage_period, consume_document).
UsageResetsOncePerPeriod == [][ResetsOncePerPeriod /\ LaterPeriodResets]_vars

\* Every paid or failed invoice whose event is processed is in the
\* billing_payments ledger, through failures, crashes and repeated deliveries,
\* as long as two checkouts at once have not made two customers of the tenant:
\* the invoices of the one that the account forgot name no tenant.
PaymentsAreRecorded ==
  \A e \in Emitted :
    (events[e].kind \in {"paid", "failed"} /\ ledger[e] \in Settled) =>
      payments[<<events[e].sub, events[e].period>>] # "none" \/ customers > 1

\* Every event the provider emits is processed or ignored in the end, through
\* failures, crashes and lost answers.
EventsSettle ==
  \A e \in EventIds : (e \in Emitted) ~> (e \in Emitted /\ ledger[e] \in Settled)
=============================================================================
