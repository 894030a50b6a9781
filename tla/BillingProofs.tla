---------------------------- MODULE BillingProofs ----------------------------
(***************************************************************************)
(* Proofs about the billing account of a tenant, its webhooks and its      *)
(* team.  The type invariant and the links between the account, the calls  *)
(* in flight and the provider's subscriptions (BaseInv) hold for any       *)
(* number of workers; on them rest the seats of the team, the payment      *)
(* ledger, the grace period, the usage counter and the account's final     *)
(* state.  No theorem assumes how many workers there are, what the         *)
(* provider sends or how large a bound is.                                 *)
(***************************************************************************)
EXTENDS BillingHistory, FiniteSetTheorems, SequenceTheorems, TLAPS

-----------------------------------------------------------------------------
(* The base invariant *)

LiveSubscription == [status : ProviderStatus, product : AllPlans,
                     customer : 1..MaxCustomer, period : 1..MaxTime]

\* What a call in flight carries is there: its event was emitted, its product can
\* be bought, the subscription it fetched exists, the member it adds has a row.
SoundCall(c) ==
    /\ c.op \in {"read", "recorded", "seen", "failing"} => c.event \in Emitted
    /\ c.op = "checkout" => c.product \in AllPlans
    /\ c.op = "sync" => c.sub \in LiveSubscription /\ account.sub # 0
    /\ c.op = "add" => c.user \in Members
SoundCalls == \A w \in Workers : SoundCall(tx[w])

\* The provider's subscriptions do not vanish, and events are about them, of a
\* kind that is sent, and stamped in the past.
ProviderIsSound ==
    /\ \A i \in 1..MaxSub : subs[i].status # "none" => subs[i] \in LiveSubscription
    /\ \A e \in Emitted : /\ subs[events[e].sub].status # "none"
                          /\ events[e].kind \in Kinds
                          /\ events[e].period # 0 /\ events[e].created \in 1..now

\* The account names a subscription that exists.
AccountIsLinked == account.sub # 0 => subs[account.sub].status # "none"

BaseInv == TypeOK /\ SoundCalls /\ ProviderIsSound /\ AccountIsLinked

LEMMA IdleCall ==
  /\ Idle \in Call /\ SoundCall(Idle)
  /\ Idle.op = "idle"
<1>1. NewAccount \in AccountRow
  BY LimitsAssumption, BoundsAssumption DEF NewAccount, AccountRow, Times, AllPlans
<1>2. NoSubscription \in Subscription
  BY BoundsAssumption DEF NoSubscription, Subscription, Times
<1> QED
  BY <1>1, <1>2, BoundsAssumption DEF Idle, Call, Ops, SoundCall

LEMMA BaseInit == Init => BaseInv
<1> SUFFICES ASSUME Init PROVE BaseInv
  OBVIOUS
<1>1. NewAccount \in AccountRow /\ NewAccount.sub = 0
  BY LimitsAssumption, BoundsAssumption DEF NewAccount, AccountRow, Times, AllPlans
<1>2. NoSubscription \in Subscription /\ NoSubscription.status = "none"
  BY BoundsAssumption DEF NoSubscription, Subscription, Times
<1>3. member \in [Members -> MemberRow]
  BY DEF Init, MemberRow
<1>4. events = <<>> /\ Len(events) = 0 /\ Emitted = {} /\ events \in Seq(EventRow)
  BY DEF Init, Emitted
<1>5. TypeOK
  BY <1>1, <1>2, <1>3, <1>4, IdleCall, BoundsAssumption DEF Init, TypeOK
<1>6. ProviderIsSound /\ AccountIsLinked /\ SoundCalls
  BY <1>1, <1>2, <1>4, IdleCall DEF Init, ProviderIsSound, AccountIsLinked, SoundCalls
<1> QED
  BY <1>5, <1>6 DEF BaseInv

-----------------------------------------------------------------------------
(* What the operators of the account return *)

\* A column keeps what the row has, unless the session changed its value.
LEMMA MergedRow ==
  ASSUME NEW row \in AccountRow, NEW seen \in AccountRow, NEW new \in AccountRow
  PROVE  LET m == Merged(row, seen, new)
             Writes(c) == IF new[c] # seen[c] THEN new[c] ELSE row[c]
         IN  /\ m \in AccountRow
             /\ m.status = Writes("status") /\ m.product = Writes("product")
             /\ m.sub = Writes("sub") /\ m.customer = Writes("customer")
             /\ m.grace = Writes("grace") /\ m.last = Writes("last")
             /\ m.files = Writes("files") /\ m.period = Writes("period")
<1>1. DOMAIN row = {"status", "product", "sub", "customer", "grace", "last", "files", "period"}
  BY DEF AccountRow
<1> QED
  BY <1>1 DEF Merged, AccountRow

LEMMA SyncUsageRow ==
  ASSUME NEW a \in AccountRow, NEW start \in Times, NEW reset \in BOOLEAN
  PROVE  LET b == SyncUsagePeriod(a, start, reset) IN
         /\ b \in AccountRow
         /\ b.sub = a.sub /\ b.customer = a.customer /\ b.status = a.status
         /\ b.grace = a.grace /\ b.product = a.product /\ b.last = a.last
         /\ b.files = a.files \/ (b.files = 0 /\ b.period > a.period)
         /\ a.period # 0 /\ b.period # a.period => b.files = 0
<1>1. a.files \in 0..FileLimit /\ a.period \in Times /\ 0 \in 0..FileLimit
  BY LimitsAssumption DEF AccountRow
<1>2. start \in Nat /\ a.period \in Nat
  BY <1>1, BoundsAssumption DEF Times
<1>3. CASE reset /\ start > a.period
  BY <1>1, <1>2, <1>3 DEF SyncUsagePeriod, AccountRow
<1>4. CASE ~(reset /\ start > a.period)
  BY <1>1, <1>2, <1>4 DEF SyncUsagePeriod, AccountRow
<1> QED
  BY <1>3, <1>4

LEMMA SubscriptionChangedRow ==
  ASSUME NEW a \in AccountRow, NEW sub, sub.status \in ProviderStatus, sub.product \in AllPlans,
         sub.customer \in 1..MaxCustomer, sub.period \in Times,
         NEW i \in 1..MaxSub, NEW created \in Times, now \in 1..MaxTime
  PROVE  LET b == SubscriptionChanged(a, sub, i, created) IN
         /\ b \in AccountRow
         /\ b.sub = i /\ b.customer = sub.customer
         /\ b.status = SubscriptionStatus(sub.status) /\ b.product = sub.product
         /\ b.last = IF created # 0 THEN created ELSE a.last
         /\ b.files = a.files /\ (a.period # 0 => b.period = a.period)
         /\ a.status = "past_due" /\ a.grace # 0 /\ b.status = "past_due" => b.grace = a.grace
<1> DEFINE s == SubscriptionStatus(sub.status)
           g == CASE s = "past_due" /\ a.grace = 0 -> now + GraceDays
                  [] s \in {"active", "cancelled", "unpaid", "paused"} -> 0
                  [] OTHER -> a.grace
           b == [a EXCEPT !.customer = sub.customer, !.sub = i,
                          !.product = sub.product, !.status = s,
                          !.last = IF created # 0 THEN created ELSE @,
                          !.grace = g]
<1>1. s \in {"not_configured", "active", "past_due", "unpaid", "cancelled", "paused"}
  BY DEF SubscriptionStatus, ProviderStatus
<1>2. g \in 0..(MaxTime + GraceDays) /\ (s = "past_due" /\ a.grace # 0 => g = a.grace)
  <2>1. now + GraceDays \in 0..(MaxTime + GraceDays) /\ 0 \in 0..(MaxTime + GraceDays)
    BY BoundsAssumption, LimitsAssumption
  <2>2. a.grace \in 0..(MaxTime + GraceDays)
    BY DEF AccountRow
  <2>3. CASE s = "past_due" /\ a.grace = 0
    BY <2>1, <2>3
  <2>4. CASE s \in {"active", "cancelled", "unpaid", "paused"}
    BY <2>1, <2>4
  <2>5. CASE ~(s = "past_due" /\ a.grace = 0) /\ s \notin {"active", "cancelled", "unpaid", "paused"}
    BY <2>2, <2>5
  <2> QED
    BY <2>3, <2>4, <2>5
<1>3. SubscriptionChanged(a, sub, i, created) =
        IF s = "active" THEN SyncUsagePeriod(b, sub.period, FALSE) ELSE b
  BY DEF SubscriptionChanged
<1> HIDE DEF g, s
<1>4. sub.customer \in 0..MaxCustomer /\ i \in 0..MaxSub /\ sub.product \in AllPlans \cup {"none"}
  BY BoundsAssumption
<1>5. /\ b \in AccountRow
      /\ b.sub = i /\ b.customer = sub.customer /\ b.status = s /\ b.product = sub.product
      /\ b.last = (IF created # 0 THEN created ELSE a.last) /\ b.files = a.files
      /\ b.grace = g /\ b.period = a.period
  <2>1. (IF created # 0 THEN created ELSE a.last) \in Times
    BY DEF AccountRow
  <2> QED
    BY <1>1, <1>2, <1>4, <2>1 DEF AccountRow
<1> HIDE DEF b
<1>6. CASE s = "active"
  <2>1. /\ SyncUsagePeriod(b, sub.period, FALSE) \in AccountRow
        /\ SyncUsagePeriod(b, sub.period, FALSE).sub = b.sub
        /\ SyncUsagePeriod(b, sub.period, FALSE).customer = b.customer
        /\ SyncUsagePeriod(b, sub.period, FALSE).status = b.status
        /\ SyncUsagePeriod(b, sub.period, FALSE).product = b.product
        /\ SyncUsagePeriod(b, sub.period, FALSE).last = b.last
    BY <1>5, SyncUsageRow
  <2>2. /\ SyncUsagePeriod(b, sub.period, FALSE).files = b.files
        /\ b.period # 0 => SyncUsagePeriod(b, sub.period, FALSE).period = b.period
    BY <1>5 DEF SyncUsagePeriod, AccountRow
  <2> QED
    BY <1>3, <1>5, <1>6, <2>1, <2>2 DEF s
<1>7. CASE s # "active"
  BY <1>2, <1>3, <1>5, <1>7 DEF s
<1> QED
  BY <1>6, <1>7

LEMMA AppliedRow ==
  ASSUME NEW a \in AccountRow, NEW e \in EventRow, now \in 1..MaxTime
  PROVE  LET b == Applied(a, e) IN
         /\ b \in AccountRow
         /\ b.sub \in {a.sub, e.sub} /\ b.customer = e.customer
         /\ b.files = a.files \/ (b.files = 0 /\ b.period > a.period)
         /\ a.period # 0 /\ b.period # a.period => b.files = 0
         /\ a.status = "past_due" /\ a.grace # 0 /\ b.status = "past_due" => b.grace = a.grace
<1>1. /\ e.customer \in 1..MaxCustomer /\ e.customer \in 0..MaxCustomer
      /\ e.sub \in 1..MaxSub /\ e.sub \in 0..MaxSub /\ e.created \in Times /\ e.period \in Times
      /\ e.product \in AllPlans /\ e.status \in ProviderStatus /\ e.cycle \in BOOLEAN
      /\ e.kind \in AllKinds
  BY BoundsAssumption DEF EventRow
<1>2. CASE Stale(a, e)
  <2>1. Applied(a, e) = [a EXCEPT !.customer = e.customer]
    BY <1>2 DEF Applied, Stale
  <2> QED
    BY <1>1, <2>1 DEF AccountRow
<1>3. CASE ~Stale(a, e) /\ e.kind = "checkout"
  <2>1. Applied(a, e) = CheckoutCompleted(a, e)
    BY <1>3 DEF Applied
  <2> QED
    BY <1>1, <2>1 DEF CheckoutCompleted, AccountRow
<1>4. CASE ~Stale(a, e) /\ e.kind = "paid"
  <2> DEFINE c == [a EXCEPT !.customer = e.customer, !.status = "active", !.grace = 0]
  <2>1. 0 \in 0..(MaxTime + GraceDays)
    BY BoundsAssumption, LimitsAssumption
  <2>2. /\ c \in AccountRow /\ c.sub = a.sub /\ c.customer = e.customer /\ c.status = "active"
        /\ c.files = a.files /\ c.period = a.period
    BY <1>1, <2>1 DEF AccountRow
  <2>3. Applied(a, e) = SyncUsagePeriod(c, e.period, e.cycle)
    BY <1>4 DEF Applied, InvoicePaid
  <2> HIDE DEF c
  <2> QED
    BY <1>1, <1>4, <2>2, <2>3, SyncUsageRow
<1>5. CASE ~Stale(a, e) /\ e.kind = "failed"
  <2>1. Applied(a, e) = InvoiceFailed(a, e)
    BY <1>5 DEF Applied
  <2>2. now + GraceDays \in 0..(MaxTime + GraceDays)
    BY BoundsAssumption, LimitsAssumption
  <2> QED
    BY <1>1, <2>1, <2>2, ZenonT(60) DEF InvoiceFailed, AccountRow
<1>6. CASE ~Stale(a, e) /\ e.kind = "subscription"
  <2>1. Applied(a, e) = SubscriptionChanged(a, e, e.sub, e.created)
    BY <1>6 DEF Applied
  <2> QED
    BY <1>1, <2>1, SubscriptionChangedRow
<1> QED
  BY <1>1, <1>2, <1>3, <1>4, <1>5, <1>6 DEF AllKinds
-----------------------------------------------------------------------------
(* Steps of a worker *)

Ledger == [EventIds -> {"absent", "received", "processed", "ignored_stale", "failed"}]
PaymentRows == [Invoices -> {"none", "paid", "failed"}]
SessionRows == [customer : 1..MaxCustomer, product : AllPlans]

\* One worker's call changes to c; the clock, the subscriptions and the events stay.
WorkerStep(w, c) ==
    /\ UNCHANGED <<now, subs, events>>
    /\ tx' = [tx EXCEPT ![w] = c] /\ c \in Call /\ SoundCall(c)
    /\ acked' \subseteq EventIds

LEMMA EmittedFacts ==
  ASSUME TypeOK
  PROVE  /\ Emitted \subseteq EventIds
         /\ \A e \in Emitted : /\ events[e] \in EventRow
                               /\ events[e].sub \in 1..MaxSub /\ events[e].sub # 0
                               /\ events[e].customer \in 1..MaxCustomer
                               /\ events[e].period \in Times /\ events[e].kind \in AllKinds
<1>1. events \in Seq(EventRow) /\ Len(events) \in Nat /\ Len(events) <= MaxEvents
  BY DEF TypeOK
<1>2. Emitted \subseteq EventIds
  BY <1>1, BoundsAssumption DEF Emitted, EventIds
<1>3. \A e \in Emitted : events[e] \in EventRow
  BY <1>1 DEF Emitted
<1> QED
  BY <1>2, <1>3, BoundsAssumption DEF EventRow

LEMMA RowStep ==
  ASSUME BaseInv, NEW w \in Workers, NEW c, WorkerStep(w, c),
         account' \in AccountRow, account'.sub # 0 => subs[account'.sub].status # "none",
         account.sub # 0 => account'.sub # 0,
         ledger' \in Ledger, payments' \in PaymentRows, member' \in [Members -> MemberRow],
         sessions' \subseteq SessionRows, customers' \in 0..MaxCustomer
  PROVE  BaseInv'
<1>1. TypeOK'
  BY DEF BaseInv, TypeOK, WorkerStep, Ledger, PaymentRows, SessionRows
<1>2. Emitted' = Emitted
  BY DEF WorkerStep, Emitted
<1>3. ProviderIsSound' /\ AccountIsLinked'
  BY <1>2 DEF BaseInv, ProviderIsSound, AccountIsLinked, WorkerStep
<1>4. \A v \in Workers : tx'[v] = tx[v] \/ tx'[v] = c
  BY DEF BaseInv, TypeOK, WorkerStep
<1>5. SoundCalls'
  BY <1>2, <1>4 DEF BaseInv, SoundCalls, SoundCall, WorkerStep
<1> QED
  BY <1>1, <1>3, <1>5 DEF BaseInv

LEMMA RowFacts ==
  ASSUME BaseInv
  PROVE  /\ account \in AccountRow /\ (account.sub # 0 => subs[account.sub].status # "none")
         /\ ledger \in Ledger /\ payments \in PaymentRows /\ member \in [Members -> MemberRow]
         /\ sessions \subseteq SessionRows /\ customers \in 0..MaxCustomer
         /\ acked \subseteq EventIds /\ now \in 1..MaxTime
         /\ tx \in [Workers -> Call] /\ \A w \in Workers : tx[w] \in Call /\ SoundCall(tx[w])
BY DEF BaseInv, TypeOK, Ledger, PaymentRows, SessionRows, AccountIsLinked, SoundCalls

\* The rows stay.
LEMMA QuietStep ==
  ASSUME BaseInv, NEW w \in Workers, NEW c, WorkerStep(w, c),
         UNCHANGED <<account, ledger, payments, member, sessions, customers>>
  PROVE  BaseInv'
<1>1. /\ account' = account /\ ledger' = ledger /\ payments' = payments /\ member' = member
      /\ sessions' = sessions /\ customers' = customers
  OBVIOUS
<1> QED
  BY <1>1, RowFacts, RowStep

LEMMA ReceiveCall ==
  ASSUME BaseInv, NEW w \in Workers, NEW e \in Emitted, Receive(w, e)
  PROVE  \E c : WorkerStep(w, c) /\ c.op = "read" /\ c.event = e
                /\ (c.known <=> (IsInvoice(e) => account.customer = events[e].customer))
<1>1. PICK fresh \in BOOLEAN : fresh = (ledger[e] = "absent")
  OBVIOUS
<1>2. PICK known \in BOOLEAN : known = (IsInvoice(e) => account.customer = events[e].customer)
  OBVIOUS
<1> DEFINE c == [Idle EXCEPT !.op = "read", !.event = e, !.fresh = fresh, !.known = known]
<1>3. e \in 0..MaxEvents
  BY EmittedFacts, BoundsAssumption DEF BaseInv, EventIds
<1>4. c \in Call /\ c.op = "read" /\ c.event = e /\ c.known = known
  BY <1>3, IdleCall DEF Call, Ops
<1>5. tx' = [tx EXCEPT ![w] = c]
  BY <1>1, <1>2 DEF Receive, Begin
<1> HIDE DEF c
<1>6. SoundCall(c)
  BY <1>4 DEF SoundCall
<1>7. WorkerStep(w, c)
  BY <1>4, <1>5, <1>6, RowFacts DEF WorkerStep, Receive, providerVars
<1> QED
  BY <1>2, <1>4, <1>7

LEMMA FinishCall ==
  ASSUME BaseInv, NEW w \in Workers, Finish(w), UNCHANGED <<now, subs, events>>,
         acked' \subseteq EventIds
  PROVE  WorkerStep(w, Idle)
BY IdleCall DEF WorkerStep, Finish

LEMMA AnswerFacts ==
  ASSUME BaseInv, NEW e \in Emitted, Answer(e)
  PROVE  acked' \subseteq EventIds
BY EmittedFacts, RowFacts DEF Answer, BaseInv

LEMMA RecordCall ==
  ASSUME BaseInv, NEW w \in Workers, Record(w)
  PROVE  \E c : /\ WorkerStep(w, c) /\ c.op = "recorded" /\ c.event = tx[w].event
                /\ c.known = tx[w].known
<1>1. tx[w] \in Call /\ acked \subseteq EventIds /\ tx[w].event \in Emitted
  BY RowFacts DEF Record, SoundCall
<1> DEFINE c == [tx[w] EXCEPT !.op = "recorded"]
<1>2. c \in Call /\ c.op = "recorded" /\ c.event = tx[w].event /\ c.known = tx[w].known
  BY <1>1 DEF Call, Ops
<1>3. tx' = [tx EXCEPT ![w] = c]
  BY DEF Record, Continue
<1> HIDE DEF c
<1>4. WorkerStep(w, c)
  BY <1>1, <1>2, <1>3 DEF WorkerStep, SoundCall, Record, providerVars
<1> QED
  BY <1>2, <1>4

LEMMA ProcessCall ==
  ASSUME BaseInv, NEW w \in Workers, Process(w)
  PROVE  \E c : /\ WorkerStep(w, c) /\ c.op = "seen" /\ c.event = tx[w].event
                /\ c.known = tx[w].known /\ c.seen = account
<1>1. tx[w] \in Call /\ account \in AccountRow /\ acked \subseteq EventIds /\ tx[w].event \in Emitted
  BY RowFacts DEF Process, SoundCall
<1> DEFINE c == [tx[w] EXCEPT !.op = "seen", !.seen = account]
<1>2. /\ c \in Call /\ c.op = "seen" /\ c.event = tx[w].event /\ c.known = tx[w].known
      /\ c.seen = account
  BY <1>1 DEF Call, Ops
<1>3. tx' = [tx EXCEPT ![w] = c]
  BY DEF Process, Continue
<1> HIDE DEF c
<1>4. WorkerStep(w, c)
  BY <1>1, <1>2, <1>3 DEF WorkerStep, SoundCall, Process, providerVars
<1> QED
  BY <1>2, <1>4

LEMMA ApplyFailsCall ==
  ASSUME BaseInv, NEW w \in Workers, ApplyFails(w)
  PROVE  \E c : /\ WorkerStep(w, c) /\ c.op = "failing" /\ c.event = tx[w].event
                /\ c.known = tx[w].known
<1>1. tx[w] \in Call /\ acked \subseteq EventIds /\ tx[w].event \in Emitted
  BY RowFacts DEF ApplyFails, SoundCall
<1> DEFINE c == [tx[w] EXCEPT !.op = "failing"]
<1>2. c \in Call /\ c.op = "failing" /\ c.event = tx[w].event /\ c.known = tx[w].known
  BY <1>1 DEF Call, Ops
<1>3. tx' = [tx EXCEPT ![w] = c]
  BY DEF ApplyFails, Continue
<1> HIDE DEF c
<1>4. WorkerStep(w, c)
  BY <1>1, <1>2, <1>3 DEF WorkerStep, SoundCall, ApplyFails, providerVars
<1> QED
  BY <1>2, <1>4

\* Deliveries that change no row.
LEMMA QuietWebhook ==
  ASSUME BaseInv, NEW w \in Workers,
         \/ \E e \in Emitted : ReceiveDuplicate(w, e) \/ Receive(w, e)
         \/ IdentityUnavailable(w) \/ RecordDuplicate(w) \/ Process(w)
         \/ ProcessDuplicate(w) \/ ApplyFails(w)
  PROVE  BaseInv'
<1>1. tx[w] \in Call /\ SoundCall(tx[w]) /\ account \in AccountRow /\ acked \subseteq EventIds
  BY RowFacts
<1>2. ASSUME NEW e \in Emitted, ReceiveDuplicate(w, e) PROVE BaseInv'
  <2>1. tx' = [tx EXCEPT ![w] = tx[w]]
    BY <1>2, RowFacts DEF ReceiveDuplicate
  <2>2. WorkerStep(w, tx[w])
    BY <1>1, <1>2, <2>1, AnswerFacts DEF ReceiveDuplicate, WorkerStep
  <2> QED
    BY <1>2, <2>2, QuietStep DEF ReceiveDuplicate, rowVars
<1>3. ASSUME NEW e \in Emitted, Receive(w, e) PROVE BaseInv'
  BY <1>3, ReceiveCall, QuietStep DEF Receive, rowVars, providerVars
<1>4. CASE IdentityUnavailable(w)
  BY <1>1, <1>4, FinishCall, QuietStep DEF IdentityUnavailable, rowVars, providerVars
<1>5. CASE RecordDuplicate(w)
  <2>1. acked' \subseteq EventIds
    BY <1>1, <1>5, AnswerFacts DEF RecordDuplicate, SoundCall
  <2> QED
    BY <1>5, <2>1, FinishCall, QuietStep DEF RecordDuplicate, rowVars
<1>6. CASE Process(w)
  BY <1>6, ProcessCall, QuietStep DEF Process, rowVars, providerVars
<1>7. CASE ProcessDuplicate(w)
  <2>1. acked' \subseteq EventIds
    BY <1>1, <1>7, AnswerFacts DEF ProcessDuplicate, SoundCall
  <2> QED
    BY <1>7, <2>1, FinishCall, QuietStep DEF ProcessDuplicate, rowVars
<1>8. CASE ApplyFails(w)
  BY <1>8, ApplyFailsCall, QuietStep DEF ApplyFails, rowVars, providerVars
<1> QED
  BY <1>2, <1>3, <1>4, <1>5, <1>6, <1>7, <1>8

LEMMA LedgerSteps ==
  ASSUME BaseInv, NEW w \in Workers, Record(w) \/ MarkFailed(w)
  PROVE  BaseInv'
<1>1. PICK e \in Emitted : e = tx[w].event
  BY RowFacts DEF Record, MarkFailed, SoundCall
<1>2. e \in EventIds /\ account \in AccountRow
  BY EmittedFacts, RowFacts DEF BaseInv
<1>3. ledger' \in Ledger
  BY <1>1, <1>2, RowFacts DEF Record, MarkFailed, Ledger
<1>4. \E c : WorkerStep(w, c)
  BY RowFacts, RecordCall, FinishCall DEF MarkFailed, providerVars
<1> QED
  BY <1>3, <1>4, RowFacts, RowStep DEF Record, MarkFailed, providerVars

\* The members that stay are members that were there.
LEMMA ReconciledRows ==
  ASSUME member \in [Members -> MemberRow], NEW a
  PROVE  /\ Reconciled(a) \in [Members -> MemberRow]
         /\ \A m \in Members : Reconciled(a)[m].active => member[m].active
<1> DEFINE first == FirstAdmin
           g(m) == [member[m] EXCEPT !.active = @ /\ m = first]
<1>1. ASSUME NEW m \in Members
      PROVE  g(m) \in MemberRow /\ (g(m).active => member[m].active)
  <2> HIDE DEF first
  <2>1. member[m] \in MemberRow /\ member[m].active \in BOOLEAN
    BY DEF MemberRow
  <2>2. PICK b \in BOOLEAN : b = (member[m].active /\ m = first)
    OBVIOUS
  <2>3. [member[m] EXCEPT !.active = b] \in MemberRow /\ [member[m] EXCEPT !.active = b].active = b
    BY <2>1 DEF MemberRow
  <2> QED
    BY <2>1, <2>2, <2>3
<1>2. Reconciled(a) = member \/ Reconciled(a) = [m \in Members |-> g(m)]
  BY DEF Reconciled
<1> HIDE DEF first, g
<1> QED
  BY <1>1, <1>2

LEMMA ApplyStep ==
  ASSUME BaseInv, NEW w \in Workers, Apply(w)
  PROVE  BaseInv'
<1>1. PICK e \in Emitted : e = tx[w].event
  BY RowFacts DEF Apply, SoundCall
<1>2. PICK seen \in AccountRow : seen = tx[w].seen
  BY RowFacts DEF Call
<1>3. PICK ev \in EventRow : /\ ev = events[e] /\ ev.sub \in 1..MaxSub /\ ev.sub # 0
                             /\ ev.period \in Times /\ ev.kind \in AllKinds
  BY EmittedFacts DEF BaseInv
<1>4. WorkerStep(w, Idle)
  BY <1>1, AnswerFacts, FinishCall DEF Apply
<1>5. ledger' \in Ledger
  BY <1>1, EmittedFacts, RowFacts DEF Apply, Ledger, BaseInv
<1>6. CASE ~tx[w].known
  BY <1>4, <1>5, <1>6, RowFacts, RowStep DEF Apply
<1>7. CASE tx[w].known
  <2>1. PICK new \in AccountRow : new = Applied(seen, ev) /\ new.sub \in {seen.sub, ev.sub}
    BY AppliedRow, RowFacts
  <2>2. account' = Merged(account, seen, new)
    BY <1>1, <1>2, <1>3, <1>7, <2>1 DEF Apply
  <2>3. account' \in AccountRow /\ account'.sub \in {account.sub, ev.sub}
    BY <2>1, <2>2, RowFacts, MergedRow
  <2>4. /\ account'.sub # 0 => subs[account'.sub].status # "none"
        /\ account.sub # 0 => account'.sub # 0
    BY <1>1, <1>3, <2>3, RowFacts DEF BaseInv, ProviderIsSound
  <2>5. member' \in [Members -> MemberRow]
    BY <1>7, RowFacts, ReconciledRows DEF Apply
  <2>6. payments' \in PaymentRows
    <3>1. payments' = payments \/ (ev.kind \in {"paid", "failed"}
             /\ payments' = [payments EXCEPT ![<<ev.sub, ev.period>>] = ev.kind])
      BY <1>1, <1>3, <1>7 DEF Apply, IsInvoice
    <3> QED
      BY <3>1, RowFacts DEF PaymentRows
  <2> QED
    BY <1>4, <1>5, <2>3, <2>4, <2>5, <2>6, RowFacts, RowStep DEF Apply
<1> QED
  BY <1>6, <1>7
-----------------------------------------------------------------------------
(* Checkout, synchronisation, usage *)

LEMMA CreateCheckoutCall ==
  ASSUME BaseInv, NEW w \in Workers, NEW p \in Plans, CreateCheckout(w, p)
  PROVE  \E c : WorkerStep(w, c) /\ c.op = "checkout" /\ c.seen = account
<1> DEFINE c == [Idle EXCEPT !.op = "checkout", !.seen = account, !.product = p]
<1>1. p \in AllPlans /\ account \in AccountRow
  BY KindsAssumption, RowFacts
<1>2. c \in Call /\ c.op = "checkout" /\ c.product = p /\ c.seen = account
  BY <1>1, IdleCall DEF Call, Ops
<1>3. tx' = [tx EXCEPT ![w] = c]
  BY DEF CreateCheckout, Begin
<1> HIDE DEF c
<1>4. WorkerStep(w, c)
  BY <1>1, <1>2, <1>3, RowFacts DEF WorkerStep, SoundCall, CreateCheckout, providerVars
<1> QED
  BY <1>2, <1>4

LEMMA SynchronizeCall ==
  ASSUME BaseInv, NEW w \in Workers, Synchronize(w)
  PROVE  \E c : WorkerStep(w, c) /\ c.op = "sync" /\ c.sub = subs[account.sub]
<1>1. PICK s \in LiveSubscription : s = subs[account.sub]
  <2>1. account.sub \in 1..MaxSub
    BY RowFacts, BoundsAssumption DEF Synchronize, AccountRow
  <2> QED
    BY <2>1, RowFacts DEF BaseInv, ProviderIsSound, Synchronize
<1> DEFINE c == [Idle EXCEPT !.op = "sync", !.sub = s]
<1>2. s \in Subscription
  BY BoundsAssumption DEF LiveSubscription, Subscription, Times
<1>3. c \in Call /\ c.op = "sync" /\ c.sub = s
  BY <1>2, IdleCall DEF Call, Ops
<1>4. tx' = [tx EXCEPT ![w] = c]
  BY <1>1 DEF Synchronize, Begin
<1> HIDE DEF c
<1>5. WorkerStep(w, c)
  BY <1>3, <1>4, RowFacts DEF WorkerStep, SoundCall, Synchronize, providerVars
<1> QED
  BY <1>1, <1>3, <1>5

LEMMA QuietBilling ==
  ASSUME BaseInv, NEW w \in Workers,
         (\E p \in Plans : CreateCheckout(w, p)) \/ Synchronize(w) \/ Crash(w)
  PROVE  BaseInv'
<1>1. ASSUME NEW p \in Plans, CreateCheckout(w, p) PROVE BaseInv'
  BY <1>1, CreateCheckoutCall, QuietStep DEF CreateCheckout, rowVars, providerVars
<1>2. CASE Synchronize(w)
  BY <1>2, SynchronizeCall, QuietStep DEF Synchronize, rowVars, providerVars
<1>3. CASE Crash(w)
  BY <1>3, RowFacts, FinishCall, QuietStep DEF Crash, rowVars, providerVars
<1> QED
  BY <1>1, <1>2, <1>3

\* A checkout writes the customer and nothing else of the account.
LEMMA CheckoutFacts ==
  ASSUME BaseInv, NEW w \in Workers, CheckoutCommit(w)
  PROVE  \E c \in 1..MaxCustomer :
           /\ c = (IF tx[w].seen.customer = 0 THEN customers + 1 ELSE tx[w].seen.customer)
           /\ account' = IF tx[w].seen.customer = 0 THEN [account EXCEPT !.customer = c]
                                                    ELSE account
           /\ sessions' = sessions \cup {[customer |-> c, product |-> tx[w].product]}
           /\ customers' = IF tx[w].seen.customer = 0 THEN c ELSE customers
<1>1. PICK seen \in AccountRow : seen = tx[w].seen
  BY RowFacts DEF Call
<1>2. PICK c \in 1..MaxCustomer : c = IF seen.customer = 0 THEN customers + 1 ELSE seen.customer
  <2>1. customers \in Nat /\ seen.customer \in Nat
    BY RowFacts, BoundsAssumption DEF AccountRow
  <2> QED
    BY <1>1, <2>1, BoundsAssumption DEF CheckoutCommit
<1>3. /\ account' = Merged(account, seen, [seen EXCEPT !.customer = c])
      /\ sessions' = sessions \cup {[customer |-> c, product |-> tx[w].product]}
      /\ customers' = IF seen.customer = 0 THEN c ELSE customers
  BY <1>1, <1>2 DEF CheckoutCommit
<1>4. /\ account \in AccountRow
      /\ DOMAIN account = {"status", "product", "sub", "customer", "grace", "last", "files",
                           "period"}
  BY RowFacts DEF AccountRow
<1>5. account' = IF seen.customer = 0 THEN [account EXCEPT !.customer = c] ELSE account
  <2>1. CASE seen.customer = 0
    <3>1. c # 0
      BY BoundsAssumption
    <3> QED
      BY <1>3, <1>4, <2>1, <3>1 DEF Merged, AccountRow
  <2>2. CASE seen.customer # 0
    <3>1. c = seen.customer /\ [seen EXCEPT !.customer = c] = seen
      BY <1>2, <2>2 DEF AccountRow
    <3>2. account' = [k \in DOMAIN account |-> account[k]]
      BY <1>3, <3>1, SMTT(60) DEF Merged
    <3> QED
      BY <1>4, <2>2, <3>2 DEF AccountRow
  <2> QED
    BY <2>1, <2>2
<1> QED
  BY <1>1, <1>2, <1>3, <1>5

LEMMA CheckoutStep ==
  ASSUME BaseInv, NEW w \in Workers, CheckoutCommit(w)
  PROVE  BaseInv'
<1>1. PICK c \in 1..MaxCustomer :
           /\ account' = [account EXCEPT !.customer = c] \/ account' = account
           /\ sessions' = sessions \cup {[customer |-> c, product |-> tx[w].product]}
           /\ customers' = c \/ customers' = customers
  BY CheckoutFacts
<1>2. account' \in AccountRow /\ account'.sub = account.sub
  BY <1>1, RowFacts, BoundsAssumption DEF AccountRow
<1>3. sessions' \subseteq SessionRows
  <2>1. tx[w].product \in AllPlans
    BY RowFacts DEF CheckoutCommit, SoundCall
  <2> QED
    BY <1>1, <2>1, RowFacts DEF SessionRows
<1>4. customers' \in 0..MaxCustomer
  BY <1>1, RowFacts, BoundsAssumption
<1>5. WorkerStep(w, Idle)
  BY RowFacts, FinishCall DEF CheckoutCommit
<1> QED
  BY <1>2, <1>3, <1>4, <1>5, RowFacts, RowStep DEF CheckoutCommit

\* What synchronize_account makes of the account it has locked.
LEMMA SynchronizeFacts ==
  ASSUME BaseInv, NEW w \in Workers, SynchronizeCommit(w)
  PROVE  /\ account' \in AccountRow /\ account'.sub = account.sub
         /\ account'.customer = tx[w].sub.customer /\ account'.customer \in 1..MaxCustomer
         /\ account'.status = SubscriptionStatus(tx[w].sub.status)
         /\ account'.product = tx[w].sub.product
         /\ account'.last = account.last /\ account'.files = account.files
         /\ account.period # 0 => account'.period = account.period
         /\ account.status = "past_due" /\ account.grace # 0 /\ account'.status = "past_due"
              => account'.grace = account.grace
<1>1. PICK s \in LiveSubscription : s = tx[w].sub
  BY RowFacts DEF SynchronizeCommit, SoundCall
<1>2. PICK i \in 1..MaxSub : i = account.sub
  BY RowFacts, BoundsAssumption DEF AccountRow, SynchronizeCommit, SoundCall
<1>3. account' = SubscriptionChanged(account, s, i, 0)
  BY <1>1, <1>2 DEF SynchronizeCommit
<1>4. 0 \in Times
  BY BoundsAssumption DEF Times
<1> QED
  <2>1. s.period \in Times
    BY BoundsAssumption DEF LiveSubscription, Times
  <2> QED
    BY <1>1, <1>2, <1>3, <1>4, <2>1, RowFacts, SubscriptionChangedRow DEF LiveSubscription

LEMMA SynchronizeStep ==
  ASSUME BaseInv, NEW w \in Workers, SynchronizeCommit(w)
  PROVE  BaseInv'
<1>1. WorkerStep(w, Idle)
  BY RowFacts, FinishCall DEF SynchronizeCommit, providerVars
<1>2. member' \in [Members -> MemberRow]
  BY RowFacts, ReconciledRows DEF SynchronizeCommit
<1> QED
  BY <1>1, <1>2, SynchronizeFacts, RowFacts, RowStep DEF SynchronizeCommit, providerVars

LEMMA ConsumeStep ==
  ASSUME BaseInv, NEW w \in Workers, ConsumeDocument(w)
  PROVE  BaseInv'
<1>1. tx' = [tx EXCEPT ![w] = tx[w]]
  BY RowFacts DEF ConsumeDocument
<1>2. WorkerStep(w, tx[w])
  BY <1>1, RowFacts DEF ConsumeDocument, WorkerStep, providerVars
<1>3. account' \in AccountRow /\ account'.sub = account.sub
  BY RowFacts, LimitsAssumption DEF ConsumeDocument, AccountRow
<1> QED
  BY <1>2, <1>3, RowFacts, RowStep DEF ConsumeDocument, providerVars

-----------------------------------------------------------------------------
(* The provider *)

\* new is made of kinds of event the endpoint is subscribed to.
SentOnly(new) == new \in Seq(AllKinds) /\ \A n \in 1..Len(new) : new[n] \in Kinds
Holds(new, k) == \E n \in 1..Len(new) : new[n] = k

\* Events of kinds new, about subscription i as s, are appended.
Appended(i, s, t, new, cycle) ==
    /\ Len(events') = Len(events) + Len(new)
    /\ \A e \in 1..Len(events) : events'[e] = events[e]
    /\ \A n \in 1..Len(new) : events'[Len(events) + n] = Event(new[n], i, s, t, cycle)
    /\ \A e \in 1..Len(events') :
         e \notin 1..Len(events) =>
           \E n \in 1..Len(new) : e = Len(events) + n /\ events'[e] = Event(new[n], i, s, t, cycle)

LEMMA EventType ==
  ASSUME NEW k \in AllKinds, NEW i \in 1..MaxSub, NEW s \in LiveSubscription,
         NEW t \in Times, NEW cycle \in BOOLEAN
  PROVE  Event(k, i, s, t, cycle) \in EventRow
BY BoundsAssumption DEF Event, EventRow, LiveSubscription, Times

LEMMA ChangeAppends ==
  ASSUME BaseInv, NEW i \in 1..MaxSub, NEW s \in LiveSubscription,
         NEW t \in {now, now + 1}, NEW new \in Seq(AllKinds), NEW cycle \in BOOLEAN,
         Change(i, s, t, new, cycle)
  PROVE  /\ t \in 1..MaxTime /\ t \in Times /\ Len(new) \in Nat
         /\ Appended(i, s, t, new, cycle)
         /\ events' \in Seq(EventRow) /\ Len(events') <= MaxEvents
<1>1. t \in 1..MaxTime /\ t \in Times
  BY RowFacts, BoundsAssumption DEF Change, Times
<1> DEFINE added == [n \in 1..Len(new) |-> Event(new[n], i, s, t, cycle)]
<1>2. Len(new) \in Nat /\ \A n \in 1..Len(new) : Event(new[n], i, s, t, cycle) \in EventRow
  BY <1>1, EventType
<1>3. added \in Seq(EventRow) /\ Len(added) = Len(new)
  BY <1>2
<1>4. \A n \in 1..Len(new) : added[n] = Event(new[n], i, s, t, cycle)
  OBVIOUS
<1>5. events' = events \o added /\ Len(events) + Len(new) <= MaxEvents
  BY DEF Change
<1> HIDE DEF added
<1>6. events \in Seq(EventRow) /\ Len(events) \in Nat
  BY DEF BaseInv, TypeOK
<1>7. /\ events' \in Seq(EventRow) /\ Len(events') = Len(events) + Len(new)
      /\ \A e \in 1..(Len(events) + Len(new)) :
           events'[e] = IF e <= Len(events) THEN events[e] ELSE added[e - Len(events)]
  <2>1. PICK old \in Seq(EventRow) : old = events
    BY <1>6
  <2>2. PICK more \in Seq(EventRow) : more = added
    BY <1>3
  <2>3. /\ old \o more \in Seq(EventRow) /\ Len(old \o more) = Len(old) + Len(more)
        /\ \A e \in 1..(Len(old) + Len(more)) :
             (old \o more)[e] = IF e <= Len(old) THEN old[e] ELSE more[e - Len(old)]
    BY ConcatProperties
  <2>4. events' = old \o more /\ Len(more) = Len(new) /\ Len(old) = Len(events)
    BY <1>3, <1>5, <2>1, <2>2
  <2> QED
    BY <2>1, <2>2, <2>3, <2>4
<1>8. \A e \in 1..Len(events) : events'[e] = events[e]
  BY <1>2, <1>6, <1>7
<1>9. \A n \in 1..Len(new) : events'[Len(events) + n] = Event(new[n], i, s, t, cycle)
  BY <1>2, <1>4, <1>6, <1>7
<1>10. ASSUME NEW e \in 1..Len(events'), e \notin 1..Len(events)
       PROVE  \E n \in 1..Len(new) : e = Len(events) + n /\ events'[e] = Event(new[n], i, s, t, cycle)
  <2>1. e - Len(events) \in 1..Len(new) /\ e = Len(events) + (e - Len(events))
    BY <1>2, <1>6, <1>7, <1>10
  <2> QED
    BY <2>1, <1>9
<1> QED
  BY <1>1, <1>2, <1>5, <1>7, <1>8, <1>9, <1>10 DEF Appended

LEMMA ChangeStep ==
  ASSUME BaseInv, NEW i \in 1..MaxSub, NEW s \in LiveSubscription,
         NEW t \in {now, now + 1}, NEW new \in Seq(AllKinds), NEW cycle \in BOOLEAN,
         Change(i, s, t, new, cycle), sessions' \subseteq sessions, SentOnly(new)
  PROVE  BaseInv'
<1>1. /\ t \in 1..MaxTime /\ t \in Times /\ Len(new) \in Nat
      /\ Appended(i, s, t, new, cycle)
      /\ events' \in Seq(EventRow) /\ Len(events') <= MaxEvents
  BY ChangeAppends
<1>2. s \in Subscription /\ s.status # "none" /\ s.status \in ProviderStatus
  BY BoundsAssumption DEF LiveSubscription, Subscription, ProviderStatus, Times
<1>3. /\ subs' = [subs EXCEPT ![i] = s] /\ now' = t /\ UNCHANGED <<rowVars, tx, customers, acked>>
  BY DEF Change
<1>4. subs' \in [1..MaxSub -> Subscription] /\ \A j \in 1..MaxSub : subs'[j] = IF j = i THEN s ELSE subs[j]
  BY <1>2, <1>3 DEF BaseInv, TypeOK
<1>5. TypeOK'
  BY <1>1, <1>3, <1>4 DEF BaseInv, TypeOK, rowVars
<1>6. \A j \in 1..MaxSub : subs[j].status # "none" => subs'[j].status # "none"
  BY <1>2, <1>4
<1>7. Len(events) \in Nat /\ Emitted \subseteq Emitted'
  BY <1>1 DEF BaseInv, TypeOK, Appended, Emitted
<1>8. ASSUME NEW e \in Emitted'
      PROVE  /\ subs'[events'[e].sub].status # "none"
             /\ events'[e].kind \in Kinds
             /\ events'[e].period # 0 /\ events'[e].created \in 1..now'
  <2>1. CASE e \in Emitted
    <3>1. events[e].sub \in 1..MaxSub /\ events'[e] = events[e]
      BY <1>1, <2>1, EmittedFacts DEF BaseInv, Appended, Emitted
    <3>2. now \in Nat /\ now' >= now /\ now' \in Nat
      BY <1>1, <1>3, RowFacts, BoundsAssumption
    <3> QED
      BY <1>6, <2>1, <3>1, <3>2 DEF BaseInv, ProviderIsSound
  <2>2. CASE e \notin Emitted
    <3>1. PICK n \in 1..Len(new) : events'[e] = Event(new[n], i, s, t, cycle)
      BY <1>1, <1>8, <2>2 DEF Appended, Emitted
    <3>2. /\ events'[e].sub = i /\ events'[e].kind = new[n] /\ events'[e].created = t
          /\ events'[e].period = s.period
      BY <3>1 DEF Event
    <3>3. s.period # 0 /\ new[n] \in Kinds /\ t \in 1..now'
      BY <1>1, <1>3, BoundsAssumption DEF LiveSubscription, SentOnly
    <3> QED
      BY <1>2, <1>4, <3>2, <3>3
  <2> QED
    BY <2>1, <2>2
<1>9. ProviderIsSound'
  <2>1. \A j \in 1..MaxSub : subs'[j].status # "none" => subs'[j] \in LiveSubscription
    BY <1>4 DEF BaseInv, ProviderIsSound
  <2> QED
    BY <1>8, <2>1 DEF ProviderIsSound
<1>10. AccountIsLinked'
  <2>1. account' = account /\ account.sub \in 0..MaxSub
    BY <1>3, RowFacts DEF rowVars, AccountRow
  <2>2. account.sub # 0 => account.sub \in 1..MaxSub
    BY <2>1, BoundsAssumption
  <2> QED
    BY <1>6, <2>1, <2>2, RowFacts DEF AccountIsLinked
<1>11. SoundCalls'
  BY <1>3, <1>7 DEF BaseInv, SoundCalls, SoundCall, rowVars
<1> QED
  BY <1>5, <1>9, <1>10, <1>11 DEF BaseInv

\* Every change at the provider is a Change with a live subscription.
IsChange ==
    \E i \in 1..MaxSub, s \in LiveSubscription, t \in {now, now + 1},
       new \in Seq(AllKinds), cycle \in BOOLEAN :
         /\ Change(i, s, t, new, cycle) /\ sessions' \subseteq sessions
         /\ \/ subs[i].status # "none" /\ s.customer = subs[i].customer
            \/ \E session \in sessions : s.customer = session.customer
         /\ SentOnly(new) /\ ("subscription" \in Kinds => Holds(new, "subscription"))

LEMMA OneSent ==
  ASSUME NEW k \in AllKinds
  PROVE  SentOnly(Sent(k)) /\ (k \in Kinds => Holds(Sent(k), k))
<1>1. CASE k \in Kinds
  <2>1. Sent(k) = <<k>> /\ Len(<<k>>) = 1 /\ <<k>>[1] = k /\ <<k>> \in Seq(AllKinds)
    BY <1>1 DEF Sent
  <2>2. \A n \in 1..1 : n = 1
    OBVIOUS
  <2> QED
    BY <1>1, <2>1, <2>2 DEF SentOnly, Holds
<1>2. CASE k \notin Kinds
  <2>1. Sent(k) = <<>> /\ Len(<<>>) = 0 /\ <<>> \in Seq(AllKinds)
    BY <1>2 DEF Sent
  <2> QED
    BY <1>2, <2>1 DEF SentOnly, Holds
<1> QED
  BY <1>1, <1>2

LEMMA SentTogether ==
  ASSUME NEW a, NEW b, SentOnly(a), SentOnly(b)
  PROVE  /\ SentOnly(a \o b)
         /\ \A k \in AllKinds : Holds(a, k) \/ Holds(b, k) => Holds(a \o b, k)
<1>1. /\ a \in Seq(AllKinds) /\ b \in Seq(AllKinds) /\ Len(a) \in Nat /\ Len(b) \in Nat
      /\ \A n \in 1..Len(a) : a[n] \in Kinds
      /\ \A n \in 1..Len(b) : b[n] \in Kinds
  BY DEF SentOnly
<1>2. /\ a \o b \in Seq(AllKinds) /\ Len(a \o b) = Len(a) + Len(b)
      /\ \A n \in 1..(Len(a) + Len(b)) : (a \o b)[n] = IF n <= Len(a) THEN a[n] ELSE b[n - Len(a)]
  BY <1>1, ConcatProperties
<1>3. \A n \in 1..Len(a \o b) : (a \o b)[n] \in Kinds
  BY <1>1, <1>2
<1>4. ASSUME NEW k \in AllKinds, NEW n \in 1..Len(a), a[n] = k PROVE Holds(a \o b, k)
  <2>1. n \in 1..(Len(a) + Len(b)) /\ n <= Len(a)
    BY <1>1
  <2> QED
    BY <1>2, <1>4, <2>1 DEF Holds
<1>5. ASSUME NEW k \in AllKinds, NEW n \in 1..Len(b), b[n] = k PROVE Holds(a \o b, k)
  <2>1. Len(a) + n \in 1..(Len(a) + Len(b)) /\ ~(Len(a) + n <= Len(a)) /\ (Len(a) + n) - Len(a) = n
    BY <1>1
  <2> QED
    BY <1>2, <1>5, <2>1 DEF Holds
<1> QED
  BY <1>2, <1>3, <1>4, <1>5 DEF SentOnly, Holds

LEMMA SentKindsOnly ==
  /\ SentOnly(Sent("checkout") \o Sent("subscription") \o Sent("paid"))
  /\ SentOnly(Sent("checkout") \o Sent("subscription"))
  /\ SentOnly(Sent("paid") \o Sent("subscription"))
  /\ SentOnly(Sent("failed") \o Sent("subscription"))
  /\ SentOnly(Sent("subscription"))
  /\ "subscription" \in Kinds =>
       /\ Holds(Sent("checkout") \o Sent("subscription") \o Sent("paid"), "subscription")
       /\ Holds(Sent("checkout") \o Sent("subscription"), "subscription")
       /\ Holds(Sent("paid") \o Sent("subscription"), "subscription")
       /\ Holds(Sent("failed") \o Sent("subscription"), "subscription")
       /\ Holds(Sent("subscription"), "subscription")
<1>1. {"checkout", "subscription", "paid", "failed"} \subseteq AllKinds
  BY DEF AllKinds
<1>2. /\ SentOnly(Sent("checkout")) /\ SentOnly(Sent("subscription"))
      /\ SentOnly(Sent("paid")) /\ SentOnly(Sent("failed"))
      /\ "subscription" \in Kinds => Holds(Sent("subscription"), "subscription")
  BY <1>1, OneSent
<1>3. /\ SentOnly(Sent("paid") \o Sent("subscription"))
      /\ SentOnly(Sent("failed") \o Sent("subscription"))
      /\ SentOnly(Sent("checkout") \o Sent("subscription"))
      /\ "subscription" \in Kinds =>
           /\ Holds(Sent("paid") \o Sent("subscription"), "subscription")
           /\ Holds(Sent("failed") \o Sent("subscription"), "subscription")
           /\ Holds(Sent("checkout") \o Sent("subscription"), "subscription")
  BY <1>1, <1>2, SentTogether
<1>4. /\ SentOnly((Sent("checkout") \o Sent("subscription")) \o Sent("paid"))
      /\ "subscription" \in Kinds =>
           Holds((Sent("checkout") \o Sent("subscription")) \o Sent("paid"), "subscription")
  BY <1>1, <1>2, <1>3, SentTogether
<1> QED
  BY <1>2, <1>3, <1>4

LEMMA LiveSub ==
  ASSUME BaseInv, NEW i \in 1..MaxSub, subs[i].status # "none"
  PROVE  subs[i] \in LiveSubscription
BY DEF BaseInv, ProviderIsSound

LEMMA PayIsChange ==
  ASSUME BaseInv, NEW i \in 1..MaxSub, NEW t \in {now, now + 1}, NEW session \in sessions,
         NEW status \in {"active", "trialing", "incomplete"}, Pay(i, session, status, t)
  PROVE  IsChange
<1>1. t \in 1..MaxTime
  BY RowFacts, BoundsAssumption DEF Pay, Change
<1> DEFINE s == [status |-> status, product |-> session.product,
                 customer |-> session.customer, period |-> t]
           first == Sent("checkout") \o Sent("subscription")
<1>2. session.product \in AllPlans /\ session.customer \in 1..MaxCustomer
  BY RowFacts DEF SessionRows
<1>3. s \in LiveSubscription /\ s.customer = session.customer
  BY <1>1, <1>2 DEF LiveSubscription, ProviderStatus
<1>4. PICK new : /\ new = first \o (IF status = "incomplete" THEN <<>> ELSE Sent("paid"))
                 /\ Change(i, s, t, new, FALSE) /\ sessions' \subseteq sessions
  BY DEF Pay
<1>5. new \in {first, first \o Sent("paid")}
  <2>1. first \in Seq(AllKinds)
    BY SentKindsOnly DEF SentOnly
  <2>2. first \o <<>> = first
    BY <2>1, ConcatEmptySeq
  <2> QED
    BY <1>4, <2>2
<1>6. new \in Seq(AllKinds) /\ SentOnly(new) /\ ("subscription" \in Kinds => Holds(new, "subscription"))
  BY <1>5, SentKindsOnly DEF SentOnly
<1> HIDE DEF s, first
<1> QED
  BY <1>3, <1>4, <1>6 DEF IsChange

LEMMA RenewIsChange ==
  ASSUME BaseInv, NEW i \in 1..MaxSub, NEW t \in {now, now + 1}, NEW ok \in BOOLEAN,
         Renew(i, t, ok)
  PROVE  IsChange
<1>1. t \in 1..MaxTime
  BY RowFacts, BoundsAssumption DEF Renew, Change
<1>2. PICK status \in {"active", "past_due"} : status = IF ok THEN "active" ELSE "past_due"
  OBVIOUS
<1>3. PICK kind \in {"paid", "failed"} : kind = IF ok THEN "paid" ELSE "failed"
  OBVIOUS
<1> DEFINE s == [subs[i] EXCEPT !.period = t, !.status = status]
           new == Sent(kind) \o Sent("subscription")
<1>4. subs[i] \in LiveSubscription
  BY LiveSub DEF Renew
<1>5. s \in LiveSubscription /\ subs[i].status # "none" /\ s.customer = subs[i].customer
  BY <1>1, <1>4 DEF LiveSubscription, ProviderStatus
<1>6. Change(i, s, t, new, TRUE) /\ sessions' \subseteq sessions
  BY <1>2, <1>3 DEF Renew
<1>7. new \in Seq(AllKinds) /\ SentOnly(new) /\ ("subscription" \in Kinds => Holds(new, "subscription"))
  BY <1>3, SentKindsOnly DEF SentOnly
<1> HIDE DEF s, new
<1> QED
  BY <1>5, <1>6, <1>7 DEF IsChange

LEMMA RecoverIsChange ==
  ASSUME BaseInv, NEW i \in 1..MaxSub, NEW t \in {now, now + 1}, Recover(i, t)
  PROVE  IsChange
<1> DEFINE s == [subs[i] EXCEPT !.status = "active"]
           new == Sent("paid") \o Sent("subscription")
<1>1. subs[i] \in LiveSubscription
  BY LiveSub DEF Recover
<1>2. s \in LiveSubscription /\ subs[i].status # "none" /\ s.customer = subs[i].customer
  BY <1>1 DEF LiveSubscription, ProviderStatus
<1>3. PICK cycle \in BOOLEAN : Change(i, s, t, new, cycle) /\ sessions' \subseteq sessions
  BY DEF Recover
<1>4. new \in Seq(AllKinds) /\ SentOnly(new) /\ ("subscription" \in Kinds => Holds(new, "subscription"))
  BY SentKindsOnly DEF SentOnly
<1> HIDE DEF s, new
<1> QED
  BY <1>2, <1>3, <1>4 DEF IsChange

LEMMA MoveIsChange ==
  ASSUME BaseInv, NEW i \in 1..MaxSub, NEW t \in {now, now + 1}, NEW to \in ProviderStatus,
         NEW p \in Plans, Move(i, t, to, p)
  PROVE  IsChange
<1> DEFINE s == [subs[i] EXCEPT !.status = to, !.product = p]
           new == Sent("subscription")
<1>1. subs[i].status # "none"
  BY DEF Move, Moves
<1>2. subs[i] \in LiveSubscription /\ p \in AllPlans
  BY <1>1, LiveSub, KindsAssumption
<1>3. s \in LiveSubscription /\ s.customer = subs[i].customer
  BY <1>2 DEF LiveSubscription
<1>4. Change(i, s, t, new, FALSE) /\ sessions' \subseteq sessions
  BY DEF Move
<1>5. new \in Seq(AllKinds) /\ SentOnly(new) /\ ("subscription" \in Kinds => Holds(new, "subscription"))
  BY SentKindsOnly DEF SentOnly
<1> HIDE DEF s, new
<1> QED
  BY <1>1, <1>3, <1>4, <1>5 DEF IsChange

LEMMA ProviderSteps ==
  ASSUME BaseInv, Provider
  PROVE  IsChange \/ Tick
BY PayIsChange, RenewIsChange, RecoverIsChange, MoveIsChange DEF Provider

LEMMA ProviderStep ==
  ASSUME BaseInv, Provider
  PROVE  BaseInv'
<1>1. CASE IsChange
  BY <1>1, ChangeStep DEF IsChange
<1>2. CASE Tick
  <2>1. /\ now' \in 1..MaxTime
        /\ UNCHANGED <<account, ledger, payments, member, tx, subs, sessions, customers, events, acked>>
    BY <1>2, RowFacts, BoundsAssumption DEF Tick, rowVars, providerVars
  <2>2. Emitted' = Emitted
    BY <2>1 DEF Emitted
  <2>3. TypeOK'
    BY <2>1 DEF BaseInv, TypeOK
  <2>4. SoundCalls' /\ AccountIsLinked'
    BY <2>1, <2>2 DEF BaseInv, SoundCalls, SoundCall, AccountIsLinked
  <2>5. \A x \in 1..now : x \in 1..now'
    BY <1>2, RowFacts, BoundsAssumption DEF Tick
  <2>6. ProviderIsSound'
    BY <2>1, <2>2, <2>5 DEF BaseInv, ProviderIsSound
  <2> QED
    BY <2>3, <2>4, <2>6 DEF BaseInv
<1> QED
  BY <1>1, <1>2, ProviderSteps

LEMMA BillingStep ==
  ASSUME BaseInv, NEW w \in Workers, Billing(w)
  PROVE  BaseInv'
<1>1. CASE Webhook(w)
  BY <1>1, QuietWebhook, LedgerSteps, ApplyStep DEF Webhook
<1>2. CASE ~Webhook(w)
  BY <1>2, QuietBilling, CheckoutStep, SynchronizeStep, ConsumeStep DEF Billing
<1> QED
  BY <1>1, <1>2

-----------------------------------------------------------------------------
(* The team *)

\* The administrator that stays is one of them.
LEMMA FirstAdminIs ==
  ASSUME ActiveAdmins # {}
  PROVE  FirstAdmin \in ActiveAdmins
<1>1. ASSUME NEW T \in SUBSET Nat, T # {} PROVE \E x \in T : \A y \in T : x <= y
  <2> DEFINE R == OpToRel(<, Nat)
  <2>1. IsWellFoundedOn(R, Nat)
    BY NatLessThanWellFounded
  <2>2. \A x, y \in Nat : y < x => <<y, x>> \in R
    BY DEF OpToRel
  <2> HIDE DEF R
  <2>3. PICK x \in T : \A y \in T : ~(<<y, x>> \in R)
    BY <1>1, <2>1, WFMin
  <2>4. ASSUME NEW y \in T PROVE x <= y
    <3>1. x \in Nat /\ y \in Nat /\ ~(y < x)
      BY <1>1, <2>2, <2>3
    <3> QED
      BY <3>1
  <2> QED
    BY <2>4
<1>2. ActiveAdmins \in SUBSET Nat
  BY DEF ActiveAdmins, ActiveMembers, Members
<1>3. \E m \in ActiveAdmins : \A n \in ActiveAdmins : m <= n
  BY <1>1, <1>2
<1> QED
  BY <1>3 DEF FirstAdmin

LEMMA AddMemberCall ==
  ASSUME BaseInv, NEW w \in Workers, NEW a \in Members, NEW m \in Members,
         NEW role \in {"admin"} \cup Roles, AddMember(w, a, m, role)
  PROVE  \E c : WorkerStep(w, c) /\ c.op = "add" /\ c.user = m
<1> DEFINE c == [Idle EXCEPT !.op = "add", !.user = m, !.role = role]
<1>1. role \in {"none", "admin", "member", "auditor"} /\ m \in 0..MaxMember
  BY KindsAssumption, BoundsAssumption DEF Members
<1>2. c \in Call /\ c.op = "add" /\ c.user = m
  BY <1>1, IdleCall DEF Call, Ops
<1>3. tx' = [tx EXCEPT ![w] = c]
  BY DEF AddMember, Begin
<1> HIDE DEF c
<1>4. WorkerStep(w, c)
  BY <1>2, <1>3, RowFacts DEF WorkerStep, SoundCall, AddMember, providerVars
<1> QED
  BY <1>2, <1>4

LEMMA TeamPageCall ==
  ASSUME BaseInv, NEW w \in Workers, (\E a \in Members : ReadTeam(w, a)) \/ ReadTeamMembers(w)
  PROVE  \E c : /\ WorkerStep(w, c) /\ c.op \in {"team", "suspending"}
                /\ c.op = "suspending" =>
                     ActiveAdmins # {} /\ c.out = ActiveMembers \ {FirstAdmin}
<1>1. CASE \E a \in Members : ReadTeam(w, a)
  <2> DEFINE c == [Idle EXCEPT !.op = "team"]
  <2>1. c \in Call /\ c.op = "team"
    BY IdleCall DEF Call, Ops
  <2>2. tx' = [tx EXCEPT ![w] = c]
    BY <1>1 DEF ReadTeam, Begin
  <2> HIDE DEF c
  <2>3. WorkerStep(w, c)
    BY <1>1, <2>1, <2>2, RowFacts DEF WorkerStep, SoundCall, ReadTeam, providerVars
  <2> QED
    BY <2>1, <2>3
<1>2. CASE ReadTeamMembers(w)
  <2>1. PICK out \in SUBSET Members : out = ActiveMembers \ {FirstAdmin}
    BY DEF ActiveMembers
  <2> DEFINE c == [Idle EXCEPT !.op = "suspending", !.out = out]
  <2>2. c \in Call /\ c.op = "suspending" /\ c.out = out
    BY IdleCall DEF Call, Ops
  <2>3. tx' = [tx EXCEPT ![w] = c]
    BY <1>2, <2>1 DEF ReadTeamMembers, Continue
  <2> HIDE DEF c
  <2>4. WorkerStep(w, c)
    BY <1>2, <2>2, <2>3, RowFacts DEF WorkerStep, SoundCall, ReadTeamMembers, providerVars
  <2> QED
    BY <1>2, <2>1, <2>2, <2>4 DEF ReadTeamMembers
<1> QED
  BY <1>1, <1>2

\* The members as they are when their activity is set to on(m).
LEMMA ActivityRows ==
  ASSUME member \in [Members -> MemberRow], NEW on \in [Members -> BOOLEAN]
  PROVE  /\ [m \in Members |-> [member[m] EXCEPT !.active = on[m]]] \in [Members -> MemberRow]
         /\ \A m \in Members :
              [n \in Members |-> [member[n] EXCEPT !.active = on[n]]][m].active = on[m]
<1> DEFINE g(m) == [member[m] EXCEPT !.active = on[m]]
<1>1. ASSUME NEW m \in Members PROVE g(m) \in MemberRow /\ g(m).active = on[m]
  BY DEF MemberRow
<1>2. [m \in Members |-> [member[m] EXCEPT !.active = on[m]]] = [m \in Members |-> g(m)]
  OBVIOUS
<1> HIDE DEF g
<1> QED
  BY <1>1, <1>2

LEMMA UpdateTeamRows ==
  ASSUME BaseInv, NEW w \in Workers, NEW a \in Members, NEW selected \in SUBSET Members,
         UpdateTeam(w, a, selected)
  PROVE  member' \in [Members -> MemberRow] /\ ActiveMembers' = selected
<1>1. PICK on \in [Members -> BOOLEAN] : on = [m \in Members |-> m \in selected]
  <2>1. \A m \in Members : (m \in selected) \in BOOLEAN
    OBVIOUS
  <2>2. [m \in Members |-> m \in selected] \in [Members -> BOOLEAN]
    BY <2>1, Zenon
  <2> QED
    BY <2>2, Zenon
<1>2. member' = [m \in Members |-> [member[m] EXCEPT !.active = on[m]]]
  BY <1>1 DEF UpdateTeam
<1>3. member' \in [Members -> MemberRow] /\ \A m \in Members : member'[m].active = on[m]
  BY <1>2, RowFacts, ActivityRows
<1> QED
  BY <1>1, <1>3 DEF ActiveMembers

LEMMA SuspendRows ==
  ASSUME BaseInv, NEW w \in Workers, ReadTeamCommit(w)
  PROVE  member' \in [Members -> MemberRow] /\ ActiveMembers' \subseteq ActiveMembers
<1>1. PICK on \in [Members -> BOOLEAN] :
        on = [m \in Members |-> member[m].active /\ m \notin tx[w].out]
  OBVIOUS
<1>2. member' = [m \in Members |-> [member[m] EXCEPT !.active = on[m]]]
  BY <1>1 DEF ReadTeamCommit
<1>3. member' \in [Members -> MemberRow] /\ \A m \in Members : member'[m].active = on[m]
  BY <1>2, RowFacts, ActivityRows
<1> QED
  BY <1>1, <1>3 DEF ActiveMembers

LEMMA AddedRows ==
  ASSUME BaseInv, NEW w \in Workers, AddMemberCommit(w)
  PROVE  member' \in [Members -> MemberRow] /\ ActiveMembers' = ActiveMembers \cup {tx[w].user}
<1>1. tx[w].user \in Members /\ tx[w].role \in {"none", "admin", "member", "auditor"}
  BY RowFacts DEF AddMemberCommit, SoundCall, Call
<1>2. member' \in [Members -> MemberRow]
  BY <1>1, RowFacts DEF AddMemberCommit, MemberRow
<1>3. \A m \in Members : member'[m].active = IF m = tx[w].user THEN TRUE ELSE member[m].active
  BY <1>1, RowFacts DEF AddMemberCommit
<1> QED
  BY <1>1, <1>2, <1>3 DEF ActiveMembers

LEMMA RoleRows ==
  ASSUME BaseInv, NEW w \in Workers, NEW a \in Members, NEW m \in Members, NEW role \in Roles,
         UpdateMemberRole(w, a, m, role)
  PROVE  member' \in [Members -> MemberRow] /\ ActiveMembers' = ActiveMembers
<1>1. role \in {"none", "admin", "member", "auditor"}
  BY KindsAssumption
<1> DEFINE row == [member[m] EXCEPT !.role = role]
<1>2. row \in MemberRow /\ row.active = member[m].active
  BY <1>1, RowFacts DEF MemberRow
<1>3. member' = [member EXCEPT ![m] = row]
  BY RowFacts DEF UpdateMemberRole
<1> HIDE DEF row
<1>4. member' \in [Members -> MemberRow]
  BY <1>2, <1>3, RowFacts
<1>5. \A n \in Members : member'[n].active = member[n].active
  BY <1>2, <1>3, RowFacts
<1> QED
  BY <1>4, <1>5 DEF ActiveMembers

LEMMA TeamBase ==
  ASSUME BaseInv, NEW w \in Workers, TeamStep(w)
  PROVE  BaseInv'
<1>1. ASSUME NEW a \in Members, NEW m \in Members, NEW role \in {"admin"} \cup Roles,
             AddMember(w, a, m, role)
      PROVE  BaseInv'
  BY <1>1, AddMemberCall, QuietStep DEF AddMember, rowVars, providerVars
<1>2. ASSUME NEW a \in Members, NEW m \in Members, NEW role \in Roles,
             UpdateMemberRole(w, a, m, role)
      PROVE  BaseInv'
  <2>1. tx' = [tx EXCEPT ![w] = tx[w]]
    BY <1>2, RowFacts DEF UpdateMemberRole
  <2>2. WorkerStep(w, tx[w])
    BY <1>2, <2>1, RowFacts DEF UpdateMemberRole, WorkerStep, providerVars
  <2> QED
    BY <1>2, <2>2, RowFacts, RoleRows, RowStep DEF UpdateMemberRole, providerVars
<1>3. ASSUME NEW a \in Members, NEW selected \in SUBSET Members, UpdateTeam(w, a, selected)
      PROVE  BaseInv'
  <2>1. tx' = [tx EXCEPT ![w] = tx[w]]
    BY <1>3, RowFacts DEF UpdateTeam
  <2>2. WorkerStep(w, tx[w])
    BY <1>3, <2>1, RowFacts DEF UpdateTeam, WorkerStep, providerVars
  <2> QED
    BY <1>3, <2>2, RowFacts, UpdateTeamRows, RowStep DEF UpdateTeam, providerVars
<1>4. CASE (\E a \in Members : ReadTeam(w, a)) \/ ReadTeamMembers(w)
  BY <1>4, TeamPageCall, QuietStep DEF ReadTeam, ReadTeamMembers, rowVars, providerVars
<1>5. CASE AddMemberCommit(w)
  <2>1. WorkerStep(w, Idle)
    BY <1>5, RowFacts, FinishCall DEF AddMemberCommit, providerVars
  <2> QED
    BY <1>5, <2>1, RowFacts, AddedRows, RowStep DEF AddMemberCommit, providerVars
<1>6. CASE ReadTeamCommit(w)
  <2>1. WorkerStep(w, Idle)
    BY <1>6, RowFacts, FinishCall DEF ReadTeamCommit, providerVars
  <2> QED
    BY <1>6, <2>1, RowFacts, SuspendRows, RowStep DEF ReadTeamCommit, providerVars
<1> QED
  BY <1>1, <1>2, <1>3, <1>4, <1>5, <1>6 DEF TeamStep

LEMMA BaseStep == BaseInv /\ [TeamNext]_vars => BaseInv'
<1> SUFFICES ASSUME BaseInv, [TeamNext]_vars PROVE BaseInv'
  OBVIOUS
<1>1. CASE TeamNext
  BY <1>1, ProviderStep, BillingStep, TeamBase DEF TeamNext, Next
<1>2. CASE UNCHANGED vars
  <2>1. UNCHANGED <<account, ledger, payments, member, tx, now, subs, sessions, customers, events, acked>>
    BY <1>2 DEF vars, rowVars, providerVars
  <2>2. Emitted' = Emitted
    BY <2>1 DEF Emitted
  <2>3. TypeOK'
    BY <2>1 DEF BaseInv, TypeOK
  <2>4. SoundCalls' /\ ProviderIsSound' /\ AccountIsLinked'
    BY <2>1, <2>2 DEF BaseInv, SoundCalls, SoundCall, ProviderIsSound, AccountIsLinked
  <2> QED
    BY <2>3, <2>4 DEF BaseInv
<1> QED
  BY <1>1, <1>2

LEMMA BillingIsTeam == [Next]_vars => [TeamNext]_vars
BY DEF TeamNext

\* The rows, the calls in flight and the provider's subscriptions are well formed
\* and linked, for any number of workers and any bounds.
THEOREM BaseInvariant == TeamSpec => []BaseInv
<1>1. Init => BaseInv
  BY BaseInit
<1>2. BaseInv /\ [TeamNext]_vars => BaseInv'
  BY BaseStep
<1> QED
  BY <1>1, <1>2, PTL DEF TeamSpec

\* The handlers of the team do not change what the billing ones do.
LEMMA BillingSpecIsTeamSpec == Spec => TeamSpec
BY BillingIsTeam, PTL DEF Spec, TeamSpec

-----------------------------------------------------------------------------
(* Seats: whoever joins holds the account's lock from the check to the insert *)

Seats == IF account.product \in BusinessPlans THEN MemberLimits[account.product] ELSE 1

\* The row lock of the account has one holder.
OneHolder ==
  \A v, w \in Workers :
    tx[v].op \in AccountCalls /\ tx[w].op \in AccountCalls => v = w

\* The seat that add_member found free is free until it commits.
SeatIsKept ==
  \A w \in Workers : tx[w].op = "add" => Cardinality(ActiveMembers) < Seats

SeatInv == OneHolder /\ SeatIsKept

\* What a worker's step means for the lock, the plan and the seats.
SeatEffect(w, c) ==
  /\ tx' = [tx EXCEPT ![w] = c] /\ c \in Call
  /\ c.op \in AccountCalls =>
       \/ c.op = tx[w].op /\ tx' = tx
       \/ /\ ~AccountLocked /\ UNCHANGED <<account, member>>
          /\ c.op = "add" => Cardinality(ActiveMembers) < Seats
  /\ account'.product = account.product \/ ~AccountLocked \/ (tx[w].op = "sync" /\ c.op = "idle")
  /\ \/ ActiveMembers' \subseteq ActiveMembers
     \/ /\ account' = account
        /\ \/ /\ tx[w].op = "add" /\ c.op = "idle"
              /\ ActiveMembers' = ActiveMembers \cup {tx[w].user}
           \/ /\ ~AccountLocked /\ tx' = tx
              /\ Cardinality(ActiveMembers') <= Seats

LEMMA SeatTypes ==
  ASSUME BaseInv
  PROVE  /\ Seats \in Nat /\ Seats >= 1 /\ MemberLimit(account) <= Seats
         /\ IsFiniteSet(ActiveMembers) /\ Cardinality(ActiveMembers) \in Nat
<1>1. account.product \in BusinessPlans => MemberLimits[account.product] \in Nat \ {0}
  BY LimitsAssumption
<1>2. IsFiniteSet(Members)
  BY BoundsAssumption, FS_Interval DEF Members
<1>3. IsFiniteSet(ActiveMembers)
  BY <1>2, FS_Subset DEF ActiveMembers
<1>4. Cardinality(ActiveMembers) \in Nat
  BY <1>3, FS_CardinalityType
<1>5. MemberLimit(account) = Seats \/ MemberLimit(account) = 1
  BY DEF MemberLimit, Seats
<1> QED
  BY <1>1, <1>3, <1>4, <1>5 DEF Seats

LEMMA CountWithin ==
  ASSUME NEW S, NEW T, IsFiniteSet(T), S \subseteq T
  PROVE  IsFiniteSet(S) /\ Cardinality(S) <= Cardinality(T)
         /\ Cardinality(S) \in Nat /\ Cardinality(T) \in Nat
BY FS_Subset, FS_CardinalityType

\* A newcomer finds a seat, and the lock and the seat are kept.
LEMMA SeatsKept ==
  ASSUME BaseInv, SeatInv, NEW w \in Workers, NEW c, SeatEffect(w, c)
  PROVE  SeatInv' /\ NewcomersFindSeats
<1>1. tx \in [Workers -> Call] /\ tx'[w] = c /\ \A v \in Workers : v # w => tx'[v] = tx[v]
  BY RowFacts DEF SeatEffect
<1>2. "idle" \notin AccountCalls /\ "sync" \in AccountCalls /\ "add" \in AccountCalls
  BY DEF AccountCalls
<1>3. OneHolder'
  <2>1. CASE c.op \in AccountCalls /\ tx' # tx
    <3>1. \A v \in Workers : tx[v].op \notin AccountCalls
      BY <2>1 DEF SeatEffect, AccountLocked
    <3> QED
      BY <1>1, <3>1 DEF OneHolder
  <2>2. CASE c.op \notin AccountCalls
    BY <1>1, <2>2 DEF SeatInv, OneHolder
  <2>3. CASE tx' = tx
    BY <2>3 DEF SeatInv, OneHolder
  <2> QED
    BY <2>1, <2>2, <2>3
<1> DEFINE before == Cardinality(ActiveMembers)
           after == Cardinality(ActiveMembers')
           seats == Seats
<1>4. seats \in Nat /\ before \in Nat /\ IsFiniteSet(ActiveMembers) /\ seats >= 1
  BY SeatTypes
<1>5. account'.product = account.product => Seats' = seats
  BY DEF Seats
<1>6. ActiveMembers' \subseteq ActiveMembers => after <= before /\ after \in Nat
  <2>1. PICK S : S = ActiveMembers'
    OBVIOUS
  <2>2. PICK T : T = ActiveMembers
    OBVIOUS
  <2> QED
    BY <1>4, <2>1, <2>2, CountWithin
<1>7. SeatIsKept'
  <2> SUFFICES ASSUME NEW v \in Workers, tx'[v].op = "add"
               PROVE  after < Seats'
    BY DEF SeatIsKept
  <2>1. CASE tx[v].op = "add"
    <3>1. AccountLocked /\ before < seats
      BY <1>2, <2>1 DEF AccountLocked, SeatInv, SeatIsKept
    <3>2. v = w => c.op = "add"
      BY <1>1
    <3>3. tx[w].op # "sync"
      BY <1>2, <2>1, <3>2 DEF SeatInv, OneHolder
    <3>4. account'.product = account.product
      BY <3>1, <3>3 DEF SeatEffect
    <3>5. ~(tx[w].op = "add" /\ c.op = "idle")
      BY <1>2, <2>1, <3>2 DEF SeatInv, OneHolder
    <3>6. ActiveMembers' \subseteq ActiveMembers
      BY <3>1, <3>5 DEF SeatEffect
    <3> HIDE DEF before, after, seats
    <3> QED
      BY <1>4, <1>5, <1>6, <3>1, <3>4, <3>6
  <2>2. CASE tx[v].op # "add"
    <3>1. v = w /\ c.op = "add" /\ tx' # tx
      BY <1>1, <2>2
    <3>2. before < seats /\ account' = account /\ ActiveMembers' = ActiveMembers
      BY <1>2, <3>1 DEF SeatEffect, ActiveMembers
    <3> QED
      BY <1>5, <3>2
  <2> QED
    BY <2>1, <2>2
<1>8. NewcomersFindSeats
  <2> SUFFICES ASSUME NEW m \in Members, member'[m].active, ~member[m].active
               PROVE  after <= seats
    BY DEF NewcomersFindSeats, Seats
  <2>1. ~(ActiveMembers' \subseteq ActiveMembers)
    BY DEF ActiveMembers
  <2>2. CASE tx[w].op = "add" /\ ActiveMembers' = ActiveMembers \cup {tx[w].user}
    <3>1. before < seats
      BY <2>2 DEF SeatInv, SeatIsKept
    <3>2. PICK u : u = tx[w].user
      OBVIOUS
    <3>3. PICK A : A = ActiveMembers
      OBVIOUS
    <3>4. Cardinality(A \cup {u}) = IF u \in A THEN Cardinality(A) ELSE Cardinality(A) + 1
      BY <1>4, <3>3, FS_AddElement
    <3>5. after = Cardinality(A \cup {u}) /\ before = Cardinality(A)
      BY <2>2, <3>2, <3>3
    <3> HIDE DEF before, after, seats
    <3> QED
      BY <1>4, <3>1, <3>4, <3>5
  <2> QED
    BY <2>1, <2>2 DEF SeatEffect
<1> QED
  BY <1>3, <1>7, <1>8 DEF SeatInv

LEMMA SeatQuiet ==
  ASSUME BaseInv, NEW w \in Workers, NEW c, WorkerStep(w, c), UNCHANGED <<account, member>>,
         c.op \notin AccountCalls \/ c = tx[w]
  PROVE  SeatEffect(w, c)
<1>1. ActiveMembers' = ActiveMembers
  BY DEF ActiveMembers
<1>2. c = tx[w] => tx' = tx
  BY RowFacts DEF WorkerStep
<1> QED
  BY <1>1, <1>2 DEF SeatEffect, WorkerStep

\* The account's lock is free, or the plan stays; nobody joins.
LEMMA SeatShrinks ==
  ASSUME BaseInv, NEW w \in Workers, NEW c, WorkerStep(w, c),
         c.op \notin AccountCalls \/ c = tx[w],
         account'.product = account.product \/ ~AccountLocked \/ (tx[w].op = "sync" /\ c.op = "idle"),
         \A m \in Members : member'[m].active => member[m].active
  PROVE  SeatEffect(w, c)
<1>1. ActiveMembers' \subseteq ActiveMembers
  BY DEF ActiveMembers
<1>2. c = tx[w] => tx' = tx
  BY RowFacts DEF WorkerStep
<1> QED
  BY <1>1, <1>2 DEF SeatEffect, WorkerStep

LEMMA WebhookSeats ==
  ASSUME BaseInv, NEW w \in Workers, Webhook(w)
  PROVE  \E c : SeatEffect(w, c)
<1>1. /\ tx[w] \in Call /\ SoundCall(tx[w]) /\ account \in AccountRow /\ acked \subseteq EventIds
      /\ "idle" \notin AccountCalls
      /\ \A op \in {"read", "recorded", "seen", "failing"} : op \notin AccountCalls
  BY RowFacts DEF AccountCalls
<1>2. ASSUME NEW e \in Emitted, ReceiveDuplicate(w, e) PROVE SeatEffect(w, tx[w])
  <2>1. tx' = [tx EXCEPT ![w] = tx[w]]
    BY <1>2, RowFacts DEF ReceiveDuplicate
  <2>2. WorkerStep(w, tx[w])
    BY <1>1, <1>2, <2>1, AnswerFacts DEF ReceiveDuplicate, WorkerStep
  <2> QED
    BY <1>2, <2>2, SeatQuiet DEF ReceiveDuplicate, rowVars
<1>3. ASSUME NEW e \in Emitted, Receive(w, e) PROVE \E c : SeatEffect(w, c)
  BY <1>1, <1>3, ReceiveCall, SeatQuiet DEF Receive, rowVars
<1>4. CASE IdentityUnavailable(w)
  BY <1>1, <1>4, IdleCall, FinishCall, SeatQuiet DEF IdentityUnavailable, rowVars, providerVars
<1>5. CASE RecordDuplicate(w)
  <2>1. acked' \subseteq EventIds
    BY <1>1, <1>5, AnswerFacts DEF RecordDuplicate, SoundCall
  <2> QED
    BY <1>1, <1>5, <2>1, IdleCall, FinishCall, SeatQuiet DEF RecordDuplicate, rowVars
<1>6. CASE Process(w)
  BY <1>1, <1>6, ProcessCall, SeatQuiet DEF Process, rowVars
<1>7. CASE ProcessDuplicate(w)
  <2>1. acked' \subseteq EventIds
    BY <1>1, <1>7, AnswerFacts DEF ProcessDuplicate, SoundCall
  <2> QED
    BY <1>1, <1>7, <2>1, IdleCall, FinishCall, SeatQuiet DEF ProcessDuplicate, rowVars
<1>8. CASE ApplyFails(w)
  BY <1>1, <1>8, ApplyFailsCall, SeatQuiet DEF ApplyFails, rowVars
<1>9. CASE Record(w)
  BY <1>1, <1>9, RecordCall, SeatQuiet DEF Record
<1>10. CASE MarkFailed(w)
  BY <1>1, <1>10, IdleCall, FinishCall, SeatQuiet DEF MarkFailed, rowVars, providerVars
<1>11. CASE Apply(w)
  <2>1. WorkerStep(w, Idle)
    BY <1>1, <1>11, AnswerFacts, FinishCall DEF Apply, SoundCall
  <2>2. account'.product = account.product \/ ~AccountLocked
    BY <1>11 DEF Apply
  <2>3. \A m \in Members : member'[m].active => member[m].active
    BY <1>11, RowFacts, ReconciledRows DEF Apply
  <2> QED
    BY <1>1, <2>1, <2>2, <2>3, IdleCall, SeatShrinks
<1> QED
  BY <1>2, <1>3, <1>4, <1>5, <1>6, <1>7, <1>8, <1>9, <1>10, <1>11 DEF Webhook

LEMMA BillingSeats ==
  ASSUME BaseInv, NEW w \in Workers, Billing(w)
  PROVE  \E c : SeatEffect(w, c)
<1>1. /\ "idle" \notin AccountCalls /\ "checkout" \notin AccountCalls
      /\ account \in AccountRow /\ acked \subseteq EventIds
  BY RowFacts DEF AccountCalls
<1>2. ASSUME NEW p \in Plans, CreateCheckout(w, p) PROVE \E c : SeatEffect(w, c)
  BY <1>1, <1>2, CreateCheckoutCall, SeatQuiet DEF CreateCheckout, rowVars
<1>3. CASE Synchronize(w)
  <2>1. PICK c : WorkerStep(w, c) /\ c.op = "sync"
    BY <1>3, SynchronizeCall
  <2>2. UNCHANGED <<account, member>> /\ ~AccountLocked /\ ActiveMembers' = ActiveMembers
    BY <1>3 DEF Synchronize, rowVars, ActiveMembers
  <2> QED
    BY <2>1, <2>2 DEF SeatEffect, WorkerStep
<1>4. CASE Crash(w)
  BY <1>1, <1>4, IdleCall, FinishCall, SeatQuiet DEF Crash, rowVars, providerVars
<1>5. CASE CheckoutCommit(w)
  <2>1. WorkerStep(w, Idle)
    BY <1>1, <1>5, FinishCall DEF CheckoutCommit
  <2>2. account'.product = account.product
    BY <1>1, <1>5, CheckoutFacts DEF AccountRow
  <2> QED
    BY <1>1, <1>5, <2>1, <2>2, IdleCall, SeatShrinks DEF CheckoutCommit
<1>6. CASE SynchronizeCommit(w)
  <2>1. WorkerStep(w, Idle)
    BY <1>1, <1>6, FinishCall DEF SynchronizeCommit, providerVars
  <2>2. \A m \in Members : member'[m].active => member[m].active
    BY <1>6, RowFacts, ReconciledRows DEF SynchronizeCommit
  <2> QED
    BY <1>1, <1>6, <2>1, <2>2, IdleCall, SeatShrinks DEF SynchronizeCommit
<1>7. CASE ConsumeDocument(w)
  <2>1. tx' = [tx EXCEPT ![w] = tx[w]]
    BY <1>7, RowFacts DEF ConsumeDocument
  <2>2. WorkerStep(w, tx[w])
    BY <1>7, <2>1, RowFacts DEF ConsumeDocument, WorkerStep, providerVars
  <2> QED
    BY <1>7, <2>2, SeatShrinks DEF ConsumeDocument
<1> QED
  BY <1>2, <1>3, <1>4, <1>5, <1>6, <1>7, WebhookSeats DEF Billing

LEMMA TeamSeats ==
  ASSUME BaseInv, NEW w \in Workers, TeamStep(w)
  PROVE  \E c : SeatEffect(w, c)
<1>1. /\ "idle" \notin AccountCalls /\ "team" \notin AccountCalls /\ "suspending" \notin AccountCalls
      /\ acked \subseteq EventIds
  BY RowFacts DEF AccountCalls
<1>2. ASSUME NEW a \in Members, NEW m \in Members, NEW role \in {"admin"} \cup Roles,
             AddMember(w, a, m, role)
      PROVE  \E c : SeatEffect(w, c)
  <2>1. PICK c : WorkerStep(w, c) /\ c.op = "add"
    BY <1>2, AddMemberCall
  <2>2. UNCHANGED <<account, member>> /\ ~AccountLocked /\ ActiveMembers' = ActiveMembers
    BY <1>2 DEF AddMember, rowVars, ActiveMembers
  <2>3. Cardinality(ActiveMembers) < Seats
    <3>1. Cardinality(ActiveMembers) < MemberLimit(account) /\ MemberLimit(account) \in Nat
      BY <1>2, LimitsAssumption DEF AddMember, MemberLimit
    <3> QED
      BY <3>1, SeatTypes
  <2> QED
    BY <2>1, <2>2, <2>3 DEF SeatEffect, WorkerStep
<1>3. ASSUME NEW a \in Members, NEW m \in Members, NEW role \in Roles,
             UpdateMemberRole(w, a, m, role)
      PROVE  \E c : SeatEffect(w, c)
  <2>1. tx' = [tx EXCEPT ![w] = tx[w]]
    BY <1>3, RowFacts DEF UpdateMemberRole
  <2>2. WorkerStep(w, tx[w])
    BY <1>3, <2>1, RowFacts DEF UpdateMemberRole, WorkerStep, providerVars
  <2>3. \A n \in Members : member'[n].active => member[n].active
    BY <1>3, RoleRows DEF ActiveMembers
  <2> QED
    BY <1>3, <2>2, <2>3, SeatShrinks DEF UpdateMemberRole
<1>4. ASSUME NEW a \in Members, NEW selected \in SUBSET Members, UpdateTeam(w, a, selected)
      PROVE  \E c : SeatEffect(w, c)
  <2>1. tx' = [tx EXCEPT ![w] = tx[w]] /\ tx[w] \in Call /\ tx' = tx
    BY <1>4, RowFacts DEF UpdateTeam
  <2>2. ActiveMembers' = selected
    BY <1>4, UpdateTeamRows
  <2>3. Cardinality(selected) <= Seats
    <3>1. Cardinality(selected) <= MemberLimit(account) /\ MemberLimit(account) \in Nat
      BY <1>4, LimitsAssumption DEF UpdateTeam, MemberLimit
    <3>2. IsFiniteSet(Members)
      BY BoundsAssumption, FS_Interval DEF Members
    <3>3. Cardinality(selected) \in Nat
      BY <3>2, CountWithin
    <3> QED
      BY <3>1, <3>3, SeatTypes
  <2>4. ~AccountLocked /\ account' = account /\ tx[w].op = "idle"
    BY <1>4 DEF UpdateTeam
  <2> QED
    BY <1>1, <2>1, <2>2, <2>3, <2>4 DEF SeatEffect
<1>5. CASE (\E a \in Members : ReadTeam(w, a)) \/ ReadTeamMembers(w)
  <2>1. PICK c : WorkerStep(w, c) /\ c.op \in {"team", "suspending"}
    BY <1>5, TeamPageCall
  <2>2. UNCHANGED <<account, member>>
    BY <1>5 DEF ReadTeam, ReadTeamMembers, rowVars
  <2> QED
    BY <1>1, <2>1, <2>2, SeatQuiet
<1>6. CASE AddMemberCommit(w)
  BY <1>6, IdleCall, AddedRows DEF AddMemberCommit, Finish, SeatEffect, AccountCalls
<1>7. CASE ReadTeamCommit(w)
  BY <1>7, IdleCall, SuspendRows DEF ReadTeamCommit, Finish, SeatEffect, AccountCalls
<1> QED
  BY <1>2, <1>3, <1>4, <1>5, <1>6, <1>7 DEF TeamStep

LEMMA SeatStep == BaseInv /\ SeatInv /\ [TeamNext]_vars => SeatInv' /\ NewcomersFindSeats
<1> SUFFICES ASSUME BaseInv, SeatInv, [TeamNext]_vars PROVE SeatInv' /\ NewcomersFindSeats
  OBVIOUS
<1>1. ASSUME UNCHANGED <<account, member, tx>> PROVE SeatInv' /\ NewcomersFindSeats
  BY <1>1 DEF SeatInv, OneHolder, SeatIsKept, Seats, ActiveMembers, NewcomersFindSeats
<1>2. CASE Provider
  <2>1. IsChange \/ Tick
    BY <1>2, ProviderSteps
  <2> QED
    BY <1>1, <2>1 DEF IsChange, Change, Tick, rowVars
<1>3. ASSUME NEW w \in Workers, Billing(w) \/ TeamStep(w) PROVE SeatInv' /\ NewcomersFindSeats
  BY <1>3, BillingSeats, TeamSeats, SeatsKept
<1>4. CASE UNCHANGED vars
  BY <1>1, <1>4 DEF vars, rowVars
<1> QED
  BY <1>2, <1>3, <1>4 DEF TeamNext, Next

\* Whoever joins the team or is activated finds a seat of the plan the account has
\* at that moment (the first half of SeatsAreWithinPlan), for any number of workers
\* and members: add_member keeps the account's lock from its check to its insert.
THEOREM NewcomersAreSeated == TeamSpec => [][NewcomersFindSeats]_vars
<1>1. Init => SeatInv
  BY IdleCall DEF Init, SeatInv, OneHolder, SeatIsKept, AccountCalls
<1>2. BaseInv /\ SeatInv /\ [TeamNext]_vars => SeatInv' /\ NewcomersFindSeats
  BY SeatStep
<1> QED
  BY <1>1, <1>2, BaseInvariant, PTL DEF TeamSpec

-----------------------------------------------------------------------------
(* What a worker's step means for the account *)

DeliveryOps == {"read", "recorded", "seen", "failing"}

\* What the call a worker goes on with knows.
Follows(w, c) ==
  /\ c.op \in DeliveryOps =>
       \/ tx[w].op \in DeliveryOps /\ c.event = tx[w].event /\ c.known = tx[w].known
       \/ c.known <=> (IsInvoice(c.event) => account.customer = events[c.event].customer)
  /\ c.op \in {"seen", "checkout"} => c = tx[w] \/ c.seen = account
  /\ c.op = "sync" => c = tx[w] \/ c.sub = subs[account.sub]
  /\ c.op = "add" => c = tx[w] \/ member[c.user].role = "none"
  /\ c.op = "suspending" =>
       c = tx[w] \/ (ActiveAdmins # {} /\ c.out = ActiveMembers \ {FirstAdmin})

\* The steps that change the team.
MemberWork(w) ==
  \/ member' = member
  \/ Apply(w) \/ SynchronizeCommit(w) \/ AddMemberCommit(w) \/ ReadTeamCommit(w)
  \/ \E a \in Members, selected \in SUBSET Members : UpdateTeam(w, a, selected)
  \/ \E a, m \in Members, role \in Roles : UpdateMemberRole(w, a, m, role)

\* Nothing is settled, paid, bought or consumed.
QuietRows ==
  /\ UNCHANGED <<account, payments, sessions, customers>>
  /\ \/ ledger' = ledger
     \/ \E e \in Emitted, s \in {"received", "failed"} : ledger' = [ledger EXCEPT ![e] = s]

Work(w, c) ==
  /\ WorkerStep(w, c) /\ Follows(w, c) /\ MemberWork(w)
  /\ \/ QuietRows
     \/ c = Idle /\ (Apply(w) \/ CheckoutCommit(w) \/ SynchronizeCommit(w))
     \/ c = tx[w] /\ ConsumeDocument(w)

LEMMA WebhookWork ==
  ASSUME BaseInv, NEW w \in Workers, Webhook(w)
  PROVE  \E c : Work(w, c)
<1>1. /\ tx[w] \in Call /\ SoundCall(tx[w]) /\ acked \subseteq EventIds
      /\ Follows(w, Idle) /\ Follows(w, tx[w])
  BY RowFacts, IdleCall DEF Follows, DeliveryOps
<1>2. ASSUME NEW e \in Emitted, ReceiveDuplicate(w, e) PROVE Work(w, tx[w])
  <2>1. tx' = [tx EXCEPT ![w] = tx[w]]
    BY <1>2, RowFacts DEF ReceiveDuplicate
  <2>2. WorkerStep(w, tx[w])
    BY <1>1, <1>2, <2>1, AnswerFacts DEF ReceiveDuplicate, WorkerStep
  <2> QED
    BY <1>1, <1>2, <2>2 DEF ReceiveDuplicate, rowVars, Work, MemberWork, QuietRows
<1>3. ASSUME NEW e \in Emitted, Receive(w, e) PROVE \E c : Work(w, c)
  <2>1. PICK c : WorkerStep(w, c) /\ c.op = "read" /\ c.event = e
                /\ (c.known <=> (IsInvoice(e) => account.customer = events[e].customer))
    BY <1>3, ReceiveCall
  <2>2. Follows(w, c)
    BY <2>1 DEF Follows
  <2> QED
    BY <1>3, <2>1, <2>2 DEF Receive, rowVars, providerVars, Work, MemberWork, QuietRows
<1>4. CASE IdentityUnavailable(w)
  BY <1>1, <1>4, FinishCall DEF IdentityUnavailable, rowVars, providerVars, Work, MemberWork, QuietRows
<1>5. CASE RecordDuplicate(w)
  <2>1. acked' \subseteq EventIds
    BY <1>1, <1>5, AnswerFacts DEF RecordDuplicate, SoundCall
  <2> QED
    BY <1>1, <1>5, <2>1, FinishCall DEF RecordDuplicate, rowVars, Work, MemberWork, QuietRows
<1>6. CASE Process(w)
  <2>1. PICK c : /\ WorkerStep(w, c) /\ c.op = "seen" /\ c.event = tx[w].event
                 /\ c.known = tx[w].known /\ c.seen = account
    BY <1>6, ProcessCall
  <2>2. Follows(w, c)
    BY <1>6, <2>1 DEF Follows, Process, DeliveryOps
  <2> QED
    BY <1>6, <2>1, <2>2 DEF Process, rowVars, providerVars, Work, MemberWork, QuietRows
<1>7. CASE ProcessDuplicate(w)
  <2>1. acked' \subseteq EventIds
    BY <1>1, <1>7, AnswerFacts DEF ProcessDuplicate, SoundCall
  <2> QED
    BY <1>1, <1>7, <2>1, FinishCall DEF ProcessDuplicate, rowVars, Work, MemberWork, QuietRows
<1>8. CASE ApplyFails(w)
  <2>1. PICK c : /\ WorkerStep(w, c) /\ c.op = "failing" /\ c.event = tx[w].event
                 /\ c.known = tx[w].known
    BY <1>8, ApplyFailsCall
  <2>2. Follows(w, c)
    BY <1>8, <2>1 DEF Follows, ApplyFails, DeliveryOps
  <2> QED
    BY <1>8, <2>1, <2>2 DEF ApplyFails, rowVars, providerVars, Work, MemberWork, QuietRows
<1>9. CASE Record(w)
  <2>1. PICK c : /\ WorkerStep(w, c) /\ c.op = "recorded" /\ c.event = tx[w].event
                 /\ c.known = tx[w].known
    BY <1>9, RecordCall
  <2>2. Follows(w, c)
    BY <1>9, <2>1 DEF Follows, Record, DeliveryOps
  <2>3. PICK e \in Emitted : e = tx[w].event
    BY <1>1, <1>9 DEF Record, SoundCall
  <2>4. ledger' = ledger \/ ledger' = [ledger EXCEPT ![e] = "received"]
    BY <1>9, <2>3, RowFacts DEF Record, Ledger
  <2> QED
    BY <1>9, <2>1, <2>2, <2>4 DEF Record, providerVars, Work, MemberWork, QuietRows
<1>10. CASE MarkFailed(w)
  <2>1. PICK e \in Emitted : e = tx[w].event
    BY <1>1, <1>10 DEF MarkFailed, SoundCall
  <2>2. WorkerStep(w, Idle)
    BY <1>1, <1>10, FinishCall DEF MarkFailed, providerVars
  <2> QED
    BY <1>1, <1>10, <2>1, <2>2 DEF MarkFailed, providerVars, Work, MemberWork, QuietRows
<1>11. CASE Apply(w)
  <2>1. WorkerStep(w, Idle)
    BY <1>1, <1>11, AnswerFacts, FinishCall DEF Apply, SoundCall
  <2> QED
    BY <1>1, <1>11, <2>1 DEF Work, MemberWork
<1> QED
  BY <1>2, <1>3, <1>4, <1>5, <1>6, <1>7, <1>8, <1>9, <1>10, <1>11 DEF Webhook

LEMMA BillingWork ==
  ASSUME BaseInv, NEW w \in Workers, Billing(w)
  PROVE  \E c : Work(w, c)
<1>1. acked \subseteq EventIds /\ Follows(w, Idle) /\ Follows(w, tx[w])
  BY RowFacts, IdleCall DEF Follows, DeliveryOps
<1>2. ASSUME NEW p \in Plans, CreateCheckout(w, p) PROVE \E c : Work(w, c)
  <2>1. PICK c : WorkerStep(w, c) /\ c.op = "checkout" /\ c.seen = account
    BY <1>2, CreateCheckoutCall
  <2>2. Follows(w, c)
    BY <2>1 DEF Follows, DeliveryOps
  <2> QED
    BY <1>2, <2>1, <2>2 DEF CreateCheckout, rowVars, providerVars, Work, MemberWork, QuietRows
<1>3. CASE Synchronize(w)
  <2>1. PICK c : WorkerStep(w, c) /\ c.op = "sync" /\ c.sub = subs[account.sub]
    BY <1>3, SynchronizeCall
  <2>2. Follows(w, c)
    BY <2>1 DEF Follows, DeliveryOps
  <2> QED
    BY <1>3, <2>1, <2>2 DEF Synchronize, rowVars, providerVars, Work, MemberWork, QuietRows
<1>4. CASE Crash(w)
  BY <1>1, <1>4, FinishCall DEF Crash, rowVars, providerVars, Work, MemberWork, QuietRows
<1>5. CASE CheckoutCommit(w)
  BY <1>1, <1>5, FinishCall DEF CheckoutCommit, Work, MemberWork
<1>6. CASE SynchronizeCommit(w)
  BY <1>1, <1>6, FinishCall DEF SynchronizeCommit, providerVars, Work, MemberWork
<1>7. CASE ConsumeDocument(w)
  <2>1. tx' = [tx EXCEPT ![w] = tx[w]]
    BY <1>7, RowFacts DEF ConsumeDocument
  <2>2. WorkerStep(w, tx[w])
    BY <1>7, <2>1, RowFacts DEF ConsumeDocument, WorkerStep, providerVars
  <2> QED
    BY <1>1, <1>7, <2>2 DEF Work, MemberWork, ConsumeDocument
<1> QED
  BY <1>2, <1>3, <1>4, <1>5, <1>6, <1>7, WebhookWork DEF Billing

LEMMA TeamWork ==
  ASSUME BaseInv, NEW w \in Workers, TeamStep(w)
  PROVE  \E c : Work(w, c)
<1>1. acked \subseteq EventIds /\ Follows(w, Idle) /\ Follows(w, tx[w])
  BY RowFacts, IdleCall DEF Follows, DeliveryOps
<1>2. UNCHANGED <<account, ledger, payments, now, subs, sessions, customers, events, acked>>
  BY DEF TeamStep, AddMember, UpdateMemberRole, UpdateTeam, ReadTeam, AddMemberCommit,
         ReadTeamMembers, ReadTeamCommit, rowVars, providerVars
<1>3. ASSUME NEW c, WorkerStep(w, c), Follows(w, c), MemberWork(w) PROVE Work(w, c)
  BY <1>2, <1>3 DEF Work, QuietRows
<1>4. ASSUME NEW a \in Members, NEW m \in Members, NEW role \in {"admin"} \cup Roles,
             AddMember(w, a, m, role)
      PROVE  \E c : Work(w, c)
  <2>1. PICK c : WorkerStep(w, c) /\ c.op = "add" /\ c.user = m
    BY <1>4, AddMemberCall
  <2>2. Follows(w, c) /\ MemberWork(w)
    BY <1>4, <2>1 DEF Follows, DeliveryOps, AddMember, Rows, rowVars, MemberWork
  <2> QED
    BY <1>3, <2>1, <2>2
<1>5. ASSUME tx' = tx, MemberWork(w) PROVE \E c : Work(w, c)
  <2>1. tx' = [tx EXCEPT ![w] = tx[w]]
    BY <1>5, RowFacts
  <2>2. WorkerStep(w, tx[w])
    BY <1>1, <1>2, <2>1, RowFacts DEF WorkerStep
  <2> QED
    BY <1>1, <1>3, <1>5, <2>2
<1>6. CASE (\E a \in Members : ReadTeam(w, a)) \/ ReadTeamMembers(w)
  <2>1. PICK c : /\ WorkerStep(w, c) /\ c.op \in {"team", "suspending"}
                 /\ c.op = "suspending" =>
                      ActiveAdmins # {} /\ c.out = ActiveMembers \ {FirstAdmin}
    BY <1>6, TeamPageCall
  <2>2. Follows(w, c) /\ MemberWork(w)
    BY <1>6, <2>1 DEF Follows, DeliveryOps, ReadTeam, ReadTeamMembers, rowVars, MemberWork
  <2> QED
    BY <1>3, <2>1, <2>2
<1>7. ASSUME Finish(w), MemberWork(w) PROVE \E c : Work(w, c)
  BY <1>1, <1>2, <1>3, <1>7, FinishCall
<1>8. CASE AddMemberCommit(w) \/ ReadTeamCommit(w)
  BY <1>7, <1>8 DEF AddMemberCommit, ReadTeamCommit, MemberWork
<1>9. ASSUME NEW a \in Members, NEW selected \in SUBSET Members, UpdateTeam(w, a, selected)
      PROVE  \E c : Work(w, c)
  BY <1>5, <1>9 DEF UpdateTeam, MemberWork
<1>10. ASSUME NEW a \in Members, NEW m \in Members, NEW role \in Roles,
              UpdateMemberRole(w, a, m, role)
       PROVE  \E c : Work(w, c)
  BY <1>5, <1>10 DEF UpdateMemberRole, MemberWork
<1> QED
  BY <1>4, <1>6, <1>8, <1>9, <1>10 DEF TeamStep

\* Every step is the provider's, a worker's, or none.
LEMMA StepKinds ==
  ASSUME BaseInv, [TeamNext]_vars
  PROVE  \/ IsChange
         \/ UNCHANGED <<account, ledger, payments, member, tx, subs, sessions, customers, events>>
            /\ now' \in Nat /\ now' >= now
         \/ \E w \in Workers, c \in Call : Work(w, c)
<1>1. now \in Nat
  BY RowFacts, BoundsAssumption
<1>2. CASE Provider
  <2>1. IsChange \/ Tick
    BY <1>2, ProviderSteps
  <2> QED
    BY <1>1, <2>1 DEF Tick, rowVars, providerVars
<1>3. ASSUME NEW w \in Workers, Billing(w) \/ TeamStep(w)
      PROVE  \E v \in Workers, c \in Call : Work(v, c)
  BY <1>3, BillingWork, TeamWork DEF Work, WorkerStep
<1>4. CASE UNCHANGED vars
  BY <1>1, <1>4 DEF vars, rowVars, providerVars
<1> QED
  BY <1>2, <1>3, <1>4 DEF TeamNext, Next

\* What _apply_event writes, in terms of the copy the session read.
LEMMA ApplyFacts ==
  ASSUME BaseInv, NEW w \in Workers, Apply(w)
  PROVE  \E e \in Emitted, ev \in EventRow, seen \in AccountRow, new \in AccountRow :
           /\ e = tx[w].event /\ ev = events[e] /\ seen = tx[w].seen /\ new = Applied(seen, ev)
           /\ account' = IF tx[w].known THEN Merged(account, seen, new) ELSE account
           /\ account' \in AccountRow
           /\ account'.customer \in {account.customer, ev.customer}
           /\ account.customer # 0 => account'.customer # 0
<1>1. PICK e \in Emitted : e = tx[w].event
  BY RowFacts DEF Apply, SoundCall
<1>2. PICK seen \in AccountRow : seen = tx[w].seen
  BY RowFacts DEF Call
<1>3. PICK ev \in EventRow : ev = events[e]
  BY EmittedFacts DEF BaseInv
<1>4. ev.customer # 0
  BY BoundsAssumption DEF EventRow
<1>5. PICK new \in AccountRow : new = Applied(seen, ev) /\ new.customer = ev.customer
  BY AppliedRow, RowFacts
<1>6. account' = IF tx[w].known THEN Merged(account, seen, new) ELSE account
  BY <1>1, <1>2, <1>3, <1>5 DEF Apply
<1>7. /\ account' \in AccountRow
      /\ account'.customer \in {account.customer, ev.customer}
      /\ account.customer # 0 => account'.customer # 0
  BY <1>4, <1>5, <1>6, RowFacts, MergedRow
<1> QED
  BY <1>1, <1>2, <1>3, <1>5, <1>6, <1>7

LEMMA Stamps ==
  ASSUME BaseInv
  PROVE  /\ \A e \in Emitted : /\ events[e].created \in Nat /\ events[e].created # 0
                               /\ events[e].created <= now /\ events[e].sub \in 1..MaxSub
         /\ account.last \in Nat /\ now \in Nat /\ account.sub \in 0..MaxSub
<1>1. now \in Nat /\ account \in AccountRow
  BY RowFacts, BoundsAssumption
<1>2. account.last \in Nat /\ account.sub \in 0..MaxSub
  BY <1>1, BoundsAssumption DEF AccountRow, Times
<1>3. \A e \in Emitted : events[e].created \in 1..now /\ events[e].sub \in 1..MaxSub
  BY EmittedFacts DEF BaseInv, ProviderIsSound
<1> QED
  BY <1>1, <1>2, <1>3

-----------------------------------------------------------------------------
(* The payment ledger *)

\* Only emitted events have a row in billing_events.
LedgerIsOfEvents == \A e \in EventIds : e \notin Emitted => ledger[e] = "absent"

LEMMA LedgerGrows ==
  ASSUME BaseInv, [TeamNext]_vars
  PROVE  /\ Emitted \subseteq Emitted' /\ \A e \in Emitted : events'[e] = events[e]
         /\ \/ ledger' = ledger
            \/ \E e \in Emitted : \E s \in {"received", "failed"} : ledger' = [ledger EXCEPT ![e] = s]
            \/ \E w \in Workers : Apply(w)
<1>1. CASE IsChange
  BY <1>1, ChangeAppends DEF IsChange, Appended, Emitted, BaseInv, TypeOK, Change, rowVars
<1>2. ASSUME NEW w \in Workers, NEW c \in Call, Work(w, c)
      PROVE  /\ events' = events
             /\ \/ ledger' = ledger
                \/ \E e \in Emitted : \E s \in {"received", "failed"} : ledger' = [ledger EXCEPT ![e] = s]
                \/ \E v \in Workers : Apply(v)
  BY <1>2 DEF Work, WorkerStep, QuietRows, CheckoutCommit, SynchronizeCommit, ConsumeDocument
<1>3. ASSUME events' = events PROVE Emitted' = Emitted
  BY <1>3 DEF Emitted
<1> QED
  BY <1>1, <1>2, <1>3, StepKinds

\* An event that is emitted in a step is not recorded in it.
LEMMA NotRecordedYet ==
  ASSUME BaseInv, LedgerIsOfEvents, [TeamNext]_vars, NEW f \in EventIds, f \notin Emitted
  PROVE  ledger'[f] = "absent"
<1>1. ledger[f] = "absent" /\ ledger \in Ledger
  BY RowFacts DEF LedgerIsOfEvents
<1>2. ASSUME NEW e \in Emitted, NEW s, ledger' = [ledger EXCEPT ![e] = s] PROVE ledger'[f] = "absent"
  BY <1>1, <1>2 DEF Ledger
<1>3. ASSUME NEW w \in Workers, Apply(w) PROVE ledger'[f] = "absent"
  BY <1>2, <1>3, ApplyFacts DEF Apply
<1> QED
  BY <1>1, <1>2, <1>3, LedgerGrows

LEMMA LedgerStep ==
  ASSUME BaseInv, LedgerIsOfEvents, [TeamNext]_vars
  PROVE  LedgerIsOfEvents'
BY NotRecordedYet, LedgerGrows DEF LedgerIsOfEvents, EventIds

LEMMA LedgerInvariant == TeamSpec => []LedgerIsOfEvents
<1>1. Init => LedgerIsOfEvents
  BY DEF Init, LedgerIsOfEvents
<1>2. BaseInv /\ LedgerIsOfEvents /\ [TeamNext]_vars => LedgerIsOfEvents'
  BY LedgerStep
<1> QED
  BY <1>1, <1>2, BaseInvariant, PTL DEF TeamSpec

\* Whoever is named as a customer was created at the provider.
CustomersExist ==
  /\ account.customer <= customers
  /\ \A session \in sessions : session.customer <= customers
  /\ \A i \in 1..MaxSub : subs[i].status # "none" => subs[i].customer <= customers
  /\ \A e \in Emitted : events[e].customer <= customers
  /\ \A w \in Workers : /\ tx[w].op = "checkout" => tx[w].seen.customer <= customers
                        /\ tx[w].op = "sync" => tx[w].sub.customer <= customers

\* Who has a session or a subscription at the provider has a customer in the account.
CustomerIsStored ==
  (sessions # {} \/ \E i \in 1..MaxSub : subs[i].status # "none") => account.customer # 0

\* A customer that a checkout saw is still there.
CustomersStay ==
  \A w \in Workers : tx[w].op = "checkout" /\ tx[w].seen.customer # 0 => account.customer # 0

\* With one customer, the tenant of every delivery in flight was found.
DeliveriesAreKnown ==
  customers <= 1 => \A w \in Workers : tx[w].op \in DeliveryOps => tx[w].known

CustomerInv == CustomersExist /\ CustomerIsStored /\ CustomersStay /\ DeliveriesAreKnown

LEMMA CustomerTypes ==
  ASSUME BaseInv
  PROVE  /\ customers \in Nat /\ account.customer \in Nat
         /\ \A session \in sessions : session.customer \in Nat
         /\ \A e \in Emitted : events[e].customer \in Nat /\ events[e].customer # 0
         /\ \A w \in Workers : tx[w].seen.customer \in Nat /\ tx[w].sub.customer \in Nat
<1>1. customers \in 0..MaxCustomer /\ account.customer \in 0..MaxCustomer
  BY RowFacts DEF AccountRow
<1>2. \A w \in Workers : tx[w].seen.customer \in 0..MaxCustomer /\ tx[w].sub.customer \in 0..MaxCustomer
  BY RowFacts DEF Call, AccountRow, Subscription
<1>3. \A e \in Emitted : events[e].customer \in 1..MaxCustomer
  BY EmittedFacts DEF BaseInv
<1>4. \A session \in sessions : session.customer \in 1..MaxCustomer
  BY RowFacts DEF SessionRows
<1> QED
  BY <1>1, <1>2, <1>3, <1>4, BoundsAssumption

\* A worker's step and the customer in the account.
LEMMA CustomerMoves ==
  ASSUME BaseInv, CustomerInv, NEW w \in Workers, NEW c \in Call, Work(w, c)
  PROVE  /\ customers' \in Nat /\ customers <= customers'
         /\ account'.customer <= customers'
         /\ account.customer # 0 => account'.customer # 0
         /\ \/ sessions' = sessions
            \/ /\ CheckoutCommit(w) /\ account'.customer # 0
               /\ \A session \in sessions' : session.customer <= customers'
<1>1. /\ account \in AccountRow /\ customers \in Nat /\ account.customer \in Nat
      /\ account.customer <= customers /\ customers <= customers
  BY RowFacts, CustomerTypes DEF CustomerInv, CustomersExist
<1>2. CASE QuietRows
  BY <1>1, <1>2 DEF QuietRows
<1>3. CASE Apply(w)
  <2>1. PICK e \in Emitted : /\ account'.customer \in {account.customer, events[e].customer}
                             /\ account.customer # 0 => account'.customer # 0
    BY <1>3, ApplyFacts
  <2>2. events[e].customer <= customers
    BY DEF CustomerInv, CustomersExist
  <2> QED
    BY <1>1, <1>3, <2>1, <2>2 DEF Apply
<1>4. CASE CheckoutCommit(w)
  <2>1. PICK x \in 1..MaxCustomer :
          /\ x = (IF tx[w].seen.customer = 0 THEN customers + 1 ELSE tx[w].seen.customer)
          /\ account' = IF tx[w].seen.customer = 0 THEN [account EXCEPT !.customer = x] ELSE account
          /\ sessions' = sessions \cup {[customer |-> x, product |-> tx[w].product]}
          /\ customers' = IF tx[w].seen.customer = 0 THEN x ELSE customers
    BY <1>4, CheckoutFacts
  <2>2. x # 0 /\ x \in Nat
    BY BoundsAssumption
  <2>3. CASE tx[w].seen.customer = 0
    <3>1. customers' = customers + 1 /\ x = customers + 1 /\ account'.customer = x
      BY <1>1, <2>1, <2>3 DEF AccountRow
    <3>2. \A session \in sessions : session.customer \in Nat /\ session.customer <= customers
      BY CustomerTypes DEF CustomerInv, CustomersExist
    <3> QED
      BY <1>1, <1>4, <2>1, <2>2, <3>1, <3>2
  <2>4. CASE tx[w].seen.customer # 0
    <3>1. x <= customers /\ customers' = customers /\ account' = account /\ account.customer # 0
      BY <1>4, <2>1, <2>4 DEF CustomerInv, CustomersExist, CustomersStay, CheckoutCommit
    <3> QED
      BY <1>1, <1>4, <2>1, <2>2, <3>1 DEF CustomerInv, CustomersExist
  <2> QED
    BY <2>3, <2>4
<1>5. CASE SynchronizeCommit(w)
  <2>1. account'.customer = tx[w].sub.customer /\ account'.customer # 0
    BY <1>5, SynchronizeFacts, BoundsAssumption
  <2>2. tx[w].sub.customer <= customers
    BY <1>5 DEF CustomerInv, CustomersExist, SynchronizeCommit
  <2> QED
    BY <1>1, <1>5, <2>1, <2>2 DEF SynchronizeCommit, providerVars
<1>6. CASE ConsumeDocument(w)
  BY <1>1, <1>6 DEF ConsumeDocument, AccountRow, providerVars
<1> QED
  BY <1>2, <1>3, <1>4, <1>5, <1>6 DEF Work

LEMMA CustomerWork ==
  ASSUME BaseInv, CustomerInv, NEW w \in Workers, NEW c \in Call, Work(w, c)
  PROVE  CustomerInv'
<1>1. /\ tx \in [Workers -> Call] /\ subs' = subs /\ events' = events /\ Emitted' = Emitted
      /\ customers \in Nat /\ account.customer \in Nat
  BY RowFacts, CustomerTypes DEF Work, WorkerStep, Emitted
<1>2. /\ customers' \in Nat /\ customers <= customers' /\ account'.customer <= customers'
      /\ account.customer # 0 => account'.customer # 0
      /\ \/ sessions' = sessions
         \/ /\ CheckoutCommit(w) /\ account'.customer # 0
            /\ \A session \in sessions' : session.customer <= customers'
  BY CustomerMoves
<1>3. \A v \in Workers : tx'[v] = tx[v] \/ tx'[v] = c
  BY <1>1 DEF Work, WorkerStep
<1>4. \/ c.op \notin {"checkout", "sync"} \cup DeliveryOps
      \/ c = tx[w]
      \/ QuietRows
  BY IdleCall DEF Work, DeliveryOps
<1>5. /\ c.op = "checkout" => c = tx[w] \/ (c.seen = account /\ account' = account)
      /\ c.op = "sync" => c = tx[w] \/ (c.sub = subs[account.sub] /\ account' = account)
  BY <1>4 DEF Work, Follows, QuietRows
<1>6. CustomersExist'
  <2>1. \A session \in sessions' : session.customer <= customers'
    BY <1>1, <1>2, CustomerTypes DEF CustomerInv, CustomersExist
  <2>2. ASSUME NEW i \in 1..MaxSub, subs[i].status # "none" PROVE subs[i].customer <= customers'
    <3>1. subs[i].customer \in Nat /\ subs[i].customer <= customers
      BY <2>2, LiveSub, BoundsAssumption DEF CustomerInv, CustomersExist, LiveSubscription
    <3> QED
      BY <1>1, <1>2, <3>1
  <2>3. \A e \in Emitted : events[e].customer <= customers'
    BY <1>1, <1>2, CustomerTypes DEF CustomerInv, CustomersExist
  <2>4. \A v \in Workers : /\ tx[v].op = "checkout" => tx[v].seen.customer <= customers'
                           /\ tx[v].op = "sync" => tx[v].sub.customer <= customers'
    BY <1>1, <1>2, CustomerTypes DEF CustomerInv, CustomersExist
  <2>5. c.op = "checkout" => c.seen.customer <= customers'
    BY <1>2, <1>5, <2>4
  <2>6. c.op = "sync" => c.sub.customer <= customers'
    <3>1. ASSUME c.op = "sync", c.sub = subs[account.sub] PROVE c.sub.customer <= customers'
      <4>1. PICK i \in 1..MaxSub : i = account.sub
        BY <3>1, Stamps, BoundsAssumption DEF Work, WorkerStep, SoundCall
      <4>2. subs[i].status # "none"
        BY <4>1, RowFacts, BoundsAssumption
      <4> QED
        BY <2>2, <3>1, <4>1, <4>2
    <3> QED
      BY <1>5, <2>4, <3>1
  <2> QED
    BY <1>1, <1>2, <1>3, <2>1, <2>2, <2>3, <2>4, <2>5, <2>6 DEF CustomersExist
<1>7. CustomerIsStored'
  BY <1>1, <1>2 DEF CustomerInv, CustomerIsStored
<1>8. CustomersStay'
  <2>1. c.op = "checkout" /\ c.seen.customer # 0 => account'.customer # 0
    BY <1>2, <1>5 DEF CustomerInv, CustomersStay
  <2> QED
    BY <1>2, <1>3, <2>1 DEF CustomerInv, CustomersStay
<1>9. DeliveriesAreKnown'
  <2> SUFFICES ASSUME customers' <= 1 PROVE \A v \in Workers : tx'[v].op \in DeliveryOps => tx'[v].known
    BY DEF DeliveriesAreKnown
  <2>1. customers <= 1
    BY <1>1, <1>2
  <2>2. c.op \in DeliveryOps => c.known
    <3> SUFFICES ASSUME c.op \in DeliveryOps PROVE c.known
      OBVIOUS
    <3>1. PICK e \in Emitted : e = c.event
      BY DEF Work, WorkerStep, SoundCall, DeliveryOps
    <3>2. events[e].customer \in Nat /\ events[e].customer # 0 /\ events[e].customer <= customers
      BY CustomerTypes DEF CustomerInv, CustomersExist
    <3>3. account.customer # 0 /\ account.customer <= customers
      BY EmittedFacts DEF BaseInv, ProviderIsSound, CustomerInv, CustomerIsStored, CustomersExist
    <3>4. account.customer = events[e].customer
      BY <1>1, <2>1, <3>2, <3>3
    <3> QED
      BY <2>1, <3>1, <3>4 DEF Work, Follows, CustomerInv, DeliveriesAreKnown
  <2> QED
    BY <1>3, <2>1, <2>2 DEF CustomerInv, DeliveriesAreKnown
<1> QED
  BY <1>6, <1>7, <1>8, <1>9 DEF CustomerInv

LEMMA CustomerChange ==
  ASSUME BaseInv, CustomerInv, IsChange, [TeamNext]_vars
  PROVE  CustomerInv'
<1>1. PICK i \in 1..MaxSub, s \in LiveSubscription, t \in {now, now + 1},
           new \in Seq(AllKinds), cycle \in BOOLEAN :
        /\ Change(i, s, t, new, cycle) /\ sessions' \subseteq sessions
        /\ \/ subs[i].status # "none" /\ s.customer = subs[i].customer
           \/ \E session \in sessions : s.customer = session.customer
  BY DEF IsChange
<1>2. /\ account' = account /\ tx' = tx /\ customers' = customers
      /\ subs' = [subs EXCEPT ![i] = s] /\ subs \in [1..MaxSub -> Subscription]
  BY <1>1 DEF Change, rowVars, BaseInv, TypeOK
<1>3. s.customer <= customers
  BY <1>1 DEF CustomerInv, CustomersExist
<1>4. \A e \in Emitted' : events'[e].customer <= customers
  <2>1. Appended(i, s, t, new, cycle)
    BY <1>1, ChangeAppends
  <2>2. \A e \in Emitted' : e \notin Emitted => events'[e].customer = s.customer
    <3>1. \A k : Event(k, i, s, t, cycle).customer = s.customer
      BY DEF Event
    <3> QED
      BY <2>1, <3>1 DEF Appended, Emitted
  <2>3. \A e \in Emitted : events'[e] = events[e]
    BY LedgerGrows
  <2> QED
    BY <1>3, <2>2, <2>3 DEF CustomerInv, CustomersExist
<1>5. CustomersExist'
  BY <1>1, <1>2, <1>3, <1>4 DEF CustomerInv, CustomersExist
<1>6. CustomerIsStored'
  BY <1>1, <1>2 DEF CustomerInv, CustomerIsStored
<1> QED
  BY <1>2, <1>5, <1>6 DEF CustomerInv, DeliveriesAreKnown, CustomersStay

LEMMA CustomerStep ==
  ASSUME BaseInv, CustomerInv, [TeamNext]_vars
  PROVE  CustomerInv'
<1>1. ASSUME UNCHANGED <<account, tx, subs, sessions, customers, events>> PROVE CustomerInv'
  BY <1>1 DEF CustomerInv, CustomersExist, CustomerIsStored, DeliveriesAreKnown, CustomersStay, Emitted
<1> QED
  BY <1>1, CustomerChange, CustomerWork, StepKinds

LEMMA CustomerInvariant == TeamSpec => []CustomerInv
<1>1. Init => CustomerInv
  <2> SUFFICES ASSUME Init PROVE CustomerInv
    OBVIOUS
  <2>1. (\A i \in 1..MaxSub : subs[i].status = "none") /\ account.customer = 0 /\ customers = 0
    BY DEF Init, NoSubscription, NewAccount
  <2>2. sessions = {} /\ \A w \in Workers : tx[w].op = "idle"
    BY IdleCall DEF Init
  <2>3. Emitted = {}
    <3>1. events = <<>> /\ Len(<<>>) = 0
      BY DEF Init
    <3> QED
      BY <3>1 DEF Emitted
  <2> QED
    BY <2>1, <2>2, <2>3 DEF CustomerInv, CustomersExist, CustomerIsStored, DeliveriesAreKnown,
                            CustomersStay, DeliveryOps
<1>2. BaseInv /\ CustomerInv /\ [TeamNext]_vars => CustomerInv'
  BY CustomerStep
<1> QED
  BY <1>1, <1>2, BaseInvariant, PTL DEF TeamSpec

LEMMA PaymentsStep ==
  ASSUME BaseInv, LedgerIsOfEvents, CustomerInv, PaymentsAreRecorded, [TeamNext]_vars
  PROVE  PaymentsAreRecorded'
<1> SUFFICES ASSUME NEW f \in Emitted', events'[f].kind \in {"paid", "failed"}, ledger'[f] \in Settled',
                    ~(customers' > 1)
             PROVE  payments'[<<events'[f].sub, events'[f].period>>] # "none"
  BY DEF PaymentsAreRecorded
<1>1. f \in EventIds /\ "absent" \notin Settled /\ Settled' = Settled /\ Emitted' \subseteq EventIds
  <2>1. BaseInv'
    BY BaseStep
  <2>2. Len(events') \in Nat /\ Len(events') <= MaxEvents
    BY <2>1 DEF BaseInv, TypeOK
  <2>3. Emitted' \subseteq EventIds
    BY <2>2, BoundsAssumption DEF Emitted, EventIds
  <2> QED
    BY <2>3 DEF Settled
<1>2. f \in Emitted /\ events'[f] = events[f]
  BY <1>1, NotRecordedYet, LedgerGrows
<1>3. PICK key \in Invoices : key = <<events[f].sub, events[f].period>>
  <2>1. events[f].sub \in 1..MaxSub /\ events[f].period \in Times /\ events[f].period # 0
    BY <1>2, EmittedFacts DEF BaseInv, ProviderIsSound
  <2>2. events[f].period \in 1..MaxTime
    BY <2>1, BoundsAssumption DEF Times
  <2> QED
    BY <2>1, <2>2 DEF Invoices
<1>4. payments \in PaymentRows /\ ledger \in Ledger
  BY RowFacts
<1>0. ~(customers > 1) /\ customers <= 1
  <2>1. customers \in Nat
    BY CustomerTypes
  <2>2. customers' \in Nat /\ customers <= customers'
    <3>1. CASE IsChange
      BY <2>1, <3>1 DEF IsChange, Change
    <3>2. ASSUME customers' = customers PROVE customers' \in Nat /\ customers <= customers'
      BY <2>1, <3>2
    <3> QED
      BY <3>1, <3>2, CustomerMoves, StepKinds
  <2> QED
    BY <2>1, <2>2
<1>5. ASSUME payments' = payments,
             ledger' = ledger \/ (\E e \in Emitted : \E s \in {"received", "failed"} : ledger' = [ledger EXCEPT ![e] = s])
      PROVE  payments'[key] # "none"
  <2>1. ledger[f] \in Settled
    <3>1. ASSUME NEW e \in Emitted, NEW s \in {"received", "failed"}, ledger' = [ledger EXCEPT ![e] = s]
          PROVE  ledger'[f] = ledger[f]
      BY <1>1, <1>4, <3>1 DEF Ledger, Settled
    <3> QED
      BY <1>1, <1>5, <3>1
  <2> QED
    BY <1>0, <1>2, <1>3, <1>5, <2>1 DEF PaymentsAreRecorded
<1>6. ASSUME NEW w \in Workers, Apply(w) PROVE payments'[key] # "none"
  <2>1. PICK e \in Emitted : e = tx[w].event
    BY <1>6, ApplyFacts
  <2>2. tx[w].known
    BY <1>0, <1>6 DEF Apply, CustomerInv, DeliveriesAreKnown, DeliveryOps
  <2>3. payments' = IF IsInvoice(e)
                    THEN [payments EXCEPT ![<<events[e].sub, events[e].period>>] = events[e].kind]
                    ELSE payments
    BY <1>6, <2>1, <2>2 DEF Apply
  <2>4. IsInvoice(e) => events[e].kind # "none"
    BY DEF IsInvoice
  <2>5. CASE e = f
    BY <1>2, <1>3, <1>4, <2>3, <2>4, <2>5 DEF PaymentRows, IsInvoice
  <2>6. CASE e # f
    <3>1. ledger'[f] = ledger[f]
      BY <1>1, <1>4, <1>6, <2>1, <2>6 DEF Apply, Ledger
    <3>2. payments[key] # "none"
      BY <1>0, <1>1, <1>2, <1>3, <3>1 DEF PaymentsAreRecorded
    <3> QED
      BY <1>4, <2>3, <2>4, <3>2 DEF PaymentRows
  <2> QED
    BY <2>5, <2>6
<1>7. CASE IsChange
  BY <1>2, <1>3, <1>5, <1>7 DEF IsChange, Change, rowVars
<1>8. ASSUME NEW w \in Workers, NEW c \in Call, Work(w, c) PROVE payments'[key] # "none"
  BY <1>5, <1>6, <1>8 DEF Work, QuietRows, CheckoutCommit, SynchronizeCommit, ConsumeDocument
<1> QED
  BY <1>2, <1>3, <1>5, <1>7, <1>8, StepKinds

\* Every invoice whose event is settled is in the billing_payments ledger, for any
\* number of workers, whatever fails, is repeated or comes out of order, until two
\* checkouts at once have created a second customer (_apply_event, _record_payment).
THEOREM PaymentsRecorded == TeamSpec => []PaymentsAreRecorded
<1>1. Init => PaymentsAreRecorded
  <2> SUFFICES ASSUME Init PROVE Emitted = {}
    BY DEF PaymentsAreRecorded
  <2>1. events = <<>> /\ Len(<<>>) = 0
    BY DEF Init
  <2> QED
    BY <2>1 DEF Emitted
<1>2. BaseInv /\ LedgerIsOfEvents /\ CustomerInv /\ PaymentsAreRecorded /\ [TeamNext]_vars
        => PaymentsAreRecorded'
  BY PaymentsStep
<1> QED
  BY <1>1, <1>2, CustomerInvariant, BaseInvariant, LedgerInvariant, PTL DEF TeamSpec

-----------------------------------------------------------------------------
(* The grace period and the file counter *)

GraceStays ==
  account.status = "past_due" /\ account.grace # 0 /\ account'.status = "past_due"
    => account'.grace = account.grace \/ CommitsOldCopy({"status", "grace"})

AccountMoves == GraceStays /\ ResetsOncePerPeriod /\ LaterPeriodResets

\* A delivery writes what _apply_event makes of the columns its copy shows as they are.
LEMMA ApplyMoves ==
  ASSUME BaseInv, NEW w \in Workers, Apply(w)
  PROVE  AccountMoves
<1>1. PICK e \in Emitted, ev \in EventRow, seen \in AccountRow, new \in AccountRow :
        /\ e = tx[w].event /\ seen = tx[w].seen /\ new = Applied(seen, ev)
        /\ account' = IF tx[w].known THEN Merged(account, seen, new) ELSE account
  BY ApplyFacts
<1>2. account \in AccountRow /\ account.files \in Nat /\ account.period \in Nat /\ now \in 1..MaxTime
  BY RowFacts, LimitsAssumption, BoundsAssumption DEF AccountRow, Times
<1>3. CASE ~tx[w].known
  BY <1>1, <1>2, <1>3 DEF AccountMoves, GraceStays, ResetsOncePerPeriod, LaterPeriodResets
<1>4. CASE tx[w].known
  <2>1. ASSUME NEW columns, ~CommitsOldCopy(columns) PROVE \A c \in columns : seen[c] = account[c]
    <3>1. tx[w].op = "seen" /\ tx'[w].op = "idle" /\ ledger'[e] \in Settled
      <4>1. tx'[w].op = "idle"
        BY RowFacts, IdleCall DEF Apply, Finish
      <4>2. ledger \in Ledger /\ e \in EventIds
        BY RowFacts, EmittedFacts DEF BaseInv
      <4> QED
        BY <1>1, <1>4, <4>1, <4>2 DEF Apply, Ledger, Settled
    <3> QED
      BY <1>1, <1>4, <2>1, <3>1 DEF CommitsOldCopy
  <2>2. /\ account'.status = IF new.status # seen.status THEN new.status ELSE account.status
        /\ account'.grace = IF new.grace # seen.grace THEN new.grace ELSE account.grace
        /\ account'.files = IF new.files # seen.files THEN new.files ELSE account.files
        /\ account'.period = IF new.period # seen.period THEN new.period ELSE account.period
    BY <1>1, <1>2, <1>4, MergedRow
  <2>3. /\ new.files = seen.files \/ (new.files = 0 /\ new.period > seen.period)
        /\ seen.period # 0 /\ new.period # seen.period => new.files = 0
        /\ seen.status = "past_due" /\ seen.grace # 0 /\ new.status = "past_due"
             => new.grace = seen.grace
    BY <1>1, <1>2, AppliedRow
  <2>4. GraceStays
    <3>1. CommitsOldCopy({"status", "grace"})
          \/ (seen.status = account.status /\ seen.grace = account.grace)
      BY <2>1
    <3> QED
      BY <2>2, <2>3, <3>1 DEF GraceStays
  <2>5. ResetsOncePerPeriod
    <3>1. CommitsOldCopy({"period"}) \/ seen.period = account.period
      BY <2>1
    <3>2. new.period \in Nat
      BY BoundsAssumption DEF AccountRow, Times
    <3> QED
      BY <1>2, <2>2, <2>3, <3>1, <3>2 DEF ResetsOncePerPeriod
  <2>6. LaterPeriodResets
    <3>1. CommitsOldCopy({"period", "files"})
          \/ (seen.period = account.period /\ seen.files = account.files)
      BY <2>1
    <3> QED
      BY <2>2, <2>3, <3>1 DEF LaterPeriodResets
  <2> QED
    BY <2>4, <2>5, <2>6 DEF AccountMoves
<1> QED
  BY <1>3, <1>4

LEMMA AccountStep ==
  ASSUME BaseInv, [TeamNext]_vars
  PROVE  AccountMoves
<1>1. account \in AccountRow /\ account.files \in Nat
  BY RowFacts, LimitsAssumption DEF AccountRow
<1>2. ASSUME account'.status = account.status => account'.grace = account.grace,
             account'.files = account.files \/ account'.files = account.files + 1,
             account.period # 0 => account'.period = account.period
      PROVE  AccountMoves
  BY <1>1, <1>2 DEF AccountMoves, GraceStays, ResetsOncePerPeriod, LaterPeriodResets
<1>3. ASSUME account' = account PROVE AccountMoves
  BY <1>2, <1>3
<1>4. CASE IsChange
  BY <1>3, <1>4 DEF IsChange, Change, rowVars
<1>5. ASSUME NEW w \in Workers, NEW c \in Call, Work(w, c) PROVE AccountMoves
  <2>1. CASE QuietRows
    BY <1>3, <2>1 DEF QuietRows
  <2>2. CASE CheckoutCommit(w)
    <3>1. PICK x \in 1..MaxCustomer : account' = [account EXCEPT !.customer = x] \/ account' = account
      BY <2>2, CheckoutFacts
    <3> QED
      BY <1>1, <1>2, <3>1 DEF AccountRow
  <2>3. CASE SynchronizeCommit(w)
    BY <1>1, <2>3, SynchronizeFacts
      DEF AccountMoves, GraceStays, ResetsOncePerPeriod, LaterPeriodResets
  <2>4. CASE ConsumeDocument(w)
    BY <1>1, <1>2, <2>4 DEF ConsumeDocument, AccountRow
  <2> QED
    BY <1>5, <2>1, <2>2, <2>3, <2>4, ApplyMoves DEF Work
<1> QED
  BY <1>3, <1>4, <1>5, StepKinds

\* A grace period that runs is not extended, in whatever order the events arrive,
\* however many there are and however their deliveries overlap: the one that opens it
\* again has read the account before the failure or its deadline was written.
THEOREM GraceKept == TeamSpec => GraceIsNotExtended
<1>1. BaseInv /\ [TeamNext]_vars =>
        [(account.status = "past_due" /\ account.grace # 0
            /\ account'.status = "past_due")
           => account'.grace = account.grace \/ CommitsOldCopy({"status", "grace"})]_vars
  BY AccountStep DEF AccountMoves, GraceStays
<1> QED
  BY <1>1, BaseInvariant, PTL DEF TeamSpec, GraceIsNotExtended

\* The file counter is reset once per billing period, for any number of workers and of
\* uploads: what breaks it is a delivery that has read the account before another one
\* moved the period, or before an upload was counted.
THEOREM UsageResetOnce == TeamSpec => UsageResetsOncePerPeriod
<1>1. BaseInv /\ [TeamNext]_vars => [ResetsOncePerPeriod /\ LaterPeriodResets]_vars
  BY AccountStep DEF AccountMoves
<1> QED
  BY <1>1, BaseInvariant, PTL DEF TeamSpec, UsageResetsOncePerPeriod

-----------------------------------------------------------------------------
(* Deliveries of subscription events *)

\* The tenant of a subscription event is named in it.
SubscriptionsAreKnown ==
  \A w \in Workers :
    tx[w].op \in DeliveryOps /\ events[tx[w].event].kind = "subscription" => tx[w].known

LEMMA KnownStep ==
  ASSUME BaseInv, SubscriptionsAreKnown, [TeamNext]_vars
  PROVE  SubscriptionsAreKnown'
<1>1. /\ \A w \in Workers : tx[w].op \in DeliveryOps => tx[w].event \in Emitted
      /\ \A e \in Emitted : events'[e] = events[e]
  BY LedgerGrows, RowFacts DEF SoundCall, DeliveryOps
<1>2. ASSUME tx' = tx PROVE SubscriptionsAreKnown'
  BY <1>1, <1>2 DEF SubscriptionsAreKnown
<1>3. CASE IsChange
  BY <1>2, <1>3 DEF IsChange, Change, rowVars
<1>4. ASSUME NEW w \in Workers, NEW c \in Call, Work(w, c) PROVE SubscriptionsAreKnown'
  <2>1. events' = events /\ tx' = [tx EXCEPT ![w] = c] /\ tx \in [Workers -> Call]
    BY <1>4, RowFacts DEF Work, WorkerStep
  <2>2. c.op \in DeliveryOps /\ events[c.event].kind = "subscription" => c.known
    <3>1. events[c.event].kind = "subscription" => ~IsInvoice(c.event)
      BY DEF IsInvoice
    <3> QED
      BY <1>4, <3>1 DEF Work, Follows, SubscriptionsAreKnown
  <2>3. ASSUME NEW v \in Workers, tx'[v].op \in DeliveryOps, events[tx'[v].event].kind = "subscription"
        PROVE  tx'[v].known
    <3>1. CASE v = w
      BY <2>1, <2>2, <2>3, <3>1
    <3>2. CASE v # w
      BY <2>1, <2>3, <3>2 DEF SubscriptionsAreKnown
    <3> QED
      BY <3>1, <3>2
  <2> QED
    BY <2>1, <2>3 DEF SubscriptionsAreKnown
<1> QED
  BY <1>2, <1>3, <1>4, StepKinds

LEMMA KnownInvariant == TeamSpec => []SubscriptionsAreKnown
<1>1. Init => SubscriptionsAreKnown
  BY IdleCall DEF Init, SubscriptionsAreKnown, DeliveryOps
<1>2. BaseInv /\ SubscriptionsAreKnown /\ [TeamNext]_vars => SubscriptionsAreKnown'
  BY KnownStep
<1> QED
  BY <1>1, <1>2, BaseInvariant, PTL DEF TeamSpec

-----------------------------------------------------------------------------
(* The account is current once every subscription event is settled *)

\* The events that report a subscription.
Reports == {e \in Emitted : events[e].kind = "subscription"}

\* Event e shows the subscription as it is in s.
ShownBy(s, e) == s.status = events[e].status /\ s.product = events[e].product

\* Event e shows the subscription as the account does.
AccountShownBy(e) ==
  account.status = SubscriptionStatus(events[e].status) /\ account.product = events[e].product

\* No report that was settled is newer than the account's stamp.
SettledAreOlder ==
  \A f \in Reports : ledger[f] \in Settled => events[f].created <= account.last

\* The newest report of a subscription shows it as it is.
NewestShowsSubscription ==
  \A i \in 1..MaxSub :
    subs[i].status # "none" =>
      \E e \in Reports :
        /\ events[e].sub = i /\ ShownBy(subs[i], e)
        /\ \A f \in Reports : events[f].sub = i => events[f].created <= events[e].created

\* The account shows what a report of its stamp, or a newer one, does.
AccountShowsReport ==
  account.last # 0 => \E e \in Reports : AccountShownBy(e) /\ account.last <= events[e].created

\* So does the answer a synchronisation holds.
AnswerShowsReport ==
  \A w \in Workers :
    tx[w].op = "sync" /\ account.last # 0 =>
      \E e \in Reports : ShownBy(tx[w].sub, e) /\ account.last <= events[e].created

\* The account's stamp is that of a report of its subscription.
StampIsOfSubscription ==
  account.last # 0 =>
    \E f \in Reports : events[f].sub = account.sub /\ events[f].created = account.last

OrderInv == SettledAreOlder /\ NewestShowsSubscription
ShownInv == AccountShowsReport /\ AnswerShowsReport /\ StampIsOfSubscription

\* What overtaking spoils, and what an invoice or a checkout does.
HistoryInv == overtaken \/ (OrderInv /\ (overruled \/ ShownInv))

\* The reports and the subscriptions stay as they are.
SameReports == UNCHANGED <<subs, events>>

\* The plan of the account stays.
SamePlan ==
  /\ account'.status = account.status /\ account'.product = account.product
  /\ account'.sub = account.sub /\ account'.last = account.last

LEMMA ReportsStay ==
  ASSUME SameReports
  PROVE  /\ Reports' = Reports /\ Emitted' = Emitted /\ Settled' = Settled
         /\ \A e : (AccountShownBy(e))' <=> /\ account'.status = SubscriptionStatus(events[e].status)
                                            /\ account'.product = events[e].product
         /\ NewestShowsSubscription => NewestShowsSubscription'
<1>1. events' = events /\ subs' = subs /\ Emitted' = Emitted
  BY DEF SameReports, Emitted
<1>2. Reports' = Reports
  BY <1>1 DEF Reports
<1> QED
  BY <1>1, <1>2 DEF AccountShownBy, SubscriptionStatus, NewestShowsSubscription, ShownBy, Settled

\* A step that leaves the plan and settles no report.
LEMMA PlanQuiet ==
  ASSUME BaseInv, OrderInv, NEW w \in Workers, NEW c \in Call, WorkerStep(w, c), SamePlan,
         \A f \in Reports : ledger'[f] \in Settled =>
           ledger[f] \in Settled \/ events[f].created <= account.last,
         c.op = "sync" => c = tx[w] \/ c.sub = subs[account.sub]
  PROVE  OrderInv' /\ (ShownInv => ShownInv')
<1>1. /\ SameReports
      /\ \A v \in Workers : tx'[v] = tx[v] \/ tx'[v] = c
  BY RowFacts DEF WorkerStep, SameReports
<1>2. OrderInv'
  BY <1>1, ReportsStay DEF OrderInv, SettledAreOlder, SamePlan, SameReports
<1>3. ASSUME ShownInv PROVE ShownInv'
  <2>1. AccountShowsReport' /\ StampIsOfSubscription'
    BY <1>1, <1>3, ReportsStay DEF ShownInv, AccountShowsReport, StampIsOfSubscription,
                                   AccountShownBy, SamePlan, SameReports
  <2>2. ASSUME c.op = "sync", account.last # 0
        PROVE  \E e \in Reports : ShownBy(c.sub, e) /\ account.last <= events[e].created
    <3>1. CASE c = tx[w]
      BY <1>3, <2>2, <3>1 DEF ShownInv, AnswerShowsReport
    <3>2. CASE c.sub = subs[account.sub]
      <4>1. PICK i \in 1..MaxSub : i = account'.sub
        BY <2>2, Stamps, BoundsAssumption DEF WorkerStep, SoundCall, SamePlan
      <4>2. i = account.sub /\ subs[i].status # "none"
        BY <4>1, RowFacts, BoundsAssumption DEF SamePlan
      <4>3. PICK e \in Reports :
              /\ ShownBy(subs[i], e)
              /\ \A f \in Reports : events[f].sub = i => events[f].created <= events[e].created
        BY <4>2 DEF OrderInv, NewestShowsSubscription
      <4>4. PICK f \in Reports : events[f].sub = i /\ events[f].created = account.last
        BY <1>3, <2>2, <4>2 DEF ShownInv, StampIsOfSubscription
      <4> QED
        BY <3>2, <4>2, <4>3, <4>4
    <3> QED
      BY <2>2, <3>1, <3>2
  <2>3. AnswerShowsReport'
    <3> SUFFICES ASSUME NEW v \in Workers, tx'[v].op = "sync", account.last # 0
                 PROVE  \E e \in Reports : ShownBy(tx'[v].sub, e) /\ account.last <= events[e].created
      BY <1>1, ReportsStay DEF AnswerShowsReport, ShownBy, SamePlan, SameReports
    <3>1. CASE tx'[v] = tx[v]
      BY <1>3, <3>1 DEF ShownInv, AnswerShowsReport
    <3>2. CASE tx'[v] = c
      BY <2>2, <3>2
    <3> QED
      BY <1>1, <3>1, <3>2
  <2> QED
    BY <2>1, <2>3 DEF ShownInv
<1> QED
  BY <1>2, <1>3

\* The answer of a synchronisation shows what the reports do.
LEMMA PlanSynchronized ==
  ASSUME BaseInv, OrderInv, NEW w \in Workers, SynchronizeCommit(w), WorkerStep(w, Idle)
  PROVE  OrderInv' /\ (ShownInv => ShownInv')
<1>1. /\ SameReports /\ ledger' = ledger
      /\ \A v \in Workers : tx'[v].op = "sync" => tx'[v] = tx[v]
  BY RowFacts, IdleCall DEF WorkerStep, SameReports, SynchronizeCommit
<1>2. /\ account'.status = SubscriptionStatus(tx[w].sub.status)
      /\ account'.product = tx[w].sub.product
      /\ account'.last = account.last /\ account'.sub = account.sub
  BY SynchronizeFacts
<1>3. OrderInv'
  BY <1>1, <1>2, ReportsStay DEF OrderInv, SettledAreOlder, SameReports
<1>4. ASSUME ShownInv PROVE ShownInv'
  <2>1. StampIsOfSubscription' /\ AnswerShowsReport'
    BY <1>1, <1>2, <1>4, ReportsStay DEF ShownInv, StampIsOfSubscription, AnswerShowsReport,
                                         ShownBy, SameReports
  <2>2. ASSUME account.last # 0
        PROVE  \E e \in Reports : (AccountShownBy(e))' /\ account.last <= events[e].created
    <3>1. PICK e \in Reports : ShownBy(tx[w].sub, e) /\ account.last <= events[e].created
      BY <1>4, <2>2 DEF ShownInv, AnswerShowsReport, SynchronizeCommit
    <3> QED
      BY <1>1, <1>2, <3>1, ReportsStay DEF ShownBy
  <2>3. AccountShowsReport'
    BY <1>1, <1>2, <2>2, ReportsStay DEF AccountShowsReport, SameReports
  <2> QED
    BY <2>1, <2>3 DEF ShownInv
<1> QED
  BY <1>3, <1>4

LEMMA AppliedSubscription ==
  ASSUME NEW a \in AccountRow, NEW e \in EventRow, now \in 1..MaxTime
  PROVE  LET b == Applied(a, e)
             same == b.status = a.status /\ b.product = a.product /\ b.sub = a.sub
         IN  /\ e.kind # "subscription" \/ Stale(a, e) => b.last = a.last
             /\ Stale(a, e) => same
             /\ e.kind = "subscription" /\ e.created # 0 /\ ~Stale(a, e) =>
                  /\ b.status = SubscriptionStatus(e.status) /\ b.product = e.product
                  /\ b.sub = e.sub /\ b.last = e.created
<1>1. CASE Stale(a, e)
  <2>1. Applied(a, e) = [a EXCEPT !.customer = e.customer]
    BY <1>1 DEF Applied, Stale
  <2> QED
    BY <1>1, <2>1 DEF AccountRow
<1>2. CASE ~Stale(a, e) /\ e.kind = "subscription"
  <2>1. Applied(a, e) = SubscriptionChanged(a, e, e.sub, e.created)
    BY <1>2 DEF Applied
  <2>2. /\ e.customer \in 1..MaxCustomer /\ e.sub \in 1..MaxSub /\ e.created \in Times
        /\ e.period \in Times /\ e.product \in AllPlans /\ e.status \in ProviderStatus
    BY DEF EventRow
  <2> QED
    BY <1>2, <2>1, <2>2, SubscriptionChangedRow
<1>3. CASE ~Stale(a, e) /\ e.kind # "subscription"
  <2>1. Applied(a, e) \in {CheckoutCompleted(a, e), InvoicePaid(a, e), InvoiceFailed(a, e)}
    BY <1>3 DEF Applied, EventRow, AllKinds
  <2>2. CheckoutCompleted(a, e).last = a.last /\ InvoiceFailed(a, e).last = a.last
    BY DEF CheckoutCompleted, InvoiceFailed, AccountRow
  <2>3. InvoicePaid(a, e).last = a.last
    BY DEF InvoicePaid, SyncUsagePeriod, AccountRow
  <2> QED
    BY <1>3, <2>1, <2>2, <2>3
<1> QED
  BY <1>1, <1>2, <1>3

\* A delivery that no call has overtaken: the columns of the plan are what the event
\* makes of the row.
LEMMA PlanApplied ==
  ASSUME BaseInv, NEW w \in Workers, Apply(w), tx[w].known, ~CommitsOldCopy(PlanColumns)
  PROVE  \E e \in Emitted, new \in AccountRow :
           /\ e = tx[w].event /\ new = Applied(tx[w].seen, events[e])
           /\ account'.status = new.status /\ account'.product = new.product
           /\ account'.sub = new.sub /\ account'.last = new.last
           /\ events[e].kind # "subscription" \/ Stale(tx[w].seen, events[e])
                => new.last = account.last
           /\ Stale(tx[w].seen, events[e]) =>
                SamePlan /\ events[e].created < account.last /\ ledger'[e] = "ignored_stale"
           /\ events[e].kind = "subscription" /\ ~Stale(tx[w].seen, events[e]) =>
                /\ new.status = SubscriptionStatus(events[e].status)
                /\ new.product = events[e].product /\ new.sub = events[e].sub
                /\ new.last = events[e].created /\ account.last <= events[e].created
<1>1. PICK e \in Emitted, ev \in EventRow, seen \in AccountRow, new \in AccountRow :
        /\ e = tx[w].event /\ ev = events[e] /\ seen = tx[w].seen /\ new = Applied(seen, ev)
        /\ account' = Merged(account, seen, new)
  BY ApplyFacts
<1>2. tx[w].op = "seen" /\ tx'[w].op = "idle" /\ ledger \in Ledger /\ e \in EventIds
  BY RowFacts, EmittedFacts, IdleCall DEF Apply, Finish, BaseInv
<1>3. ledger' = [ledger EXCEPT ![e] = IF Stale(seen, ev) THEN "ignored_stale" ELSE "processed"]
  BY <1>1 DEF Apply
<1>4. ledger'[e] = IF Stale(seen, ev) THEN "ignored_stale" ELSE "processed"
  BY <1>2, <1>3 DEF Ledger
<1>5. \A c \in PlanColumns : seen[c] = account[c]
  BY <1>1, <1>2, <1>4 DEF CommitsOldCopy, Settled
<1>6. /\ seen.status = account.status /\ seen.product = account.product
      /\ seen.sub = account.sub /\ seen.last = account.last
  BY <1>5 DEF PlanColumns
<1>7. /\ account'.status = new.status /\ account'.product = new.product
      /\ account'.sub = new.sub /\ account'.last = new.last
  BY <1>1, <1>6, RowFacts, MergedRow
<1>8. ev.created # 0 /\ ev.created \in Nat /\ account.last \in Nat
  BY <1>1, Stamps
<1>9. /\ ev.kind # "subscription" \/ Stale(seen, ev) => new.last = account.last
      /\ Stale(seen, ev) => SamePlan
      /\ ev.kind = "subscription" /\ ~Stale(seen, ev) =>
           /\ new.status = SubscriptionStatus(ev.status) /\ new.product = ev.product
           /\ new.sub = ev.sub /\ new.last = ev.created
  BY <1>1, <1>6, <1>7, <1>8, RowFacts, AppliedSubscription DEF SamePlan
<1>10. /\ Stale(seen, ev) => ev.created < account.last
       /\ ev.kind = "subscription" /\ ~Stale(seen, ev) => account.last <= ev.created
  BY <1>6, <1>8 DEF Stale
<1> QED
  BY <1>1, <1>4, <1>7, <1>9, <1>10

LEMMA PlanApply ==
  ASSUME BaseInv, OrderInv, SubscriptionsAreKnown, NEW w \in Workers, Apply(w),
         WorkerStep(w, Idle), ~CommitsOldCopy(PlanColumns)
  PROVE  /\ OrderInv'
         /\ ShownInv \/ PlanIsReported => ShownInv' \/ PlanIsOverruled
<1>1. /\ SameReports /\ ledger \in Ledger
      /\ \A v \in Workers : tx'[v].op = "sync" => tx'[v] = tx[v]
      /\ tx[w].op = "seen" /\ tx'[w].op = "idle" /\ Idle.op # "sync"
  BY RowFacts, IdleCall DEF WorkerStep, SameReports, Apply
<1>2. PICK e \in Emitted : e = tx[w].event
  BY ApplyFacts
<1>3. \A f \in EventIds : f # e => ledger'[f] = ledger[f]
  BY <1>1, <1>2 DEF Apply, Ledger
<1>4. Reports \subseteq EventIds
  BY EmittedFacts DEF BaseInv, Reports
<1>5. PlanIsReported => events[e].kind = "subscription" /\ ledger'[e] = "processed"
  <2>1. ASSUME NEW v \in Workers, Delivers(v), events[tx[v].event].kind = "subscription",
               ledger[tx[v].event] # "processed", ledger'[tx[v].event] = "processed"
        PROVE  events[e].kind = "subscription" /\ ledger'[e] = "processed"
    <3>1. v = w
      BY <1>1, <2>1, RowFacts DEF WorkerStep, Delivers
    <3> QED
      BY <1>2, <2>1, <3>1
  <2> QED
    BY <2>1 DEF PlanIsReported
\* An invoice or a checkout.
<1>6. CASE events[e].kind # "subscription"
  <2>1. e \notin Reports
    BY <1>6 DEF Reports
  <2>2. \A f \in Reports : ledger'[f] = ledger[f]
    BY <1>3, <1>4, <2>1
  <2>3. account'.last = account.last
    <3>1. CASE tx[w].known
      BY <1>2, <1>6, <3>1, PlanApplied
    <3>2. CASE ~tx[w].known
      BY <3>2 DEF Apply
    <3> QED
      BY <3>1, <3>2
  <2>4. OrderInv'
    BY <1>1, <2>2, <2>3, ReportsStay DEF OrderInv, SettledAreOlder, SameReports
  <2>5. CASE SamePlan
    BY <1>1, <1>5, <1>6, <2>2, <2>4, <2>5, IdleCall, PlanQuiet
  <2>6. CASE ~SamePlan
    <3>1. PlanIsOverruled
      BY <1>1, <1>2, <1>6, <2>6 DEF PlanIsOverruled, Delivers, SamePlan, PlanColumns
    <3> QED
      BY <2>4, <3>1
  <2> QED
    BY <2>5, <2>6
\* A report.
<1>7. CASE events[e].kind = "subscription"
  <2>1. tx[w].known /\ e \in Reports
    BY <1>1, <1>2, <1>7 DEF SubscriptionsAreKnown, DeliveryOps, Reports
  <2>2. PICK new \in AccountRow :
          /\ new = Applied(tx[w].seen, events[e])
          /\ account'.status = new.status /\ account'.product = new.product
          /\ account'.sub = new.sub /\ account'.last = new.last
          /\ Stale(tx[w].seen, events[e]) =>
               SamePlan /\ events[e].created < account.last /\ ledger'[e] = "ignored_stale"
          /\ ~Stale(tx[w].seen, events[e]) =>
               /\ new.status = SubscriptionStatus(events[e].status)
               /\ new.product = events[e].product /\ new.sub = events[e].sub
               /\ new.last = events[e].created /\ account.last <= events[e].created
    BY <1>2, <1>7, <2>1, PlanApplied
  <2>3. CASE Stale(tx[w].seen, events[e])
    <3>1. \A f \in Reports : ledger'[f] \in Settled =>
            ledger[f] \in Settled \/ events[f].created <= account.last
      BY <1>3, <1>4, <2>2, <2>3, Stamps
    <3> QED
      BY <1>1, <1>5, <2>2, <2>3, <3>1, IdleCall, PlanQuiet
  <2>4. CASE ~Stale(tx[w].seen, events[e])
    <3>1. /\ account'.status = SubscriptionStatus(events[e].status)
          /\ account'.product = events[e].product /\ account'.sub = events[e].sub
          /\ account'.last = events[e].created /\ account.last <= events[e].created
      BY <2>2, <2>4
    <3>2. events[e].created \in Nat /\ account.last \in Nat /\ \A f \in Reports : events[f].created \in Nat
      BY Stamps DEF Reports
    <3>3. SettledAreOlder'
      <4> SUFFICES ASSUME NEW f \in Reports, ledger'[f] \in Settled
                   PROVE  events[f].created <= events[e].created
        BY <1>1, <3>1, ReportsStay DEF SettledAreOlder, SameReports
      <4>1. CASE f = e
        BY <3>2, <4>1
      <4>2. CASE f # e
        <5>1. events[f].created <= account.last
          BY <1>3, <1>4, <4>2 DEF OrderInv, SettledAreOlder
        <5> QED
          BY <3>1, <3>2, <5>1
      <4> QED
        BY <4>1, <4>2
    <3>4. AccountShowsReport' /\ StampIsOfSubscription'
      BY <1>1, <2>1, <3>1, <3>2, ReportsStay DEF AccountShowsReport, StampIsOfSubscription, SameReports
    <3>5. \A v \in Workers : tx'[v].op # "sync"
      <4>1. \A v \in Workers : tx[v].op # "sync"
        BY <2>1 DEF Apply, AccountLocked, AccountCalls
      <4> QED
        BY <1>1, <4>1
    <3>6. AnswerShowsReport'
      BY <3>5 DEF AnswerShowsReport
    <3> QED
      BY <1>1, <3>3, <3>4, <3>6, ReportsStay DEF OrderInv, ShownInv
  <2> QED
    BY <2>3, <2>4
<1> QED
  BY <1>6, <1>7

\* A step of a worker, when no delivery has been overtaken.
LEMMA HistoryWork ==
  ASSUME BaseInv, SubscriptionsAreKnown, OrderInv, NEW w \in Workers, NEW c \in Call, Work(w, c),
         ~CommitsOldCopy(PlanColumns)
  PROVE  /\ OrderInv'
         /\ ShownInv \/ PlanIsReported => ShownInv' \/ PlanIsOverruled
<1>1. /\ account \in AccountRow /\ ledger \in Ledger /\ WorkerStep(w, c)
      /\ c.op = "sync" => c = tx[w] \/ c.sub = subs[account.sub]
  BY RowFacts DEF Work, Follows
<1>2. Reports \subseteq EventIds
  BY EmittedFacts DEF BaseInv, Reports
<1>3. (\A f \in EventIds : ledger'[f] = "processed" => ledger[f] = "processed") => ~PlanIsReported
  BY EmittedFacts, RowFacts DEF PlanIsReported, Delivers, BaseInv, SoundCall
<1>4. ASSUME SamePlan, ledger' = ledger \/ (\E e \in Emitted, s \in {"received", "failed"} :
                                             ledger' = [ledger EXCEPT ![e] = s])
      PROVE  OrderInv' /\ (ShownInv \/ PlanIsReported => ShownInv')
  <2>1. /\ \A f \in Reports : ledger'[f] \in Settled => ledger[f] \in Settled
        /\ \A f \in EventIds : ledger'[f] = "processed" => ledger[f] = "processed"
    BY <1>1, <1>2, <1>4 DEF Ledger, Settled
  <2> QED
    BY <1>1, <1>3, <1>4, <2>1, PlanQuiet
<1>5. CASE QuietRows
  BY <1>4, <1>5 DEF QuietRows, SamePlan
<1>6. CASE c = Idle /\ Apply(w)
  BY <1>1, <1>6, PlanApply
<1>7. CASE c = Idle /\ SynchronizeCommit(w)
  <2>1. ~PlanIsReported
    BY <1>3, <1>7 DEF SynchronizeCommit
  <2> QED
    BY <1>1, <1>7, <2>1, PlanSynchronized
<1>8. CASE CheckoutCommit(w)
  <2>1. PICK x \in 1..MaxCustomer : account' = [account EXCEPT !.customer = x] \/ account' = account
    BY <1>8, CheckoutFacts
  <2> QED
    BY <1>1, <1>4, <1>8, <2>1 DEF AccountRow, SamePlan, CheckoutCommit
<1>9. CASE ConsumeDocument(w)
  BY <1>1, <1>4, <1>9 DEF ConsumeDocument, AccountRow, SamePlan
<1> QED
  BY <1>5, <1>6, <1>7, <1>8, <1>9 DEF Work

\* A change at the provider is reported, with the newest stamp.
LEMMA HistoryChange ==
  ASSUME BaseInv, LedgerIsOfEvents, OrderInv, "subscription" \in Kinds, [TeamNext]_vars, IsChange
  PROVE  OrderInv' /\ (ShownInv => ShownInv')
<1>1. PICK i \in 1..MaxSub, s \in LiveSubscription, t \in {now, now + 1},
           new \in Seq(AllKinds), cycle \in BOOLEAN :
        /\ Change(i, s, t, new, cycle) /\ Holds(new, "subscription")
  BY DEF IsChange
<1>2. /\ account' = account /\ tx' = tx /\ ledger' = ledger
      /\ subs' = [subs EXCEPT ![i] = s] /\ subs \in [1..MaxSub -> Subscription]
  BY <1>1 DEF Change, rowVars, BaseInv, TypeOK
<1>3. Appended(i, s, t, new, cycle) /\ Len(new) \in Nat
  BY <1>1, ChangeAppends
<1>4. /\ Emitted \subseteq Emitted' /\ \A e \in Emitted : events'[e] = events[e]
      /\ Reports \subseteq Reports'
  BY LedgerGrows DEF Reports
<1>5. \A e \in Emitted' : e \notin Emitted =>
        /\ events'[e].sub = i /\ events'[e].created = t /\ events'[e].status = s.status
        /\ events'[e].product = s.product
  <2> SUFFICES ASSUME NEW e \in Emitted', e \notin Emitted
               PROVE  /\ events'[e].sub = i /\ events'[e].created = t
                      /\ events'[e].status = s.status /\ events'[e].product = s.product
    OBVIOUS
  <2>1. PICK n \in 1..Len(new) : events'[e] = Event(new[n], i, s, t, cycle)
    BY <1>3 DEF Appended, Emitted
  <2> QED
    BY <2>1 DEF Event
<1>6. PICK x \in Reports' : x \notin Emitted
  <2>1. PICK n \in 1..Len(new) : new[n] = "subscription"
    BY <1>1 DEF Holds
  <2>2. Len(events) \in Nat /\ Len(events') = Len(events) + Len(new)
    BY <1>3 DEF Appended, BaseInv, TypeOK
  <2>3. Len(events) + n \in 1..Len(events') /\ Len(events) + n \notin 1..Len(events)
    BY <1>3, <2>2
  <2>4. events'[Len(events) + n].kind = "subscription"
    <3>1. events'[Len(events) + n] = Event(new[n], i, s, t, cycle)
      BY <1>3 DEF Appended
    <3> QED
      BY <2>1, <3>1 DEF Event
  <2> QED
    BY <2>3, <2>4 DEF Emitted, Reports
<1>7. \A e \in Reports' : e \in Emitted' /\ e \in EventIds /\ (e \in Emitted => e \in Reports)
  <2>1. BaseInv'
    BY BaseStep
  <2>2. Len(events') \in Nat /\ Len(events') <= MaxEvents
    BY <2>1 DEF BaseInv, TypeOK
  <2>3. Emitted' \subseteq EventIds
    BY <2>2, BoundsAssumption DEF Emitted, EventIds
  <2> QED
    BY <1>4, <2>3 DEF Reports
<1>8. SettledAreOlder'
  <2>1. \A f \in Reports' : ledger[f] \in Settled => f \in Reports
    BY <1>7 DEF LedgerIsOfEvents, Settled
  <2> QED
    BY <1>2, <1>4, <1>7, <2>1 DEF OrderInv, SettledAreOlder, Settled, Reports
<1>9. NewestShowsSubscription'
  <2> SUFFICES ASSUME NEW j \in 1..MaxSub, subs'[j].status # "none"
               PROVE  \E e \in Reports' :
                        /\ events'[e].sub = j /\ subs'[j].status = events'[e].status
                        /\ subs'[j].product = events'[e].product
                        /\ \A f \in Reports' : events'[f].sub = j => events'[f].created <= events'[e].created
    BY DEF NewestShowsSubscription, ShownBy
  <2>1. t \in Nat /\ t >= now /\ now \in Nat
    BY Stamps
  <2>2. CASE j = i
    <3>1. \A f \in Emitted' : events'[f].created <= t
      BY <1>4, <1>5, <2>1, Stamps
    <3> QED
      BY <1>2, <1>5, <1>6, <1>7, <2>2, <3>1
  <2>3. CASE j # i
    <3>1. subs'[j] = subs[j]
      BY <1>2, <2>3
    <3>2. \A f \in Reports' : events'[f].sub = j => f \in Reports
      BY <1>5, <1>7, <2>3
    <3>3. PICK e \in Reports :
            /\ events[e].sub = j /\ ShownBy(subs[j], e)
            /\ \A f \in Reports : events[f].sub = j => events[f].created <= events[e].created
      BY <3>1 DEF OrderInv, NewestShowsSubscription
    <3>4. \A f \in Reports : events'[f] = events[f]
      BY <1>4 DEF Reports
    <3> QED
      BY <1>4, <3>1, <3>2, <3>3, <3>4 DEF ShownBy
  <2> QED
    BY <2>2, <2>3
<1>10. ASSUME ShownInv PROVE ShownInv'
  <2>1. \A e \in Reports : e \in Reports' /\ events'[e] = events[e]
    BY <1>4 DEF Reports
  <2>2. AccountShowsReport' /\ StampIsOfSubscription'
    BY <1>2, <1>10, <2>1 DEF ShownInv, AccountShowsReport, AccountShownBy, SubscriptionStatus,
                             StampIsOfSubscription
  <2>3. AnswerShowsReport'
    BY <1>2, <1>10, <2>1 DEF ShownInv, AnswerShowsReport, ShownBy
  <2> QED
    BY <2>2, <2>3 DEF ShownInv
<1> QED
  BY <1>8, <1>9, <1>10 DEF OrderInv

LEMMA HistoryIsOfTeam == [HistoryNext]_historyVars => [TeamNext]_vars
BY DEF HistoryNext, historyVars

LEMMA HistorySpecIsTeamSpec == HistorySpec => TeamSpec
BY HistoryIsOfTeam, PTL DEF HistorySpec, HistoryInit, TeamSpec

LEMMA HistoryStep ==
  ASSUME BaseInv, LedgerIsOfEvents, SubscriptionsAreKnown, HistoryInv, "subscription" \in Kinds,
         [HistoryNext]_historyVars
  PROVE  HistoryInv'
<1>1. [TeamNext]_vars /\ (Note \/ UNCHANGED historyVars)
  BY HistoryIsOfTeam DEF HistoryNext
<1>2. ASSUME UNCHANGED <<account, ledger, tx, subs, events>>
      PROVE  (OrderInv => OrderInv') /\ (ShownInv => ShownInv')
  BY <1>2 DEF OrderInv, ShownInv, SettledAreOlder, NewestShowsSubscription, AccountShowsReport,
              AccountShownBy, AnswerShowsReport, StampIsOfSubscription, ShownBy, Reports, Emitted,
              Settled, SubscriptionStatus
<1>3. CASE UNCHANGED historyVars
  BY <1>2, <1>3 DEF HistoryInv, historyVars, vars, rowVars, providerVars
<1>4. CASE Note
  <2> SUFFICES ASSUME ~overtaken' PROVE OrderInv' /\ (overruled' \/ ShownInv')
    BY DEF HistoryInv
  <2>1. ~overtaken /\ ~CommitsOldCopy(PlanColumns) /\ OrderInv /\ (overruled \/ ShownInv)
    BY <1>4 DEF Note, HistoryInv
  <2>2. ASSUME OrderInv', ShownInv \/ PlanIsReported => ShownInv' \/ PlanIsOverruled,
               PlanIsReported => ~PlanIsOverruled
        PROVE  OrderInv' /\ (overruled' \/ ShownInv')
    BY <1>4, <2>1, <2>2 DEF Note
  <2>3. ASSUME tx' = tx PROVE ~PlanIsReported
    BY <2>3 DEF PlanIsReported, Delivers
  <2>4. PlanIsReported => ~PlanIsOverruled
    <3> SUFFICES ASSUME NEW v \in Workers, NEW u \in Workers, Delivers(v), Delivers(u)
                 PROVE  u = v
      BY DEF PlanIsReported, PlanIsOverruled
    <3>1. ASSUME NEW w \in Workers, NEW c \in Call, Work(w, c) PROVE u = w /\ v = w
      BY <3>1, RowFacts DEF Work, WorkerStep, Delivers
    <3>2. ASSUME tx' = tx PROVE FALSE
      BY <3>2 DEF Delivers
    <3>3. CASE IsChange
      BY <3>2, <3>3 DEF IsChange, Change, rowVars
    <3> QED
      BY <1>1, <3>1, <3>2, <3>3, StepKinds
  <2>5. CASE IsChange
    <3>1. tx' = tx
      BY <2>5 DEF IsChange, Change, rowVars
    <3> QED
      BY <1>1, <2>1, <2>2, <2>3, <2>4, <2>5, <3>1, HistoryChange
  <2>6. CASE UNCHANGED <<account, ledger, tx, subs, events>>
    BY <1>2, <2>1, <2>2, <2>3, <2>4, <2>6
  <2>7. ASSUME NEW w \in Workers, NEW c \in Call, Work(w, c)
        PROVE  OrderInv' /\ (overruled' \/ ShownInv')
    BY <2>1, <2>2, <2>4, <2>7, HistoryWork
  <2> QED
    BY <1>1, <2>5, <2>6, <2>7, StepKinds
<1> QED
  BY <1>1, <1>3, <1>4

LEMMA HistoryShows == BaseInv /\ HistoryInv => PlanIsCurrent
<1> SUFFICES ASSUME BaseInv, OrderInv, ShownInv, Reports # {}, \A e \in Reports : ledger[e] \in Settled
             PROVE  \E e \in Reports : /\ \A f \in Reports : events[f].created <= events[e].created
                                       /\ AccountShownBy(e)
  BY DEF HistoryInv, PlanIsCurrent, ShowsNewest, AccountShownBy, Reports
<1>1. \A f \in Reports : events[f].created <= account.last /\ f \in Emitted
  BY DEF OrderInv, SettledAreOlder, Reports
<1>2. account.last # 0
  BY <1>1, Stamps
<1>3. PICK e \in Reports : AccountShownBy(e) /\ account.last <= events[e].created
  BY <1>2 DEF ShownInv, AccountShowsReport
<1>4. \A f \in Reports : events[f].created <= events[e].created
  BY <1>1, <1>3, Stamps
<1> QED
  BY <1>3, <1>4

\* Once every subscription event is settled the account shows what a newest one does,
\* for any number of workers, kinds of event and subscriptions, and through any order,
\* repetition, failure and overlap of deliveries, synchronisations and checkouts: only
\* two things make it show something else, a delivery that committed from an old copy
\* of the plan, and an invoice or a checkout that changed the plan after the last
\* subscription event.
THEOREM AccountBecomesCurrent == HistorySpec => []PlanIsCurrent
<1>1. HistoryInit => HistoryInv
  <2> SUFFICES ASSUME Init PROVE OrderInv /\ ShownInv
    BY DEF HistoryInit, HistoryInv
  <2>1. events = <<>> /\ Len(<<>>) = 0 /\ Reports = {}
    BY DEF Init, Emitted, Reports
  <2>2. account.last = 0 /\ \A i \in 1..MaxSub : subs[i].status = "none"
    BY DEF Init, NewAccount, NoSubscription
  <2> QED
    BY <2>1, <2>2 DEF OrderInv, ShownInv, SettledAreOlder, AccountShowsReport, AnswerShowsReport,
                      NewestShowsSubscription, StampIsOfSubscription
<1>2. HistorySpec => []BaseInv
  BY BaseInvariant, HistorySpecIsTeamSpec, PTL
<1>3. CASE "subscription" \in Kinds
  <2>1. BaseInv /\ LedgerIsOfEvents /\ SubscriptionsAreKnown /\ HistoryInv
          /\ [HistoryNext]_historyVars => HistoryInv'
    BY <1>3, HistoryStep
  <2>2. BaseInv /\ HistoryInv => PlanIsCurrent
    BY HistoryShows
  <2> QED
    BY <1>1, <1>2, <2>1, <2>2, LedgerInvariant, KnownInvariant, HistorySpecIsTeamSpec, PTL
      DEF HistorySpec
<1>4. CASE "subscription" \notin Kinds
  <2>1. BaseInv => PlanIsCurrent
    <3>1. BaseInv => Reports = {}
      BY <1>4 DEF BaseInv, ProviderIsSound, Reports
    <3> QED
      BY <3>1 DEF PlanIsCurrent, ShowsNewest, Reports
  <2> QED
    BY <1>2, <2>1, PTL
<1> QED
  BY <1>3, <1>4

-----------------------------------------------------------------------------
(* A plan with a single seat *)

LEMMA ReconciledAdmins ==
  ASSUME BaseInv, ActiveAdmins # {}, NEW a, member' = Reconciled(a)
  PROVE  /\ ActiveAdmins' # {}
         /\ MemberLimit(a) = 1 => Cardinality(ActiveMembers') <= 1
<1>1. PICK first \in ActiveAdmins : first = FirstAdmin
  BY FirstAdminIs
<1>2. first \in Members /\ member[first].active /\ member[first].role = "admin"
  BY DEF ActiveAdmins, ActiveMembers
<1>3. member \in [Members -> MemberRow]
  BY RowFacts
<1>4. CASE member' = member /\ MemberLimit(a) # 1
  BY <1>4 DEF ActiveAdmins, ActiveMembers
<1>5. CASE member' = [m \in Members |-> [member[m] EXCEPT !.active = @ /\ m = FirstAdmin]]
  <2>1. PICK on \in [Members -> BOOLEAN] : on = [m \in Members |-> member[m].active /\ m = first]
    OBVIOUS
  <2>2. member' = [m \in Members |-> [member[m] EXCEPT !.active = on[m]]]
    BY <1>1, <1>5, <2>1
  <2>3. \A m \in Members : member'[m].active = on[m]
    BY <1>3, <2>2, ActivityRows
  <2>4. member'[first].role = "admin"
    BY <1>2, <1>3, <2>2 DEF MemberRow
  <2>5. first \in ActiveAdmins'
    BY <1>2, <2>1, <2>3, <2>4 DEF ActiveAdmins, ActiveMembers
  <2>6. ActiveMembers' \subseteq {first}
    BY <2>1, <2>3 DEF ActiveMembers
  <2>7. Cardinality(ActiveMembers') <= 1
    <3>1. PICK S : S = ActiveMembers'
      OBVIOUS
    <3>2. IsFiniteSet({first}) /\ Cardinality({first}) = 1
      BY FS_Singleton
    <3>3. Cardinality(S) <= 1
      BY <2>6, <3>1, <3>2, CountWithin
    <3> QED
      BY <3>1, <3>3
  <2> QED
    BY <2>5, <2>7
<1> QED
  BY <1>4, <1>5 DEF Reconciled

LEMMA SingleSeatStep ==
  ASSUME BaseInv, SubscriptionsAreKnown, [TeamNext]_vars
  PROVE  SingleSeatIsEnforced
<1> SUFFICES ASSUME NEW v \in Workers, LeavesSingleSeat(v), CopyShowsPlan(v), ActiveAdmins # {}
             PROVE  Cardinality(ActiveMembers') <= 1
  BY DEF SingleSeatIsEnforced
<1>1. PICK e \in Emitted : e = tx[v].event
  BY RowFacts DEF LeavesSingleSeat, SoundCall
<1>2. /\ events[e].kind = "subscription" /\ ledger[e] # "processed" /\ ledger'[e] = "processed"
      /\ tx[v].op = "seen" /\ tx'[v].op = "idle" /\ MemberLimit(account)' = 1
  BY <1>1 DEF LeavesSingleSeat
<1>3. e \in EventIds /\ ledger \in Ledger /\ tx \in [Workers -> Call]
  BY EmittedFacts, RowFacts DEF BaseInv
<1>4. PICK w \in Workers : Apply(w)
  <2>1. ASSUME NEW f \in Emitted, NEW s \in {"received", "failed"}, ledger' = [ledger EXCEPT ![f] = s]
        PROVE  FALSE
    BY <1>2, <1>3, <2>1 DEF Ledger
  <2> QED
    BY <1>2, <2>1, LedgerGrows
<1>5. w = v
  BY <1>2, <1>3, <1>4 DEF Apply, Finish
<1>6. tx[v].known /\ Apply(v)
  BY <1>1, <1>2, <1>4, <1>5 DEF SubscriptionsAreKnown, DeliveryOps
<1>7. PICK seen \in AccountRow, new \in AccountRow :
        /\ seen = tx[v].seen /\ new = Applied(seen, events[e])
        /\ account' = Merged(account, seen, new)
  BY <1>1, <1>6, ApplyFacts
<1>8. ~Stale(seen, events[e])
  BY <1>1, <1>2, <1>3, <1>6, <1>7 DEF Apply, Ledger
<1>9. member' = Reconciled(new) /\ now' = now
  BY <1>1, <1>2, <1>6, <1>7, <1>8 DEF Apply
<1>10. account'.status = new.status /\ account'.product = new.product /\ account'.grace = new.grace
  BY <1>7, RowFacts, MergedRow DEF CopyShowsPlan
<1>11. MemberLimit(new) = 1
  BY <1>2, <1>9, <1>10 DEF MemberLimit, PaidAccess
<1> QED
  BY <1>9, <1>11, ReconciledAdmins

\* The team stays within its plan for every number of workers and every size of team
\* and plan: the lock on the account covers an addition from its check to its insert,
\* and a session judges the plan it writes (add_member, reconcile_single_member_plan).
THEOREM SeatsStayWithinPlan == TeamSpec => SeatsAreWithinPlan
<1>1. BaseInv /\ SubscriptionsAreKnown /\ [TeamNext]_vars => [SingleSeatIsEnforced]_vars
  BY SingleSeatStep
<1> QED
  BY <1>1, BaseInvariant, KnownInvariant, NewcomersAreSeated, PTL DEF SeatsAreWithinPlan, TeamSpec
=============================================================================
