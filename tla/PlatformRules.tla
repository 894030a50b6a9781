--------------------------- MODULE PlatformRules -----------------------------
(***************************************************************************)
(* Rules that two parts of the system compute independently and must agree *)
(* on: the check digits of Brazilian identifiers (Auth and Core), what     *)
(* the billing page quotes and what the workflow then charges, the price   *)
(* that is sold and the plan it is recognised as, the doors to another     *)
(* plan, and the notice of a subscription event.                           *)
(*                                                                         *)
(* They are pure: a state is the case being asked about, and a property    *)
(* compares the two computations on it.                                    *)
(***************************************************************************)
EXTENDS Naturals, Sequences, FiniteSets, Functions

CONSTANTS
    PlanFileLimits,     \* product code -> files per billing period
    Unpriced,           \* <<product, interval, currency>> without a price
    EuroCountries,      \* the countries billed in EUR
    Questions,          \* the cases asked about
    Horizon,            \* calls in a row that a quote is tried with
    None                \* no value

VARIABLE question

-----------------------------------------------------------------------------
(* Identifiers.  A typed character is a digit 0..9, a letter or a mark.    *)

Letter == 10
Mark == 11
Alphanumeric == (0..9) \cup {Letter}

\* What is left of a text when only the characters in keep are kept.
Only(keep, text) ==
    LET upTo[n \in 0..Len(text)] ==
          IF n = 0 THEN << >>
          ELSE IF text[n] \in keep THEN Append(upTo[n - 1], text[n])
          ELSE upTo[n - 1]
    IN  upTo[Len(text)]

Refused == [ok |-> FALSE]
Stored(v) == [ok |-> TRUE, value |-> v]

AllDigits(v) == \A i \in DOMAIN v : v[i] \in 0..9
AllEqual(v) == \A i \in DOMAIN v : v[i] = v[1]
WeightedSum(v, w) == SumFunction([i \in DOMAIN w |-> v[i] * w[i]])

\* Mutant: a remainder of ten is compared with the digit as it is.
CpfDigitTen(v, size) ==
    (WeightedSum(v, [i \in 1..size |-> size + 2 - i]) * 10) % 11

\* The check digit after the first size digits of a CPF.
CpfDigit(v, size) ==
    ((WeightedSum(v, [i \in 1..size |-> size + 2 - i]) * 10) % 11) % 10

CnpjWeights(size) ==
    IF size = 12 THEN <<5, 4, 3, 2, 9, 8, 7, 6, 5, 4, 3, 2>>
                 ELSE <<6, 5, 4, 3, 2, 9, 8, 7, 6, 5, 4, 3, 2>>

\* The check digit after the first size digits of a CNPJ.
CnpjDigit(v, size) ==
    LET remainder == WeightedSum(v, CnpjWeights(size)) % 11
    IN  IF remainder < 2 THEN 0 ELSE 11 - remainder

NormalizeIdentifier(typed) == Only(Alphanumeric, typed)

ValidCpf(v) ==
    /\ Len(v) = 11 /\ AllDigits(v) /\ ~AllEqual(v)
    /\ \A size \in {9, 10} : CpfDigit(v, size) = v[size + 1]

ValidCnpj(v) ==
    /\ Len(v) = 14 /\ AllDigits(v) /\ ~AllEqual(v)
    /\ \A size \in {12, 13} : CnpjDigit(v, size) = v[size + 1]

ValidateIdentifier(type, typed, myNumber) ==
    LET v == NormalizeIdentifier(typed)
        fits == CASE type = "JP_MY_NUMBER" /\ ~myNumber -> FALSE
                  [] type = "BR_CPF"  -> ValidCpf(v)
                  [] type = "BR_CNPJ" -> ValidCnpj(v)
                  [] type = "PT_NIF"  -> Len(v) = 9 /\ AllDigits(v)
                  [] OTHER            -> Len(v) \in 4..80
    IN  IF fits THEN Stored(v) ELSE Refused

\* Auth's add_identifier: the issuing country is two letters, or it refuses.
AddIdentifier(country, type, typed, myNumber) ==
    IF country = None THEN Refused ELSE ValidateIdentifier(type, typed, myNumber)

\* Mutant: remainders below two are not special.
NormalizeCnpjPlain(typed) ==
    LET v == Only(0..9, typed)
    IN  IF /\ Len(v) = 14 /\ ~AllEqual(v)
           /\ \A size \in {12, 13} :
                11 - (WeightedSum(v, CnpjWeights(size)) % 11) = v[size + 1]
        THEN Stored(v) ELSE Refused

\* Core's normalize_cnpj, which drops letters too.
NormalizeCnpj(typed) ==
    LET v == Only(0..9, typed)
    IN  IF /\ Len(v) = 14 /\ ~AllEqual(v)
           /\ \A size \in {12, 13} : CnpjDigit(v, size) = v[size + 1]
        THEN Stored(v) ELSE Refused

-----------------------------------------------------------------------------
(* The billing account: what it grants and what it is told to grant        *)

NormalizeProductCode(p) == IF p \in {None, "rubrica_mvp"} THEN "rubrica_base" ELSE p

PaidAccessEnabled(a) ==
    a.status = "active" \/ (a.status = "past_due" /\ a.grace = "future")

\* None stands for "no limit".
ActivePlanFileLimit(a) ==
    LET p == NormalizeProductCode(a.product)
    IN  IF PaidAccessEnabled(a) /\ p \in DOMAIN PlanFileLimits
        THEN PlanFileLimits[p] ELSE None

Granted(a) == [ok |-> TRUE, account |-> a]
Exhausted(a) == [ok |-> FALSE, account |-> a]

ConsumeSignature(a) ==
    IF a.lifetime \/ PaidAccessEnabled(a) THEN Granted(a)
    ELSE IF a.used >= a.limit THEN Exhausted(a)
    ELSE Granted([a EXCEPT !.used = @ + 1])

\* Mutant: one file more than the plan's.
ConsumeDocumentOneMore(a) ==
    LET limit == ActivePlanFileLimit(a)
    IN  IF a.lifetime \/ limit = None THEN Granted(a)
        ELSE IF a.files > limit THEN Exhausted(a)
        ELSE Granted([a EXCEPT !.files = @ + 1])

ConsumeDocument(a) ==
    LET limit == ActivePlanFileLimit(a)
    IN  IF a.lifetime \/ limit = None THEN Granted(a)
        ELSE IF a.files >= limit THEN Exhausted(a)
        ELSE Granted([a EXCEPT !.files = @ + 1])

Minus(m, n) == IF m > n THEN m - n ELSE 0

\* _account: the answer of the billing page.
Quote(a) ==
    LET limit == ActivePlanFileLimit(a)
    IN  [signatures |-> IF a.lifetime \/ PaidAccessEnabled(a) THEN None
                        ELSE Minus(a.limit, a.used),
         files      |-> IF a.lifetime \/ limit = None THEN None
                        ELSE Minus(limit, a.files)]

-----------------------------------------------------------------------------
(* Plans and prices.  A price id is the triple it was configured for.      *)

Intervals == {"month", "year"}
Currencies == {"BRL", "USD", "EUR", "JPY"}

BillingCurrency(country) ==
    CASE country = "BR" -> "BRL"
      [] country = "JP" -> "JPY"
      [] country \in EuroCountries -> "EUR"
      [] OTHER -> "USD"

PriceForCurrency(currency, product, interval) ==
    LET price == <<product, interval, currency>>
    IN  IF price \in Unpriced THEN None ELSE price

\* Mutant: the annual prices are not in the table.
ConfiguredPricesMonthly == (DOMAIN PlanFileLimits) \X {"month"} \X Currencies

ConfiguredPrices == ((DOMAIN PlanFileLimits) \X Intervals \X Currencies) \ Unpriced

\* The first item with a price names the price of a subscription.
SubscriptionPriceId(items) ==
    LET priced == {i \in DOMAIN items : items[i] # None}
    IN  IF priced = {} THEN None
        ELSE items[CHOOSE i \in priced : \A j \in priced : i <= j]

\* _product_code: the price decides, the metadata only without a known price.
ProductCode(resource) ==
    LET price == SubscriptionPriceId(resource.items)
        named == NormalizeProductCode(resource.metadata)
    IN  IF price \in ConfiguredPrices THEN price[1]
        ELSE IF named \in DOMAIN PlanFileLimits THEN named
        ELSE "rubrica_base"

SubscriptionRequiresPortal(a) ==
    /\ a.subscription
    /\ a.status \in {"active", "pending", "past_due", "unpaid", "paused"}

SamePlan(a, product) == NormalizeProductCode(a.product) = NormalizeProductCode(product)

CheckoutOpen(a, product) ==
    /\ ~a.lifetime
    /\ ~SubscriptionRequiresPortal(a)
    /\ ~(a.status = "active" /\ SamePlan(a, product))

\* Mutant: the portal is only for active subscriptions.
PortalOpenActive(a, product) ==
    a.customer /\ ~SamePlan(a, product) /\ a.status = "active"

PortalOpen(a, product) == a.customer /\ ~SamePlan(a, product)

-----------------------------------------------------------------------------
(* Notices                                                                 *)

SubscriptionStatus(s) ==
    CASE s \in {"active", "trialing"} -> "active"
      [] s \in {"past_due", "incomplete"} -> "past_due"
      [] s = "unpaid" -> "unpaid"
      [] s \in {"canceled", "incomplete_expired"} -> "cancelled"
      [] s = "paused" -> "paused"
      [] OTHER -> "not_configured"

StatusNotice(s) ==
    CASE s = "active" -> "active"
      [] s \in {"past_due", "unpaid"} -> "failed"
      [] s = "cancelled" -> "cancelled"
      [] s = "paused" -> "paused"
      [] OTHER -> None

\* Mutant: a changed plan is only looked at when the status changed.
BillingMessageStatusFirst(q) ==
    LET s == SubscriptionStatus(q.status)
    IN  IF q.event # "created" /\ s = q.previous THEN None
        ELSE IF /\ q.event = "updated" /\ q.previousProduct # None
                /\ q.previousProduct # q.product
             THEN "plan_changed"
        ELSE StatusNotice(s)

\* _billing_message for customer.subscription.* events: which text is sent.
BillingMessage(q) ==
    LET s == SubscriptionStatus(q.status)
    IN  IF /\ q.event = "updated" /\ q.previousProduct # None
           /\ q.previousProduct # q.product
        THEN "plan_changed"
        ELSE IF q.event # "created" /\ s = q.previous THEN None
        ELSE StatusNotice(s)

-----------------------------------------------------------------------------
(* The cases                                                               *)

\* An account as BillingAccountEntity keeps it, of any use and allowance.  A
\* subscription belongs to a customer of the provider.
BillingAccounts ==
    {a \in [lifetime : BOOLEAN, grace : {"none", "past", "future"}, status : STRING,
            product : STRING \cup {None}, used : Nat, limit : Nat, files : Nat,
            customer : BOOLEAN, subscription : BOOLEAN] :
        a.subscription => a.customer}

\* The digits of a number before its two check digits, an account, a plan that is
\* bought, and a subscription event.
QuestionOK(q) ==
    \/ q.kind = "digits" /\ q.base \in Seq(0..9) /\ Len(q.base) \in {9, 12}
    \/ q.kind = "account" /\ q.account \in BillingAccounts
    \/ /\ q.kind = "purchase"
       /\ q.product \in DOMAIN PlanFileLimits /\ q.interval \in Intervals
    \/ q.kind = "notice"

ASSUME RulesAssumption ==
    /\ Horizon \in Nat
    /\ None \notin Nat /\ None \notin DOMAIN PlanFileLimits
    /\ None \notin {"BR", "plan_changed", "active", "failed", "cancelled", "paused"}
    /\ \A p \in DOMAIN PlanFileLimits : PlanFileLimits[p] \in Nat
    /\ \A q \in Questions : QuestionOK(q)

RulesOff == question = None

Ask == question = None /\ question' \in Questions

RulesSpec == RulesOff /\ [][Ask]_question

-----------------------------------------------------------------------------
\* The reference of both identifiers: weights 2, 3, ... from the right (up to
\* 9 and around again for a CNPJ), and the weighted sum plus the check digit
\* is a multiple of eleven, or leaves one and the digit is zero.
Congruent(v, n, Weight(_)) ==
    LET total == SumFunction([i \in 1..n |-> v[i] * Weight(n - i)])
    IN  (total + v[n + 1]) % 11 = 0 \/ (total % 11 = 1 /\ v[n + 1] = 0)

\* Auth stores a CPF or a CNPJ exactly if its check digits satisfy the
\* reference and it is not one digit repeated: every remainder, zero, one and
\* ten included, is decided as the two registries define it
\* (user_identifier_service.py:59 and :75).
CheckDigitsMatch ==
    question # None /\ question.kind = "digits" =>
        LET base == question.base
        IN  \A d \in 0..9, e \in 0..9 :
              LET v == base \o <<d, e>>
              IN  IF Len(base) = 9
                  THEN AddIdentifier("BR", "BR_CPF", v, FALSE).ok
                         = (~AllEqual(v) /\ \A n \in {9, 10} :
                              Congruent(v, n, LAMBDA k : k + 2))
                  ELSE AddIdentifier("BR", "BR_CNPJ", v, FALSE).ok
                         = (~AllEqual(v) /\ \A n \in {12, 13} :
                              Congruent(v, n, LAMBDA k : (k % 8) + 2))

\* The same number typed with its punctuation is one number to both services:
\* a CNPJ that Auth takes for a person is taken by Core for a business with
\* the same normalised value, so that the two lookups hash the same text
\* (tenant_identity.py:14, user_identifier_service.py:48).
ServicesAgreeOnCnpj ==
    question # None /\ question.kind = "digits" /\ Len(question.base) = 12 =>
        \A d \in 0..9, e \in 0..9 :
            LET v == question.base \o <<d, e>>
                typed == {v, SubSeq(v, 1, 2) \o <<Mark>> \o SubSeq(v, 3, 12)
                               \o <<Mark>> \o SubSeq(v, 13, 14),
                          Append(v, Letter)}
            IN  \A t \in typed :
                  LET auth == AddIdentifier("BR", "BR_CNPJ", t, FALSE)
                  IN  auth.ok => NormalizeCnpj(t) = auth

\* How many calls in a row an account is granted, up to the horizon.
Served(Consume(_), a) ==
    LET after[k \in 0..Horizon] ==
          IF k = 0 THEN Granted(a)
          ELSE LET before == after[k - 1]
               IN  IF before.ok THEN Consume(before.account) ELSE before
    IN  Cardinality({k \in 1..Horizon : after[k].ok})

Promised(n) == IF n = None \/ n > Horizon THEN Horizon ELSE n

\* What the billing page quotes is what the workflow grants: the number of
\* signatures and of files it shows is the number of calls that succeed before
\* the 402, "unlimited" means no call is ever refused, for every product code,
\* alias, status and grace period an account can hold (_account,
\* billing_service.py:1046 against consume_signature and consume_document).
QuoteIsHonest ==
    question # None /\ question.kind = "account" =>
        LET a == question.account
            q == Quote(a)
        IN  /\ Served(ConsumeSignature, a) = Promised(q.signatures)
            /\ Served(ConsumeDocument, a) = Promised(q.files)

\* A plan that was bought is the plan that is granted: whatever the currency
\* of the tenant's country and the interval, the price id the checkout or the
\* portal sends is recognised as its product, also when the metadata of the
\* subscription still names the plan it was created with
\* (_price_for_currency, billing_service.py:931, against _product_code, :811).
PurchasedPlanIsGranted ==
    question # None /\ question.kind = "purchase" =>
        LET price == PriceForCurrency(BillingCurrency(question.country),
                                      question.product, question.interval)
        IN  price # None =>
              ProductCode([items |-> <<None, price>>,
                           metadata |-> question.metadata]) = question.product

\* An administrator who wants another plan has a door: checkout and portal do
\* not both answer 409 and send him to the other one
\* (create_checkout, billing_service.py:209, create_portal, :248).
AnotherPlanHasADoor ==
    question # None /\ question.kind = "account" =>
        LET a == question.account
        IN  \A p \in DOMAIN PlanFileLimits :
              ~a.lifetime /\ ~SamePlan(a, p) =>
                CheckoutOpen(a, p) \/ PortalOpen(a, p)

\* A subscription event that changes the status or the plan is announced to
\* the administrators, and one that changes neither is not, so that a repeated
\* update does not mail them again (_billing_message, billing_service.py:491).
ChangesAreAnnounced ==
    question # None /\ question.kind = "notice" /\ question.event # "created" =>
        LET s == SubscriptionStatus(question.status)
            newPlan == /\ question.event = "updated"
                       /\ question.previousProduct \notin {None, question.product}
        IN  (BillingMessage(question) # None)
              = (newPlan \/ (s # question.previous /\ s # "not_configured"))

\* Identifiers are accepted by their check digits, and alike in both services
\* (user_identifier_service.py, tenant_identity.py).
IdentifiersAgree == CheckDigitsMatch /\ ServicesAgreeOnCnpj

\* The billing page keeps its word: the quotes it shows are granted, an
\* administrator it sends to another door finds it open, the plan he buys there is
\* the plan he gets, and he is told (_account, create_checkout, create_portal,
\* _product_code, _billing_message).
BillingPageIsHonest ==
    /\ QuoteIsHonest
    /\ AnotherPlanHasADoor
    /\ PurchasedPlanIsGranted
    /\ ChangesAreAnnounced
=============================================================================
