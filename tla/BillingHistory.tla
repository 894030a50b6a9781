--------------------------- MODULE BillingHistory ---------------------------
(***************************************************************************)
(* TenantTeam with two history variables, which no handler reads.  They    *)
(* tell why an account whose subscription events are all settled may not   *)
(* show the newest of them: a session wrote what it had judged from a copy *)
(* that was out of date, or an invoice or a checkout has changed the plan  *)
(* since.  Everything else is ruled out by PlanIsCurrent.                  *)
(***************************************************************************)
EXTENDS TenantTeam

VARIABLES
  overtaken, \* a delivery has committed from an old copy of the plan's columns
  overruled  \* an invoice or a checkout changed the plan after the last
             \* subscription event that was processed

historyVars == <<vars, overtaken, overruled>>

\* The columns that a subscription event is about.
PlanColumns == {"status", "product", "sub", "last"}

HistoryInit == Init /\ overtaken = FALSE /\ overruled = FALSE

\* The call of w ends the delivery it has in flight.
Delivers(w) == tx[w].op = "seen" /\ tx'[w].op = "idle"

\* A subscription event is processed.
PlanIsReported ==
  \E w \in Workers :
    LET e == tx[w].event IN
    /\ Delivers(w) /\ events[e].kind = "subscription"
    /\ ledger[e] # "processed" /\ ledger'[e] = "processed"

\* An event of another kind changes the plan.
PlanIsOverruled ==
  /\ \E w \in Workers : Delivers(w) /\ events[tx[w].event].kind # "subscription"
  /\ \E c \in PlanColumns : account'[c] # account[c]

Note ==
  /\ overtaken' = (overtaken \/ CommitsOldCopy(PlanColumns))
  /\ overruled' = (~PlanIsReported /\ (overruled \/ PlanIsOverruled))

HistoryNext == TeamNext /\ Note

HistorySpec == HistoryInit /\ [][HistoryNext]_historyVars

(***************************************************************************)
(* Properties                                                              *)
(***************************************************************************)

\* Whatever the order, the repetition, the failures and the overlap of
\* deliveries, synchronisations, checkouts and changes of the team: once every
\* subscription event is settled the account shows the newest, unless one of
\* the two causes above applies (receive_webhook, _apply_event).
PlanIsCurrent ==
  \/ overtaken \/ overruled
  \/ ShowsNewest({e \in Emitted : events[e].kind = "subscription"})
=============================================================================
