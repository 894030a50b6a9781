---------------------------- MODULE MCTenantTeam ----------------------------
(***************************************************************************)
(* Instances of TenantTeam, with its history, for TLC.                     *)
(***************************************************************************)
EXTENDS BillingHistory, TLC

\* PLAN_MEMBER_LIMITS scaled down: more than one seat, and different.
MCMemberLimits == [p \in BusinessPlans |-> IF p = "team" THEN 3 ELSE 2]

\* Workers are interchangeable.
WorkerSymmetry == Permutations(Workers)
=============================================================================
