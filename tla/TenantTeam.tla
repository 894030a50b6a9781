----------------------------- MODULE TenantTeam -----------------------------
(***************************************************************************)
(* The team of a tenant, managed while its plan changes: additions and     *)
(* invitations, the choice of active members, roles, and the team page,    *)
(* which cuts a single-seat team down when it is read.                     *)
(*                                                                         *)
(* Every handler but the team page takes the billing account's row lock,   *)
(* as the webhooks do.                                                     *)
(***************************************************************************)
EXTENDS BillingWebhook

Rows == {m \in Members : member[m].role # "none"}

\* add_member and invite_member lock the account, check the plan and its
\* seats, and ask the Auth API for the user ...
AddMember(w, a, m, role) ==
  /\ tx[w].op = "idle"
  /\ ~AccountLocked
  /\ a \in ActiveAdmins
  /\ BusinessFeatures(account)
  /\ Cardinality(ActiveMembers) < MemberLimit(account)
  /\ m \notin Rows /\ \A n \in 1..(m - 1) : n \in Rows
  /\ Begin(w, [Idle EXCEPT !.op = "add", !.user = m, !.role = role])
  /\ UNCHANGED <<rowVars, now, providerVars>>

\* ... and insert the member.
AddMemberCommit(w) ==
  /\ tx[w].op = "add"
  /\ member' = [member EXCEPT ![tx[w].user] =
                  [role |-> tx[w].role, active |-> TRUE]]
  /\ Finish(w)
  /\ UNCHANGED <<account, ledger, payments, now, providerVars>>

\* update_team: an administrator chooses who is active, themselves included.
UpdateTeam(w, a, selected) ==
  /\ tx[w].op = "idle"
  /\ ~AccountLocked
  /\ a \in ActiveAdmins
  /\ selected \subseteq Rows /\ a \in selected
  /\ Cardinality(selected) <= MemberLimit(account)
  /\ member' = [m \in Members |-> [member[m] EXCEPT !.active = m \in selected]]
  /\ UNCHANGED <<account, ledger, payments, tx, now, providerVars>>

\* update_member_role: never of an administrator.
UpdateMemberRole(w, a, m, role) ==
  /\ tx[w].op = "idle"
  /\ ~AccountLocked
  /\ a \in ActiveAdmins /\ m # a
  /\ member[m].role \in {"member", "auditor"}
  /\ member' = [member EXCEPT ![m].role = role]
  /\ UNCHANGED <<account, ledger, payments, tx, now, providerVars>>

\* team, without the lock: the plan is read and has a single seat ...
ReadTeam(w, a) ==
  /\ tx[w].op = "idle"
  /\ a \in ActiveAdmins
  /\ MemberLimit(account) = 1
  /\ Begin(w, [Idle EXCEPT !.op = "team"])
  /\ UNCHANGED <<rowVars, now, providerVars>>

\* ... then the active members are, and all but the first administrator are
\* to be suspended ...
ReadTeamMembers(w) ==
  /\ tx[w].op = "team"
  /\ ActiveAdmins # {}
  /\ Continue(w, [Idle EXCEPT !.op = "suspending",
                              !.out = ActiveMembers \ {FirstAdmin}])
  /\ UNCHANGED <<rowVars, now, providerVars>>

\* ... which the commit does.
ReadTeamCommit(w) ==
  /\ tx[w].op = "suspending"
  /\ member' = [m \in Members |->
                  [member[m] EXCEPT !.active = @ /\ m \notin tx[w].out]]
  /\ Finish(w)
  /\ UNCHANGED <<account, ledger, payments, now, providerVars>>

TeamStep(w) ==
  \/ \E a, m \in Members :
       \/ \E role \in {"admin"} \cup Roles : AddMember(w, a, m, role)
       \/ \E role \in Roles : UpdateMemberRole(w, a, m, role)
  \/ \E a \in Members :
       \/ \E selected \in SUBSET Members : UpdateTeam(w, a, selected)
       \/ ReadTeam(w, a)
  \/ AddMemberCommit(w) \/ ReadTeamMembers(w) \/ ReadTeamCommit(w)

TeamNext == Next \/ \E w \in Workers : TeamStep(w)

TeamSpec == Init /\ [][TeamNext]_vars

(***************************************************************************)
(* Properties                                                              *)
(***************************************************************************)

\* Whoever joins or is activated, while webhooks change the plan and other
\* administrators change the team, finds a seat: the active members are within
\* the seats of the plan the account has at that moment.
NewcomersFindSeats ==
  (\E m \in Members : member'[m].active /\ ~member[m].active) =>
    Cardinality(ActiveMembers') <=
      IF account.product \in BusinessPlans THEN MemberLimits[account.product] ELSE 1

\* A session's copy shows the plan that the account's row has.
CopyShowsPlan(w) ==
  /\ tx[w].seen.status = account.status
  /\ tx[w].seen.product = account.product
  /\ tx[w].seen.grace = account.grace

\* The call processes a subscription event, and the plan has a single seat then.
LeavesSingleSeat(w) ==
  LET e == tx[w].event IN
  /\ tx[w].op = "seen" /\ tx'[w].op = "idle"
  /\ events[e].kind = "subscription"
  /\ ledger[e] # "processed" /\ ledger'[e] = "processed"
  /\ MemberLimit(account)' = 1

\* A subscription event that leaves the plan with a single seat leaves one active
\* member, also when an addition is under way (reconcile_single_member_plan).  Two
\* things undo it: a session that copied the account before another call changed the
\* plan judges its copy, and a team without an active administrator is left alone.
SingleSeatIsEnforced ==
  (/\ \E w \in Workers : LeavesSingleSeat(w) /\ CopyShowsPlan(w)
   /\ ActiveAdmins # {})
    => Cardinality(ActiveMembers') <= 1

\* The team stays within its plan, whoever joins and whatever the webhooks change
\* (add_member, update_team, reconcile_single_member_plan).
SeatsAreWithinPlan == [][NewcomersFindSeats /\ SingleSeatIsEnforced]_vars
=============================================================================
