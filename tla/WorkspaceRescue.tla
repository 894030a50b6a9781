-------------------------- MODULE WorkspaceRescue ----------------------------
(***************************************************************************)
(* A person whose every membership is suspended may open a personal        *)
(* workspace.  The call locks the membership rows it found, decides on     *)
(* them and adds a tenant with its own membership, while administrators    *)
(* suspend, reactivate and add seats and the person may call twice.  The   *)
(* rows are those of the statement's snapshot: a row that another call     *)
(* commits while this one waits for the locks is not among them.           *)
(***************************************************************************)
EXTENDS Naturals, FiniteSets

CONSTANTS
    Seats,              \* team memberships the person may get
    Rescuers,           \* processes that serve the person's calls
    MaxRescues          \* bound: workspaces opened

ASSUME RescuesAssumption == MaxRescues \in Nat

VARIABLES seat,         \* seat -> none, active, suspended
          opened,       \* personal workspaces opened
          rescue,       \* rescuer -> step and the rows it found
          counted       \* the seats the last workspace was opened on

rescueVars == <<seat, opened, rescue, counted>>

NoRescue == [at |-> "idle", rows |-> {}, own |-> 0]

Seated(state) == {s \in Seats : seat[s] = state}

\* Mutant: FOR UPDATE is left out.
RowsNeverLocked(s) == FALSE

RowsLocked(s) == \E w \in Rescuers : rescue[w].at = "locked" /\ s \in rescue[w].rows

\* The query's snapshot is taken here, its rows are locked when they are free.
AskForWorkspace(w) ==
    /\ rescue[w] = NoRescue
    /\ rescue' = [rescue EXCEPT ![w] = [at |-> "waiting", own |-> opened,
                                        rows |-> Seats \ Seated("none")]]
    /\ UNCHANGED <<seat, opened, counted>>

\* An active row refuses, and so does the absence of a suspended one.
LockMemberships(w) ==
    /\ rescue[w].at = "waiting"
    /\ \A s \in rescue[w].rows : ~RowsLocked(s)
    /\ rescue' = [rescue EXCEPT ![w] =
         IF rescue[w].own > 0 \/ rescue[w].rows \cap Seated("active") # {}
                              \/ rescue[w].rows \cap Seated("suspended") = {}
           THEN NoRescue ELSE [@ EXCEPT !.at = "locked"]]
    /\ UNCHANGED <<seat, opened, counted>>

\* The tenant, its administrator, its billing account and the audit row.
CreatePersonal(w) ==
    /\ rescue[w].at = "locked"
    /\ opened < MaxRescues
    /\ opened' = opened + 1
    /\ counted' = rescue[w].rows
    /\ rescue' = [rescue EXCEPT ![w] = NoRescue]
    /\ UNCHANGED seat

RescueFails(w) ==
    /\ rescue[w] # NoRescue
    /\ rescue' = [rescue EXCEPT ![w] = NoRescue]
    /\ UNCHANGED <<seat, opened, counted>>

\* Administrators of the teams: a new seat is an insert, a change waits for the row.
AddSeat(s) == seat[s] = "none" /\ seat' = [seat EXCEPT ![s] = "active"]
ChangeSeat(s) ==
    /\ seat[s] # "none" /\ ~RowsLocked(s)
    /\ seat' = [seat EXCEPT ![s] = IF @ = "active" THEN "suspended" ELSE "active"]

RescueInit ==
    /\ seat = [s \in Seats |-> "none"]
    /\ opened = 0
    /\ rescue = [w \in Rescuers |-> NoRescue]
    /\ counted = {}

RescueNext ==
    \/ \E w \in Rescuers :
          AskForWorkspace(w) \/ LockMemberships(w) \/ CreatePersonal(w) \/ RescueFails(w)
    \/ \E s \in Seats : (AddSeat(s) \/ ChangeSeat(s)) /\ UNCHANGED <<opened, rescue, counted>>

RescueSpec == RescueInit /\ [][RescueNext]_rescueVars

-----------------------------------------------------------------------------
\* A workspace is opened only to somebody whose memberships, the ones the call
\* found, are all suspended at that moment: create_personal_after_suspension
\* keeps their rows locked, so no reactivation comes between.  (A seat added
\* meanwhile, or a second call's workspace, is not among the rows.)
RescueIsForTheSuspended ==
    [][opened' # opened => counted' # {} /\ counted' \subseteq Seated("suspended")]_rescueVars
=============================================================================
