------------------------- MODULE AccountProvisioning -------------------------
(***************************************************************************)
(* How an account of auth_api gets its user, its activation link and its   *)
(* workspace in core_api.  Registration inserts the user, has core_api     *)
(* provision a tenant, has the link mailed, and only then commits; the     *)
(* invitation of a team member goes the other way, from a core_api request *)
(* that holds the team's lock to auth_api, and commits before mailing.     *)
(* Handlers are synchronous, so a worker process that waits for the other  *)
(* service serves nobody: a request waits until a worker is free, and a    *)
(* caller waits at most for its HTTP timeout, while the callee may still   *)
(* serve the request later.                                                *)
(***************************************************************************)
EXTENDS Naturals, FiniteSets

CONSTANTS Emails,          \* normalized e-mail addresses
          Documents,       \* identity documents (type, country, lookup_hmac)
          AuthWorkers,     \* worker processes of auth_api
          CoreWorkers,     \* worker processes of core_api
          MaxUid,          \* bound: users.id drawn, rolled back ones included
          MaxToken,        \* bound: account tokens drawn
          MaxWaiting,      \* bound: requests waiting for auth_api
          NoEmail, NoDocument, Nobody

ASSUME BoundsAssumption == {MaxUid, MaxToken, MaxWaiting} \subseteq Nat
ASSUME NamesAssumption ==
    NoEmail \notin Emails /\ NoDocument \notin Documents /\ Nobody \notin CoreWorkers

VARIABLES users,           \* e-mail -> its committed users row
          documents,       \* user_identifiers: document -> uid, 0 if free
          token,           \* account_tokens: number -> [uid, state]
          uids, drawn,     \* users.id and tokens drawn so far
          inbox,           \* tokens whose mail the provider accepted
          members,         \* tenant_members rows
          calls,           \* provisioning requests core_api has not served
          invites,         \* invite and resolve requests auth_api has not served
          missing,         \* accounts reconcile_personal_tenants listed
          auth, core       \* worker -> the request it is running

rows == <<users, documents, token>>
vars == <<users, documents, token, uids, drawn, inbox, members, calls, invites,
          missing, auth, core>>

NoUser == [uid |-> 0, state |-> "none", role |-> "none"]
NoCall == [op |-> "idle", e |-> NoEmail, d |-> NoDocument, uid |-> 0, t |-> 0,
           seen |-> {}, from |-> Nobody]
NoRequest == [op |-> "idle", e |-> NoEmail, uid |-> 0]

\* A membership: administrator of a tenant that was provisioned, or created by
\* POST /tenants, or guest of the team that invites (never its administrator).
Memberships == [kind : {"owner", "created", "team"}, e : Emails, uid : 0..MaxUid]

UserStates == [uid : 0..MaxUid, state : {"none", "pending", "active"},
               role : {"none", "signature_admin", "signature_operator"}]

AuthOps == {"idle", "insert", "provision", "mail", "commit", "issue", "mailAfter"}

TypeOK ==
    /\ users \in [Emails -> UserStates]
    /\ \A e \in Emails : users[e].uid = 0 <=> users[e].state = "none"
    /\ documents \in [Documents -> 0..MaxUid]
    /\ token \in [1..MaxToken -> [uid : 0..MaxUid, state : {"none", "live", "dead"}]]
    /\ uids \in 0..MaxUid /\ drawn \in 0..MaxToken
    /\ inbox \subseteq 1..drawn
    /\ members \subseteq Memberships
    /\ missing \subseteq Emails
    /\ \A a \in AuthWorkers : auth[a].op \in AuthOps /\ auth[a].uid <= uids
    /\ \A c \in CoreWorkers : core[c].op \in {"idle", "invite", "join"}

-----------------------------------------------------------------------------
(* auth_api: registration *)

\* A unique index makes an INSERT wait for the transaction that holds the key.
EmailHeld(e) == \E a \in AuthWorkers : auth[a].uid # 0 /\ auth[a].e = e
                                       /\ users[e].uid # auth[a].uid
DocumentHeld(d) == \E a \in AuthWorkers : auth[a].d = d /\ d # NoDocument
                                          /\ documents[d] # auth[a].uid

LiveTokens(uid) == {t \in 1..drawn : token[t] = [uid |-> uid, state |-> "live"]}

Serve(a, call) == auth[a] = NoCall /\ auth' = [auth EXCEPT ![a] = call]
Goto(a, op) == auth' = [auth EXCEPT ![a].op = op]
Rollback(a) == auth' = [auth EXCEPT ![a] = NoCall]

\* The HTTP answer to a request of core_api, if its caller still waits.
Answer(from, r) ==
    core' = IF from = Nobody THEN core ELSE [core EXCEPT ![from] = r]
Joining(e, uid) == [op |-> "join", e |-> e, uid |-> uid]

\* A new user: the row, its role, its document and its token are in an open
\* transaction.  A taken e-mail or document ends the request without a trace.
InsertUser(a, e, d, op, from) ==
    /\ users[e].state = "none" /\ ~EmailHeld(e)
    /\ d \in Documents => documents[d] = 0 /\ ~DocumentHeld(d)
    /\ uids < MaxUid /\ drawn < MaxToken
    /\ uids' = uids + 1 /\ drawn' = drawn + 1
    /\ Serve(a, [op |-> op, e |-> e, d |-> d, uid |-> uids', t |-> drawn',
                 seen |-> {}, from |-> from])

Register(a, e, d) ==
    /\ InsertUser(a, e, d, "insert", Nobody)
    /\ UNCHANGED <<rows, inbox, members, calls, invites, missing, core>>

\* provision_account_tenant sends the request to core_api ...
CallCore(a) ==
    /\ auth[a].op = "insert"
    /\ calls' = calls \cup {[e |-> auth[a].e, uid |-> auth[a].uid]}
    /\ Goto(a, "provision")
    /\ UNCHANGED <<rows, uids, drawn, inbox, members, invites, missing, core>>

\* Mutant: a provisioning error is not fatal to the registration.
CallTimeoutIgnored(a) ==
    /\ auth[a].op = "provision"
    /\ Goto(a, "mail")
    /\ UNCHANGED <<rows, uids, drawn, inbox, members, calls, invites, missing, core>>

\* Mutant: the HTTP call has no timeout.
CallNeverTimesOut(a) ==
    /\ FALSE
    /\ UNCHANGED vars

\* ... and gives up after five seconds or when the connection fails: the user
\* is rolled back, whatever becomes of the request.
CallTimeout(a) ==
    /\ auth[a].op = "provision"
    /\ Rollback(a)
    /\ \E lost \in SUBSET {c \in calls : c.uid = auth[a].uid} : calls' = calls \ lost
    /\ UNCHANGED <<rows, uids, drawn, inbox, members, invites, missing, core>>

\* request_account_email inside the open transaction: notification_api accepts
\* the mail, accepts it but answers too late, or fails.
MailLink(a) ==
    /\ auth[a].op = "mail"
    /\ \/ inbox' = inbox \cup {auth[a].t} /\ (Goto(a, "commit") \/ Rollback(a))
       \/ inbox' = inbox /\ Rollback(a)
    /\ UNCHANGED <<rows, uids, drawn, members, calls, invites, missing, core>>

\* The transaction writes the user, the document and the token, and supersedes
\* the tokens its UPDATE saw.
WriteUser(a, role) ==
    LET call == auth[a] IN
    /\ users' = IF users[call.e].state = "none"
                  THEN [users EXCEPT ![call.e] =
                          [uid |-> call.uid, state |-> "pending", role |-> role]]
                  ELSE users
    /\ documents' = IF call.d \in Documents THEN [documents EXCEPT ![call.d] = call.uid]
                                            ELSE documents
    /\ token' = [t \in 1..MaxToken |->
                   IF t = call.t THEN [uid |-> call.uid, state |-> "live"]
                   ELSE IF t \in call.seen THEN [token[t] EXCEPT !.state = "dead"]
                   ELSE token[t]]

CommitRegister(a) ==
    /\ auth[a].op = "commit"
    /\ WriteUser(a, "signature_admin")
    /\ Rollback(a)
    /\ UNCHANGED <<uids, drawn, inbox, members, calls, invites, missing, core>>

-----------------------------------------------------------------------------
(* auth_api: invitations, links and activation *)

\* internal_member_invite: a new user, or a new link for a pending one; an
\* active user is answered at once, and a conflict too.
AuthInvite(a, i) ==
    /\ i \in invites /\ i.d # NoDocument
    /\ invites' = invites \ {i}
    /\ \/ /\ InsertUser(a, i.e, i.d, "issue", i.from)
          /\ UNCHANGED core
       \/ /\ users[i.e].state = "pending"
          /\ drawn < MaxToken /\ drawn' = drawn + 1
          /\ Serve(a, [op |-> "issue", e |-> i.e, d |-> NoDocument,
                       uid |-> users[i.e].uid, t |-> drawn',
                       seen |-> LiveTokens(users[i.e].uid), from |-> i.from])
          /\ UNCHANGED <<uids, core>>
       \/ /\ auth[a] = NoCall
          /\ \/ users[i.e].state = "active" /\ Answer(i.from, Joining(i.e, users[i.e].uid))
             \/ /\ users[i.e].state = "none" /\ documents[i.d] # 0
                /\ Answer(i.from, NoRequest)
          /\ UNCHANGED <<uids, drawn, auth>>
    /\ UNCHANGED <<rows, inbox, members, calls, missing>>

\* internal_user_resolve answers with an active account, or with 404.
AuthResolve(a, i) ==
    /\ i \in invites /\ i.d = NoDocument
    /\ auth[a] = NoCall
    /\ invites' = invites \ {i}
    /\ Answer(i.from, IF users[i.e].state = "active" THEN Joining(i.e, users[i.e].uid)
                                                     ELSE NoRequest)
    /\ UNCHANGED <<rows, uids, drawn, inbox, members, calls, missing, auth>>

\* request_email_verification, also run by the operator's lifetime invitation
\* when the registration finds the e-mail pending.
RequestVerification(a, e) ==
    /\ users[e].state = "pending"
    /\ drawn < MaxToken /\ drawn' = drawn + 1
    /\ Serve(a, [op |-> "issue", e |-> e, d |-> NoDocument, uid |-> users[e].uid,
                 t |-> drawn', seen |-> LiveTokens(users[e].uid), from |-> Nobody])
    /\ UNCHANGED <<rows, uids, inbox, members, calls, invites, missing, core>>

\* Mutant: the mail goes out, and the caller is answered, before the commit.
CommitLinkLater(a) ==
    LET call == auth[a] IN
    /\ call.op = "issue"
    /\ IF call.from = Nobody
         THEN /\ WriteUser(a, "signature_operator")
              /\ Rollback(a)
              /\ UNCHANGED <<inbox, core>>
         ELSE /\ inbox' = inbox \cup {call.t}
              /\ Answer(call.from, Joining(call.e, call.uid))
              /\ auth' = [auth EXCEPT ![a].from = Nobody]
              /\ UNCHANGED rows
    /\ UNCHANGED <<uids, drawn, members, calls, invites, missing>>

CommitLink(a) ==
    /\ auth[a].op = "issue"
    /\ WriteUser(a, "signature_operator")
    /\ Goto(a, "mailAfter")
    /\ UNCHANGED <<uids, drawn, inbox, members, calls, invites, missing, core>>

\* The mail goes out after the commit; the caller learns the user only if it
\* was accepted, and only if it still waits.
MailAfter(a) ==
    LET call == auth[a] IN
    /\ call.op = "mailAfter"
    /\ \/ inbox' = inbox \cup {call.t} /\ Answer(call.from, Joining(call.e, call.uid))
       \/ inbox' = inbox /\ Answer(call.from, NoRequest)
    /\ Rollback(a)
    /\ UNCHANGED <<rows, uids, drawn, members, calls, invites, missing>>

\* Mutant: the token's row is not asked for.
VerifyAnyToken(a, t) ==
    /\ auth[a] = NoCall
    /\ t \in inbox
    /\ token' = [token EXCEPT ![t].state = "dead"]
    /\ users' = [e \in Emails |-> IF users[e].uid = token[t].uid
                                    THEN [users[e] EXCEPT !.state = "active"] ELSE users[e]]
    /\ UNCHANGED <<documents, uids, drawn, inbox, members, calls, invites, missing, auth, core>>

\* verify_email consumes a live token under its row lock and activates the user.
VerifyEmail(a, t) ==
    /\ auth[a] = NoCall
    /\ t \in inbox /\ token[t].state = "live"
    /\ token' = [token EXCEPT ![t].state = "dead"]
    /\ users' = [e \in Emails |-> IF users[e].uid = token[t].uid
                                    THEN [users[e] EXCEPT !.state = "active"] ELSE users[e]]
    /\ UNCHANGED <<documents, uids, drawn, inbox, members, calls, invites, missing, auth, core>>

\* A worker of auth_api dies: its transaction is rolled back.
AuthCrash(a) ==
    /\ auth[a] # NoCall
    /\ Rollback(a)
    /\ UNCHANGED <<rows, uids, drawn, inbox, members, calls, invites, missing, core>>

-----------------------------------------------------------------------------
(* core_api *)

\* membership_identity_filter: the account's id, or its e-mail while the row has
\* no id yet.
Identifies(m, e, uid) == m.uid = uid \/ (m.uid = 0 /\ m.e = e)

\* provision_owner: the tenant the account administers, filling in its id, or a
\* new tenant.
ProvisionOwner(e, uid) ==
    LET found == {m \in members : m.kind # "team" /\ Identifies(m, e, uid)} IN
    IF found = {}
      THEN members' = members \cup {[kind |-> "owner", e |-> e, uid |-> uid]}
      ELSE \E m \in found : members' = (members \ {m}) \cup {[m EXCEPT !.uid = uid]}

\* A free worker serves a provisioning request; the caller goes on if it still
\* waits.
Provision(c, call) ==
    /\ core[c] = NoRequest
    /\ call \in calls
    /\ calls' = calls \ {call}
    /\ ProvisionOwner(call.e, call.uid)
    /\ auth' = [a \in AuthWorkers |->
                  IF auth[a].op = "provision" /\ auth[a].uid = call.uid
                    THEN [auth[a] EXCEPT !.op = "mail"] ELSE auth[a]]
    /\ UNCHANGED <<rows, uids, drawn, inbox, invites, missing, core>>

\* invite_member, and add_member of an account that exists (no document): under
\* the team's lock, auth_api is asked for the user.
AskForUser(c, e, d) ==
    /\ core[c] = NoRequest
    /\ \A b \in CoreWorkers : core[b].op = "idle"
    /\ Cardinality(invites) < MaxWaiting
    /\ d \in Documents => \A m \in members : ~(m.kind = "team" /\ m.e = e)
    /\ core' = [core EXCEPT ![c] = [op |-> "invite", e |-> e, uid |-> 0]]
    /\ invites' = invites \cup {[e |-> e, d |-> d, from |-> c]}
    /\ UNCHANGED <<rows, uids, drawn, inbox, members, calls, missing, auth>>

\* The row's unique constraints turn away somebody who is a member already.
JoinTeam(c) ==
    /\ core[c].op = "join"
    /\ members' = IF \E m \in members : m.kind = "team" /\ m.e = core[c].e THEN members
                   ELSE members \cup {[kind |-> "team", e |-> core[c].e, uid |-> core[c].uid]}
    /\ core' = [core EXCEPT ![c] = NoRequest]
    /\ UNCHANGED <<rows, uids, drawn, inbox, calls, invites, missing, auth>>

\* The caller gives up after its timeout; auth_api may still serve the request,
\* and nobody reads the answer.
InviteTimeout(c) ==
    /\ core[c].op = "invite"
    /\ core' = [core EXCEPT ![c] = NoRequest]
    /\ invites' \in {{[i EXCEPT !.from = IF @ = c THEN Nobody ELSE @] : i \in kept} :
                        kept \in {invites, {i \in invites : i.from # c}}}
    /\ auth' = [a \in AuthWorkers |-> IF auth[a].from = c THEN [auth[a] EXCEPT !.from = Nobody]
                                                         ELSE auth[a]]
    /\ UNCHANGED <<rows, uids, drawn, inbox, members, calls, missing>>

\* POST /tenants by an active account: a tenant whose row has no id (bound: one
\* each).
CreateTenant(c, e) ==
    /\ core[c] = NoRequest
    /\ users[e].state = "active"
    /\ \A m \in members : ~(m.kind = "created" /\ m.e = e)
    /\ members' = members \cup {[kind |-> "created", e |-> e, uid |-> 0]}
    /\ UNCHANGED <<rows, uids, drawn, inbox, calls, invites, missing, auth, core>>

\* The operator's reconcile_personal_tenants lists the accounts no membership
\* names, and then provisions them one by one.
ListMissing ==
    /\ missing = {}
    /\ missing' = {e \in Emails : users[e].state # "none" /\ \A m \in members : m.e # e}
    /\ missing' # {}
    /\ UNCHANGED <<rows, uids, drawn, inbox, members, calls, invites, auth, core>>

ProvisionMissing(e) ==
    /\ e \in missing
    /\ missing' = missing \ {e}
    /\ ProvisionOwner(e, users[e].uid)
    /\ UNCHANGED <<rows, uids, drawn, inbox, calls, invites, auth, core>>

\* The operator's reconcile_membership_uuids: one conflicting row stops it all.
ReconcileMembershipUuids ==
    /\ \A m \in members : users[m.e].uid # 0 /\ m.uid # 0 => m.uid = users[m.e].uid
    /\ members' = {[m EXCEPT !.uid = IF users[m.e].uid # 0 THEN users[m.e].uid ELSE @] :
                     m \in members}
    /\ UNCHANGED <<rows, uids, drawn, inbox, calls, invites, missing, auth, core>>

-----------------------------------------------------------------------------
Init ==
    /\ users = [e \in Emails |-> NoUser]
    /\ documents = [d \in Documents |-> 0]
    /\ token = [t \in 1..MaxToken |-> [uid |-> 0, state |-> "none"]]
    /\ uids = 0 /\ drawn = 0 /\ inbox = {} /\ members = {}
    /\ calls = {} /\ invites = {} /\ missing = {}
    /\ auth = [a \in AuthWorkers |-> NoCall]
    /\ core = [c \in CoreWorkers |-> NoRequest]

\* What a request of auth_api does next, and what one of core_api does.
AuthStep(a) ==
    \/ CallCore(a) \/ CallTimeout(a) \/ MailLink(a) \/ CommitRegister(a)
    \/ CommitLink(a) \/ MailAfter(a)
CoreStep(c) == JoinTeam(c) \/ InviteTimeout(c)

Next ==
    \/ \E a \in AuthWorkers :
          \/ AuthStep(a) \/ AuthCrash(a)
          \/ \E e \in Emails : \/ RequestVerification(a, e)
                               \/ \E d \in Documents \cup {NoDocument} : Register(a, e, d)
          \/ \E i \in invites : AuthInvite(a, i) \/ AuthResolve(a, i)
          \/ \E t \in inbox : VerifyEmail(a, t)
    \/ \E c \in CoreWorkers :
          \/ CoreStep(c)
          \/ \E call \in calls : Provision(c, call)
          \/ \E e \in Emails :
                CreateTenant(c, e) \/ \E d \in Documents \cup {NoDocument} : AskForUser(c, e, d)
    \/ ListMissing \/ \E e \in missing : ProvisionMissing(e)
    \/ ReconcileMembershipUuids

\* A request that runs is run on: the process is scheduled and the HTTP client's
\* timeout ends every wait.
Fairness ==
    /\ \A a \in AuthWorkers : WF_vars(AuthStep(a))
    /\ \A c \in CoreWorkers : WF_vars(CoreStep(c))

Spec == Init /\ [][Next]_vars
FairSpec == Spec /\ Fairness

-----------------------------------------------------------------------------
(* Properties *)

\* Every account that registered administers a workspace in core_api under its
\* own id: registration commits only after provision_owner did, whatever request
\* timed out, was served late, crashed or ran twice.
OwnerHasWorkspace ==
    \A e \in Emails : users[e].role = "signature_admin" =>
        \E m \in members : m.kind # "team" /\ m.uid = users[e].uid

\* A team member's row names the account that has the e-mail: the invitation that
\* core_api was answered is the one that was committed.
TeamRowsNameAccounts ==
    \A m \in members : m.kind = "team" => users[m.e].uid = m.uid /\ m.uid # 0

\* The rows of the two services are well formed and agree with each other, both
\* ways, though no transaction spans them (register, provision_owner,
\* invite_member).
ServicesAgree == TypeOK /\ OwnerHasWorkspace /\ TeamRowsNameAccounts

\* Workers of the two services cannot wait for each other for ever.
RequestsEnd ==
    /\ \A a \in AuthWorkers : auth[a].op = "provision" ~> auth[a].op # "provision"
    /\ \A c \in CoreWorkers : core[c].op = "invite" ~> core[c].op # "invite"
=============================================================================
