---------------------- MODULE AccountProvisioningProofs ----------------------
(***************************************************************************)
(* Proof that the rows of auth_api and core_api agree (ServicesAgree) for  *)
(* any number of e-mails, documents and workers of either service.         *)
(*                                                                         *)
(* The argument: the unique index gives an uncommitted e-mail to one       *)
(* transaction (HeldOnce), a request that was answered by core_api has its *)
(* workspace (SoundCall), one that commits before it mails answers with    *)
(* the committed id, and no step of core_api or of the operator's tools    *)
(* takes a row with an id away (Owned is stable).                          *)
(***************************************************************************)
EXTENDS AccountProvisioning, TLAPS

AuthCalls == [op : AuthOps, e : Emails \cup {NoEmail}, d : Documents \cup {NoDocument},
              uid : 0..MaxUid, t : 0..MaxToken, seen : SUBSET (1..MaxToken),
              from : CoreWorkers \cup {Nobody}]
CoreRequests == [op : {"idle", "invite", "join"}, e : Emails \cup {NoEmail}, uid : 0..MaxUid]
Tokens == [uid : 0..MaxUid, state : {"none", "live", "dead"}]
Waiting == [e : Emails, d : Documents \cup {NoDocument}, from : CoreWorkers \cup {Nobody}]

Provisionings == [e : Emails, uid : 1..MaxUid]

RowTypes ==
    /\ users \in [Emails -> UserStates]
    /\ \A e \in Emails : users[e].uid = 0 <=> users[e].state = "none"
    /\ documents \in [Documents -> 0..MaxUid]
    /\ token \in [1..MaxToken -> Tokens]
    /\ uids \in 0..MaxUid /\ drawn \in 0..MaxToken
    /\ inbox \subseteq 1..drawn
    /\ members \subseteq Memberships
    /\ missing \subseteq Emails

\* Somebody administers a tenant under the id.
Owned(uid) == \E m \in members : m.kind # "team" /\ m.uid = uid

\* A request of auth_api has its user and its token; once core_api has answered,
\* the user has a workspace; once it is committed, the e-mail is the user's.
SoundCall(a) ==
    /\ auth[a].op = "idle" => auth[a] = NoCall
    /\ auth[a].op # "idle" => /\ auth[a].e \in Emails
                              /\ auth[a].uid \in 1..uids /\ auth[a].t \in 1..drawn
    /\ auth[a].op \in {"mail", "commit"} => Owned(auth[a].uid)
    /\ auth[a].op = "mailAfter" => users[auth[a].e].uid = auth[a].uid
SoundCalls == \A a \in AuthWorkers : SoundCall(a)

\* An e-mail that no committed row has is inserted by one request at a time; the
\* requests for one that has an account are for that account.
HeldOnce ==
    \A a \in AuthWorkers : auth[a].uid # 0 =>
        \/ users[auth[a].e].uid = auth[a].uid
        \/ /\ users[auth[a].e].uid = 0
           /\ \A b \in AuthWorkers \ {a} : auth[b].uid # 0 => auth[b].e # auth[a].e

\* Who joins a team is answered under the id of the committed account.
JoinersAreUsers ==
    \A c \in CoreWorkers : core[c].op = "join" =>
        core[c].e \in Emails /\ core[c].uid # 0 /\ users[core[c].e].uid = core[c].uid

RowsAreSound ==
    /\ \A t \in 1..MaxToken : token[t].state = "live" => token[t].uid # 0
    /\ \A e \in Emails : /\ users[e].role = "signature_admin" => users[e].uid # 0
                         /\ users[e].uid <= uids
    /\ \A e \in missing : users[e].uid # 0

RowInv == RowTypes /\ RowsAreSound /\ OwnerHasWorkspace /\ TeamRowsNameAccounts
AuthInv == auth \in [AuthWorkers -> AuthCalls] /\ SoundCalls /\ HeldOnce
CoreInv == core \in [CoreWorkers -> CoreRequests] /\ JoinersAreUsers
WaitInv == calls \subseteq Provisionings /\ invites \subseteq Waiting
IndInv == RowInv /\ AuthInv /\ CoreInv /\ WaitInv

LEMMA TypesAgree ==
  ASSUME IndInv PROVE TypeOK
<1>1. ASSUME NEW a \in AuthWorkers PROVE auth[a].op \in AuthOps /\ auth[a].uid <= uids
  <2>1. auth[a] \in AuthCalls /\ uids \in Nat
    BY BoundsAssumption DEF IndInv, AuthInv, RowInv, RowTypes
  <2>2. CASE auth[a].op = "idle"
    BY <2>1, <2>2 DEF IndInv, AuthInv, SoundCalls, SoundCall, NoCall, AuthCalls
  <2>3. CASE auth[a].op # "idle"
    BY <2>1, <2>3 DEF IndInv, AuthInv, SoundCalls, SoundCall, AuthCalls
  <2> QED
    BY <2>2, <2>3
<1>2. \A c \in CoreWorkers : core[c].op \in {"idle", "invite", "join"}
  BY DEF IndInv, CoreInv, CoreRequests
<1> QED
  BY <1>1, <1>2 DEF IndInv, RowInv, RowTypes, TypeOK, Tokens

LEMMA InitInvariant == Init => IndInv
<1> SUFFICES ASSUME Init PROVE IndInv
  OBVIOUS
<1> USE BoundsAssumption DEF Init
<1>1. NoUser \in UserStates /\ NoUser.uid = 0 /\ NoUser.state = "none" /\ NoUser.role = "none"
  BY DEF NoUser, UserStates
<1>2. RowInv
  BY <1>1 DEF RowInv, RowTypes, RowsAreSound, OwnerHasWorkspace, TeamRowsNameAccounts, Tokens
<1>3. NoCall \in AuthCalls /\ NoCall.uid = 0 /\ NoCall.op = "idle"
  BY DEF NoCall, AuthCalls, AuthOps
<1>4. AuthInv
  BY <1>3 DEF AuthInv, SoundCalls, SoundCall, HeldOnce
<1>5. NoRequest \in CoreRequests /\ NoRequest.op = "idle"
  BY DEF NoRequest, CoreRequests
<1>6. CoreInv
  BY <1>5 DEF CoreInv, JoinersAreUsers
<1> QED
  BY <1>2, <1>4, <1>6 DEF IndInv, WaitInv

-----------------------------------------------------------------------------
(* What a step keeps                                                        *)

\* Accounts keep their id, ids keep their workspace, and the sequences only grow.
Kept ==
    /\ uids <= uids' /\ drawn <= drawn'
    /\ \A e \in Emails : users[e].uid # 0 => users'[e].uid = users[e].uid
    /\ \A uid \in 1..MaxUid : Owned(uid) => Owned(uid)'

\* A request of auth_api that stays where it is, or is gone.
CallStays(a) ==
    \/ auth'[a] = NoCall
    \/ auth'[a] = auth[a]
    \/ /\ auth[a].op # "idle" /\ auth'[a].op = auth[a].op /\ auth'[a].e = auth[a].e
       /\ auth'[a].uid = auth[a].uid /\ auth'[a].t = auth[a].t

LEMMA CallFacts ==
  ASSUME RowInv, AuthInv, NEW a \in AuthWorkers
  PROVE  /\ auth[a] \in AuthCalls
         /\ uids \in Nat /\ drawn \in Nat /\ uids <= MaxUid /\ drawn <= MaxToken
         /\ auth[a].op = "idle" => auth[a].uid = 0
         /\ auth[a].op # "idle" => /\ auth[a].uid # 0 /\ auth[a].uid \in 1..MaxUid
                                   /\ auth[a].uid \in 1..uids
                                   /\ auth[a].e \in Emails
                                   /\ auth[a].t \in 1..drawn /\ auth[a].t \in 1..MaxToken
<1>1. auth[a] \in AuthCalls /\ SoundCall(a)
  BY DEF AuthInv, SoundCalls
<1>2. uids \in Nat /\ drawn \in Nat /\ uids <= MaxUid /\ drawn <= MaxToken
  BY BoundsAssumption DEF RowInv, RowTypes
<1>3. NoCall.uid = 0
  BY DEF NoCall
<1> QED
  BY <1>1, <1>2, <1>3, BoundsAssumption DEF SoundCall

LEMMA CallKept ==
  ASSUME RowInv, AuthInv, Kept, RowTypes', NEW a \in AuthWorkers, CallStays(a)
  PROVE  SoundCall(a)'
<1>1. CASE auth'[a] = NoCall
  BY <1>1 DEF SoundCall, NoCall
<1>2. CASE auth[a].op = "idle" /\ auth'[a] = auth[a]
  BY <1>2 DEF SoundCall, AuthInv, SoundCalls
<1>3. CASE /\ auth[a].op # "idle" /\ auth'[a].op = auth[a].op /\ auth'[a].e = auth[a].e
           /\ auth'[a].uid = auth[a].uid /\ auth'[a].t = auth[a].t
  <2>1. uids' \in Nat /\ drawn' \in Nat
    BY BoundsAssumption DEF RowTypes
  <2>2. auth'[a].e \in Emails /\ auth'[a].uid \in 1..uids' /\ auth'[a].t \in 1..drawn'
    BY <1>3, <2>1, CallFacts DEF Kept
  <2>3. PICK uid \in 1..MaxUid : uid = auth[a].uid
    BY <1>3, CallFacts
  <2>4. auth'[a].op \in {"mail", "commit"} => Owned(uid)'
    BY <1>3, <2>3 DEF SoundCall, AuthInv, SoundCalls, Kept
  <2>5. auth'[a].op = "mailAfter" => users'[auth'[a].e].uid = auth'[a].uid
    BY <1>3, <2>2, CallFacts DEF SoundCall, AuthInv, SoundCalls, Kept
  <2> QED
    BY <1>3, <2>2, <2>3, <2>4, <2>5 DEF SoundCall, Owned
<1> QED
  BY <1>1, <1>2, <1>3 DEF CallStays

LEMMA HeldKept ==
  ASSUME AuthInv, \A e \in Emails : users'[e].uid = users[e].uid,
         \A a \in AuthWorkers : \/ auth'[a].uid = 0
                                \/ /\ auth'[a].e = auth[a].e /\ auth'[a].uid = auth[a].uid
                                   /\ auth[a].e \in Emails
  PROVE  HeldOnce'
BY DEF AuthInv, HeldOnce

\* Nothing is committed and no request begins: some requests of auth_api end.
LEMMA AuthKept ==
  ASSUME RowInv, AuthInv, Kept, RowTypes', auth' \in [AuthWorkers -> AuthCalls],
         \A e \in Emails : users'[e].uid = users[e].uid,
         \A a \in AuthWorkers : CallStays(a)
  PROVE  AuthInv'
<1>1. SoundCalls'
  BY CallKept DEF SoundCalls
<1>2. \A a \in AuthWorkers : \/ auth'[a].uid = 0
                             \/ /\ auth'[a].e = auth[a].e /\ auth'[a].uid = auth[a].uid
                                /\ auth[a].e \in Emails
  BY CallFacts DEF CallStays, NoCall
<1> QED
  BY <1>1, <1>2, HeldKept DEF AuthInv

LEMMA CoreKept ==
  ASSUME CoreInv, Kept, core' \in [CoreWorkers -> CoreRequests],
         \A c \in CoreWorkers : core'[c] = core[c] \/ core'[c].op # "join"
  PROVE  CoreInv'
BY DEF CoreInv, JoinersAreUsers, Kept

\* The rows stay, only the sequences and the inbox move.
LEMMA RowsKept ==
  ASSUME RowInv, UNCHANGED <<users, documents, token, members, missing>>,
         uids' \in 0..MaxUid, drawn' \in 0..MaxToken, uids <= uids', drawn <= drawn',
         inbox' \subseteq 1..drawn'
  PROVE  RowInv' /\ Kept
<1>1. RowInv'
  <2>1. RowTypes' /\ OwnerHasWorkspace' /\ TeamRowsNameAccounts'
    BY DEF RowInv, RowTypes, OwnerHasWorkspace, TeamRowsNameAccounts
  <2>2. \A e \in Emails : users[e].uid \in Nat
    BY BoundsAssumption DEF RowInv, RowTypes, UserStates
  <2>3. uids \in Nat /\ uids' \in Nat
    BY BoundsAssumption DEF RowInv, RowTypes
  <2>4. RowsAreSound'
    BY <2>2, <2>3 DEF RowInv, RowsAreSound
  <2> QED
    BY <2>1, <2>4 DEF RowInv
<1>2. Kept
  BY DEF Kept, Owned
<1> QED
  BY <1>1, <1>2

\* The rows, the sequences and the inbox stay.
LEMMA AllRowsKept ==
  ASSUME RowInv, UNCHANGED <<users, documents, token, members, missing, uids, drawn, inbox>>
  PROVE  RowInv' /\ Kept
<1>1. /\ uids' \in 0..MaxUid /\ drawn' \in 0..MaxToken /\ uids <= uids' /\ drawn <= drawn'
      /\ inbox' \subseteq 1..drawn'
  BY BoundsAssumption DEF RowInv, RowTypes
<1> QED
  BY <1>1, RowsKept

-----------------------------------------------------------------------------
(* auth_api *)

LEMMA RollbackFacts ==
  ASSUME AuthInv, NEW a \in AuthWorkers, Rollback(a)
  PROVE  /\ auth' \in [AuthWorkers -> AuthCalls]
         /\ \A b \in AuthWorkers : CallStays(b)
         /\ auth'[a] = NoCall /\ \A b \in AuthWorkers \ {a} : auth'[b] = auth[b]
<1>1. NoCall \in AuthCalls
  BY BoundsAssumption DEF NoCall, AuthCalls, AuthOps
<1> QED
  BY <1>1 DEF Rollback, AuthInv, CallStays

LEMMA GotoFacts ==
  ASSUME RowInv, AuthInv, NEW a \in AuthWorkers, NEW op \in AuthOps, Goto(a, op)
  PROVE  /\ auth' \in [AuthWorkers -> AuthCalls]
         /\ auth'[a].op = op /\ auth'[a].e = auth[a].e /\ auth'[a].uid = auth[a].uid
         /\ auth'[a].t = auth[a].t
         /\ \A b \in AuthWorkers \ {a} : auth'[b] = auth[b] /\ CallStays(b)
<1> DEFINE x == [auth[a] EXCEPT !.op = op]
<1>1. auth[a] \in AuthCalls
  BY DEF AuthInv
<1>2. x \in AuthCalls /\ x.op = op /\ x.e = auth[a].e /\ x.uid = auth[a].uid /\ x.t = auth[a].t
  BY <1>1 DEF AuthCalls
<1>3. auth' = [auth EXCEPT ![a] = x]
  BY DEF Goto
<1> HIDE DEF x
<1> QED
  BY <1>2, <1>3 DEF AuthInv, CallStays

\* A request goes on, nothing is committed.
LEMMA GotoStep ==
  ASSUME RowInv, AuthInv, NEW a \in AuthWorkers, auth[a].op # "idle",
         NEW op \in AuthOps \ {"idle", "mailAfter"}, Goto(a, op),
         op \in {"mail", "commit"} => auth[a].op \in {"mail", "commit"},
         RowInv', Kept, UNCHANGED users
  PROVE  AuthInv'
<1>1. op \in AuthOps
  OBVIOUS
<1>2. SoundCall(a)'
  <2>1. PICK uid \in 1..MaxUid : uid = auth[a].uid
    BY CallFacts
  <2>2. op \in {"mail", "commit"} => Owned(uid)'
    BY <2>1 DEF AuthInv, SoundCalls, SoundCall, Kept
  <2>3. uids' \in Nat /\ drawn' \in Nat
    BY BoundsAssumption DEF RowInv, RowTypes
  <2>4. auth'[a].e \in Emails /\ auth'[a].uid \in 1..uids' /\ auth'[a].t \in 1..drawn'
    BY <1>1, <2>3, CallFacts, GotoFacts DEF Kept
  <2>5. auth'[a].op = op /\ auth'[a].uid = uid
    BY <1>1, <2>1, GotoFacts
  <2> QED
    BY <2>2, <2>4, <2>5 DEF SoundCall, Owned
<1>3. SoundCalls'
  BY <1>1, <1>2, GotoFacts, CallKept DEF SoundCalls, RowInv
<1>4. HeldOnce'
  BY <1>1, GotoFacts, HeldKept, CallFacts
<1> QED
  BY <1>1, <1>3, <1>4, GotoFacts DEF AuthInv

LEMMA InsertStep ==
  ASSUME IndInv, NEW a \in AuthWorkers, NEW e \in Emails, NEW d \in Documents \cup {NoDocument},
         NEW op \in {"insert", "issue"}, NEW from \in CoreWorkers \cup {Nobody},
         InsertUser(a, e, d, op, from), UNCHANGED <<rows, inbox, members, missing>>
  PROVE  RowInv' /\ AuthInv' /\ Kept
<1> DEFINE x == [op |-> op, e |-> e, d |-> d, uid |-> uids', t |-> drawn', seen |-> {},
                 from |-> from]
<1>1. /\ users[e].state = "none" /\ ~EmailHeld(e) /\ uids < MaxUid /\ drawn < MaxToken
      /\ uids' = uids + 1 /\ drawn' = drawn + 1 /\ auth[a] = NoCall
      /\ auth' = [auth EXCEPT ![a] = x]
  BY DEF InsertUser, Serve
<1>2. /\ uids \in Nat /\ drawn \in Nat /\ uids' \in 1..MaxUid /\ drawn' \in 1..MaxToken
      /\ uids' \in 1..uids' /\ drawn' \in 1..drawn'
      /\ uids <= uids' /\ drawn <= drawn' /\ inbox \subseteq 1..drawn'
      /\ uids' \in 0..MaxUid /\ drawn' \in 0..MaxToken
  BY <1>1, BoundsAssumption DEF IndInv, RowInv, RowTypes
<1>3. /\ x \in AuthCalls /\ x.op = op /\ x.e = e /\ x.uid = uids' /\ x.t = drawn'
  BY <1>2 DEF AuthCalls, AuthOps
<1> HIDE DEF x
<1>4. RowInv' /\ Kept
  BY <1>2, RowsKept DEF IndInv, rows
<1>5. /\ auth' \in [AuthWorkers -> AuthCalls] /\ auth'[a] = x
      /\ \A b \in AuthWorkers \ {a} : auth'[b] = auth[b]
  BY <1>1, <1>3 DEF IndInv, AuthInv
<1>6. SoundCall(a)'
  BY <1>2, <1>3, <1>5 DEF SoundCall
<1>7. SoundCalls'
  BY <1>4, <1>5, <1>6, CallKept DEF IndInv, SoundCalls, CallStays, RowInv
<1>8. users[e].uid = 0 /\ UNCHANGED users
  BY <1>1 DEF IndInv, RowInv, RowTypes, rows
<1>9. \A b \in AuthWorkers \ {a} : auth[b].uid # 0 => auth[b].e # e
  BY <1>1, <1>8 DEF EmailHeld
<1>10. HeldOnce'
  BY <1>3, <1>5, <1>8, <1>9 DEF IndInv, AuthInv, HeldOnce
<1> QED
  BY <1>4, <1>5, <1>7, <1>10 DEF AuthInv

\* A new link for an account that waits for its activation.
LEMMA IssueStep ==
  ASSUME IndInv, NEW a \in AuthWorkers, NEW e \in Emails,
         NEW from \in CoreWorkers \cup {Nobody}, users[e].state = "pending",
         drawn < MaxToken, drawn' = drawn + 1,
         Serve(a, [op |-> "issue", e |-> e, d |-> NoDocument, uid |-> users[e].uid,
                   t |-> drawn', seen |-> LiveTokens(users[e].uid), from |-> from]),
         UNCHANGED <<rows, uids, inbox, members, missing>>
  PROVE  RowInv' /\ AuthInv' /\ Kept
<1> DEFINE x == [op |-> "issue", e |-> e, d |-> NoDocument, uid |-> users[e].uid,
                 t |-> drawn', seen |-> LiveTokens(users[e].uid), from |-> from]
<1>1. auth[a] = NoCall /\ auth' = [auth EXCEPT ![a] = x]
  BY DEF Serve
<1>2. /\ uids' = uids /\ uids \in Nat /\ drawn \in Nat /\ drawn' \in 1..MaxToken
      /\ drawn' \in 1..drawn' /\ uids' \in 0..MaxUid /\ uids <= uids'
      /\ drawn <= drawn' /\ inbox \subseteq 1..drawn' /\ drawn' \in 0..MaxToken
      /\ 1..drawn \subseteq 1..MaxToken
  BY BoundsAssumption DEF IndInv, RowInv, RowTypes
<1>3. users[e].uid \in 1..uids /\ users[e].uid \in 0..MaxUid /\ users[e].uid # 0
  BY <1>2 DEF IndInv, RowInv, RowTypes, UserStates, RowsAreSound
<1>4. x \in AuthCalls /\ x.op = "issue" /\ x.e = e /\ x.uid = users[e].uid /\ x.t = drawn'
  BY <1>2, <1>3 DEF AuthCalls, AuthOps, LiveTokens
<1> HIDE DEF x
<1>5. RowInv' /\ Kept
  BY <1>2, RowsKept DEF IndInv, rows
<1>6. /\ auth' \in [AuthWorkers -> AuthCalls] /\ auth'[a] = x
      /\ \A b \in AuthWorkers \ {a} : auth'[b] = auth[b]
  BY <1>1, <1>4 DEF IndInv, AuthInv
<1>7. SoundCall(a)'
  BY <1>2, <1>3, <1>4, <1>6 DEF SoundCall
<1>8. SoundCalls'
  BY <1>5, <1>6, <1>7, CallKept DEF IndInv, SoundCalls, CallStays, RowInv
<1>9. HeldOnce'
  BY <1>3, <1>4, <1>6 DEF IndInv, AuthInv, HeldOnce, rows
<1> QED
  BY <1>5, <1>6, <1>8, <1>9 DEF AuthInv
\* The transaction of a request that registers or issues a link.
LEMMA WriteFacts ==
  ASSUME IndInv, NEW a \in AuthWorkers, auth[a].op \in {"commit", "issue"},
         NEW role \in {"signature_admin", "signature_operator"}, WriteUser(a, role),
         role = "signature_admin" => auth[a].op = "commit",
         UNCHANGED <<uids, drawn, inbox, members, missing>>
  PROVE  /\ RowInv' /\ Kept
         /\ users'[auth[a].e].uid = auth[a].uid
         /\ \A e \in Emails \ {auth[a].e} : users'[e] = users[e]
         /\ users[auth[a].e].uid # 0 => users' = users
<1>1. PICK e \in Emails, uid \in 1..MaxUid, t \in 1..MaxToken :
          /\ e = auth[a].e /\ uid = auth[a].uid /\ t = auth[a].t /\ uid <= uids
  <2>1. auth[a].e \in Emails /\ auth[a].uid \in 1..MaxUid /\ auth[a].t \in 1..MaxToken
        /\ auth[a].uid <= uids
    BY CallFacts DEF IndInv
  <2> QED
    BY <2>1
<1>2. uid # 0 /\ uid \in 0..MaxUid
  BY BoundsAssumption
<1>3. users[e].uid = uid \/ users[e].uid = 0
  BY <1>1, <1>2 DEF IndInv, AuthInv, HeldOnce
<1> DEFINE u == [uid |-> uid, state |-> "pending", role |-> role]
<1>4. u \in UserStates /\ u.uid = uid /\ u.state = "pending" /\ u.role = role
  BY <1>2 DEF UserStates
<1>5. \/ users[e].uid = 0 /\ users' = [users EXCEPT ![e] = u]
      \/ users[e].uid = uid /\ users' = users
  BY <1>1, <1>2, <1>3 DEF WriteUser, IndInv, RowInv, RowTypes
<1> HIDE DEF u
<1>6. /\ users' \in [Emails -> UserStates]
      /\ \A f \in Emails \ {e} : users'[f] = users[f]
      /\ users'[e] = u \/ (users[e].uid = uid /\ users'[e] = users[e])
      /\ users'[e].uid = uid
  BY <1>4, <1>5 DEF IndInv, RowInv, RowTypes
<1>7. documents' \in [Documents -> 0..MaxUid]
  BY <1>1, <1>2 DEF WriteUser, IndInv, RowInv, RowTypes
<1>8. /\ token' \in [1..MaxToken -> Tokens]
      /\ \A q \in 1..MaxToken : token'[q].state = "live" => token'[q].uid # 0
  <2>1. token' = [q \in 1..MaxToken |->
                    IF q = t THEN [uid |-> uid, state |-> "live"]
                    ELSE IF q \in auth[a].seen THEN [token[q] EXCEPT !.state = "dead"]
                    ELSE token[q]]
    BY <1>1 DEF WriteUser
  <2>2. \A q \in 1..MaxToken : token[q] \in Tokens
    BY DEF IndInv, RowInv, RowTypes
  <2>3. [uid |-> uid, state |-> "live"] \in Tokens
    BY <1>2 DEF Tokens
  <2>4. \A q \in 1..MaxToken : /\ [token[q] EXCEPT !.state = "dead"] \in Tokens
                               /\ [token[q] EXCEPT !.state = "dead"].state = "dead"
    BY <2>2 DEF Tokens
  <2>5. ASSUME NEW q \in 1..MaxToken
        PROVE  token'[q] \in Tokens /\ (token'[q].state = "live" => token'[q].uid # 0)
    <3>1. CASE q = t
      BY <1>2, <2>1, <2>3, <3>1
    <3>2. CASE q # t /\ q \in auth[a].seen
      BY <2>1, <2>4, <3>2
    <3>3. CASE q # t /\ q \notin auth[a].seen
      BY <2>1, <2>2, <3>3 DEF IndInv, RowInv, RowsAreSound
    <3> QED
      BY <3>1, <3>2, <3>3
  <2>6. token' = [q \in 1..MaxToken |-> token'[q]]
    BY <2>1
  <2> QED
    BY <2>5, <2>6
<1>9. RowTypes'
  BY <1>2, <1>4, <1>6, <1>7, <1>8 DEF IndInv, RowInv, RowTypes
<1>10. RowsAreSound'
  BY <1>1, <1>2, <1>4, <1>6, <1>8 DEF IndInv, RowInv, RowsAreSound, RowTypes
<1>11. OwnerHasWorkspace'
  <2>1. role = "signature_admin" => Owned(uid)
    BY <1>1 DEF IndInv, AuthInv, SoundCalls, SoundCall
  <2> QED
    BY <1>4, <1>6, <2>1 DEF IndInv, RowInv, OwnerHasWorkspace, Owned
<1>12. TeamRowsNameAccounts'
  BY <1>5, <1>6 DEF IndInv, RowInv, RowTypes, Memberships, TeamRowsNameAccounts
<1>13. Kept
  BY <1>3, <1>6, BoundsAssumption DEF Kept, Owned, IndInv, RowInv, RowTypes
<1> QED
  BY <1>1, <1>2, <1>5, <1>6, <1>9, <1>10, <1>11, <1>12, <1>13 DEF RowInv

\* The other requests for the e-mail are for the account that was committed.
LEMMA HeldWritten ==
  ASSUME IndInv, NEW a \in AuthWorkers, auth[a].uid # 0,
         users'[auth[a].e].uid = auth[a].uid,
         \A e \in Emails \ {auth[a].e} : users'[e] = users[e],
         users[auth[a].e].uid # 0 => users' = users,
         \A b \in AuthWorkers : \/ auth'[b].uid = 0
                                \/ auth'[b].e = auth[b].e /\ auth'[b].uid = auth[b].uid
  PROVE  HeldOnce'
<1>1. ASSUME NEW b \in AuthWorkers, auth'[b].uid # 0
      PROVE  \/ users'[auth'[b].e].uid = auth'[b].uid
             \/ /\ users'[auth'[b].e].uid = 0
                /\ \A c \in AuthWorkers \ {b} : auth'[c].uid # 0 => auth'[c].e # auth'[b].e
  <2>1. auth'[b].e = auth[b].e /\ auth'[b].uid = auth[b].uid /\ auth[b].uid # 0
    BY <1>1
  <2>2. auth[b].e \in Emails
    BY <2>1, CallFacts DEF IndInv
  <2>3. CASE b = a
    BY <2>1, <2>3
  <2>4. CASE b # a /\ users' = users
    BY <2>1, <2>4 DEF IndInv, AuthInv, HeldOnce
  <2>5. CASE b # a /\ users[auth[a].e].uid = 0
    <3>1. auth[b].e # auth[a].e
      BY <2>1, <2>5 DEF IndInv, AuthInv, HeldOnce
    <3>2. users'[auth[b].e] = users[auth[b].e]
      BY <2>2, <3>1
    <3> QED
      BY <2>1, <3>2 DEF IndInv, AuthInv, HeldOnce
  <2> QED
    BY <2>3, <2>4, <2>5
<1> QED
  BY <1>1 DEF HeldOnce

LEMMA CommitRegisterStep ==
  ASSUME IndInv, NEW a \in AuthWorkers, CommitRegister(a)
  PROVE  IndInv'
<1>1. /\ auth[a].op = "commit" /\ WriteUser(a, "signature_admin") /\ Rollback(a)
      /\ UNCHANGED <<uids, drawn, inbox, members, calls, invites, missing, core>>
  BY DEF CommitRegister
<1>2. /\ RowInv' /\ Kept /\ users'[auth[a].e].uid = auth[a].uid
      /\ \A e \in Emails \ {auth[a].e} : users'[e] = users[e]
      /\ users[auth[a].e].uid # 0 => users' = users
  BY <1>1, WriteFacts
<1>3. /\ auth' \in [AuthWorkers -> AuthCalls] /\ \A b \in AuthWorkers : CallStays(b)
      /\ auth'[a] = NoCall /\ \A b \in AuthWorkers \ {a} : auth'[b] = auth[b]
  BY <1>1, RollbackFacts DEF IndInv
<1>4. SoundCalls'
  BY <1>2, <1>3, CallKept DEF SoundCalls, IndInv, RowInv
<1>5. NoCall.uid = 0 /\ auth[a].uid # 0
  BY <1>1, CallFacts DEF NoCall, IndInv
<1>6. HeldOnce'
  BY <1>2, <1>3, <1>5, HeldWritten
<1>7. CoreInv'
  BY <1>1, <1>2, CoreKept DEF IndInv, CoreInv
<1> QED
  BY <1>1, <1>2, <1>3, <1>4, <1>6, <1>7 DEF IndInv, AuthInv, WaitInv

LEMMA CommitLinkStep ==
  ASSUME IndInv, NEW a \in AuthWorkers, CommitLink(a)
  PROVE  IndInv'
<1>1. /\ auth[a].op = "issue" /\ WriteUser(a, "signature_operator") /\ Goto(a, "mailAfter")
      /\ UNCHANGED <<uids, drawn, inbox, members, calls, invites, missing, core>>
  BY DEF CommitLink
<1>2. /\ RowInv' /\ Kept /\ users'[auth[a].e].uid = auth[a].uid
      /\ \A e \in Emails \ {auth[a].e} : users'[e] = users[e]
      /\ users[auth[a].e].uid # 0 => users' = users
  BY <1>1, WriteFacts
<1>3. "mailAfter" \in AuthOps
  BY DEF AuthOps
<1>4. /\ auth' \in [AuthWorkers -> AuthCalls]
      /\ auth'[a].op = "mailAfter" /\ auth'[a].e = auth[a].e /\ auth'[a].uid = auth[a].uid
      /\ auth'[a].t = auth[a].t
      /\ \A b \in AuthWorkers \ {a} : auth'[b] = auth[b] /\ CallStays(b)
  BY <1>1, <1>3, GotoFacts DEF IndInv
<1>5. SoundCall(a)'
  <2>1. auth[a].e \in Emails /\ auth[a].uid \in 1..uids /\ auth[a].t \in 1..drawn
    BY <1>1, CallFacts DEF IndInv
  <2> QED
    BY <1>1, <1>2, <1>4, <2>1 DEF SoundCall
<1>6. SoundCalls'
  BY <1>2, <1>4, <1>5, CallKept DEF SoundCalls, IndInv, RowInv
<1>7. auth[a].uid # 0
  BY <1>1, CallFacts DEF IndInv
<1>8. HeldOnce'
  BY <1>2, <1>4, <1>7, HeldWritten
<1>9. CoreInv'
  BY <1>1, <1>2, CoreKept DEF IndInv, CoreInv
<1> QED
  BY <1>1, <1>2, <1>4, <1>6, <1>8, <1>9 DEF IndInv, AuthInv, WaitInv
\* core_api is answered with an error, or with the account that has the e-mail.
LEMMA AnswerStep ==
  ASSUME IndInv, Kept, NEW from \in CoreWorkers \cup {Nobody}, NEW r \in CoreRequests,
         \/ r.op = "idle"
         \/ r.e \in Emails /\ r.uid # 0 /\ users'[r.e].uid = r.uid,
         Answer(from, r)
  PROVE  CoreInv'
<1>1. \/ core' = core
      \/ from \in CoreWorkers /\ core' = [core EXCEPT ![from] = r]
  BY DEF Answer
<1>2. core' \in [CoreWorkers -> CoreRequests]
  BY <1>1 DEF IndInv, CoreInv
<1>3. CASE core' = core
  BY <1>2, <1>3, CoreKept DEF IndInv
<1>4. CASE from \in CoreWorkers /\ core' = [core EXCEPT ![from] = r]
  <2>1. core'[from] = r /\ \A c \in CoreWorkers \ {from} : core'[c] = core[c]
    BY <1>4 DEF IndInv, CoreInv
  <2> QED
    BY <1>2, <2>1 DEF IndInv, CoreInv, JoinersAreUsers, Kept
<1> QED
  BY <1>1, <1>3, <1>4

LEMMA Answers ==
  ASSUME NEW e \in Emails, NEW uid \in 0..MaxUid
  PROVE  /\ Joining(e, uid) \in CoreRequests
         /\ Joining(e, uid).e = e /\ Joining(e, uid).uid = uid
         /\ NoRequest \in CoreRequests /\ NoRequest.op = "idle"
BY BoundsAssumption DEF Joining, NoRequest, CoreRequests

LEMMA RegisterStep ==
  ASSUME IndInv, NEW a \in AuthWorkers, NEW e \in Emails, NEW d \in Documents \cup {NoDocument},
         Register(a, e, d)
  PROVE  IndInv'
<1>1. RowInv' /\ AuthInv' /\ Kept
  BY InsertStep DEF Register
<1>2. CoreInv'
  BY <1>1, CoreKept DEF Register, IndInv, CoreInv
<1> QED
  BY <1>1, <1>2 DEF Register, IndInv, WaitInv

LEMMA RequestVerificationStep ==
  ASSUME IndInv, NEW a \in AuthWorkers, NEW e \in Emails, RequestVerification(a, e)
  PROVE  IndInv'
<1>1. RowInv' /\ AuthInv' /\ Kept
  BY IssueStep DEF RequestVerification
<1>2. CoreInv'
  BY <1>1, CoreKept DEF RequestVerification, IndInv, CoreInv
<1> QED
  BY <1>1, <1>2 DEF RequestVerification, IndInv, WaitInv

LEMMA AuthInviteStep ==
  ASSUME IndInv, NEW a \in AuthWorkers, NEW i \in invites, AuthInvite(a, i)
  PROVE  IndInv'
<1>1. PICK e \in Emails, d \in Documents \cup {NoDocument}, from \in CoreWorkers \cup {Nobody} :
          e = i.e /\ d = i.d /\ from = i.from
  <2>1. i \in Waiting
    BY DEF IndInv, WaitInv
  <2>2. i.e \in Emails /\ i.d \in Documents \cup {NoDocument} /\ i.from \in CoreWorkers \cup {Nobody}
    BY <2>1 DEF Waiting
  <2> QED
    BY <2>2
<1>2. /\ UNCHANGED <<rows, inbox, members, calls, missing>> /\ invites' \subseteq invites
      /\ UNCHANGED <<users, documents, token>>
  BY DEF AuthInvite, rows
<1>3. CASE InsertUser(a, e, d, "issue", from) /\ UNCHANGED core
  <2>1. RowInv' /\ AuthInv' /\ Kept
    BY <1>2, <1>3, InsertStep
  <2>2. CoreInv'
    BY <1>3, <2>1, CoreKept DEF IndInv, CoreInv
  <2> QED
    BY <1>2, <2>1, <2>2 DEF IndInv, WaitInv
<1>4. CASE /\ users[e].state = "pending" /\ drawn < MaxToken /\ drawn' = drawn + 1
           /\ Serve(a, [op |-> "issue", e |-> e, d |-> NoDocument, uid |-> users[e].uid,
                        t |-> drawn', seen |-> LiveTokens(users[e].uid), from |-> from])
           /\ UNCHANGED <<uids, core>>
  <2>1. RowInv' /\ AuthInv' /\ Kept
    BY <1>2, <1>4, IssueStep
  <2>2. CoreInv'
    BY <1>4, <2>1, CoreKept DEF IndInv, CoreInv
  <2> QED
    BY <1>2, <2>1, <2>2 DEF IndInv, WaitInv
<1>5. CASE /\ \/ users[e].state = "active" /\ Answer(from, Joining(e, users[e].uid))
              \/ Answer(from, NoRequest)
           /\ UNCHANGED <<uids, drawn, auth>>
  <2>1. RowInv' /\ Kept
    BY <1>2, <1>5, AllRowsKept DEF IndInv
  <2>2. AuthInv'
    BY <1>2, <1>5, <2>1, AuthKept DEF IndInv, AuthInv, CallStays, RowInv
  <2>3. users[e].uid \in 0..MaxUid /\ (users[e].state = "active" => users[e].uid # 0)
    BY DEF IndInv, RowInv, RowTypes, UserStates
  <2>4. CoreInv'
    BY <1>2, <1>5, <2>1, <2>3, Answers, AnswerStep
  <2> QED
    BY <1>2, <2>1, <2>2, <2>4 DEF IndInv, WaitInv
<1> QED
  BY <1>1, <1>3, <1>4, <1>5 DEF AuthInvite

LEMMA AuthResolveStep ==
  ASSUME IndInv, NEW a \in AuthWorkers, NEW i \in invites, AuthResolve(a, i)
  PROVE  IndInv'
<1>1. PICK e \in Emails, from \in CoreWorkers \cup {Nobody} : e = i.e /\ from = i.from
  <2>1. i \in Waiting
    BY DEF IndInv, WaitInv
  <2>2. i.e \in Emails /\ i.from \in CoreWorkers \cup {Nobody}
    BY <2>1 DEF Waiting
  <2> QED
    BY <2>2
<1>2. /\ UNCHANGED <<users, documents, token, uids, drawn, inbox, members, calls, missing, auth>>
      /\ invites' \subseteq invites
  BY DEF AuthResolve, rows
<1>3. RowInv' /\ Kept
  BY <1>2, AllRowsKept DEF IndInv
<1>4. AuthInv'
  BY <1>2, <1>3, AuthKept DEF IndInv, AuthInv, CallStays, RowInv
<1>5. users[e].uid \in 0..MaxUid /\ (users[e].state = "active" => users[e].uid # 0)
  BY DEF IndInv, RowInv, RowTypes, UserStates
<1>6. \/ users[e].state = "active" /\ Answer(from, Joining(e, users[e].uid))
      \/ Answer(from, NoRequest)
  BY <1>1 DEF AuthResolve
<1>7. CoreInv'
  BY <1>2, <1>3, <1>5, <1>6, Answers, AnswerStep
<1> QED
  BY <1>2, <1>3, <1>4, <1>7 DEF IndInv, WaitInv

LEMMA CallCoreStep ==
  ASSUME IndInv, NEW a \in AuthWorkers, CallCore(a)
  PROVE  IndInv'
<1>1. /\ auth[a].op = "insert" /\ Goto(a, "provision")
      /\ calls' = calls \cup {[e |-> auth[a].e, uid |-> auth[a].uid]}
      /\ UNCHANGED <<users, documents, token, uids, drawn, inbox, members, invites, missing, core>>
  BY DEF CallCore, rows
<1>2. RowInv' /\ Kept
  BY <1>1, AllRowsKept DEF IndInv
<1>3. AuthInv'
  BY <1>1, <1>2, GotoStep DEF IndInv, AuthOps
<1>4. CoreInv'
  BY <1>1, <1>2, CoreKept DEF IndInv, CoreInv
<1>5. auth[a].e \in Emails /\ auth[a].uid \in 1..MaxUid
  BY <1>1, CallFacts DEF IndInv
<1>6. calls' \subseteq Provisionings
  BY <1>1, <1>5 DEF IndInv, WaitInv, Provisionings
<1> QED
  BY <1>1, <1>2, <1>3, <1>4, <1>6 DEF IndInv, WaitInv

\* A request of auth_api ends and commits nothing.
LEMMA EndStep ==
  ASSUME IndInv, NEW a \in AuthWorkers, Rollback(a), calls' \subseteq calls, UNCHANGED invites,
         CoreInv' \/ UNCHANGED core, inbox' \subseteq 1..drawn,
         UNCHANGED <<users, documents, token, uids, drawn, members, missing>>
  PROVE  IndInv'
<1>1. RowInv' /\ Kept
  <2>1. uids' \in 0..MaxUid /\ drawn' \in 0..MaxToken /\ uids <= uids' /\ drawn <= drawn'
    BY BoundsAssumption DEF IndInv, RowInv, RowTypes
  <2> QED
    BY <2>1, RowsKept DEF IndInv
<1>2. AuthInv'
  BY <1>1, RollbackFacts, AuthKept DEF IndInv, RowInv
<1>3. CoreInv'
  BY <1>1, CoreKept DEF IndInv, CoreInv
<1> QED
  BY <1>1, <1>2, <1>3 DEF IndInv, WaitInv

LEMMA MailLinkStep ==
  ASSUME IndInv, NEW a \in AuthWorkers, MailLink(a)
  PROVE  IndInv'
<1>1. /\ auth[a].op = "mail"
      /\ UNCHANGED <<users, documents, token, uids, drawn, members, calls, invites, missing, core>>
  BY DEF MailLink, rows
<1>2. inbox' \subseteq 1..drawn
  BY <1>1, CallFacts DEF MailLink, IndInv, RowInv, RowTypes
<1>3. CASE Rollback(a)
  BY <1>1, <1>2, <1>3, EndStep
<1>4. CASE Goto(a, "commit")
  <2>1. RowInv' /\ Kept
    <3>1. uids' \in 0..MaxUid /\ drawn' \in 0..MaxToken /\ uids <= uids' /\ drawn <= drawn'
      BY <1>1, BoundsAssumption DEF IndInv, RowInv, RowTypes
    <3> QED
      BY <1>1, <1>2, <3>1, RowsKept DEF IndInv
  <2>2. AuthInv'
    BY <1>1, <1>4, <2>1, GotoStep DEF IndInv, AuthOps
  <2>3. CoreInv'
    BY <1>1, <2>1, CoreKept DEF IndInv, CoreInv
  <2> QED
    BY <1>1, <2>1, <2>2, <2>3 DEF IndInv, WaitInv
<1> QED
  BY <1>3, <1>4 DEF MailLink

LEMMA MailAfterStep ==
  ASSUME IndInv, NEW a \in AuthWorkers, MailAfter(a)
  PROVE  IndInv'
<1>1. /\ auth[a].op = "mailAfter" /\ Rollback(a)
      /\ UNCHANGED <<users, documents, token, uids, drawn, members, calls, invites, missing>>
  BY DEF MailAfter, rows
<1>2. inbox' \subseteq 1..drawn
  BY <1>1, CallFacts DEF MailAfter, IndInv, RowInv, RowTypes
<1>3. PICK e \in Emails, uid \in 0..MaxUid, from \in CoreWorkers \cup {Nobody} :
          e = auth[a].e /\ uid = auth[a].uid /\ from = auth[a].from
  <2>1. /\ auth[a].e \in Emails /\ auth[a].uid \in 0..MaxUid
        /\ auth[a].from \in CoreWorkers \cup {Nobody}
    BY <1>1, CallFacts DEF IndInv, AuthCalls
  <2> QED
    BY <2>1
<1>4. uid # 0 /\ users'[e].uid = uid
  BY <1>1, <1>3, CallFacts DEF IndInv, AuthInv, SoundCalls, SoundCall
<1>5. Kept
  BY <1>1, BoundsAssumption DEF Kept, Owned, IndInv, RowInv, RowTypes
<1>6. Answer(from, Joining(e, uid)) \/ Answer(from, NoRequest)
  BY <1>3 DEF MailAfter
<1>7. CoreInv'
  BY <1>4, <1>5, <1>6, Answers, AnswerStep
<1> QED
  BY <1>1, <1>2, <1>7, EndStep

LEMMA VerifyEmailStep ==
  ASSUME IndInv, NEW a \in AuthWorkers, NEW t \in inbox, VerifyEmail(a, t)
  PROVE  IndInv'
<1>1. /\ token[t].state = "live" /\ token' = [token EXCEPT ![t].state = "dead"]
      /\ users' = [e \in Emails |-> IF users[e].uid = token[t].uid
                                    THEN [users[e] EXCEPT !.state = "active"] ELSE users[e]]
      /\ UNCHANGED <<documents, uids, drawn, inbox, members, calls, invites, missing, auth, core>>
  BY DEF VerifyEmail
<1>2. t \in 1..MaxToken
  BY BoundsAssumption DEF IndInv, RowInv, RowTypes
<1>3. token[t].uid # 0
  BY <1>1, <1>2 DEF IndInv, RowInv, RowsAreSound
<1>4. \A e \in Emails : users[e] \in UserStates
  BY DEF IndInv, RowInv, RowTypes
<1>5. ASSUME NEW e \in Emails
      PROVE  /\ users'[e] \in UserStates
             /\ users'[e].uid = users[e].uid /\ users'[e].role = users[e].role
             /\ users'[e].uid = 0 <=> users'[e].state = "none"
  <2>1. CASE users[e].uid = token[t].uid
    BY <1>1, <1>3, <1>4, <2>1 DEF UserStates
  <2>2. CASE users[e].uid # token[t].uid
    BY <1>1, <1>4, <2>2 DEF IndInv, RowInv, RowTypes
  <2> QED
    BY <2>1, <2>2
<1>6. users' \in [Emails -> UserStates]
  <2>1. users' = [e \in Emails |-> users'[e]]
    BY <1>1
  <2> QED
    BY <1>5, <2>1
<1>7. /\ token' \in [1..MaxToken -> Tokens]
      /\ \A q \in 1..MaxToken : token'[q].state = "live" => token'[q].uid # 0
  <2> DEFINE x == [token[t] EXCEPT !.state = "dead"]
  <2>1. x \in Tokens /\ x.state = "dead"
    BY <1>2 DEF IndInv, RowInv, RowTypes, Tokens
  <2>2. token' = [token EXCEPT ![t] = x]
    BY <1>1
  <2> HIDE DEF x
  <2> QED
    BY <1>2, <2>1, <2>2 DEF IndInv, RowInv, RowTypes, RowsAreSound
<1>8. RowTypes'
  BY <1>1, <1>5, <1>6, <1>7 DEF IndInv, RowInv, RowTypes
<1>9. RowsAreSound'
  BY <1>1, <1>5, <1>7 DEF IndInv, RowInv, RowsAreSound, RowTypes
<1>10. OwnerHasWorkspace' /\ TeamRowsNameAccounts'
  BY <1>1, <1>5 DEF IndInv, RowInv, RowTypes, Memberships, OwnerHasWorkspace, TeamRowsNameAccounts
<1>11. Kept
  BY <1>1, <1>5, BoundsAssumption DEF Kept, Owned, IndInv, RowInv, RowTypes
<1>12. AuthInv'
  BY <1>1, <1>5, <1>8, <1>11, AuthKept DEF IndInv, AuthInv, CallStays
<1>13. CoreInv'
  BY <1>1, <1>11, CoreKept DEF IndInv, CoreInv
<1> QED
  BY <1>1, <1>8, <1>9, <1>10, <1>12, <1>13 DEF IndInv, RowInv, WaitInv

LEMMA AuthActions ==
  ASSUME IndInv, NEW a \in AuthWorkers, AuthStep(a) \/ AuthCrash(a)
  PROVE  IndInv'
<1>1. inbox \subseteq 1..drawn
  BY DEF IndInv, RowInv, RowTypes
<1>2. CASE CallTimeout(a)
  BY <1>1, <1>2, EndStep DEF CallTimeout, rows
<1>3. CASE AuthCrash(a)
  BY <1>1, <1>3, EndStep DEF AuthCrash, rows
<1> QED
  BY <1>2, <1>3, CallCoreStep, MailLinkStep, CommitRegisterStep, CommitLinkStep, MailAfterStep
     DEF AuthStep
-----------------------------------------------------------------------------
(* core_api *)

\* Only memberships change: administrators keep theirs, and a new row of a team
\* names its account.
LEMMA MembersChange ==
  ASSUME RowInv, UNCHANGED <<users, documents, token, uids, drawn, inbox>>,
         members' \subseteq Memberships, missing' \subseteq missing,
         \A uid \in 1..MaxUid : Owned(uid) => Owned(uid)',
         \A m \in members' : m.kind = "team" => users[m.e].uid = m.uid /\ m.uid # 0
  PROVE  RowInv' /\ Kept
<1>1. RowTypes' /\ RowsAreSound' /\ TeamRowsNameAccounts'
  BY DEF RowInv, RowTypes, RowsAreSound, TeamRowsNameAccounts
<1>2. Kept
  BY BoundsAssumption DEF Kept, RowInv, RowTypes
<1>3. OwnerHasWorkspace'
  <2> SUFFICES ASSUME NEW e \in Emails, users[e].role = "signature_admin"
               PROVE  \E m \in members' : m.kind # "team" /\ m.uid = users[e].uid
    BY DEF OwnerHasWorkspace
  <2>1. PICK uid \in 1..MaxUid : uid = users[e].uid
    BY BoundsAssumption DEF RowInv, RowTypes, UserStates, RowsAreSound
  <2>2. Owned(uid)
    BY <2>1 DEF RowInv, OwnerHasWorkspace, Owned
  <2> QED
    BY <2>1, <2>2 DEF Owned
<1> QED
  BY <1>1, <1>2, <1>3 DEF RowInv

\* provision_owner leaves the account with a workspace and takes none away.
LEMMA ProvisionOwnerFacts ==
  ASSUME RowInv, NEW e \in Emails, NEW uid \in 1..MaxUid, ProvisionOwner(e, uid)
  PROVE  /\ members' \subseteq Memberships
         /\ Owned(uid)'
         /\ \A v \in 1..MaxUid : Owned(v) => Owned(v)'
         /\ \A m \in members' : m.kind = "team" => m \in members
<1>1. members \subseteq Memberships /\ uid \in 0..MaxUid /\ uid # 0
  BY BoundsAssumption DEF RowInv, RowTypes
<1>2. CASE members' = members \cup {[kind |-> "owner", e |-> e, uid |-> uid]}
  <2>1. [kind |-> "owner", e |-> e, uid |-> uid] \in Memberships
    BY <1>1 DEF Memberships
  <2> QED
    BY <1>1, <1>2, <2>1 DEF Owned
<1>3. ASSUME NEW m \in members, m.kind # "team", Identifies(m, e, uid),
             members' = (members \ {m}) \cup {[m EXCEPT !.uid = uid]}
      PROVE  /\ members' \subseteq Memberships
             /\ Owned(uid)'
             /\ \A v \in 1..MaxUid : Owned(v) => Owned(v)'
             /\ \A n \in members' : n.kind = "team" => n \in members
  <2> DEFINE x == [m EXCEPT !.uid = uid]
  <2>1. x \in Memberships /\ x.uid = uid /\ x.kind = m.kind
    BY <1>1 DEF Memberships
  <2>2. members' = (members \ {m}) \cup {x}
    BY <1>3
  <2> HIDE DEF x
  <2>3. m.uid \in {0, uid}
    BY <1>3 DEF Identifies
  <2>4. ASSUME NEW v \in 1..MaxUid, NEW n \in members, n.kind # "team", n.uid = v
        PROVE  \E k \in members' : k.kind # "team" /\ k.uid = v
    <3>1. CASE n = m
      BY <1>3, <2>1, <2>2, <2>3, <2>4, <3>1, BoundsAssumption
    <3>2. CASE n # m
      BY <2>2, <2>4, <3>2
    <3> QED
      BY <3>1, <3>2
  <2> QED
    BY <1>1, <1>3, <2>1, <2>2, <2>4 DEF Owned
<1> QED
  BY <1>2, <1>3 DEF ProvisionOwner

LEMMA ProvisionStep ==
  ASSUME IndInv, NEW c \in CoreWorkers, NEW call \in calls, Provision(c, call)
  PROVE  IndInv'
<1>1. PICK e \in Emails, uid \in 1..MaxUid : e = call.e /\ uid = call.uid
  <2>1. call.e \in Emails /\ call.uid \in 1..MaxUid
    BY DEF IndInv, WaitInv, Provisionings
  <2> QED
    BY <2>1
<1>2. /\ ProvisionOwner(e, uid) /\ calls' \subseteq calls
      /\ UNCHANGED <<users, documents, token, uids, drawn, inbox, invites, missing, core>>
      /\ auth' = [a \in AuthWorkers |-> IF auth[a].op = "provision" /\ auth[a].uid = uid
                                        THEN [auth[a] EXCEPT !.op = "mail"] ELSE auth[a]]
  BY <1>1 DEF Provision, rows
<1>3. RowInv' /\ Kept /\ Owned(uid)'
  BY <1>2, ProvisionOwnerFacts, MembersChange DEF IndInv, RowInv, TeamRowsNameAccounts
<1>4. ASSUME NEW a \in AuthWorkers
      PROVE  /\ auth'[a] \in AuthCalls /\ SoundCall(a)'
             /\ auth'[a].e = auth[a].e /\ auth'[a].uid = auth[a].uid
             /\ auth'[a].uid # 0 => auth[a].e \in Emails
  <2>1. CASE auth[a].op = "provision" /\ auth[a].uid = uid
    <3> DEFINE x == [auth[a] EXCEPT !.op = "mail"]
    <3>1. /\ x \in AuthCalls /\ x.op = "mail" /\ x.e = auth[a].e /\ x.uid = auth[a].uid
          /\ x.t = auth[a].t
      BY DEF IndInv, AuthInv, AuthCalls, AuthOps
    <3>2. auth'[a] = x
      BY <1>2, <2>1
    <3> HIDE DEF x
    <3>3. auth[a].e \in Emails /\ auth[a].uid \in 1..uids /\ auth[a].t \in 1..drawn
      BY <2>1, CallFacts DEF IndInv
    <3> QED
      BY <1>2, <1>3, <2>1, <3>1, <3>2, <3>3 DEF SoundCall, Owned
  <2>2. CASE ~(auth[a].op = "provision" /\ auth[a].uid = uid)
    <3>1. auth'[a] = auth[a]
      BY <1>2, <2>2
    <3> QED
      BY <1>3, <3>1, CallKept, CallFacts DEF IndInv, CallStays, RowInv
  <2> QED
    BY <2>1, <2>2
<1>5. auth' \in [AuthWorkers -> AuthCalls]
  <2>1. auth' = [a \in AuthWorkers |-> auth'[a]]
    BY <1>2
  <2> QED
    BY <1>4, <2>1
<1>6. HeldOnce'
  BY <1>2, <1>4, HeldKept DEF IndInv
<1>7. AuthInv'
  BY <1>4, <1>5, <1>6 DEF AuthInv, SoundCalls
<1>8. CoreInv'
  BY <1>2, <1>3, CoreKept DEF IndInv, CoreInv
<1> QED
  BY <1>2, <1>3, <1>7, <1>8 DEF IndInv, WaitInv

\* A step of core_api or of the operator's tools that leaves the requests of
\* auth_api alone.
LEMMA CoreStepKeeps ==
  ASSUME IndInv, RowInv', Kept, UNCHANGED <<users, calls, auth>>, invites' \subseteq Waiting,
         core' \in [CoreWorkers -> CoreRequests],
         \A c \in CoreWorkers : core'[c] = core[c] \/ core'[c].op # "join"
  PROVE  IndInv'
<1>1. AuthInv'
  BY AuthKept DEF IndInv, AuthInv, CallStays, RowInv
<1>2. CoreInv'
  BY CoreKept DEF IndInv
<1> QED
  BY <1>1, <1>2 DEF IndInv, WaitInv

LEMMA AskForUserStep ==
  ASSUME IndInv, NEW c \in CoreWorkers, NEW e \in Emails, NEW d \in Documents \cup {NoDocument},
         AskForUser(c, e, d)
  PROVE  IndInv'
<1> DEFINE r == [op |-> "invite", e |-> e, uid |-> 0]
           i == [e |-> e, d |-> d, from |-> c]
<1>1. /\ core' = [core EXCEPT ![c] = r] /\ invites' = invites \cup {i}
      /\ UNCHANGED <<users, documents, token, uids, drawn, inbox, members, calls, missing, auth>>
  BY DEF AskForUser, rows
<1>2. r \in CoreRequests /\ r.op = "invite" /\ i \in Waiting
  BY BoundsAssumption DEF CoreRequests, Waiting
<1> HIDE DEF r, i
<1>3. RowInv' /\ Kept
  BY <1>1, AllRowsKept DEF IndInv
<1>4. /\ core' \in [CoreWorkers -> CoreRequests]
      /\ \A b \in CoreWorkers : core'[b] = core[b] \/ core'[b].op # "join"
  BY <1>1, <1>2 DEF IndInv, CoreInv
<1> QED
  BY <1>1, <1>2, <1>3, <1>4, CoreStepKeeps DEF IndInv, WaitInv

LEMMA NoRequestFacts ==
  ASSUME CoreInv, NEW c \in CoreWorkers, core' = [core EXCEPT ![c] = NoRequest]
  PROVE  /\ core' \in [CoreWorkers -> CoreRequests]
         /\ \A b \in CoreWorkers : core'[b] = core[b] \/ core'[b].op # "join"
<1>1. NoRequest \in CoreRequests /\ NoRequest.op = "idle"
  BY BoundsAssumption DEF NoRequest, CoreRequests
<1> QED
  BY <1>1 DEF CoreInv

LEMMA JoinTeamStep ==
  ASSUME IndInv, NEW c \in CoreWorkers, JoinTeam(c)
  PROVE  IndInv'
<1>1. /\ core[c].op = "join" /\ core' = [core EXCEPT ![c] = NoRequest]
      /\ UNCHANGED <<users, documents, token, uids, drawn, inbox, calls, invites, missing, auth>>
  BY DEF JoinTeam, rows
<1> DEFINE m == [kind |-> "team", e |-> core[c].e, uid |-> core[c].uid]
<1>2. members' = members \/ members' = members \cup {m}
  BY DEF JoinTeam
<1>3. /\ core[c].e \in Emails /\ core[c].uid \in 0..MaxUid
      /\ users[core[c].e].uid = core[c].uid /\ core[c].uid # 0
  BY <1>1 DEF IndInv, CoreInv, JoinersAreUsers, CoreRequests
<1>4. m \in Memberships /\ users[m.e].uid = m.uid /\ m.uid # 0
  BY <1>3 DEF Memberships
<1> HIDE DEF m
<1>5. members \subseteq members' /\ members' \subseteq Memberships
  BY <1>2, <1>4 DEF IndInv, RowInv, RowTypes
<1>6. \A uid \in 1..MaxUid : Owned(uid) => Owned(uid)'
  BY <1>5 DEF Owned
<1>7. \A n \in members' : n.kind = "team" => users[n.e].uid = n.uid /\ n.uid # 0
  BY <1>2, <1>4 DEF IndInv, RowInv, TeamRowsNameAccounts
<1>8. RowInv' /\ Kept
  BY <1>1, <1>5, <1>6, <1>7, MembersChange DEF IndInv
<1> QED
  BY <1>1, <1>8, NoRequestFacts, CoreStepKeeps DEF IndInv, WaitInv

LEMMA InviteTimeoutStep ==
  ASSUME IndInv, NEW c \in CoreWorkers, InviteTimeout(c)
  PROVE  IndInv'
<1>1. /\ core' = [core EXCEPT ![c] = NoRequest]
      /\ UNCHANGED <<users, documents, token, uids, drawn, inbox, members, calls, missing>>
      /\ auth' = [a \in AuthWorkers |-> IF auth[a].from = c
                                        THEN [auth[a] EXCEPT !.from = Nobody] ELSE auth[a]]
  BY DEF InviteTimeout, rows
<1>2. RowInv' /\ Kept
  BY <1>1, AllRowsKept DEF IndInv
<1>3. ASSUME NEW a \in AuthWorkers PROVE auth'[a] \in AuthCalls /\ CallStays(a)
  <2>1. CASE auth[a].from = c
    <3> DEFINE x == [auth[a] EXCEPT !.from = Nobody]
    <3>1. /\ x \in AuthCalls /\ x.op = auth[a].op /\ x.e = auth[a].e /\ x.uid = auth[a].uid
          /\ x.t = auth[a].t
      BY DEF IndInv, AuthInv, AuthCalls
    <3>2. auth'[a] = x
      BY <1>1, <2>1
    <3> HIDE DEF x
    <3>3. auth[a].op # "idle"
      <4>1. NoCall.from = Nobody
        BY DEF NoCall
      <4> QED
        BY <2>1, <4>1, NamesAssumption DEF IndInv, AuthInv, SoundCalls, SoundCall
    <3> QED
      BY <3>1, <3>2, <3>3 DEF CallStays
  <2>2. CASE auth[a].from # c
    BY <1>1, <2>2 DEF IndInv, AuthInv, CallStays
  <2> QED
    BY <2>1, <2>2
<1>4. auth' \in [AuthWorkers -> AuthCalls]
  <2>1. auth' = [a \in AuthWorkers |-> auth'[a]]
    BY <1>1
  <2> QED
    BY <1>3, <2>1
<1>5. AuthInv'
  BY <1>1, <1>2, <1>3, <1>4, AuthKept DEF IndInv, RowInv
<1>6. CoreInv'
  BY <1>1, <1>2, NoRequestFacts, CoreKept DEF IndInv
<1>7. invites' \subseteq Waiting
  <2>1. PICK kept \in {invites, {i \in invites : i.from # c}} :
            invites' = {[i EXCEPT !.from = IF @ = c THEN Nobody ELSE @] : i \in kept}
    BY DEF InviteTimeout
  <2>2. kept \subseteq Waiting
    BY DEF IndInv, WaitInv
  <2>3. \A i \in Waiting : [i EXCEPT !.from = IF @ = c THEN Nobody ELSE @] \in Waiting
    BY DEF Waiting
  <2> QED
    BY <2>1, <2>2, <2>3
<1> QED
  BY <1>1, <1>2, <1>5, <1>6, <1>7 DEF IndInv, WaitInv

LEMMA CreateTenantStep ==
  ASSUME IndInv, NEW c \in CoreWorkers, NEW e \in Emails, CreateTenant(c, e)
  PROVE  IndInv'
<1> DEFINE m == [kind |-> "created", e |-> e, uid |-> 0]
<1>1. /\ members' = members \cup {m}
      /\ UNCHANGED <<users, documents, token, uids, drawn, inbox, calls, invites, missing, auth,
                     core>>
  BY DEF CreateTenant, rows
<1>2. m \in Memberships /\ m.kind = "created"
  BY BoundsAssumption DEF Memberships
<1> HIDE DEF m
<1>3. /\ \A uid \in 1..MaxUid : Owned(uid) => Owned(uid)'
      /\ members' \subseteq Memberships
      /\ \A n \in members' : n.kind = "team" => users[n.e].uid = n.uid /\ n.uid # 0
  BY <1>1, <1>2 DEF Owned, IndInv, RowInv, RowTypes, TeamRowsNameAccounts
<1>4. RowInv' /\ Kept
  BY <1>1, <1>3, MembersChange DEF IndInv
<1> QED
  BY <1>1, <1>4, CoreStepKeeps DEF IndInv, CoreInv, WaitInv

LEMMA ListMissingStep ==
  ASSUME IndInv, ListMissing
  PROVE  IndInv'
<1>1. /\ missing' = {e \in Emails : users[e].state # "none" /\ \A m \in members : m.e # e}
      /\ UNCHANGED <<users, documents, token, uids, drawn, inbox, members, calls, invites, auth,
                     core>>
  BY DEF ListMissing, rows
<1>2. RowTypes' /\ RowsAreSound' /\ OwnerHasWorkspace' /\ TeamRowsNameAccounts'
  BY <1>1 DEF IndInv, RowInv, RowTypes, RowsAreSound, OwnerHasWorkspace, TeamRowsNameAccounts
<1>3. Kept
  BY <1>1, BoundsAssumption DEF Kept, Owned, IndInv, RowInv, RowTypes
<1> QED
  BY <1>1, <1>2, <1>3, CoreStepKeeps DEF IndInv, RowInv, CoreInv, WaitInv

LEMMA ProvisionMissingStep ==
  ASSUME IndInv, NEW e \in missing, ProvisionMissing(e)
  PROVE  IndInv'
<1>1. e \in Emails
  BY DEF IndInv, RowInv, RowTypes
<1>2. PICK uid \in 1..MaxUid : uid = users[e].uid
  BY <1>1, BoundsAssumption DEF IndInv, RowInv, RowTypes, UserStates, RowsAreSound
<1>3. /\ ProvisionOwner(e, uid) /\ missing' \subseteq missing
      /\ UNCHANGED <<users, documents, token, uids, drawn, inbox, calls, invites, auth, core>>
  BY <1>2 DEF ProvisionMissing, rows
<1>4. RowInv' /\ Kept
  BY <1>1, <1>3, ProvisionOwnerFacts, MembersChange DEF IndInv, RowInv, TeamRowsNameAccounts
<1> QED
  BY <1>3, <1>4, CoreStepKeeps DEF IndInv, CoreInv, WaitInv

\* The tool fills in ids and changes none.
LEMMA ReconcileStep ==
  ASSUME IndInv, ReconcileMembershipUuids
  PROVE  IndInv'
<1> DEFINE f(m) == [m EXCEPT !.uid = IF users[m.e].uid # 0 THEN users[m.e].uid ELSE @]
<1>1. /\ \A m \in members : users[m.e].uid # 0 /\ m.uid # 0 => m.uid = users[m.e].uid
      /\ members' = {f(m) : m \in members}
      /\ UNCHANGED <<users, documents, token, uids, drawn, inbox, calls, invites, missing, auth,
                     core>>
  BY DEF ReconcileMembershipUuids, rows
<1>2. ASSUME NEW m \in members
      PROVE  /\ f(m) \in Memberships /\ f(m).kind = m.kind /\ f(m).e = m.e
             /\ m.uid # 0 => f(m).uid = m.uid
  <2>1. m \in Memberships /\ users[m.e].uid \in 0..MaxUid
    BY DEF IndInv, RowInv, RowTypes, Memberships, UserStates
  <2>2. CASE users[m.e].uid # 0
    BY <1>1, <2>1, <2>2 DEF Memberships
  <2>3. CASE users[m.e].uid = 0
    BY <2>1, <2>3 DEF Memberships
  <2> QED
    BY <2>2, <2>3
<1> HIDE DEF f
<1>3. members' \subseteq Memberships
  BY <1>1, <1>2
<1>4. \A uid \in 1..MaxUid : Owned(uid) => Owned(uid)'
  <2>1. ASSUME NEW uid \in 1..MaxUid, NEW m \in members, m.kind # "team", m.uid = uid
        PROVE  \E n \in members' : n.kind # "team" /\ n.uid = uid
    BY <1>1, <1>2, <2>1, BoundsAssumption
  <2> QED
    BY <2>1 DEF Owned
<1>5. ASSUME NEW n \in members', n.kind = "team" PROVE users[n.e].uid = n.uid /\ n.uid # 0
  <2>1. PICK m \in members : n = f(m)
    BY <1>1
  <2> QED
    BY <1>2, <1>5, <2>1 DEF IndInv, RowInv, TeamRowsNameAccounts
<1>6. RowInv' /\ Kept
  BY <1>1, <1>3, <1>4, <1>5, MembersChange DEF IndInv
<1> QED
  BY <1>1, <1>6, CoreStepKeeps DEF IndInv, CoreInv, WaitInv

-----------------------------------------------------------------------------
LEMMA StepInvariant == IndInv /\ [Next]_vars => IndInv'
<1> SUFFICES ASSUME IndInv, [Next]_vars PROVE IndInv'
  OBVIOUS
<1>1. CASE UNCHANGED vars
  <2>1. UNCHANGED <<users, documents, token, uids, drawn, inbox, members, calls, invites, missing,
                    auth, core>>
    BY <1>1 DEF vars
  <2>2. RowInv' /\ Kept
    BY <2>1, AllRowsKept DEF IndInv
  <2> QED
    BY <2>1, <2>2, CoreStepKeeps DEF IndInv, CoreInv, WaitInv
<1>2. ASSUME NEW a \in AuthWorkers,
             \/ AuthStep(a) \/ AuthCrash(a)
             \/ \E e \in Emails : \/ RequestVerification(a, e)
                                  \/ \E d \in Documents \cup {NoDocument} : Register(a, e, d)
             \/ \E i \in invites : AuthInvite(a, i) \/ AuthResolve(a, i)
             \/ \E t \in inbox : VerifyEmail(a, t)
      PROVE  IndInv'
  BY <1>2, AuthActions, RequestVerificationStep, RegisterStep, AuthInviteStep, AuthResolveStep,
     VerifyEmailStep
<1>3. ASSUME NEW c \in CoreWorkers,
             \/ CoreStep(c)
             \/ \E call \in calls : Provision(c, call)
             \/ \E e \in Emails : \/ CreateTenant(c, e)
                                  \/ \E d \in Documents \cup {NoDocument} : AskForUser(c, e, d)
      PROVE  IndInv'
  BY <1>3, JoinTeamStep, InviteTimeoutStep, ProvisionStep, CreateTenantStep, AskForUserStep
     DEF CoreStep
<1> QED
  BY <1>1, <1>2, <1>3, ListMissingStep, ProvisionMissingStep, ReconcileStep DEF Next

\* The inductive invariant holds in every reachable state of the two services.
THEOREM Invariant == Spec => []IndInv
  BY InitInvariant, StepInvariant, PTL DEF Spec

\* For any number of workers, e-mails and waiting requests: every account that
\* registered administers a workspace under its own id, and every row of a team
\* names the account that has its e-mail, whatever call between the services timed
\* out, was served late, crashed or ran twice.
THEOREM ServicesStayInAgreement == Spec => []ServicesAgree
<1>1. IndInv => ServicesAgree
  BY TypesAgree DEF IndInv, RowInv, ServicesAgree
<1> QED
  BY <1>1, Invariant, PTL

=============================================================================
