----------------------- MODULE SignatureWorkflowProofs -----------------------
(***************************************************************************)
(* Proofs about SignatureWorkflow, for every number of workers, documents, *)
(* requests and users and every bound.                                     *)
(***************************************************************************)
EXTENDS SignatureWorkflow, FiniteSetTheorems, TLAPS

\* The signature rows of a request are those of its signed signers.
RowsOfSigned ==
  \A r \in Requests : {s.signer : s \in {t \in signatures : t.request = r}} = Signed(r)

\* The inductive invariant: the types, the discipline of the locks, what the
\* locks protect, and the properties of the rows.
IndInv ==
  /\ TypeOK
  /\ CallsAreWellFormed
  /\ LocksAreExclusive
  /\ RowsAreLinked
  /\ ChecksStillHold
  /\ CompletionIsExact
  /\ RowsOfSigned

-----------------------------------------------------------------------------
(***************************************************************************)
(* Facts used by many actions                                              *)
(***************************************************************************)

\* No call in flight is a call.
LEMMA IdleIsCall == Idle \in Call
  BY BoundsAssumption DEF Idle, Call, Ops

\* The calls the handlers begin with are well typed.
LEMMA NewCallsAreCalls ==
  /\ \A d \in Documents, u \in Users, k \in 1..MaxKey :
       /\ \A c \in BOOLEAN : [Idle EXCEPT !.op = "create_document", !.doc = d, !.user = u,
                                          !.key = k, !.charged = c] \in Call
       /\ [Idle EXCEPT !.op = "add_version", !.doc = d, !.user = u, !.key = k] \in Call
  /\ \A d \in Documents, u \in Users :
       [Idle EXCEPT !.op = "delete_document", !.doc = d, !.user = u] \in Call
  /\ \A r \in Requests, d \in Documents, u \in Users, v \in 0..MaxVersion :
       [Idle EXCEPT !.op = "create_request", !.req = r, !.doc = d,
                    !.user = u, !.version = v] \in Call
  /\ \A r \in Requests, u \in Users, m \in AllModes :
       [Idle EXCEPT !.op = "open_request", !.req = r, !.user = u, !.mode = m] \in Call
  /\ \A r \in Requests, S \in SUBSET Users, l \in 0..MaxLink :
       [Idle EXCEPT !.op = "invite", !.req = r, !.to = S, !.link = l] \in Call
  /\ \A r \in Requests, u \in Users :
       [Idle EXCEPT !.op = "sign", !.req = r, !.user = u] \in Call
<1>1. \A k \in 1..MaxKey : k \in 0..MaxKey
  BY BoundsAssumption
<1>2. ASSUME NEW d \in Documents, NEW u \in Users, NEW k \in 1..MaxKey
      PROVE  /\ \A c \in BOOLEAN : [Idle EXCEPT !.op = "create_document", !.doc = d, !.user = u,
                                                !.key = k, !.charged = c] \in Call
             /\ [Idle EXCEPT !.op = "add_version", !.doc = d, !.user = u, !.key = k] \in Call
  BY <1>1, IdleIsCall DEF Call, Ops
<1>3. ASSUME NEW d \in Documents, NEW u \in Users
      PROVE  [Idle EXCEPT !.op = "delete_document", !.doc = d, !.user = u] \in Call
  BY IdleIsCall DEF Call, Ops
<1>4. ASSUME NEW r \in Requests, NEW d \in Documents, NEW u \in Users, NEW v \in 0..MaxVersion
      PROVE  [Idle EXCEPT !.op = "create_request", !.req = r, !.doc = d,
                          !.user = u, !.version = v] \in Call
  BY IdleIsCall DEF Call, Ops
<1>5. ASSUME NEW r \in Requests, NEW u \in Users, NEW m \in AllModes
      PROVE  [Idle EXCEPT !.op = "open_request", !.req = r, !.user = u, !.mode = m] \in Call
  BY IdleIsCall DEF Call, Ops
<1>6. ASSUME NEW r \in Requests, NEW S \in SUBSET Users, NEW l \in 0..MaxLink
      PROVE  [Idle EXCEPT !.op = "invite", !.req = r, !.to = S, !.link = l] \in Call
  BY IdleIsCall DEF Call, Ops
<1>7. ASSUME NEW r \in Requests, NEW u \in Users
      PROVE  [Idle EXCEPT !.op = "sign", !.req = r, !.user = u] \in Call
  BY IdleIsCall DEF Call, Ops
<1> QED
  BY <1>2, <1>3, <1>4, <1>5, <1>6, <1>7, Zenon

\* When no row changes, what is said of rows alone goes on holding.
LEMMA RowsKept ==
  ASSUME IndInv, UNCHANGED rowVars
  PROVE  RowsAreLinked' /\ CompletionIsExact' /\ RowsOfSigned'
  BY DEF IndInv, rowVars, RowsAreLinked, CompletionIsExact, RowsOfSigned,
         HasVersion, Signers, Unsigned, Signed

\* When a call ends its locks go, and nobody else's change.
LEMMA CallEnded ==
  ASSUME IndInv, NEW w \in Workers, Finish(w)
  PROVE  /\ tx' \in [Workers -> Call]
         /\ CallsAreWellFormed'
         /\ LocksAreExclusive'
         /\ tx'[w].op = "idle"
         /\ \A v \in Workers \ {w} : tx'[v] = tx[v]
<1>1. /\ tx' \in [Workers -> Call]
      /\ tx'[w] = Idle
      /\ \A v \in Workers \ {w} : tx'[v] = tx[v]
  BY IdleIsCall DEF IndInv, TypeOK, Finish
<1>2. Idle.op = "idle"
  BY DEF Idle
<1>3. CallsAreWellFormed'
  BY <1>1, <1>2 DEF IndInv, CallsAreWellFormed, DocumentCalls, RequestCalls
<1>4. LocksAreExclusive'
  BY <1>1, <1>2 DEF IndInv, LocksAreExclusive, DocumentCalls, RequestCalls, AccountCalls
<1> QED
  BY <1>1, <1>2, <1>3, <1>4

\* A call in flight goes on, and the rows it locked or read have not moved.
Undisturbed(v) ==
  /\ tx'[v] = tx[v]
  /\ tx[v].op \in DocumentCalls \cup {"create_document"} =>
       document'[tx[v].doc] = document[tx[v].doc]
  /\ tx[v].op = "create_request" => /\ request'[tx[v].req].status = request[tx[v].req].status
                                    /\ \A e, n : HasVersion(e, n) => HasVersion(e, n)'
  /\ tx[v].op \in RequestCalls =>
       /\ request'[tx[v].req].status = request[tx[v].req].status
       /\ document'[request'[tx[v].req].doc].status = document[request[tx[v].req].doc].status
       /\ signer'[tx[v].req] = signer[tx[v].req]

\* A call that is undisturbed keeps its checks.
LEMMA UndisturbedChecks ==
  ASSUME NEW v \in Workers, CheckHolds(v), Undisturbed(v)
  PROVE  CheckHolds(v)'
<1>1. tx[v].op \in RequestCalls => /\ Signers(tx[v].req)' = Signers(tx[v].req)
                                   /\ Signed(tx[v].req)' = Signed(tx[v].req)
  BY DEF Undisturbed, Signers, Signed
<1> QED
  BY <1>1 DEF CheckHolds, Undisturbed, RequestCalls, DocumentCalls

\* A worker with nothing in flight, or with only mails to send, checked nothing.
LEMMA NoChecks ==
  ASSUME NEW v \in Workers, tx'[v].op \in {"idle", "invite"}
  PROVE  CheckHolds(v)'
  BY DEF CheckHolds, RequestCalls, DocumentCalls

\* When no row changes no call is disturbed.
LEMMA QuietChecks ==
  ASSUME IndInv, UNCHANGED rowVars, NEW v \in Workers, tx'[v] = tx[v]
  PROVE  CheckHolds(v)'
<1>1. Undisturbed(v)
  BY DEF Undisturbed, rowVars, HasVersion
<1> QED
  BY <1>1, UndisturbedChecks DEF IndInv, ChecksStillHold

\* The rows a call in flight names are rows.
LEMMA HeldRows ==
  ASSUME IndInv, NEW v \in Workers
  PROVE  /\ tx[v].op \in DocumentCalls \cup {"create_document"} => tx[v].doc \in Documents
         /\ tx[v].op \in RequestCalls \cup {"create_request"} => tx[v].req \in Requests
         /\ tx[v].op \in RequestCalls => /\ request[tx[v].req].doc \in Documents
                                         /\ document[request[tx[v].req].doc].status = "ready"
                                         /\ request[tx[v].req].status \in {"draft", "open"}
         /\ tx[v].op = "create_request" => request[tx[v].req].status = "absent"
         /\ tx[v].op = "create_document" => document[tx[v].doc].status = "absent"
         /\ tx[v].op \in DocumentCalls => document[tx[v].doc].status = "ready"
<1>1. CheckHolds(v)
  BY DEF IndInv, ChecksStillHold
<1>2. tx[v].op \in RequestCalls => request[tx[v].req].status \in {"draft", "open"}
  BY <1>1 DEF CheckHolds, RequestCalls
<1>3. tx[v].op \in RequestCalls \cup {"create_request"} => tx[v].req \in Requests
  BY DEF IndInv, CallsAreWellFormed
<1>4. tx[v].op \in RequestCalls => request[tx[v].req].doc \in Documents
  BY <1>2, <1>3 DEF IndInv, RowsAreLinked
<1>5. tx[v].op \in DocumentCalls \cup {"create_document"} => tx[v].doc \in Documents
  BY DEF IndInv, CallsAreWellFormed
<1> QED
  BY <1>1, <1>2, <1>3, <1>4, <1>5 DEF CheckHolds

\* A call that ends without changing a row leaves the other calls' checks true.
LEMMA CallEndedQuietly ==
  ASSUME IndInv, NEW w \in Workers, Finish(w), UNCHANGED rowVars
  PROVE  ChecksStillHold'
  BY CallEnded, QuietChecks, NoChecks DEF ChecksStillHold

\* A step outside every call leaves calls and locks alone.
LEMMA CallsKept ==
  ASSUME IndInv, UNCHANGED tx
  PROVE  CallsAreWellFormed' /\ LocksAreExclusive'
  BY DEF IndInv, CallsAreWellFormed, LocksAreExclusive

-----------------------------------------------------------------------------
(***************************************************************************)
(* Every action preserves the invariant: calls that begin                  *)
(***************************************************************************)

LEMMA CreateDocumentStep ==
  ASSUME IndInv, NEW w \in Workers, NEW d \in Documents, NEW u \in Users,
         CreateDocument(w, d, u)
  PROVE  IndInv'
<1> USE DEF IndInv, CreateDocument, Begin, Put, rowVars, tenantVars
<1>1. lastKey + 1 \in 1..MaxKey
  BY BoundsAssumption DEF TypeOK
<1>2. tx' \in [Workers -> Call]
  <2>1. PaidAccess \in BOOLEAN
    BY DEF PaidAccess
  <2>2. [Idle EXCEPT !.op = "create_document", !.doc = d, !.user = u, !.key = lastKey + 1,
                     !.charged = PaidAccess] \in Call
    BY <1>1, <2>1, NewCallsAreCalls, Zenon
  <2> QED
    BY <2>2 DEF TypeOK
<1>3. TypeOK'
  BY <1>1, <1>2 DEF TypeOK, Keys
<1>4. CallsAreWellFormed' /\ LocksAreExclusive'
  BY <1>1, <1>2 DEF TypeOK, CallsAreWellFormed, LocksAreExclusive, Call, Keys,
     DocumentCalls, RequestCalls, AccountCalls, AccountLocked
<1>5. ChecksStillHold'
  <2>1. CheckHolds(w)'
    BY <1>2 DEF TypeOK, CheckHolds, HasVersion, Signers, Signed, Call, RequestCalls, DocumentCalls
  <2>2. \A v \in Workers \ {w} : tx'[v] = tx[v]
    BY DEF TypeOK
  <2> QED
    BY <2>1, <2>2, QuietChecks DEF ChecksStillHold
<1> QED
  BY <1>3, <1>4, <1>5, RowsKept

LEMMA AddVersionStep ==
  ASSUME IndInv, NEW w \in Workers, NEW d \in Documents, NEW u \in Users,
         AddVersion(w, d, u)
  PROVE  IndInv'
<1> USE DEF IndInv, AddVersion, Begin, Put, rowVars, tenantVars
<1>1. lastKey + 1 \in 1..MaxKey
  BY BoundsAssumption DEF TypeOK
<1>2. tx' \in [Workers -> Call]
  BY <1>1, NewCallsAreCalls DEF TypeOK
<1>3. TypeOK'
  BY <1>1, <1>2 DEF TypeOK, Keys
<1>4. CallsAreWellFormed' /\ LocksAreExclusive'
  BY <1>1, <1>2 DEF TypeOK, CallsAreWellFormed, LocksAreExclusive, Call, Keys,
     DocumentCalls, RequestCalls, AccountCalls, DocumentLocked
<1>5. ChecksStillHold'
  <2>1. CheckHolds(w)'
    BY <1>2 DEF TypeOK, CheckHolds, HasVersion, Signers, Signed, Call, RequestCalls, DocumentCalls
  <2>2. \A v \in Workers \ {w} : tx'[v] = tx[v]
    BY DEF TypeOK
  <2> QED
    BY <2>1, <2>2, QuietChecks DEF ChecksStillHold
<1> QED
  BY <1>3, <1>4, <1>5, RowsKept

LEMMA DeleteDocumentStep ==
  ASSUME IndInv, NEW w \in Workers, NEW d \in Documents, NEW u \in Users,
         DeleteDocument(w, d, u)
  PROVE  IndInv'
<1> USE DEF IndInv, DeleteDocument, Begin, rowVars, tenantVars, storeVars
<1>1. tx' \in [Workers -> Call]
  BY NewCallsAreCalls DEF TypeOK
<1>2. TypeOK'
  BY <1>1 DEF TypeOK
<1>3. CallsAreWellFormed' /\ LocksAreExclusive'
  BY <1>1 DEF TypeOK, CallsAreWellFormed, LocksAreExclusive, Call,
     DocumentCalls, RequestCalls, AccountCalls, DocumentLocked
<1>4. ChecksStillHold'
  <2>1. CheckHolds(w)'
    BY <1>1 DEF TypeOK, CheckHolds, HasVersion, Signers, Signed, Call, RequestCalls, DocumentCalls
  <2>2. \A v \in Workers \ {w} : tx'[v] = tx[v]
    BY DEF TypeOK
  <2> QED
    BY <2>1, <2>2, QuietChecks DEF ChecksStillHold
<1> QED
  BY <1>2, <1>3, <1>4, RowsKept

LEMMA CreateRequestStep ==
  ASSUME IndInv, NEW w \in Workers, NEW r \in Requests, NEW d \in Documents,
         NEW u \in Users, CreateRequest(w, r, d, u)
  PROVE  IndInv'
<1> USE DEF IndInv, CreateRequest, Begin, rowVars, tenantVars, storeVars
<1>1. document[d].version \in 0..MaxVersion
  BY DEF TypeOK, DocumentRow
<1>2. tx' \in [Workers -> Call]
  BY <1>1, NewCallsAreCalls DEF TypeOK
<1>3. TypeOK'
  BY <1>2 DEF TypeOK
<1>4. CallsAreWellFormed' /\ LocksAreExclusive'
  BY <1>2 DEF TypeOK, CallsAreWellFormed, LocksAreExclusive, Call,
     DocumentCalls, RequestCalls, AccountCalls
<1>5. ChecksStillHold'
  <2>1. CheckHolds(w)'
    BY <1>2 DEF TypeOK, CheckHolds, RowsAreLinked, HasVersion, Signers, Signed, Call, RequestCalls, DocumentCalls
  <2>2. \A v \in Workers \ {w} : tx'[v] = tx[v]
    BY DEF TypeOK
  <2> QED
    BY <2>1, <2>2, QuietChecks DEF ChecksStillHold
<1> QED
  BY <1>3, <1>4, <1>5, RowsKept

LEMMA OpenRequestStep ==
  ASSUME IndInv, NEW w \in Workers, NEW r \in Requests, NEW a \in Users,
         NEW mode \in Modes, OpenRequest(w, r, a, mode)
  PROVE  IndInv'
<1> USE DEF IndInv, OpenRequest, Begin, rowVars, tenantVars, storeVars
<1>1. mode \in AllModes
  BY SettingsAssumption
<1>2. tx' \in [Workers -> Call]
  BY <1>1, NewCallsAreCalls DEF TypeOK
<1>3. TypeOK'
  BY <1>2 DEF TypeOK
<1>4. CallsAreWellFormed' /\ LocksAreExclusive'
  BY <1>1, <1>2 DEF TypeOK, CallsAreWellFormed, LocksAreExclusive, Call,
     DocumentCalls, RequestCalls, AccountCalls, RequestLocked
<1>5. ChecksStillHold'
  <2>1. CheckHolds(w)'
    BY <1>2 DEF TypeOK, CheckHolds, HasVersion, Signers, Signed, Call, RequestCalls, DocumentCalls
  <2>2. \A v \in Workers \ {w} : tx'[v] = tx[v]
    BY DEF TypeOK
  <2> QED
    BY <2>1, <2>2, QuietChecks DEF ChecksStillHold
<1> QED
  BY <1>3, <1>4, <1>5, RowsKept

LEMMA SignStep ==
  ASSUME IndInv, NEW w \in Workers, NEW r \in Requests, NEW u \in Users,
         Sign(w, r, u)
  PROVE  IndInv'
<1> USE DEF IndInv, Sign, Resolvable, Begin, rowVars, tenantVars, storeVars
<1>1. tx' \in [Workers -> Call]
  BY NewCallsAreCalls DEF TypeOK
<1>2. TypeOK'
  BY <1>1 DEF TypeOK
<1>3. CallsAreWellFormed' /\ LocksAreExclusive'
  BY <1>1 DEF TypeOK, CallsAreWellFormed, LocksAreExclusive, Call,
     DocumentCalls, RequestCalls, AccountCalls, RequestLocked
<1>4. ChecksStillHold'
  <2>1. CheckHolds(w)'
    BY <1>1 DEF TypeOK, CheckHolds, HasVersion, Signers, Signed, Call, RequestCalls, DocumentCalls
  <2>2. \A v \in Workers \ {w} : tx'[v] = tx[v]
    BY DEF TypeOK
  <2> QED
    BY <2>1, <2>2, QuietChecks DEF ChecksStillHold
<1> QED
  BY <1>2, <1>3, <1>4, RowsKept

-----------------------------------------------------------------------------
(***************************************************************************)
(* Every action preserves the invariant: calls that end and change no row  *)
(***************************************************************************)

\* DeleteDocumentRefuse and SignRefuse: a 4xx answer only ends its call.
LEMMA RefuseStep ==
  ASSUME IndInv, NEW w \in Workers, DeleteDocumentRefuse(w) \/ SignRefuse(w)
  PROVE  IndInv'
<1>1. Finish(w) /\ UNCHANGED <<rowVars, tenantVars, storeVars, mailed>>
  BY DEF DeleteDocumentRefuse, SignRefuse
<1>2. TypeOK'
  BY <1>1, CallEnded DEF IndInv, TypeOK, rowVars, tenantVars, storeVars
<1> QED
  BY <1>1, <1>2, CallEnded, CallEndedQuietly, RowsKept DEF IndInv

\* SendInvitations mails invitations of the right type and ends its call.
LEMMA SendInvitationsStep ==
  ASSUME IndInv, NEW w \in Workers, NEW delivered \in SUBSET Users,
         SendInvitations(w, delivered)
  PROVE  IndInv'
<1> USE DEF SendInvitations
<1>1. tx[w].req \in Requests /\ tx[w].link \in 0..MaxLink
  BY DEF IndInv, TypeOK, CallsAreWellFormed, Call
<1>2. mailed' \subseteq Invitation
  BY <1>1 DEF IndInv, TypeOK, Invitation
<1>3. TypeOK'
  BY <1>2, CallEnded DEF IndInv, TypeOK, rowVars, tenantVars, storeVars
<1> QED
  BY <1>3, CallEnded, CallEndedQuietly, RowsKept DEF IndInv

\* Fail and Crash roll everything back: only the object store remembers them.
LEMMA RollbackStep ==
  ASSUME IndInv, NEW w \in Workers, NEW refused \in BOOLEAN,
         Fail(w, refused) \/ Crash(w)
  PROVE  IndInv'
<1>1. Finish(w) /\ UNCHANGED <<rowVars, tenantVars, lastKey, mailed>>
  BY DEF Fail, Crash
<1>2. tx[w].key # 0 => tx[w].key \in Keys
  BY BoundsAssumption DEF IndInv, TypeOK, Call, Keys
<1>3. objects' \subseteq Keys /\ abandoned' \subseteq Keys
  BY <1>2 DEF IndInv, TypeOK, Fail, Crash, ObjectsAfterFailure
<1>4. TypeOK'
  BY <1>1, <1>3, CallEnded DEF IndInv, TypeOK, rowVars, tenantVars
<1> QED
  BY <1>1, <1>4, CallEnded, CallEndedQuietly, RowsKept DEF IndInv

-----------------------------------------------------------------------------
(***************************************************************************)
(* Every action preserves the invariant: steps outside every call          *)
(***************************************************************************)

\* ChangePlan, GraceLapses and ChangeMembership touch no row of the workflow.
LEMMA TenantStep ==
  ASSUME IndInv,
         \/ \E plan \in Plans : ChangePlan(plan)
         \/ GraceLapses
         \/ \E u \in Volatile : ChangeMembership(u)
  PROVE  IndInv'
<1>1. UNCHANGED <<rowVars, storeVars, mailed, tx>>
  BY DEF ChangePlan, GraceLapses, ChangeMembership
<1>2. account' \in AccountRow
  <2>1. ASSUME NEW plan \in Plans, ChangePlan(plan)
        PROVE  account' \in AccountRow
    <3>1. plan \in AllPlans
      BY SettingsAssumption
    <3>2. account \in [plan: AllPlans, used: Nat, files: Nat]
      BY DEF IndInv, TypeOK, AccountRow
    <3>3. [account EXCEPT !.plan = plan] \in AccountRow
      BY <3>1, <3>2 DEF AccountRow
    <3>4. [account EXCEPT !.plan = plan, !.files = 0] \in AccountRow
      BY <3>1, <3>2 DEF AccountRow
    <3> QED
      BY <2>1, <3>3, <3>4 DEF ChangePlan
  <2>2. ASSUME NEW u \in Volatile, ChangeMembership(u)
        PROVE  account' \in AccountRow
    BY <2>2 DEF IndInv, TypeOK, ChangeMembership
  <2>3. CASE GraceLapses
    BY <2>3 DEF IndInv, TypeOK, AccountRow, AllPlans, GraceLapses
  <2> QED
    BY <2>1, <2>2, <2>3
<1>3. members' \subseteq Users
  BY UsersAssumption DEF IndInv, TypeOK, ChangePlan, GraceLapses, ChangeMembership
<1>4. TypeOK'
  BY <1>1, <1>2, <1>3 DEF IndInv, TypeOK, rowVars, storeVars
<1>5. ChecksStillHold'
  BY <1>1, QuietChecks DEF ChecksStillHold
<1> QED
  BY <1>1, <1>4, <1>5, CallsKept, RowsKept DEF IndInv

\* AddSigner, View, Decline and RevokeSignerLink change one signer row of an
\* unlocked request.
LEMMA SignerRowStep ==
  ASSUME IndInv, NEW r \in Requests, NEW a \in Users, NEW u \in Users,
         NEW representative \in BOOLEAN,
         \/ AddSigner(r, a, u, representative)
         \/ RevokeSignerLink(r, a, u)
         \/ View(r, u)
         \/ Decline(r, u)
  PROVE  IndInv'
<1> USE DEF IndInv
<1>1. /\ UNCHANGED <<document, versions, request, signatures, tenantVars, storeVars, mailed, tx>>
      /\ ~RequestLocked(r)
      /\ request[r].status # "absent"
  BY DEF AddSigner, RevokeSignerLink, View, Decline, Resolvable, docVars,
         TypeOK, RowsAreLinked, Signers
<1>2. /\ signer' \in [Requests -> [Users -> SignerRow]]
      /\ \A q \in Requests, v \in Users : <<q, v>> # <<r, u>> => signer'[q][v] = signer[q][v]
      /\ signer'[r][u].status # "absent"
      /\ signer'[r][u].status = "signed" <=> signer[r][u].status = "signed"
      /\ signer[r][u].status = "absent" => request[r].status = "draft"
  <2>1. CASE AddSigner(r, a, u, representative)
    BY <2>1 DEF AddSigner, SignerRow, TypeOK
  <2>2. CASE RevokeSignerLink(r, a, u)
    <3>1. signer \in [Requests -> [Users -> SignerRow]] /\ signer[r][u] \in SignerRow
      BY DEF TypeOK
    <3>2. signer' = [signer EXCEPT ![r][u].revoked = TRUE]
      BY <2>2 DEF RevokeSignerLink
    <3>3. signer[r][u].status \notin {"absent", "signed"}
      BY <2>2 DEF RevokeSignerLink
    <3> QED
      BY <3>1, <3>2, <3>3 DEF SignerRow
  <2>3. CASE View(r, u)
    <3>1. signer \in [Requests -> [Users -> SignerRow]] /\ signer[r][u] \in SignerRow
      BY DEF TypeOK
    <3>2. signer' = [signer EXCEPT ![r][u].status = "viewed"]
      BY <2>3 DEF View
    <3>3. signer[r][u].status \notin {"absent", "signed"}
      BY <2>3 DEF View, Resolvable
    <3> QED
      BY <3>1, <3>2, <3>3 DEF SignerRow
  <2>4. CASE Decline(r, u)
    <3>1. signer \in [Requests -> [Users -> SignerRow]] /\ signer[r][u] \in SignerRow
      BY DEF TypeOK
    <3>2. signer' = [signer EXCEPT ![r][u].status = "declined"]
      BY <2>4 DEF Decline
    <3>3. signer[r][u].status \notin {"absent", "signed"}
      BY <2>4 DEF Decline, Resolvable
    <3> QED
      BY <3>1, <3>2, <3>3 DEF SignerRow
  <2> QED
    BY <2>1, <2>2, <2>3, <2>4
<1>3. audit' \subseteq AuditRow
  BY DEF TypeOK, AuditRow, Log, Event, AddSigner, RevokeSignerLink, View, Decline
<1>4. TypeOK'
  BY <1>1, <1>2, <1>3 DEF TypeOK, tenantVars, storeVars
<1>5. /\ \A q \in Requests : Signed(q)' = Signed(q)
      /\ \A q \in Requests : Signers(q) \subseteq Signers(q)'
      /\ \A q \in Requests \ {r} : Signers(q)' = Signers(q)
      /\ request[r].status # "draft" => Signers(r)' = Signers(r)
  BY <1>2 DEF TypeOK, Signed, Signers
<1>6. \A q \in Requests : Unsigned(q) = Signers(q) \ Signed(q) /\ Unsigned(q)' = Signers(q)' \ Signed(q)'
  BY DEF Unsigned, Signers, Signed
<1>7. RowsAreLinked'
  BY <1>1, <1>5 DEF RowsAreLinked, HasVersion
<1>8. CompletionIsExact'
  BY <1>1, <1>5, <1>6 DEF CompletionIsExact
<1>9. RowsOfSigned'
  BY <1>1, <1>5 DEF RowsOfSigned
<1>10. \A w \in Workers : tx[w].op \in RequestCalls => tx[w].req # r
  BY <1>1 DEF RequestLocked
<1>11. ASSUME NEW v \in Workers PROVE Undisturbed(v)
  <2>1. \A q \in Requests \ {r} : signer'[q] = signer[q]
    BY <1>2 DEF TypeOK
  <2> QED
    BY <1>1, <1>10, <2>1, HeldRows DEF Undisturbed, HasVersion
<1>12. ChecksStillHold'
  BY <1>11, UndisturbedChecks DEF ChecksStillHold
<1> QED
  BY <1>1, <1>4, <1>7, <1>8, <1>9, <1>12, CallsKept

\* Expire, CancelRequest and CreateSigningLink (its rows) change one unlocked
\* request without opening or completing it.
LEMMA RequestRowStep ==
  ASSUME IndInv, NEW r \in Requests, NEW row \in RequestRow,
         request' = [request EXCEPT ![r] = row],
         row.doc = request[r].doc, row.version = request[r].version,
         row.status = request[r].status \/ row.status = "cancelled",
         request[r].status # "absent",
         UNCHANGED <<document, versions, signer, signatures>>
  PROVE  RowsAreLinked' /\ CompletionIsExact' /\ RowsOfSigned'
<1>1. \A q \in Requests : request'[q] = IF q = r THEN row ELSE request[q]
  BY DEF IndInv, TypeOK
<1> QED
  BY <1>1 DEF IndInv, RowsAreLinked, CompletionIsExact, RowsOfSigned,
         HasVersion, Signers, Unsigned, Signed

\* CancelRequest closes a request that no call in flight holds.
LEMMA CancelRequestStep ==
  ASSUME IndInv, NEW r \in Requests, NEW a \in Users, CancelRequest(r, a)
  PROVE  IndInv'
<1> DEFINE row == [request[r] EXCEPT !.status = "cancelled"]
<1> USE DEF IndInv, CancelRequest
<1>1. row \in RequestRow /\ request' = [request EXCEPT ![r] = row]
  BY DEF TypeOK, RequestRow
<1>2. /\ row.doc = request[r].doc /\ row.version = request[r].version
      /\ row.status = "cancelled"
  BY DEF TypeOK, RequestRow
<1> HIDE DEF row
<1>3. audit' \subseteq AuditRow
  BY DEF TypeOK, AuditRow, Log, Event
<1>4. TypeOK'
  BY <1>1, <1>3 DEF TypeOK, docVars, tenantVars, storeVars
<1>5. RowsAreLinked' /\ CompletionIsExact' /\ RowsOfSigned'
  BY <1>1, <1>2, RequestRowStep DEF docVars
<1>6. ChecksStillHold'
  <2>1. \A q \in Requests \ {r} : request'[q] = request[q]
    BY <1>1 DEF TypeOK
  <2>2. ASSUME NEW v \in Workers PROVE Undisturbed(v)
    BY <2>1, HeldRows DEF Undisturbed, HasVersion, docVars, RequestLocked
  <2> QED
    BY <2>2, UndisturbedChecks DEF ChecksStillHold
<1> QED
  BY <1>4, <1>5, <1>6, CallsKept

\* Expire only marks a request.
LEMMA ExpireStep ==
  ASSUME IndInv, NEW r \in Requests, Expire(r)
  PROVE  IndInv'
<1> DEFINE row == [request[r] EXCEPT !.expired = TRUE]
<1> USE DEF IndInv, Expire
<1>1. row \in RequestRow /\ request' = [request EXCEPT ![r] = row]
  BY DEF TypeOK, RequestRow
<1>2. /\ row.doc = request[r].doc /\ row.version = request[r].version
      /\ row.status = request[r].status
  BY DEF TypeOK, RequestRow
<1> HIDE DEF row
<1>3. TypeOK'
  BY <1>1 DEF TypeOK, docVars, tenantVars, storeVars
<1>4. RowsAreLinked' /\ CompletionIsExact' /\ RowsOfSigned'
  BY <1>1, <1>2, RequestRowStep DEF docVars
<1>5. ChecksStillHold'
  <2>1. \A q \in Requests : /\ request'[q].status = request[q].status
                            /\ request'[q].doc = request[q].doc
    BY <1>1, <1>2 DEF TypeOK
  <2>2. ASSUME NEW v \in Workers PROVE Undisturbed(v)
    BY <2>1, HeldRows DEF Undisturbed, HasVersion, docVars
  <2> QED
    BY <2>2, UndisturbedChecks DEF ChecksStillHold
<1> QED
  BY <1>3, <1>4, <1>5, CallsKept

\* CreateSigningLink rotates a link and may begin to mail invitations.
LEMMA CreateSigningLinkStep ==
  ASSUME IndInv, NEW w \in Workers, NEW r \in Requests, NEW a \in Users,
         CreateSigningLink(w, r, a)
  PROVE  IndInv'
<1> DEFINE row == [request[r] EXCEPT !.link = request[r].link + 1]
           waiting == {u \in Users : /\ signer[r][u].status \in {"pending", "viewed"}
                                     /\ ~signer[r][u].revoked}
           call == [Idle EXCEPT !.op = "invite", !.req = r, !.to = waiting,
                                !.link = request[r].link + 1]
<1> USE DEF IndInv
<1>1. request[r].link + 1 \in 0..MaxLink
  BY BoundsAssumption DEF TypeOK, RequestRow, CreateSigningLink
<1>2. row \in RequestRow /\ request' = [request EXCEPT ![r] = row]
  BY <1>1, ZenonT(60) DEF TypeOK, RequestRow, CreateSigningLink
<1>3. /\ row.doc = request[r].doc /\ row.version = request[r].version
      /\ row.status = request[r].status
  BY DEF TypeOK, RequestRow
<1>4. call \in Call /\ call.op = "invite" /\ call.req = r
  <2>1. waiting \in SUBSET Users
    OBVIOUS
  <2>2. call \in Call
    BY <1>1, <2>1, NewCallsAreCalls
  <2> QED
    BY <2>2, IdleIsCall DEF Call
<1>5. /\ tx' = [tx EXCEPT ![w] = call] \/ tx' = tx
      /\ UNCHANGED <<docVars, signer, signatures, tenantVars, storeVars, mailed>>
      /\ Log({Event("link_created", r, None)})
      /\ request[r].status # "absent"
      /\ ~RequestLocked(r)
  BY DEF CreateSigningLink, Begin
<1> HIDE DEF row, call
<1>6. tx' \in [Workers -> Call]
  BY <1>4, <1>5 DEF TypeOK
<1>7. audit' \subseteq AuditRow
  BY <1>5 DEF TypeOK, AuditRow, Log, Event
<1>8. TypeOK'
  BY <1>2, <1>5, <1>6, <1>7 DEF TypeOK, docVars, tenantVars, storeVars
<1>9. RowsAreLinked' /\ CompletionIsExact' /\ RowsOfSigned'
  BY <1>2, <1>3, <1>5, RequestRowStep DEF docVars
<1>10. CallsAreWellFormed' /\ LocksAreExclusive'
  BY <1>4, <1>5 DEF TypeOK, CallsAreWellFormed, LocksAreExclusive,
     DocumentCalls, RequestCalls, AccountCalls
<1>11. \A q \in Requests : /\ request'[q].status = request[q].status
                           /\ request'[q].doc = request[q].doc
  BY <1>2, <1>3 DEF TypeOK
<1>12. \A v \in Workers : tx'[v] = tx[v] \/ tx'[v].op = "invite"
  BY <1>4, <1>5 DEF TypeOK
<1>13. ChecksStillHold'
  <2>1. ASSUME NEW v \in Workers, tx'[v] = tx[v] PROVE Undisturbed(v)
    BY <1>5, <1>11, <2>1, HeldRows DEF Undisturbed, HasVersion, docVars
  <2> QED
    BY <1>12, <2>1, UndisturbedChecks, NoChecks DEF ChecksStillHold
<1> QED
  BY <1>8, <1>9, <1>10, <1>13

-----------------------------------------------------------------------------
(***************************************************************************)
(* Every action preserves the invariant: calls that commit                 *)
(***************************************************************************)

\* Whatever becomes of the answer to COMMIT, no object appears.
LEMMA CommitObjects ==
  ASSUME TypeOK, NEW w \in Workers, objects' \in ObjectsAfterCommit(w)
  PROVE  objects' \subseteq Keys
  BY DEF TypeOK, ObjectsAfterCommit

\* The signer rows decide who signs and who is left.
LEMMA SameSigners ==
  ASSUME UNCHANGED signer, NEW q \in Requests
  PROVE  /\ Signers(q)' = Signers(q) /\ Signed(q)' = Signed(q)
         /\ Unsigned(q)' = Unsigned(q)
  BY DEF Signers, Signed, Unsigned

\* CreateDocumentCommit makes a ready document with its first version.
LEMMA CreateDocumentCommitStep ==
  ASSUME IndInv, NEW w \in Workers, CreateDocumentCommit(w)
  PROVE  IndInv'
<1> DEFINE d == tx[w].doc
           row == [status |-> "ready", version |-> 1, creator |-> tx[w].user]
           first == [doc |-> d, version |-> 1, key |-> tx[w].key]
<1> USE DEF IndInv
<1>1. /\ tx[w].op = "create_document"
      /\ document' = [document EXCEPT ![d] = row]
      /\ versions' = versions \cup {first}
      /\ account' = [account EXCEPT !.files = IF tx[w].charged THEN @ + 1 ELSE @]
      /\ objects' \in ObjectsAfterCommit(w)
      /\ Finish(w)
      /\ UNCHANGED <<request, signer, signatures, audit, members, lastKey, abandoned, mailed>>
  BY DEF CreateDocumentCommit
<1>2. d \in Documents /\ tx[w].user \in Users /\ tx[w].key \in Keys
  BY <1>1 DEF CallsAreWellFormed
<1>3. row \in DocumentRow /\ first \in VersionRow
  BY <1>2, BoundsAssumption DEF DocumentRow, VersionRow
<1>4. row.status = "ready" /\ row.version = 1 /\ first.doc = d /\ first.version = 1
  OBVIOUS
<1> HIDE DEF row, first
<1>5. account' \in AccountRow
  BY <1>1 DEF TypeOK, AccountRow, Call
<1>6. TypeOK'
  BY <1>1, <1>3, <1>5, CommitObjects, CallEnded DEF TypeOK
<1>7. \A e \in Documents : document'[e] = IF e = d THEN row ELSE document[e]
  BY <1>1, <1>2 DEF TypeOK
<1>8. RowsAreLinked'
  BY <1>1, <1>4, <1>7, SameSigners DEF RowsAreLinked, HasVersion
<1>9. CompletionIsExact' /\ RowsOfSigned'
  BY <1>1, SameSigners DEF CompletionIsExact, RowsOfSigned
<1>10. \A v \in Workers \ {w} : tx[v].op # "create_document"
  BY <1>1 DEF LocksAreExclusive, AccountCalls
<1>11. document[d].status = "absent"
  BY <1>1, HeldRows
<1> HIDE DEF d
<1>12. ASSUME NEW v \in Workers \ {w} PROVE Undisturbed(v)
  BY <1>1, <1>7, <1>10, <1>11, HeldRows, CallEnded DEF Undisturbed, HasVersion
<1>13. ChecksStillHold'
  BY <1>1, <1>12, CallEnded, UndisturbedChecks, NoChecks DEF ChecksStillHold
<1> QED
  BY <1>1, <1>6, <1>8, <1>9, <1>13, CallEnded

\* AddVersionCommit adds the version after the current one.
LEMMA AddVersionCommitStep ==
  ASSUME IndInv, NEW w \in Workers, AddVersionCommit(w)
  PROVE  IndInv'
<1> DEFINE d == tx[w].doc
           next == document[d].version + 1
           row == [document[d] EXCEPT !.version = next]
           added == [doc |-> d, version |-> next, key |-> tx[w].key]
<1> USE DEF IndInv
<1>1. /\ tx[w].op = "add_version"
      /\ document' = [document EXCEPT ![d].version = @ + 1]
      /\ versions' = versions \cup {added}
      /\ objects' \in ObjectsAfterCommit(w)
      /\ Finish(w)
      /\ UNCHANGED <<request, signer, signatures, audit, tenantVars, lastKey, abandoned, mailed>>
  BY DEF AddVersionCommit
<1>2. d \in Documents /\ tx[w].key \in Keys
  BY <1>1 DEF CallsAreWellFormed, DocumentCalls
<1>3. document[d].version < MaxVersion
  BY <1>1 DEF ChecksStillHold, CheckHolds
<1>4. document[d] \in DocumentRow /\ next \in 1..MaxVersion /\ next \in 0..MaxVersion
  BY <1>2, <1>3, BoundsAssumption DEF TypeOK, DocumentRow
<1>5. document' = [document EXCEPT ![d] = row]
  BY <1>1, <1>2 DEF TypeOK
<1> HIDE DEF next
<1>6. row \in DocumentRow /\ row.status = document[d].status /\ row.version = next
  BY <1>4 DEF DocumentRow
<1>7. added \in VersionRow /\ added.doc = d /\ added.version = next
  BY <1>2, <1>4 DEF VersionRow
<1> HIDE DEF row, added
<1>8. TypeOK'
  BY <1>1, <1>5, <1>6, <1>7, CommitObjects, CallEnded DEF TypeOK, tenantVars
<1>9. \A e \in Documents : document'[e] = IF e = d THEN row ELSE document[e]
  BY <1>2, <1>5 DEF TypeOK
<1>10. RowsAreLinked'
  <2>1. ASSUME NEW e \in Documents, document'[e].status = "ready"
        PROVE  HasVersion(e, document[e].version)'
    <3>1. CASE e = d
      BY <1>1, <1>6, <1>7, <1>9, <3>1 DEF HasVersion
    <3>2. CASE e # d
      BY <1>1, <1>9, <2>1, <3>2 DEF RowsAreLinked, HasVersion
    <3> QED
      BY <3>1, <3>2
  <2>2. ASSUME NEW q \in Requests
        PROVE  /\ request[q].status # "absent" =>
                    HasVersion(request[q].doc, request[q].version)'
               /\ Signers(q)' = Signers(q) /\ Signed(q)' = Signed(q)
    BY <1>1, SameSigners DEF RowsAreLinked, HasVersion
  <2> QED
    BY <1>1, <2>1, <2>2 DEF RowsAreLinked
<1>11. CompletionIsExact' /\ RowsOfSigned'
  BY <1>1, SameSigners DEF CompletionIsExact, RowsOfSigned
<1>12. \A v \in Workers \ {w} : tx[v].op \in DocumentCalls => tx[v].doc # d
  BY <1>1 DEF LocksAreExclusive, DocumentCalls
<1>13. document[d].status = "ready"
  BY <1>1, HeldRows DEF DocumentCalls
<1> HIDE DEF d
<1>14. ASSUME NEW v \in Workers \ {w} PROVE Undisturbed(v)
  BY <1>1, <1>6, <1>9, <1>12, <1>13, HeldRows, CallEnded DEF Undisturbed, HasVersion
<1>15. ChecksStillHold'
  BY <1>1, <1>14, CallEnded, UndisturbedChecks, NoChecks DEF ChecksStillHold
<1> QED
  BY <1>1, <1>8, <1>10, <1>11, <1>15, CallEnded

\* CreateRequestCommit makes a draft of the version its call had read.
LEMMA CreateRequestCommitStep ==
  ASSUME IndInv, NEW w \in Workers, CreateRequestCommit(w)
  PROVE  IndInv'
<1> DEFINE r == tx[w].req
           row == [request[r] EXCEPT !.status = "draft", !.doc = tx[w].doc,
                                     !.version = tx[w].version]
<1> USE DEF IndInv
<1>1. /\ tx[w].op = "create_request"
      /\ Finish(w)
      /\ Log({Event("created", r, None)})
      /\ UNCHANGED <<document, versions, signer, signatures, tenantVars, storeVars, mailed>>
  BY DEF CreateRequestCommit, docVars
<1>2. r \in Requests /\ tx[w].doc \in Documents /\ tx[w].version \in 0..MaxVersion
  BY <1>1 DEF CallsAreWellFormed, TypeOK, Call
<1>3. request[r].status = "absent" /\ HasVersion(tx[w].doc, tx[w].version)
  BY <1>1 DEF ChecksStillHold, CheckHolds
<1>4. request' = [request EXCEPT ![r] = row]
  BY <1>2 DEF TypeOK, CreateRequestCommit
<1>5. /\ row \in RequestRow
      /\ row.status = "draft" /\ row.doc = tx[w].doc /\ row.version = tx[w].version
  <2>1. request[r] \in RequestRow
    BY <1>2 DEF TypeOK
  <2> QED
    BY <1>2, <2>1 DEF RequestRow
<1> HIDE DEF row
<1>6. audit' \subseteq AuditRow
  BY <1>1, <1>2 DEF TypeOK, AuditRow, Log, Event
<1>7. TypeOK'
  BY <1>1, <1>4, <1>5, <1>6, CallEnded DEF TypeOK, tenantVars, storeVars
<1>8. \A q \in Requests : request'[q] = IF q = r THEN row ELSE request[q]
  BY <1>2, <1>4 DEF TypeOK
<1>9. Signers(r) = {} /\ Signed(r) = {}
  BY <1>2, <1>3 DEF RowsAreLinked, Signers, Signed
<1>10. RowsAreLinked'
  BY <1>1, <1>2, <1>3, <1>5, <1>8, <1>9, SameSigners DEF RowsAreLinked, HasVersion
<1>11. CompletionIsExact' /\ RowsOfSigned'
  BY <1>1, <1>5, <1>8, SameSigners DEF CompletionIsExact, RowsOfSigned
<1>12. \A v \in Workers \ {w} :
         tx[v].op \in RequestCalls \cup {"create_request"} => tx[v].req # r
  BY <1>1, <1>3, HeldRows DEF LocksAreExclusive
<1> HIDE DEF r
<1>13. ASSUME NEW v \in Workers \ {w} PROVE Undisturbed(v)
  BY <1>1, <1>8, <1>12, HeldRows, CallEnded DEF Undisturbed, HasVersion
<1>14. ChecksStillHold'
  BY <1>1, <1>13, CallEnded, UndisturbedChecks, NoChecks DEF ChecksStillHold
<1> QED
  BY <1>1, <1>7, <1>10, <1>11, <1>14, CallEnded

\* OpenRequestCommit opens a draft that has signers, none of whom signed.
LEMMA OpenRequestCommitStep ==
  ASSUME IndInv, NEW w \in Workers, OpenRequestCommit(w)
  PROVE  IndInv'
<1> DEFINE r == tx[w].req
           row == [request[r] EXCEPT !.status = "open", !.mode = tx[w].mode]
<1> USE DEF IndInv
<1>1. /\ tx[w].op = "open_request"
      /\ Finish(w)
      /\ Log({Event("opened", r, None)})
      /\ UNCHANGED <<document, versions, signer, signatures, tenantVars, storeVars, mailed>>
  BY DEF OpenRequestCommit, docVars
<1>2. r \in Requests /\ tx[w].mode \in AllModes
  BY <1>1 DEF CallsAreWellFormed, RequestCalls
<1>3. request[r].status = "draft" /\ Signers(r) # {}
  BY <1>1 DEF ChecksStillHold, CheckHolds
<1>4. request' = [request EXCEPT ![r] = row]
  BY <1>2 DEF TypeOK, OpenRequestCommit
<1>5. /\ row \in RequestRow
      /\ row.status = "open" /\ row.doc = request[r].doc /\ row.version = request[r].version
  <2>1. request[r] \in RequestRow
    BY <1>2 DEF TypeOK
  <2> QED
    BY <1>2, <2>1 DEF RequestRow
<1> HIDE DEF row
<1>6. audit' \subseteq AuditRow
  BY <1>1, <1>2 DEF TypeOK, AuditRow, Log, Event
<1>7. TypeOK'
  BY <1>1, <1>4, <1>5, <1>6, CallEnded DEF TypeOK, tenantVars, storeVars
<1>8. \A q \in Requests : request'[q] = IF q = r THEN row ELSE request[q]
  BY <1>2, <1>4 DEF TypeOK
<1>9. Unsigned(r) # {}
  BY <1>2, <1>3 DEF RowsAreLinked, Unsigned, Signers, Signed
<1>10. RowsAreLinked'
  BY <1>1, <1>2, <1>3, <1>5, <1>8, SameSigners DEF RowsAreLinked, HasVersion
<1>11. CompletionIsExact' /\ RowsOfSigned'
  BY <1>1, <1>5, <1>8, <1>9, SameSigners DEF CompletionIsExact, RowsOfSigned
<1>12. \A v \in Workers \ {w} :
         tx[v].op \in RequestCalls \cup {"create_request"} => tx[v].req # r
  BY <1>1, <1>3, HeldRows DEF LocksAreExclusive, RequestCalls
<1> HIDE DEF r
<1>13. ASSUME NEW v \in Workers \ {w} PROVE Undisturbed(v)
  BY <1>1, <1>8, <1>12, HeldRows, CallEnded DEF Undisturbed, HasVersion
<1>14. ChecksStillHold'
  BY <1>1, <1>13, CallEnded, UndisturbedChecks, NoChecks DEF ChecksStillHold
<1> QED
  BY <1>1, <1>7, <1>10, <1>11, <1>14, CallEnded

\* DeleteDocumentCommit cancels the active requests of a document, none of
\* which a call in flight holds, and deletes it.
LEMMA DeleteDocumentCommitStep ==
  ASSUME IndInv, NEW w \in Workers, NEW force \in BOOLEAN, DeleteDocumentCommit(w, force)
  PROVE  IndInv'
<1> DEFINE d == tx[w].doc
           active == ActiveRequests(d)
           row == [document[d] EXCEPT !.status = "deleted"]
<1> USE DEF IndInv
<1>1. /\ tx[w].op = "delete_document"
      /\ \A r \in active : ~RequestLocked(r)
      /\ request' = [r \in Requests |->
           IF r \in active THEN [request[r] EXCEPT !.status = "cancelled"]
                           ELSE request[r]]
      /\ Log({Event("cancelled", r, None) : r \in active})
      /\ Finish(w)
      /\ UNCHANGED <<versions, signer, signatures, tenantVars, storeVars, mailed>>
  BY DEF DeleteDocumentCommit
<1>2. d \in Documents /\ document[d].status = "ready"
  BY <1>1, HeldRows DEF DocumentCalls
<1>3. document' = [document EXCEPT ![d] = row]
  BY <1>2 DEF TypeOK, DeleteDocumentCommit
<1>4. row \in DocumentRow /\ row.status = "deleted" /\ row.version = document[d].version
  <2>1. document[d] \in DocumentRow
    BY <1>2 DEF TypeOK
  <2> QED
    BY <2>1 DEF DocumentRow
<1> HIDE DEF row
<1>5. active \subseteq Requests
  BY DEF ActiveRequests
<1>6. audit' \subseteq AuditRow
  BY <1>1, <1>5 DEF TypeOK, AuditRow, Log, Event
<1>7. \A q \in Requests :
        /\ request'[q] \in RequestRow
        /\ request'[q].doc = request[q].doc /\ request'[q].version = request[q].version
        /\ q \in active => request'[q].status = "cancelled"
        /\ q \notin active => request'[q].status = request[q].status
  <2> SUFFICES ASSUME NEW q \in Requests
               PROVE  /\ request'[q] \in RequestRow
                      /\ request'[q].doc = request[q].doc /\ request'[q].version = request[q].version
                      /\ q \in active => request'[q].status = "cancelled"
                      /\ q \notin active => request'[q].status = request[q].status
    OBVIOUS
  <2> HIDE DEF active
  <2>1. request[q] \in RequestRow
    BY DEF TypeOK
  <2>2. request'[q] = IF q \in active THEN [request[q] EXCEPT !.status = "cancelled"] ELSE request[q]
    BY <1>1
  <2> QED
    BY <2>1, <2>2 DEF RequestRow
<1>8. request' \in [Requests -> RequestRow]
  BY <1>1, <1>7
<1>9. TypeOK'
  BY <1>1, <1>3, <1>4, <1>6, <1>8, CallEnded DEF TypeOK, tenantVars, storeVars
<1>10. \A e \in Documents : document'[e] = IF e = d THEN row ELSE document[e]
  BY <1>2, <1>3 DEF TypeOK
<1>11. \A q \in active : request[q].status \in {"draft", "open"}
  BY DEF ActiveRequests
<1>12. \A q \in Requests : request[q].doc = d /\ request[q].status \in {"draft", "open"} => q \in active
  BY DEF ActiveRequests
<1> HIDE DEF active, d
<1>13. RowsAreLinked'
  <2>1. ASSUME NEW e \in Documents, document'[e].status = "ready"
        PROVE  HasVersion(e, document[e].version)'
    <3>1. e # d
      BY <1>4, <1>10, <2>1
    <3> QED
      BY <1>1, <1>10, <2>1, <3>1 DEF RowsAreLinked, HasVersion
  <2>2. ASSUME NEW q \in Requests, request'[q].status # "absent"
        PROVE  request'[q].doc \in Documents /\ HasVersion(request[q].doc, request[q].version)'
    BY <1>1, <1>7, <1>11, <2>2 DEF RowsAreLinked, HasVersion
  <2>3. ASSUME NEW q \in Requests
        PROVE  /\ request'[q].status = "absent" => Signers(q)' = {}
               /\ request'[q].status = "draft" => Signed(q)' = {}
    BY <1>1, <1>7, SameSigners DEF RowsAreLinked
  <2> QED
    BY <2>1, <2>2, <2>3 DEF RowsAreLinked
<1>14. CompletionIsExact' /\ RowsOfSigned'
  BY <1>1, <1>7, SameSigners DEF CompletionIsExact, RowsOfSigned
<1>15. \A v \in Workers \ {w} : tx[v].op \in DocumentCalls => tx[v].doc # d
  BY <1>1 DEF LocksAreExclusive, DocumentCalls, d
<1>16. ASSUME NEW v \in Workers, tx[v].op \in RequestCalls
       PROVE  tx[v].req \notin active /\ request[tx[v].req].doc # d
  <2>1. tx[v].req \notin active
    BY <1>1, <1>16 DEF RequestLocked
  <2> QED
    BY <1>12, <1>16, <2>1, HeldRows
<1>17. ASSUME NEW v \in Workers \ {w} PROVE Undisturbed(v)
  <2>1. tx'[v] = tx[v]
    BY <1>1, CallEnded
  <2>2. tx[v].op \in DocumentCalls \cup {"create_document"} =>
          document'[tx[v].doc] = document[tx[v].doc]
    BY <1>2, <1>10, <1>15, HeldRows
  <2>3. tx[v].op = "create_request" => request'[tx[v].req].status = request[tx[v].req].status
    BY <1>7, <1>11, HeldRows
  <2>4. tx[v].op \in RequestCalls =>
          /\ request'[tx[v].req].status = request[tx[v].req].status
          /\ document'[request'[tx[v].req].doc].status = document[request[tx[v].req].doc].status
    BY <1>7, <1>10, <1>16, HeldRows
  <2> QED
    BY <1>1, <2>1, <2>2, <2>3, <2>4 DEF Undisturbed, HasVersion
<1>18. ChecksStillHold'
  BY <1>1, <1>17, CallEnded, UndisturbedChecks, NoChecks DEF ChecksStillHold
<1> QED
  BY <1>1, <1>9, <1>13, <1>14, <1>18, CallEnded

\* SignStamp moves a call on: it now holds the account as well, and its stamps
\* are the request's signatures so far and its own.
LEMMA SignStampStep ==
  ASSUME IndInv, NEW w \in Workers, SignStamp(w)
  PROVE  IndInv'
<1>0. PICK r \in Requests, u \in Users : r = tx[w].req /\ u = tx[w].user
  BY DEF IndInv, CallsAreWellFormed, RequestCalls, SignStamp
<1> DEFINE call == [tx[w] EXCEPT !.op = "stamp", !.key = lastKey + 1,
                           !.stamps = StampsFor(r, u), !.charged = ~Unmetered]
<1> USE DEF IndInv
<1>1. /\ tx[w].op = "sign"
      /\ ~AccountLocked
      /\ Put
      /\ UNCHANGED <<rowVars, tenantVars, abandoned, mailed>>
  BY DEF SignStamp
<1>3. lastKey + 1 \in Keys /\ lastKey + 1 \in 0..MaxKey
  BY <1>1, BoundsAssumption DEF TypeOK, Put, Keys
<1>2. (~Unmetered) \in BOOLEAN
  OBVIOUS
<1>4. StampsFor(r, u) = Signed(r) \cup {u} /\ StampsFor(r, u) \subseteq Users
  BY DEF RowsOfSigned, StampsFor, Signed
<1>5. tx' = [tx EXCEPT ![w] = call]
  BY <1>0 DEF TypeOK, SignStamp
<1>6. /\ call \in Call
      /\ call.op = "stamp" /\ call.key = lastKey + 1 /\ call.req = r /\ call.user = u
      /\ call.stamps = Signed(r) \cup {u}
  <2>1. tx[w] \in Call
    BY DEF TypeOK
  <2> QED
    BY <1>0, <1>2, <1>3, <1>4, <2>1, ZenonT(60) DEF Call, Ops
<1> HIDE DEF call
<1>7. /\ tx' \in [Workers -> Call]
      /\ tx'[w] = call
      /\ \A v \in Workers \ {w} : tx'[v] = tx[v]
  BY <1>5, <1>6 DEF TypeOK
<1>8. TypeOK'
  BY <1>1, <1>3, <1>7 DEF TypeOK, rowVars, tenantVars, Put
<1>9. CallsAreWellFormed'
  BY <1>3, <1>6, <1>7 DEF CallsAreWellFormed, DocumentCalls, RequestCalls
<1>10. LocksAreExclusive'
  BY <1>0, <1>1, <1>6, <1>7 DEF LocksAreExclusive, DocumentCalls, RequestCalls, AccountCalls, AccountLocked
<1>11. CheckHolds(w)'
  <2>1. CheckHolds(w)
    BY DEF ChecksStillHold
  <2>2. Signed(r)' = Signed(r)
    BY <1>1 DEF rowVars, Signed
  <2>3. /\ document[request[r].doc].status = "ready"
        /\ request[r].status = "open"
        /\ signer[r][u].status \notin {"absent", "signed"}
        /\ ~signer[r][u].revoked
    BY <1>0, <1>1, <2>1 DEF CheckHolds, RequestCalls
  <2>4. /\ tx'[w].op = "stamp" /\ tx'[w].req = r /\ tx'[w].user = u
        /\ tx'[w].stamps = Signed(r) \cup {u}
    BY <1>6, <1>7
  <2>5. UNCHANGED <<document, request, signer>>
    BY <1>1 DEF rowVars
  <2> QED
    BY <2>2, <2>3, <2>4, <2>5 DEF CheckHolds, RequestCalls, DocumentCalls
<1>12. ChecksStillHold'
  BY <1>1, <1>7, <1>11, QuietChecks DEF ChecksStillHold
<1> QED
  BY <1>1, <1>8, <1>9, <1>10, <1>12, RowsKept

\* SignCommit signs for one signer, and completes the request when nobody
\* else is left.
LEMMA SignCommitStep ==
  ASSUME IndInv, NEW w \in Workers, SignCommit(w)
  PROVE  IndInv'
<1>0. PICK r \in Requests, u \in Users : r = tx[w].req /\ u = tx[w].user
  BY DEF IndInv, CallsAreWellFormed, RequestCalls, SignCommit
<1> DEFINE last == IsLast(r, u)
           row == [request[r] EXCEPT !.status = IF last THEN "completed" ELSE request[r].status]
           new == [request |-> r, signer |-> u, version |-> request[r].version,
                   stamps |-> tx[w].stamps, charged |-> tx[w].charged, key |-> tx[w].key]
<1> USE DEF IndInv
<1>1. /\ tx[w].op = "stamp"
      /\ signatures' = signatures \cup {new}
      /\ signer' = [signer EXCEPT ![r][u].status = "signed"]
      /\ account' = [account EXCEPT !.used = IF tx[w].charged THEN @ + 1 ELSE @]
      /\ objects' \in ObjectsAfterCommit(w)
      /\ Finish(w)
      /\ UNCHANGED <<document, versions, members, lastKey, abandoned, mailed>>
  BY <1>0 DEF SignCommit, docVars
<1>2. tx[w].key \in Keys /\ tx[w].stamps \subseteq Users /\ tx[w].charged \in BOOLEAN
  BY <1>1 DEF CallsAreWellFormed, RequestCalls, TypeOK, Call
<1>3. /\ request[r].status = "open"
      /\ signer[r][u].status \notin {"absent", "signed"}
  BY <1>0, <1>1 DEF ChecksStillHold, CheckHolds
<1>4. request[r] \in RequestRow /\ request[r].version \in 1..MaxVersion
  <2>1. HasVersion(request[r].doc, request[r].version)
    BY <1>3 DEF RowsAreLinked
  <2> QED
    BY <2>1 DEF TypeOK, HasVersion, VersionRow
<1>5. request' = [request EXCEPT ![r] = row]
  BY <1>0 DEF TypeOK, SignCommit
<1>6. /\ row \in RequestRow
      /\ row.status = IF last THEN "completed" ELSE "open"
      /\ row.doc = request[r].doc /\ row.version = request[r].version
  BY <1>3, <1>4 DEF RequestRow
<1>7. new \in SignatureRow /\ new.request = r /\ new.signer = u
  BY <1>2, <1>4 DEF SignatureRow
<1> HIDE DEF row, new
<1>8. account' \in AccountRow
  <2>1. account \in [plan: AllPlans, used: Nat, files: Nat]
    BY DEF TypeOK, AccountRow
  <2>2. CASE tx[w].charged
    BY <1>1, <2>1, <2>2 DEF AccountRow
  <2>3. CASE ~tx[w].charged
    BY <1>1, <2>1, <2>3 DEF AccountRow
  <2> QED
    BY <2>2, <2>3
<1>9. audit' \subseteq AuditRow
  BY <1>0 DEF TypeOK, AuditRow, Log, Event, SignCommit
<1>10. signer' \in [Requests -> [Users -> SignerRow]]
  <2>1. signer[r][u] \in SignerRow
    BY DEF TypeOK
  <2>2. [signer[r][u] EXCEPT !.status = "signed"] \in SignerRow
    BY <2>1 DEF SignerRow
  <2> QED
    BY <1>1, <2>2 DEF TypeOK
<1>11. TypeOK'
  BY <1>1, <1>5, <1>6, <1>7, <1>8, <1>9, <1>10, CommitObjects, CallEnded DEF TypeOK
<1>12. /\ \A q \in Requests \ {r} : signer'[q] = signer[q] /\ request'[q] = request[q]
       /\ request'[r] = row
       /\ \A v \in Users \ {u} : signer'[r][v] = signer[r][v]
       /\ signer'[r][u].status = "signed"
  <2>1. signer[r][u] \in SignerRow
    BY DEF TypeOK
  <2> QED
    BY <1>1, <1>5, <2>1 DEF TypeOK, SignerRow
<1> HIDE DEF last
<1>13. \A q \in Requests \ {r} : /\ Signers(q)' = Signers(q) /\ Signed(q)' = Signed(q)
                                /\ Unsigned(q)' = Unsigned(q)
  BY <1>12 DEF Signers, Signed, Unsigned
<1>14. /\ Signers(r)' = Signers(r) /\ u \in Signers(r)
       /\ Signed(r)' = Signed(r) \cup {u}
       /\ Unsigned(r)' = Unsigned(r) \ {u}
  BY <1>3, <1>12 DEF Signers, Signed, Unsigned
<1>15. last <=> Unsigned(r) \subseteq {u}
  BY DEF last, IsLast
<1>16. RowsAreLinked'
  <2>1. ASSUME NEW q \in Requests, request'[q].status # "absent"
        PROVE  request'[q].doc \in Documents /\ HasVersion(request[q].doc, request[q].version)'
    BY <1>1, <1>3, <1>6, <1>12, <2>1 DEF RowsAreLinked, HasVersion
  <2>2. ASSUME NEW q \in Requests
        PROVE  /\ request'[q].status = "absent" => Signers(q)' = {}
               /\ request'[q].status = "draft" => Signed(q)' = {}
    BY <1>6, <1>12, <1>13 DEF RowsAreLinked
  <2>3. ASSUME NEW e \in Documents, document'[e].status = "ready"
        PROVE  HasVersion(e, document[e].version)'
    BY <1>1, <2>3 DEF RowsAreLinked, HasVersion
  <2> QED
    BY <2>1, <2>2, <2>3 DEF RowsAreLinked
<1>17. CompletionIsExact'
  BY <1>6, <1>12, <1>13, <1>14, <1>15 DEF CompletionIsExact
<1>18. RowsOfSigned'
  <2>1. ASSUME NEW q \in Requests \ {r}
        PROVE  {s \in signatures' : s.request = q} = {s \in signatures : s.request = q}
    BY <1>1, <1>7
  <2>2. {s.signer : s \in {t \in signatures' : t.request = r}}
          = {s.signer : s \in {t \in signatures : t.request = r}} \cup {u}
    BY <1>1, <1>7
  <2> QED
    BY <1>13, <1>14, <2>1, <2>2 DEF RowsOfSigned
<1>19. \A v \in Workers \ {w} : tx[v].op \in RequestCalls => tx[v].req # r
  BY <1>0, <1>1 DEF LocksAreExclusive, RequestCalls
<1>20. ASSUME NEW v \in Workers \ {w} PROVE Undisturbed(v)
  <2>1. tx[v].op = "create_request" => tx[v].req # r
    BY <1>3, HeldRows
  <2> QED
    BY <1>1, <1>12, <1>19, <2>1, HeldRows, CallEnded DEF Undisturbed, HasVersion
<1>21. ChecksStillHold'
  BY <1>1, <1>20, CallEnded, UndisturbedChecks, NoChecks DEF ChecksStillHold
<1> QED
  BY <1>1, <1>11, <1>16, <1>17, <1>18, <1>21, CallEnded

-----------------------------------------------------------------------------
(***************************************************************************)
(* The theorems                                                            *)
(***************************************************************************)

\* The initial tables are empty: nothing is in flight and nothing is wrong.
LEMMA InitInvariant == Init => IndInv
<1> SUFFICES ASSUME Init PROVE IndInv
  OBVIOUS
<1>1. TypeOK
  <2>1. account \in AccountRow
    BY SettingsAssumption DEF Init, AccountRow
  <2> QED
    BY <2>1, IdleIsCall, BoundsAssumption
       DEF Init, TypeOK, DocumentRow, RequestRow, SignerRow, AllModes
<1>2. \A w \in Workers : tx[w].op = "idle"
  BY DEF Init, Idle
<1>3. CallsAreWellFormed /\ LocksAreExclusive /\ ChecksStillHold
  BY <1>2 DEF CallsAreWellFormed, LocksAreExclusive, ChecksStillHold, CheckHolds,
     DocumentCalls, RequestCalls, AccountCalls
<1>4. RowsAreLinked /\ CompletionIsExact /\ RowsOfSigned
  BY DEF Init, RowsAreLinked, CompletionIsExact, RowsOfSigned, Signers, Signed, Unsigned
<1> QED
  BY <1>1, <1>3, <1>4 DEF IndInv

\* A step that changes nothing keeps the invariant.
LEMMA StutterInvariant ==
  ASSUME IndInv, UNCHANGED vars
  PROVE  IndInv'
<1>1. UNCHANGED <<rowVars, tenantVars, storeVars, mailed, tx>>
  BY DEF vars
<1>2. TypeOK'
  BY <1>1 DEF IndInv, TypeOK, rowVars, tenantVars, storeVars
<1>3. ChecksStillHold'
  BY <1>1, QuietChecks DEF ChecksStillHold
<1> QED
  BY <1>1, <1>2, <1>3, CallsKept, RowsKept DEF IndInv

\* Every step of the workflow keeps the invariant.
LEMMA StepInvariant == IndInv /\ [Next]_vars => IndInv'
<1> SUFFICES ASSUME IndInv, [Next]_vars PROVE IndInv'
  OBVIOUS
<1>1. ASSUME NEW w \in Workers, Advance(w) PROVE IndInv'
  BY <1>1, CreateDocumentCommitStep, AddVersionCommitStep, DeleteDocumentCommitStep,
     RefuseStep, CreateRequestCommitStep, OpenRequestCommitStep, SendInvitationsStep,
     SignStampStep, SignCommitStep DEF Advance
<1>2. ASSUME NEW w \in Workers, Crash(w) \/ \E refused \in BOOLEAN : Fail(w, refused)
      PROVE  IndInv'
  BY <1>2, RollbackStep
<1>3. ASSUME NEW w \in Workers, NEW d \in Documents, NEW u \in Users,
             \/ CreateDocument(w, d, u)
             \/ AddVersion(w, d, u)
             \/ DeleteDocument(w, d, u)
             \/ \E r \in Requests : CreateRequest(w, r, d, u)
      PROVE  IndInv'
  BY <1>3, CreateDocumentStep, AddVersionStep, DeleteDocumentStep, CreateRequestStep
<1>4. ASSUME NEW w \in Workers, NEW r \in Requests, NEW a \in Users,
             \/ \E mode \in Modes : OpenRequest(w, r, a, mode)
             \/ CreateSigningLink(w, r, a)
             \/ Sign(w, r, a)
      PROVE  IndInv'
  BY <1>4, OpenRequestStep, CreateSigningLinkStep, SignStep
<1>5. ASSUME NEW r \in Requests, NEW u \in Users,
             \/ \E a \in Users :
                  \/ \E representative \in BOOLEAN : AddSigner(r, a, u, representative)
                  \/ RevokeSignerLink(r, a, u)
             \/ CancelRequest(r, u)
             \/ View(r, u)
             \/ Decline(r, u)
      PROVE  IndInv'
  BY <1>5, SignerRowStep, CancelRequestStep
<1>6. ASSUME \/ \E r \in Requests : Expire(r)
             \/ \E plan \in Plans : ChangePlan(plan)
             \/ GraceLapses
             \/ \E u \in Volatile : ChangeMembership(u)
      PROVE  IndInv'
  BY <1>6, ExpireStep, TenantStep
<1> QED
  BY <1>1, <1>2, <1>3, <1>4, <1>5, <1>6, StutterInvariant DEF Next

\* The inductive invariant holds in every reachable state.
THEOREM Invariant == Spec => []IndInv
  BY InitInvariant, StepInvariant, PTL DEF Spec

\* Every variable of the workflow keeps its type, for any number of workers,
\* documents, requests and users: no handler ever stores a value its column
\* cannot hold.
THEOREM TypeCorrect == Spec => []TypeOK
<1>1. IndInv => TypeOK
  BY DEF IndInv
<1> QED
  BY <1>1, Invariant, PTL

\* A request is completed exactly when its last signer signs, however many
\* signers sign at once in however many workers.
THEOREM CompletionCorrect == Spec => []CompletionIsExact
<1>1. IndInv => CompletionIsExact
  BY DEF IndInv
<1> QED
  BY <1>1, Invariant, PTL

\* Only SignCommit adds signature rows.
LEMMA OnlySignCommitSigns ==
  ASSUME [Next]_vars
  PROVE  UNCHANGED signatures \/ \E w \in Workers : SignCommit(w)
<1>1. ASSUME NEW w \in Workers, Advance(w)
      PROVE  UNCHANGED signatures \/ \E v \in Workers : SignCommit(v)
  BY <1>1, ZenonT(60) DEF Advance, CreateDocumentCommit, AddVersionCommit, DeleteDocumentCommit,
     DeleteDocumentRefuse, CreateRequestCommit, OpenRequestCommit, SendInvitations,
     SignStamp, SignRefuse, rowVars
<1>2. ASSUME NEW w \in Workers,
             \/ \E refused \in BOOLEAN : Fail(w, refused)
             \/ Crash(w)
             \/ \E d \in Documents, u \in Users :
                  \/ CreateDocument(w, d, u)
                  \/ AddVersion(w, d, u)
                  \/ DeleteDocument(w, d, u)
                  \/ \E r \in Requests : CreateRequest(w, r, d, u)
             \/ \E r \in Requests, a \in Users :
                  \/ \E mode \in Modes : OpenRequest(w, r, a, mode)
                  \/ CreateSigningLink(w, r, a)
                  \/ Sign(w, r, a)
      PROVE  UNCHANGED signatures
  BY <1>2, ZenonT(60) DEF Fail, Crash, CreateDocument, AddVersion, DeleteDocument, CreateRequest,
     OpenRequest, CreateSigningLink, Sign, rowVars
<1>3. ASSUME \/ \E r \in Requests, u \in Users :
                  \/ \E a \in Users :
                       \/ \E representative \in BOOLEAN : AddSigner(r, a, u, representative)
                       \/ RevokeSignerLink(r, a, u)
                  \/ CancelRequest(r, u)
                  \/ View(r, u)
                  \/ Decline(r, u)
             \/ \E r \in Requests : Expire(r)
             \/ \E plan \in Plans : ChangePlan(plan)
             \/ GraceLapses
             \/ \E u \in Volatile : ChangeMembership(u)
      PROVE  UNCHANGED signatures
  <2>1. ASSUME NEW r \in Requests, NEW u \in Users, NEW a \in Users, NEW b \in BOOLEAN,
               AddSigner(r, a, u, b) \/ RevokeSignerLink(r, a, u)
        PROVE  UNCHANGED signatures
    BY <2>1 DEF AddSigner, RevokeSignerLink
  <2>2. ASSUME NEW r \in Requests, NEW u \in Users,
               CancelRequest(r, u) \/ View(r, u) \/ Decline(r, u)
        PROVE  UNCHANGED signatures
    BY <2>2 DEF CancelRequest, View, Decline
  <2>3. ASSUME NEW r \in Requests, Expire(r) PROVE UNCHANGED signatures
    BY <2>3 DEF Expire
  <2>4. ASSUME NEW plan \in Plans, ChangePlan(plan) PROVE UNCHANGED signatures
    BY <2>4 DEF ChangePlan, rowVars
  <2>5. CASE GraceLapses
    BY <2>5 DEF GraceLapses, rowVars
  <2>6. ASSUME NEW u \in Volatile, ChangeMembership(u) PROVE UNCHANGED signatures
    BY <2>6 DEF ChangeMembership, rowVars
  <2> QED
    BY <1>3, <2>1, <2>2, <2>3, <2>4, <2>5, <2>6
<1>4. CASE UNCHANGED vars
  BY <1>4 DEF vars, rowVars
<1> QED
  BY <1>1, <1>2, <1>3, <1>4, SMTT(60) DEF Next

\* Every signature that commits is made for an open request, by a signer whose
\* access stands, over a document that is there and the version that was
\* frozen: no interleaving gets between the checks of sign and its commit.
THEOREM SigningAuthorised == Spec => SignedUnderAuthority
<1>1. ASSUME IndInv, [Next]_vars
      PROVE  [\A s \in signatures' \ signatures :
                /\ request[s.request].status = "open"
                /\ ~signer[s.request][s.signer].revoked
                /\ document[request[s.request].doc].status = "ready"
                /\ s.version = request[s.request].version]_vars
  <2>1. CASE UNCHANGED signatures
    BY <2>1
  <2>2. ASSUME NEW w \in Workers, SignCommit(w), NEW s \in signatures' \ signatures
        PROVE  /\ request[s.request].status = "open"
               /\ ~signer[s.request][s.signer].revoked
               /\ document[request[s.request].doc].status = "ready"
               /\ s.version = request[s.request].version
    <3>1. /\ tx[w].op = "stamp"
          /\ s = [request |-> tx[w].req, signer |-> tx[w].user,
                  version |-> request[tx[w].req].version, stamps |-> tx[w].stamps,
                  charged |-> tx[w].charged, key |-> tx[w].key]
      BY <2>2 DEF SignCommit
    <3>2. CheckHolds(w)
      BY <1>1 DEF IndInv, ChecksStillHold
    <3> QED
      BY <3>1, <3>2 DEF CheckHolds, RequestCalls
  <2> QED
    BY <1>1, <2>1, <2>2, OnlySignCommitSigns
<1> QED
  BY <1>1, Invariant, PTL DEF Spec, SignedUnderAuthority

-----------------------------------------------------------------------------
(***************************************************************************)
(* What a step does to the requests, as another session sees them          *)
(***************************************************************************)

\* The requests of S take a status; every other request keeps its own.
StatusMoves(S, status) ==
  \A r \in Requests :
    request'[r].status = IF r \in S THEN status ELSE request[r].status

\* Who is asked to sign, who has signed and whose access is revoked, but for
\* the signers of the request r.
SignersKeptBut(r) ==
  \A q \in Requests \ {r} :
    /\ Signers(q)' = Signers(q) /\ Signed(q)' = Signed(q)
    /\ \A u \in Users : signer'[q][u].revoked = signer[q][u].revoked

SignersKept ==
  \A q \in Requests :
    /\ Signers(q)' = Signers(q) /\ Signed(q)' = Signed(q)
    /\ \A u \in Users : signer'[q][u].revoked = signer[q][u].revoked

\* The events a request's state is read off.
Telling == {"completed", "cancelled", "signed", "revoked"}

\* Of these, exactly the events of E are new in the ledger.
Logs(E) ==
  \A action \in Telling, r \in Requests, u \in Users \cup {None} :
    Event(action, r, u) \in audit' <=> Event(action, r, u) \in audit \cup E

\* Documents that are ready stay so, and requests keep their document.
DocumentsKept ==
  /\ \A d \in Documents : document[d].status = "ready" => document'[d].status = "ready"
  /\ \A r \in Requests : request[r].status # "absent" => request'[r].doc = request[r].doc

\* Nothing moves.
Unmoved ==
  /\ StatusMoves({}, "draft") /\ SignersKept /\ Logs({})
  /\ UNCHANGED signatures /\ DocumentsKept

Created(r) ==
  /\ request[r].status = "absent"
  /\ StatusMoves({r}, "draft") /\ SignersKept /\ Logs({})
  /\ UNCHANGED signatures /\ DocumentsKept

SignerAdded(r, u) ==
  /\ request[r].status = "draft" /\ u \notin Signers(r)
  /\ StatusMoves({}, "draft") /\ SignersKeptBut(r) /\ Logs({})
  /\ Signers(r)' = Signers(r) \cup {u} /\ Signed(r)' = Signed(r)
  /\ ~signer'[r][u].revoked
  /\ \A v \in Users \ {u} : signer'[r][v].revoked = signer[r][v].revoked
  /\ UNCHANGED signatures /\ DocumentsKept

Opened(r) ==
  /\ request[r].status = "draft" /\ Signers(r) # {}
  /\ document[request[r].doc].status = "ready" /\ request[r].doc \in Documents
  /\ StatusMoves({r}, "open") /\ SignersKept /\ Logs({})
  /\ UNCHANGED signatures /\ DocumentsKept

AccessRevoked(r, u) ==
  /\ StatusMoves({}, "draft") /\ SignersKeptBut(r) /\ Logs({Event("revoked", r, u)})
  /\ Signers(r)' = Signers(r) /\ Signed(r)' = Signed(r) /\ u \in Signers(r)
  /\ signer'[r][u].revoked
  /\ \A v \in Users \ {u} : signer'[r][v].revoked = signer[r][v].revoked
  /\ UNCHANGED signatures /\ DocumentsKept

\* The active requests of S are cancelled; one that stays open keeps its document.
CancelledAll(S) ==
  /\ \A r \in S : request[r].status \in {"draft", "open"}
  /\ StatusMoves(S, "cancelled") /\ SignersKept
  /\ Logs({Event("cancelled", r, None) : r \in S})
  /\ UNCHANGED signatures
  /\ \A r \in Requests : /\ request'[r].doc = request[r].doc
                         /\ request'[r].status = "open" =>
                              document'[request[r].doc] = document[request[r].doc]

\* u signs r; the last signature completes the request.
SignedBy(r, u, s) ==
  /\ request[r].status = "open" /\ u \in Signers(r) \ Signed(r)
  /\ s \in SignatureRow /\ s.request = r /\ s.signer = u
  /\ s.stamps = Signed(r) \cup {u}
  /\ signatures' = signatures \cup {s}
  /\ SignersKeptBut(r) /\ DocumentsKept
  /\ Signers(r)' = Signers(r) /\ Signed(r)' = Signed(r) \cup {u}
  /\ \A v \in Users : signer'[r][v].revoked = signer[r][v].revoked
  /\ \/ /\ Signed(r)' = Signers(r) /\ StatusMoves({r}, "completed")
        /\ Logs({Event("signed", r, u), Event("completed", r, None)})
     \/ /\ Signed(r)' # Signers(r) /\ StatusMoves({}, "draft")
        /\ Logs({Event("signed", r, u)})

\* The steps another session can see.
Effect ==
  \/ Unmoved
  \/ \E r \in Requests :
       \/ Created(r) \/ Opened(r)
       \/ \E u \in Users :
            \/ SignerAdded(r, u) \/ AccessRevoked(r, u)
            \/ \E s \in SignatureRow : SignedBy(r, u, s)
  \/ \E S \in SUBSET Requests : CancelledAll(S)

\* A step that changes no row moves nothing.
LEMMA QuietEffect ==
  ASSUME UNCHANGED rowVars
  PROVE  Unmoved
  BY DEF Unmoved, StatusMoves, SignersKept, Logs, DocumentsKept, rowVars, Signers, Signed

\* A new document or version moves no request.
LEMMA DocumentEffect ==
  ASSUME IndInv, NEW w \in Workers, CreateDocumentCommit(w) \/ AddVersionCommit(w)
  PROVE  Unmoved
<1>1. UNCHANGED <<request, signer, signatures, audit>>
  BY DEF CreateDocumentCommit, AddVersionCommit
<1>2. ASSUME NEW d \in Documents, document[d].status = "ready"
      PROVE  document'[d].status = "ready"
  <2>0. document \in [Documents -> DocumentRow] /\ tx[w].doc \in Documents
    BY DEF IndInv, TypeOK, CallsAreWellFormed, DocumentCalls, CreateDocumentCommit, AddVersionCommit
  <2>1. CASE CreateDocumentCommit(w)
    BY <1>2, <2>0, <2>1, HeldRows DEF CreateDocumentCommit, DocumentCalls
  <2>2. CASE AddVersionCommit(w)
    BY <1>2, <2>0, <2>2 DEF AddVersionCommit, DocumentRow
  <2> QED
    BY <2>1, <2>2
<1> QED
  BY <1>1, <1>2 DEF Unmoved, StatusMoves, SignersKept, Logs, DocumentsKept, Signers, Signed

\* An event of any other kind tells nothing of a request's state.
LEMMA RowEventsOther ==
  ASSUME NEW e, audit' = audit \cup {e}, e.action \notin Telling
  PROVE  Logs({})
  BY DEF Logs, Event

\* The clock and a rotated link move no request.
LEMMA RequestEffect ==
  ASSUME IndInv, NEW r \in Requests,
         \/ Expire(r)
         \/ \E w \in Workers, a \in Users : CreateSigningLink(w, r, a)
  PROVE  Unmoved
<1>1. UNCHANGED <<document, versions, signer, signatures>>
  BY DEF Expire, CreateSigningLink, docVars
<1>2. request \in [Requests -> RequestRow] /\ request[r] \in RequestRow
  BY DEF IndInv, TypeOK
<1>3. \A q \in Requests : request'[q].status = request[q].status /\ request'[q].doc = request[q].doc
  <2>1. CASE Expire(r)
    BY <1>2, <2>1 DEF Expire, RequestRow
  <2>2. ASSUME NEW w \in Workers, NEW a \in Users, CreateSigningLink(w, r, a)
        PROVE  \A q \in Requests : request'[q].status = request[q].status /\ request'[q].doc = request[q].doc
    <3>1. request' = [request EXCEPT ![r].link = request[r].link + 1]
      BY <2>2 DEF CreateSigningLink
    <3> QED
      BY <1>2, <3>1 DEF RequestRow
  <2> QED
    BY <2>1, <2>2
<1>4. Logs({})
  <2>1. CASE Expire(r)
    BY <2>1 DEF Expire, Logs
  <2>2. ASSUME NEW w \in Workers, NEW a \in Users, CreateSigningLink(w, r, a)
        PROVE  Logs({})
    BY <2>2, RowEventsOther DEF CreateSigningLink, Log, Event, Telling
  <2> QED
    BY <2>1, <2>2
<1> QED
  BY <1>1, <1>3, <1>4 DEF Unmoved, StatusMoves, SignersKept, DocumentsKept, Signers, Signed

\* AddSigner and RevokeSignerLink move one signer; View and Decline nothing.
LEMMA SignerEffect ==
  ASSUME IndInv, NEW r \in Requests, NEW a \in Users, NEW u \in Users,
         NEW representative \in BOOLEAN,
         \/ AddSigner(r, a, u, representative)
         \/ RevokeSignerLink(r, a, u)
         \/ View(r, u)
         \/ Decline(r, u)
  PROVE  Effect
<1>1. UNCHANGED <<document, versions, request, signatures>>
  BY DEF AddSigner, RevokeSignerLink, View, Decline, docVars
<1>2. signer \in [Requests -> [Users -> SignerRow]] /\ signer[r][u] \in SignerRow
  BY DEF IndInv, TypeOK
<1>3. StatusMoves({}, "draft") /\ DocumentsKept
  BY <1>1 DEF StatusMoves, DocumentsKept
<1>4. CASE AddSigner(r, a, u, representative)
  <2>1. /\ \A q \in Requests, v \in Users : <<q, v>> # <<r, u>> => signer'[q][v] = signer[q][v]
        /\ signer'[r][u].status = "pending" /\ ~signer'[r][u].revoked
        /\ signer[r][u].status = "absent" /\ request[r].status = "draft"
    BY <1>2, <1>4 DEF AddSigner
  <2>2. SignersKeptBut(r) /\ u \notin Signers(r)
        /\ Signers(r)' = Signers(r) \cup {u} /\ Signed(r)' = Signed(r)
    BY <2>1 DEF SignersKeptBut, Signers, Signed
  <2>3. Logs({})
    BY <1>4, RowEventsOther DEF AddSigner, Log, Event, Telling
  <2> QED
    BY <1>1, <1>3, <2>1, <2>2, <2>3 DEF SignerAdded, Effect
<1>5. CASE RevokeSignerLink(r, a, u)
  <2>0. signer' = [signer EXCEPT ![r][u].revoked = TRUE] /\ signer[r][u].status # "absent"
    BY <1>5 DEF RevokeSignerLink
  <2>1. /\ \A q \in Requests, v \in Users : <<q, v>> # <<r, u>> => signer'[q][v] = signer[q][v]
        /\ signer'[r][u].status = signer[r][u].status /\ signer'[r][u].revoked
    BY <1>2, <2>0 DEF SignerRow
  <2>2. SignersKeptBut(r) /\ u \in Signers(r)
        /\ Signers(r)' = Signers(r) /\ Signed(r)' = Signed(r)
    BY <2>0, <2>1 DEF SignersKeptBut, Signers, Signed
  <2>3. Logs({Event("revoked", r, u)})
    BY <1>5 DEF RevokeSignerLink, Log, Logs
  <2> QED
    BY <1>1, <1>3, <2>1, <2>2, <2>3 DEF AccessRevoked, Effect
<1>6. ASSUME NEW new \in {"viewed", "declined"},
             signer' = [signer EXCEPT ![r][u].status = new],
             signer[r][u].status \notin {"absent", "signed"},
             Log({Event(new, r, u)})
      PROVE  Effect
  <2>1. /\ \A q \in Requests, v \in Users : <<q, v>> # <<r, u>> => signer'[q][v] = signer[q][v]
        /\ signer'[r][u].status = new /\ signer'[r][u].revoked = signer[r][u].revoked
    BY <1>2, <1>6 DEF SignerRow
  <2>2. SignersKept
    BY <1>6, <2>1 DEF SignersKept, Signers, Signed
  <2>3. Logs({})
    BY <1>6, RowEventsOther DEF Log, Event, Telling
  <2> QED
    BY <1>1, <1>3, <2>2, <2>3 DEF Unmoved, Effect
<1>7. CASE View(r, u)
  BY <1>6, <1>7 DEF View, Resolvable
<1>8. CASE Decline(r, u)
  BY <1>6, <1>8 DEF Decline, Resolvable
<1> QED
  BY <1>4, <1>5, <1>7, <1>8

\* The commit of create_request makes a draft.
LEMMA CreateRequestEffect ==
  ASSUME IndInv, NEW w \in Workers, CreateRequestCommit(w)
  PROVE  Effect
<1>0. PICK r \in Requests : r = tx[w].req
  BY DEF IndInv, CallsAreWellFormed, CreateRequestCommit
<1>1. UNCHANGED <<document, versions, signer, signatures>> /\ request[r].status = "absent"
  BY <1>0, HeldRows DEF CreateRequestCommit, docVars
<1>2. request \in [Requests -> RequestRow] /\ request[r] \in RequestRow
  BY DEF IndInv, TypeOK
<1>3. /\ \A q \in Requests \ {r} : request'[q] = request[q]
      /\ request'[r].status = "draft"
  BY <1>0, <1>2 DEF CreateRequestCommit, RequestRow
<1>4. StatusMoves({r}, "draft") /\ DocumentsKept /\ SignersKept
  BY <1>1, <1>3 DEF StatusMoves, DocumentsKept, SignersKept, Signers, Signed
<1>5. Logs({})
  BY <1>0, RowEventsOther DEF CreateRequestCommit, Log, Event, Telling
<1> QED
  BY <1>1, <1>4, <1>5 DEF Created, Effect

\* The commit of open_request opens a draft that has signers and a document.
LEMMA OpenRequestEffect ==
  ASSUME IndInv, NEW w \in Workers, OpenRequestCommit(w)
  PROVE  Effect
<1>0. PICK r \in Requests : r = tx[w].req
  BY DEF IndInv, CallsAreWellFormed, OpenRequestCommit, RequestCalls
<1>1. UNCHANGED <<document, versions, signer, signatures>>
  BY DEF OpenRequestCommit, docVars
<1>2. request \in [Requests -> RequestRow] /\ request[r] \in RequestRow
  BY DEF IndInv, TypeOK
<1>3. /\ \A q \in Requests \ {r} : request'[q] = request[q]
      /\ request'[r].status = "open" /\ request'[r].doc = request[r].doc
  BY <1>0, <1>2 DEF OpenRequestCommit, RequestRow
<1>4. StatusMoves({r}, "open") /\ DocumentsKept /\ SignersKept
  BY <1>1, <1>3 DEF StatusMoves, DocumentsKept, SignersKept, Signers, Signed
<1>5. Logs({})
  BY <1>0, RowEventsOther DEF OpenRequestCommit, Log, Event, Telling
<1>6. /\ request[r].status = "draft" /\ Signers(r) # {}
      /\ document[request[r].doc].status = "ready" /\ request[r].doc \in Documents
  BY <1>0, HeldRows DEF OpenRequestCommit, IndInv, ChecksStillHold, CheckHolds, RequestCalls
<1> QED
  BY <1>1, <1>4, <1>5, <1>6 DEF Opened, Effect

\* cancel_request cancels one active request.
LEMMA CancelEffect ==
  ASSUME IndInv, NEW r \in Requests, NEW a \in Users, CancelRequest(r, a)
  PROVE  Effect
<1>1. UNCHANGED <<document, versions, signer, signatures>> /\ request[r].status \in {"draft", "open"}
  BY DEF CancelRequest, docVars
<1>2. request \in [Requests -> RequestRow] /\ request[r] \in RequestRow
  BY DEF IndInv, TypeOK
<1>3. /\ \A q \in Requests \ {r} : request'[q] = request[q]
      /\ request'[r].status = "cancelled" /\ request'[r].doc = request[r].doc
  BY <1>2 DEF CancelRequest, RequestRow
<1>4. StatusMoves({r}, "cancelled") /\ SignersKept
  BY <1>1, <1>3 DEF StatusMoves, SignersKept, Signers, Signed
<1>5. Logs({Event("cancelled", q, None) : q \in {r}})
  <2>1. {Event("cancelled", q, None) : q \in {r}} = {Event("cancelled", r, None)}
    OBVIOUS
  <2> QED
    BY <2>1 DEF CancelRequest, Log, Logs
<1>6. CancelledAll({r})
  BY <1>1, <1>3, <1>4, <1>5 DEF CancelledAll
<1> QED
  BY <1>6 DEF Effect

\* delete_document cancels every active request of its document.
LEMMA DeleteDocumentEffect ==
  ASSUME IndInv, NEW w \in Workers, NEW force \in BOOLEAN, DeleteDocumentCommit(w, force)
  PROVE  Effect
<1>0. PICK d \in Documents : d = tx[w].doc
  BY DEF IndInv, CallsAreWellFormed, DeleteDocumentCommit, DocumentCalls
<1>1. PICK S \in SUBSET Requests : S = ActiveRequests(d)
  BY DEF ActiveRequests
<1>2. /\ request' = [r \in Requests |->
           IF r \in S THEN [request[r] EXCEPT !.status = "cancelled"] ELSE request[r]]
      /\ Log({Event("cancelled", r, None) : r \in S})
      /\ document' = [document EXCEPT ![d].status = "deleted"]
      /\ UNCHANGED <<versions, signer, signatures>>
  BY <1>0, <1>1 DEF DeleteDocumentCommit
<1>3. \A r \in S : request[r].status \in {"draft", "open"}
  BY <1>1 DEF ActiveRequests
<1>4. \A q \in Requests : /\ request'[q].status = IF q \in S THEN "cancelled" ELSE request[q].status
                          /\ request'[q].doc = request[q].doc
  <2>1. request \in [Requests -> RequestRow]
    BY DEF IndInv, TypeOK
  <2>2. ASSUME NEW q \in Requests
        PROVE  /\ request'[q].status = IF q \in S THEN "cancelled" ELSE request[q].status
               /\ request'[q].doc = request[q].doc
    <3>1. request[q] \in RequestRow
      BY <2>1
    <3>2. request'[q] = IF q \in S THEN [request[q] EXCEPT !.status = "cancelled"] ELSE request[q]
      BY <1>2
    <3> QED
      BY <3>1, <3>2 DEF RequestRow
  <2> QED
    BY <2>2
<1>5. StatusMoves(S, "cancelled") /\ SignersKept
  BY <1>2, <1>4 DEF StatusMoves, SignersKept, Signers, Signed
<1>6. ASSUME NEW r \in Requests, request'[r].status = "open"
      PROVE  document'[request[r].doc] = document[request[r].doc]
  <2>1. r \notin S /\ request[r].status = "open"
    BY <1>4, <1>6
  <2>2. request[r].doc # d
    BY <1>1, <2>1 DEF ActiveRequests
  <2>3. document \in [Documents -> DocumentRow] /\ request[r].doc \in Documents
    BY <2>1 DEF IndInv, TypeOK, RowsAreLinked
  <2> QED
    BY <1>2, <2>2, <2>3
<1>7. Logs({Event("cancelled", r, None) : r \in S})
  BY <1>2 DEF Log, Logs
<1>8. CancelledAll(S)
  BY <1>2, <1>3, <1>4, <1>5, <1>6, <1>7 DEF CancelledAll
<1> QED
  BY <1>8 DEF Effect

\* The commit of sign signs for its signer, with the stamps of all before.
LEMMA SignEffect ==
  ASSUME IndInv, NEW w \in Workers, SignCommit(w)
  PROVE  \E r \in Requests, u \in Users, s \in SignatureRow :
           /\ SignedBy(r, u, s)
           /\ r = tx[w].req /\ u = tx[w].user
           /\ s.key = tx[w].key /\ s.charged = tx[w].charged
<1>0. PICK r \in Requests, u \in Users : r = tx[w].req /\ u = tx[w].user
  BY DEF IndInv, CallsAreWellFormed, RequestCalls, SignCommit
<1> DEFINE s == [request |-> r, signer |-> u, version |-> request[r].version,
                 stamps |-> tx[w].stamps, charged |-> tx[w].charged, key |-> tx[w].key]
<1>1. /\ tx[w].op = "stamp"
      /\ signatures' = signatures \cup {s}
      /\ signer' = [signer EXCEPT ![r][u].status = "signed"]
      /\ request' = [request EXCEPT ![r].status = IF IsLast(r, u) THEN "completed" ELSE @]
      /\ Log({Event("signed", r, u)} \cup
             (IF IsLast(r, u) THEN {Event("completed", r, None)} ELSE {}))
      /\ UNCHANGED <<document, versions>>
  BY <1>0 DEF SignCommit, docVars
<1>2. tx[w].key \in Keys /\ tx[w].stamps \subseteq Users /\ tx[w].charged \in BOOLEAN
  BY <1>1, SMTT(60) DEF IndInv, CallsAreWellFormed, RequestCalls, TypeOK, Call
<1>3. /\ request[r].status = "open"
      /\ signer[r][u].status \notin {"absent", "signed"}
      /\ tx[w].stamps = Signed(r) \cup {u}
  BY <1>0, <1>1 DEF IndInv, ChecksStillHold, CheckHolds
<1>4. request[r] \in RequestRow /\ request[r].version \in 1..MaxVersion
  <2>1. HasVersion(request[r].doc, request[r].version)
    BY <1>3 DEF IndInv, RowsAreLinked
  <2> QED
    BY <2>1 DEF IndInv, TypeOK, HasVersion, VersionRow
<1>5. s \in SignatureRow /\ s.request = r /\ s.signer = u /\ s.stamps = Signed(r) \cup {u}
      /\ s.key = tx[w].key /\ s.charged = tx[w].charged
  BY <1>2, <1>3, <1>4 DEF SignatureRow
<1> HIDE DEF s
<1>6. /\ \A q \in Requests, v \in Users : <<q, v>> # <<r, u>> => signer'[q][v] = signer[q][v]
      /\ signer'[r][u].status = "signed" /\ signer'[r][u].revoked = signer[r][u].revoked
  <2>1. signer[r][u] \in SignerRow /\ signer \in [Requests -> [Users -> SignerRow]]
    BY DEF IndInv, TypeOK
  <2> QED
    BY <1>1, <2>1 DEF SignerRow
<1>7. /\ SignersKeptBut(r) /\ u \in Signers(r) \ Signed(r)
      /\ Signers(r)' = Signers(r) /\ Signed(r)' = Signed(r) \cup {u}
      /\ \A v \in Users : signer'[r][v].revoked = signer[r][v].revoked
  BY <1>3, <1>6 DEF SignersKeptBut, Signers, Signed
<1>8. /\ \A q \in Requests \ {r} : request'[q] = request[q]
      /\ request'[r].status = IF IsLast(r, u) THEN "completed" ELSE "open"
      /\ request'[r].doc = request[r].doc
  <2>1. request \in [Requests -> RequestRow]
    BY DEF IndInv, TypeOK
  <2>2. CASE IsLast(r, u)
    BY <1>1, <1>4, <2>1, <2>2 DEF RequestRow
  <2>3. CASE ~IsLast(r, u)
    BY <1>1, <1>3, <1>4, <2>1, <2>3 DEF RequestRow
  <2> QED
    BY <2>2, <2>3
<1>9. DocumentsKept
  BY <1>1, <1>8 DEF DocumentsKept
<1>10. IsLast(r, u) <=> Signed(r)' = Signers(r)
  <2>1. Unsigned(r) = Signers(r) \ Signed(r) /\ Signed(r) \subseteq Signers(r)
    BY DEF Unsigned, Signers, Signed
  <2> QED
    BY <1>7, <2>1 DEF IsLast
<1>11. CASE IsLast(r, u)
  <2>1. StatusMoves({r}, "completed")
    BY <1>8, <1>11 DEF StatusMoves
  <2>2. Logs({Event("signed", r, u), Event("completed", r, None)})
    BY <1>1, <1>11 DEF Log, Logs
  <2>3. SignedBy(r, u, s)
    BY <1>1, <1>3, <1>5, <1>7, <1>9, <1>10, <1>11, <2>1, <2>2 DEF SignedBy
  <2> QED
    BY <1>0, <1>5, <2>3
<1>12. CASE ~IsLast(r, u)
  <2>1. StatusMoves({}, "draft")
    BY <1>3, <1>8, <1>12 DEF StatusMoves
  <2>2. Logs({Event("signed", r, u)})
    BY <1>1, <1>12 DEF Log, Logs
  <2>3. SignedBy(r, u, s)
    BY <1>1, <1>3, <1>5, <1>7, <1>9, <1>10, <1>12, <2>1, <2>2 DEF SignedBy
  <2> QED
    BY <1>0, <1>5, <2>3
<1> QED
  BY <1>11, <1>12

\* Every step of the workflow is one of these effects.
LEMMA StepEffect ==
  ASSUME IndInv, [Next]_vars
  PROVE  Effect
<1>1. ASSUME NEW w \in Workers, Advance(w) PROVE Effect
  <2>1. ASSUME DeleteDocumentRefuse(w) \/ SignStamp(w) \/ SignRefuse(w)
               \/ \E delivered \in SUBSET Users : SendInvitations(w, delivered)
        PROVE  Effect
    BY <2>1, QuietEffect DEF DeleteDocumentRefuse, SignStamp, SignRefuse, SendInvitations, Effect
  <2>2. ASSUME CreateDocumentCommit(w) \/ AddVersionCommit(w) PROVE Effect
    BY <2>2, DocumentEffect DEF Effect
  <2>3. ASSUME SignCommit(w) PROVE Effect
    BY <2>3, SignEffect DEF Effect
  <2> QED
    BY <1>1, <2>1, <2>2, <2>3, DeleteDocumentEffect, CreateRequestEffect, OpenRequestEffect
       DEF Advance
<1>2. ASSUME NEW w \in Workers,
             \/ \E refused \in BOOLEAN : Fail(w, refused)
             \/ Crash(w)
             \/ \E d \in Documents, u \in Users :
                  \/ CreateDocument(w, d, u)
                  \/ AddVersion(w, d, u)
                  \/ DeleteDocument(w, d, u)
                  \/ \E r \in Requests : CreateRequest(w, r, d, u)
             \/ \E r \in Requests, a \in Users :
                  \/ \E mode \in Modes : OpenRequest(w, r, a, mode)
                  \/ Sign(w, r, a)
      PROVE  Effect
  <2>1. UNCHANGED rowVars
    BY <1>2, ZenonT(60) DEF Fail, Crash, CreateDocument, AddVersion, DeleteDocument, CreateRequest,
       OpenRequest, Sign
  <2> QED
    BY <2>1, QuietEffect, SMTT(60) DEF Effect
<1>3. ASSUME NEW w \in Workers, NEW r \in Requests, NEW a \in Users, CreateSigningLink(w, r, a)
      PROVE  Effect
  BY <1>3, RequestEffect DEF Effect
<1>4. ASSUME NEW r \in Requests, NEW u \in Users,
             \/ \E a \in Users :
                  \/ \E representative \in BOOLEAN : AddSigner(r, a, u, representative)
                  \/ RevokeSignerLink(r, a, u)
             \/ CancelRequest(r, u)
             \/ View(r, u)
             \/ Decline(r, u)
      PROVE  Effect
  BY <1>4, SignerEffect, CancelEffect
<1>5. ASSUME NEW r \in Requests, Expire(r) PROVE Effect
  BY <1>5, RequestEffect DEF Effect
<1>6. ASSUME \/ \E plan \in Plans : ChangePlan(plan)
             \/ GraceLapses
             \/ \E u \in Volatile : ChangeMembership(u)
             \/ UNCHANGED vars
      PROVE  Effect
  <2>1. UNCHANGED rowVars
    BY <1>6 DEF ChangePlan, GraceLapses, ChangeMembership, vars
  <2> QED
    BY <2>1, QuietEffect DEF Effect
<1> QED
  BY <1>1, <1>2, <1>3, <1>4, <1>5, <1>6 DEF Next

-----------------------------------------------------------------------------
(***************************************************************************)
(* What the rows tell                                                      *)
(***************************************************************************)

\* No artifact carries a stamp of somebody who has not signed.
StampsAreSigned == \A s \in signatures : s.stamps \subseteq Signed(s.request)

\* A user who was never asked to sign has no access to revoke.
RevokedAreSigners ==
  \A r \in Requests, u \in Users : signer[r][u].revoked => u \in Signers(r)

\* The invariant of the rows, kept by every step another session can see.
RowInv ==
  /\ OpenRequestHasDocument
  /\ LedgerMatchesRows
  /\ ArtifactsAccumulate
  /\ StampsAreSigned
  /\ RevokedAreSigners

\* Events differ when their action, request or user does.
LEMMA EventsDiffer ==
  ASSUME NEW a, NEW r, NEW u, NEW b, NEW q, NEW v
  PROVE  Event(a, r, u) = Event(b, q, v) <=> a = b /\ r = q /\ u = v
  BY DEF Event

\* An open request keeps its document, and every request its version.
LEMMA DocumentsStep ==
  ASSUME IndInv, IndInv', Effect, OpenRequestHasDocument
  PROVE  OpenRequestHasDocument'
<1>1. \A r \in Requests : request'[r].status # "absent" =>
        \E row \in versions' : row.doc = request'[r].doc /\ row.version = request'[r].version
  BY DEF IndInv, RowsAreLinked, HasVersion
<1>2. ASSUME NEW r \in Requests, request'[r].status = "open"
      PROVE  document'[request'[r].doc].status = "ready"
  <2>1. CASE DocumentsKept /\ request[r].status = "open"
    BY <2>1 DEF OpenRequestHasDocument, DocumentsKept, IndInv, RowsAreLinked
  <2>2. CASE Unmoved
    BY <1>2, <2>1, <2>2 DEF Unmoved, StatusMoves
  <2>3. ASSUME NEW q \in Requests, Created(q)
        PROVE  document'[request'[r].doc].status = "ready"
    BY <1>2, <2>1, <2>3 DEF Created, StatusMoves
  <2>4. ASSUME NEW q \in Requests, Opened(q)
        PROVE  document'[request'[r].doc].status = "ready"
    BY <1>2, <2>1, <2>4 DEF Opened, StatusMoves, DocumentsKept
  <2>5. ASSUME NEW q \in Requests, NEW u \in Users, SignerAdded(q, u) \/ AccessRevoked(q, u)
        PROVE  document'[request'[r].doc].status = "ready"
    BY <1>2, <2>1, <2>5 DEF SignerAdded, AccessRevoked, StatusMoves
  <2>6. ASSUME NEW q \in Requests, NEW u \in Users, NEW s \in SignatureRow, SignedBy(q, u, s)
        PROVE  document'[request'[r].doc].status = "ready"
    BY <1>2, <2>1, <2>6 DEF SignedBy, StatusMoves
  <2>7. ASSUME NEW S \in SUBSET Requests, CancelledAll(S)
        PROVE  document'[request'[r].doc].status = "ready"
    BY <1>2, <2>7 DEF CancelledAll, StatusMoves, OpenRequestHasDocument
  <2> QED
    BY <2>2, <2>3, <2>4, <2>5, <2>6, <2>7 DEF Effect
<1> QED
  BY <1>1, <1>2 DEF OpenRequestHasDocument

\* The ledger and the rows move together.
LEMMA LedgerStep ==
  ASSUME IndInv, Effect, LedgerMatchesRows, RevokedAreSigners
  PROVE  LedgerMatchesRows' /\ RevokedAreSigners'
<1> SUFFICES ASSUME NEW r \in Requests
             PROVE  /\ request'[r].status = "completed" <=> Event("completed", r, None) \in audit'
                    /\ request'[r].status = "cancelled" <=> Event("cancelled", r, None) \in audit'
                    /\ \A u \in Users :
                         /\ u \in Signed(r)' <=> Event("signed", r, u) \in audit'
                         /\ signer'[r][u].revoked <=> Event("revoked", r, u) \in audit'
                         /\ signer'[r][u].revoked => u \in Signers(r)'
  BY DEF LedgerMatchesRows, RevokedAreSigners, Event
<1>0. /\ request[r].status = "completed" <=> Event("completed", r, None) \in audit
      /\ request[r].status = "cancelled" <=> Event("cancelled", r, None) \in audit
      /\ \A u \in Users :
           /\ u \in Signed(r) <=> Event("signed", r, u) \in audit
           /\ signer[r][u].revoked <=> Event("revoked", r, u) \in audit
           /\ signer[r][u].revoked => u \in Signers(r)
  BY DEF LedgerMatchesRows, RevokedAreSigners
<1>1. ASSUME NEW E, Logs(E)
      PROVE  /\ Event("completed", r, None) \in audit' <=> Event("completed", r, None) \in audit \cup E
             /\ Event("cancelled", r, None) \in audit' <=> Event("cancelled", r, None) \in audit \cup E
             /\ \A u \in Users :
                  /\ Event("signed", r, u) \in audit' <=> Event("signed", r, u) \in audit \cup E
                  /\ Event("revoked", r, u) \in audit' <=> Event("revoked", r, u) \in audit \cup E
  BY <1>1 DEF Logs, Telling
<1>2. CASE Unmoved
  BY <1>0, <1>1, <1>2 DEF Unmoved, StatusMoves, SignersKept
<1>3. ASSUME NEW q \in Requests, Created(q) \/ Opened(q)
      PROVE  /\ request'[r].status = "completed" <=> Event("completed", r, None) \in audit'
             /\ request'[r].status = "cancelled" <=> Event("cancelled", r, None) \in audit'
             /\ \A u \in Users :
                  /\ u \in Signed(r)' <=> Event("signed", r, u) \in audit'
                  /\ signer'[r][u].revoked <=> Event("revoked", r, u) \in audit'
                  /\ signer'[r][u].revoked => u \in Signers(r)'
  BY <1>0, <1>1, <1>3 DEF Created, Opened, StatusMoves, SignersKept
<1>4. ASSUME NEW q \in Requests, NEW v \in Users, SignerAdded(q, v)
      PROVE  /\ request'[r].status = "completed" <=> Event("completed", r, None) \in audit'
             /\ request'[r].status = "cancelled" <=> Event("cancelled", r, None) \in audit'
             /\ \A u \in Users :
                  /\ u \in Signed(r)' <=> Event("signed", r, u) \in audit'
                  /\ signer'[r][u].revoked <=> Event("revoked", r, u) \in audit'
                  /\ signer'[r][u].revoked => u \in Signers(r)'
  <2>1. q = r => ~signer[r][v].revoked
    BY <1>0, <1>4 DEF SignerAdded
  <2> QED
    BY <1>0, <1>1, <1>4, <2>1 DEF SignerAdded, StatusMoves, SignersKeptBut
<1>5. ASSUME NEW q \in Requests, NEW v \in Users, AccessRevoked(q, v)
      PROVE  /\ request'[r].status = "completed" <=> Event("completed", r, None) \in audit'
             /\ request'[r].status = "cancelled" <=> Event("cancelled", r, None) \in audit'
             /\ \A u \in Users :
                  /\ u \in Signed(r)' <=> Event("signed", r, u) \in audit'
                  /\ signer'[r][u].revoked <=> Event("revoked", r, u) \in audit'
                  /\ signer'[r][u].revoked => u \in Signers(r)'
  BY <1>0, <1>1, <1>5, EventsDiffer DEF AccessRevoked, StatusMoves, SignersKeptBut
<1>6. ASSUME NEW q \in Requests, NEW v \in Users, NEW s \in SignatureRow, SignedBy(q, v, s)
      PROVE  /\ request'[r].status = "completed" <=> Event("completed", r, None) \in audit'
             /\ request'[r].status = "cancelled" <=> Event("cancelled", r, None) \in audit'
             /\ \A u \in Users :
                  /\ u \in Signed(r)' <=> Event("signed", r, u) \in audit'
                  /\ signer'[r][u].revoked <=> Event("revoked", r, u) \in audit'
                  /\ signer'[r][u].revoked => u \in Signers(r)'
  <2>1. \A u \in Users : u # None
    BY NoneAssumption
  <2> QED
    BY <1>0, <1>1, <1>6, <2>1, EventsDiffer DEF SignedBy, StatusMoves, SignersKeptBut
<1>7. ASSUME NEW S \in SUBSET Requests, CancelledAll(S)
      PROVE  /\ request'[r].status = "completed" <=> Event("completed", r, None) \in audit'
             /\ request'[r].status = "cancelled" <=> Event("cancelled", r, None) \in audit'
             /\ \A u \in Users :
                  /\ u \in Signed(r)' <=> Event("signed", r, u) \in audit'
                  /\ signer'[r][u].revoked <=> Event("revoked", r, u) \in audit'
                  /\ signer'[r][u].revoked => u \in Signers(r)'
  BY <1>0, <1>1, <1>7, EventsDiffer DEF CancelledAll, StatusMoves, SignersKept
<1> QED
  BY <1>2, <1>3, <1>4, <1>5, <1>6, <1>7 DEF Effect

\* Each new artifact carries every stamp of the ones before it.
LEMMA ArtifactsStep ==
  ASSUME IndInv, IndInv', Effect, ArtifactsAccumulate, StampsAreSigned
  PROVE  ArtifactsAccumulate' /\ StampsAreSigned'
<1>0. signatures \subseteq SignatureRow
  BY DEF IndInv, TypeOK
<1>1. CASE UNCHANGED signatures /\ \A r \in Requests : Signed(r)' = Signed(r)
  <2>1. StampsAreSigned'
    BY <1>0, <1>1 DEF StampsAreSigned, SignatureRow
  <2>2. ArtifactsAccumulate'
    BY <1>1 DEF ArtifactsAccumulate
  <2> QED
    BY <2>1, <2>2
<1>2. ASSUME NEW q \in Requests, NEW u \in Users, NEW s \in SignatureRow, SignedBy(q, u, s)
      PROVE  ArtifactsAccumulate' /\ StampsAreSigned'
  <2>1. /\ signatures' = signatures \cup {s} /\ s.request = q
        /\ s.stamps = Signed(q) \cup {u} /\ Signed(q)' = Signed(q) \cup {u}
        /\ \A r \in Requests \ {q} : Signed(r)' = Signed(r)
    BY <1>2 DEF SignedBy, SignersKeptBut
  <2>2. StampsAreSigned'
    BY <1>0, <2>1 DEF StampsAreSigned, SignatureRow
  <2>3. ASSUME NEW r \in Requests, NEW t1 \in signatures', NEW t2 \in signatures',
               t1.request = r, t2.request = r
        PROVE  t1.stamps \subseteq t2.stamps \/ t2.stamps \subseteq t1.stamps
    <3>1. CASE t1 \in signatures /\ t2 \in signatures
      BY <2>3, <3>1 DEF ArtifactsAccumulate
    <3>2. \A t \in signatures : t.request = q => t.stamps \subseteq s.stamps
      BY <2>1 DEF StampsAreSigned
    <3> QED
      BY <2>1, <2>3, <3>1, <3>2
  <2>4. ASSUME NEW r \in Requests, {t \in signatures' : t.request = r} # {}
        PROVE  \E t \in {x \in signatures' : x.request = r} : t.stamps = Signed(r)'
    <3>1. CASE r = q
      BY <2>1, <3>1
    <3>2. CASE r # q
      BY <2>1, <2>4, <3>2 DEF ArtifactsAccumulate
    <3> QED
      BY <3>1, <3>2
  <2>5. \A r \in Requests : {t.signer : t \in {x \in signatures' : x.request = r}} = Signed(r)'
    BY DEF IndInv, RowsOfSigned
  <2>6. ArtifactsAccumulate'
    BY <2>3, <2>4, <2>5 DEF ArtifactsAccumulate
  <2> QED
    BY <2>2, <2>6
<1>3. CASE Unmoved
  BY <1>1, <1>3 DEF Unmoved, SignersKept
<1>4. ASSUME NEW q \in Requests, Created(q) \/ Opened(q)
      PROVE  ArtifactsAccumulate' /\ StampsAreSigned'
  BY <1>1, <1>4 DEF Created, Opened, SignersKept
<1>5. ASSUME NEW q \in Requests, NEW u \in Users, SignerAdded(q, u) \/ AccessRevoked(q, u)
      PROVE  ArtifactsAccumulate' /\ StampsAreSigned'
  BY <1>1, <1>5 DEF SignerAdded, AccessRevoked, SignersKeptBut
<1>6. ASSUME NEW S \in SUBSET Requests, CancelledAll(S)
      PROVE  ArtifactsAccumulate' /\ StampsAreSigned'
  BY <1>1, <1>6 DEF CancelledAll, SignersKept
<1> QED
  BY <1>2, <1>3, <1>4, <1>5, <1>6 DEF Effect

\* What the rows tell is true in every reachable state.
THEOREM RowInvariant == Spec => []RowInv
<1>1. Init => RowInv
  <2> SUFFICES ASSUME Init PROVE RowInv
    OBVIOUS
  <2>1. \A r \in Requests : Signed(r) = {} /\ Signers(r) = {} /\ request[r].status = "absent"
                            /\ \A u \in Users : ~signer[r][u].revoked
    BY DEF Init, Signed, Signers
  <2> QED
    BY <2>1 DEF Init, RowInv, OpenRequestHasDocument, LedgerMatchesRows, ArtifactsAccumulate,
       StampsAreSigned, RevokedAreSigners
<1>2. IndInv /\ IndInv' /\ RowInv /\ [Next]_vars => RowInv'
  BY StepEffect, DocumentsStep, LedgerStep, ArtifactsStep DEF RowInv
<1> QED
  BY <1>1, <1>2, Invariant, PTL DEF Spec

\* What a call checked when it began is still true while it is in flight,
\* whatever the other workers do.
THEOREM ChecksHold == Spec => []ChecksStillHold
<1>1. IndInv => ChecksStillHold
  BY DEF IndInv
<1> QED
  BY <1>1, Invariant, PTL

\* An open request has its document and every request its frozen version:
\* delete_document, open_request and create_request never miss each other.
THEOREM OpenRequestsKeepDocuments == Spec => []OpenRequestHasDocument
<1>1. RowInv => OpenRequestHasDocument
  BY DEF RowInv
<1> QED
  BY <1>1, RowInvariant, PTL

\* The audit ledger has an event for every completion, cancellation, signature
\* and revocation, and none for one that did not commit.
THEOREM LedgerTellsTheRows == Spec => []LedgerMatchesRows
<1>1. RowInv => LedgerMatchesRows
  BY DEF RowInv
<1> QED
  BY <1>1, RowInvariant, PTL

\* The artifacts of a request form a chain whose largest element carries every
\* signature, in whatever order its signers sign.
THEOREM ArtifactsChain == Spec => []ArtifactsAccumulate
<1>1. RowInv => ArtifactsAccumulate
  BY DEF RowInv
<1> QED
  BY <1>1, RowInvariant, PTL

-----------------------------------------------------------------------------
(***************************************************************************)
(* The workflow implements RequestLifecycle                                *)
(***************************************************************************)

\* What the refinement mapping shows of the rows.
StatusMap == [r \in Requests |-> request[r].status]
ExpectedMap == [r \in Requests |-> Signers(r)]
SignedMap == [r \in Requests |-> Signed(r)]

\* Every effect is a step of the abstract life of a request, or none.
LEMMA LifecycleStep ==
  ASSUME Effect
  PROVE  [Lifecycle!Next]_(Lifecycle!lifecycleVars)
<1>1. ASSUME StatusMoves({}, "draft") PROVE StatusMap' = StatusMap
  BY <1>1 DEF StatusMap, StatusMoves
<1>2. ASSUME NEW r \in Requests, NEW s, StatusMoves({r}, s)
      PROVE  StatusMap' = [StatusMap EXCEPT ![r] = s]
  BY <1>2 DEF StatusMap, StatusMoves
<1>3. ASSUME SignersKept PROVE ExpectedMap' = ExpectedMap /\ SignedMap' = SignedMap
  BY <1>3 DEF SignersKept, ExpectedMap, SignedMap
<1>4. CASE Unmoved
  BY <1>1, <1>3, <1>4 DEF Unmoved, Lifecycle!lifecycleVars, StatusMap, ExpectedMap, SignedMap
<1>5. ASSUME NEW r \in Requests, Created(r) PROVE Lifecycle!Next
  <2>1. StatusMap[r] = "absent" /\ StatusMap' = [StatusMap EXCEPT ![r] = "draft"]
    BY <1>2, <1>5 DEF Created, StatusMap
  <2>2. Lifecycle!Create(r)
    BY <1>3, <1>5, <2>1 DEF Created, Lifecycle!Create, StatusMap, ExpectedMap, SignedMap
  <2> QED
    BY <2>2 DEF Lifecycle!Next
<1>6. ASSUME NEW r \in Requests, Opened(r) PROVE Lifecycle!Next
  <2>1. /\ StatusMap[r] = "draft" /\ StatusMap' = [StatusMap EXCEPT ![r] = "open"]
        /\ ExpectedMap[r] # {}
    BY <1>2, <1>6 DEF Opened, StatusMap, ExpectedMap
  <2>2. Lifecycle!Open(r)
    BY <1>3, <1>6, <2>1 DEF Opened, Lifecycle!Open, StatusMap, ExpectedMap, SignedMap
  <2> QED
    BY <2>2 DEF Lifecycle!Next
<1>7. ASSUME NEW r \in Requests, NEW u \in Users, SignerAdded(r, u) PROVE Lifecycle!Next
  <2>1. /\ StatusMap[r] = "draft"
        /\ StatusMap' = StatusMap
        /\ ExpectedMap' = [ExpectedMap EXCEPT ![r] = ExpectedMap[r] \cup {u}]
        /\ SignedMap' = SignedMap
    BY <1>1, <1>7 DEF SignerAdded, SignersKeptBut, StatusMap, ExpectedMap, SignedMap
  <2>2. Lifecycle!Expect(r, u)
    BY <2>1 DEF Lifecycle!Expect, StatusMap, ExpectedMap, SignedMap
  <2> QED
    BY <2>2 DEF Lifecycle!Next
<1>8. ASSUME NEW r \in Requests, NEW u \in Users, AccessRevoked(r, u)
      PROVE  UNCHANGED Lifecycle!lifecycleVars
  <2>1. /\ StatusMap' = StatusMap /\ ExpectedMap' = ExpectedMap /\ SignedMap' = SignedMap
    BY <1>1, <1>8 DEF AccessRevoked, SignersKeptBut, StatusMap, ExpectedMap, SignedMap
  <2> QED
    BY <2>1 DEF Lifecycle!lifecycleVars, StatusMap, ExpectedMap, SignedMap
<1>9. ASSUME NEW r \in Requests, NEW u \in Users, NEW s \in SignatureRow, SignedBy(r, u, s)
      PROVE  Lifecycle!Next
  <2>1. /\ StatusMap[r] = "open" /\ u \in ExpectedMap[r] \ SignedMap[r]
        /\ SignedMap' = [SignedMap EXCEPT ![r] = SignedMap[r] \cup {u}]
        /\ ExpectedMap' = ExpectedMap
    BY <1>9 DEF SignedBy, SignersKeptBut, StatusMap, ExpectedMap, SignedMap
  <2>2. StatusMap' = [StatusMap EXCEPT ![r] =
                        IF SignedMap'[r] = ExpectedMap[r] THEN "completed" ELSE "open"]
    <3>1. SignedMap'[r] = Signed(r)' /\ ExpectedMap[r] = Signers(r)
      BY DEF SignedMap, ExpectedMap
    <3>2. CASE Signed(r)' = Signers(r)
      BY <1>2, <1>9, <3>1, <3>2 DEF SignedBy
    <3>3. CASE Signed(r)' # Signers(r)
      <4>1. StatusMap' = StatusMap
        BY <1>1, <1>9, <3>3 DEF SignedBy
      <4>2. [StatusMap EXCEPT ![r] = "open"] = StatusMap
        BY <2>1 DEF StatusMap
      <4> QED
        BY <3>1, <3>3, <4>1, <4>2
    <3> QED
      BY <3>2, <3>3
  <2>3. Lifecycle!Sign(r, u)
    BY <2>1, <2>2 DEF Lifecycle!Sign, StatusMap, ExpectedMap, SignedMap
  <2> QED
    BY <2>3 DEF Lifecycle!Next
<1>10. ASSUME NEW S \in SUBSET Requests, CancelledAll(S) PROVE Lifecycle!Next
  <2>1. /\ \A r \in S : StatusMap[r] \in {"draft", "open"}
        /\ StatusMap' = [r \in Requests |-> IF r \in S THEN "cancelled" ELSE StatusMap[r]]
    BY <1>10 DEF CancelledAll, StatusMoves, StatusMap
  <2>2. Lifecycle!Cancel(S)
    BY <1>3, <1>10, <2>1 DEF CancelledAll, Lifecycle!Cancel, StatusMap, ExpectedMap, SignedMap
  <2> QED
    BY <2>2 DEF Lifecycle!Next
<1> QED
  BY <1>4, <1>5, <1>6, <1>7, <1>8, <1>9, <1>10 DEF Effect

\* Whatever is in flight, the requests move only by the atomic steps of their
\* abstract life: nobody signs before a request opens or after it closes, and
\* the last signature completes it in the same step.
THEOREM WorkflowImplementsLifecycle == Spec => ImplementsLifecycle
<1>1. Init => Lifecycle!Init
  <2> SUFFICES ASSUME Init PROVE Lifecycle!Init
    OBVIOUS
  <2>1. \A r \in Requests : Signed(r) = {} /\ Signers(r) = {} /\ request[r].status = "absent"
    BY DEF Init, Signed, Signers
  <2> QED
    BY <2>1 DEF Lifecycle!Init
<1>2. IndInv /\ [Next]_vars => [Lifecycle!Next]_(Lifecycle!lifecycleVars)
  BY StepEffect, LifecycleStep
<1> QED
  BY <1>1, <1>2, Invariant, PTL DEF Spec, ImplementsLifecycle, Lifecycle!Spec


-----------------------------------------------------------------------------
(***************************************************************************)
(* What a step does to the calls, the allowance, the mails and the keys    *)
(***************************************************************************)

\* The calls that hold an object nobody else knows of.
StoringCalls == {"create_document", "add_version", "stamp"}

\* A call that stored nothing has no key.
KeysAreHeld == \A w \in Workers : tx[w].op \notin StoringCalls => tx[w].key = 0

Others(w) == \A v \in Workers \ {w} : tx'[v] = tx[v]
LinksKept == \A r \in Requests : request'[r].link = request[r].link
UsedKept == account'.used = account.used

\* Calls begin or end, none of them with an object, an artifact or a mail.
QuietCalls ==
  /\ UNCHANGED <<versions, signatures, objects, lastKey, abandoned, mailed>>
  /\ UsedKept /\ LinksKept
  /\ \A v \in Workers :
       \/ tx'[v] = tx[v]
       \/ tx[v].key = 0 /\ tx'[v].key = 0 /\ tx'[v].op \notin StoringCalls \cup {"invite"}

\* A link is rotated, and its mails may follow.
LinkRotated(w, r) ==
  /\ UNCHANGED <<versions, signatures, objects, lastKey, abandoned, mailed, signer>>
  /\ UsedKept /\ Others(w)
  /\ request'[r].link = request[r].link + 1
  /\ \A q \in Requests \ {r} : request'[q].link = request[q].link
  /\ \/ tx'[w] = tx[w]
     \/ /\ tx[w].key = 0 /\ tx'[w].key = 0 /\ tx'[w].op = "invite"
        /\ tx'[w].req = r /\ tx'[w].link = request[r].link + 1
        /\ tx'[w].to \subseteq Signers(r)

Mailed(w) ==
  /\ UNCHANGED <<versions, signatures, objects, lastKey, abandoned>>
  /\ UsedKept /\ LinksKept /\ Others(w)
  /\ tx[w].op = "invite" /\ tx[w].key = 0 /\ tx'[w] = Idle
  /\ \E to \in SUBSET tx[w].to :
       mailed' = mailed \cup {[request |-> tx[w].req, user |-> u, link |-> tx[w].link] : u \in to}

\* A call stores an object under a new key; an artifact is charged for within
\* the allowance.
Stored(w) ==
  /\ UNCHANGED <<versions, signatures, abandoned, mailed>>
  /\ UsedKept /\ LinksKept /\ Others(w) /\ Put
  /\ tx[w].key = 0 /\ tx'[w].key = lastKey + 1 /\ tx'[w].op \in StoringCalls
  /\ tx'[w].op = "stamp" /\ tx'[w].charged => account.used < FreeLimit

\* A call commits the row that owns its object.
VersionCommitted(w) ==
  /\ UNCHANGED <<signatures, lastKey, abandoned, mailed>>
  /\ UsedKept /\ LinksKept /\ Others(w) /\ objects' \in ObjectsAfterCommit(w)
  /\ tx[w].op \in StoringCalls /\ tx[w].key \in Keys /\ tx'[w] = Idle
  /\ \E row \in VersionRow : row.key = tx[w].key /\ versions' = versions \cup {row}

SignatureCommitted(w) ==
  /\ UNCHANGED <<versions, lastKey, abandoned, mailed>>
  /\ account'.used = IF tx[w].charged THEN account.used + 1 ELSE account.used
  /\ LinksKept /\ Others(w) /\ objects' \in ObjectsAfterCommit(w)
  /\ tx[w].op = "stamp" /\ tx[w].key \in Keys /\ tx'[w] = Idle
  /\ \E s \in SignatureRow : /\ s.key = tx[w].key /\ s.charged = tx[w].charged
                             /\ s \notin signatures /\ signatures' = signatures \cup {s}

\* A call fails or its worker dies: no row is left of it.
RolledBack(w) ==
  /\ UNCHANGED <<versions, signatures, lastKey, mailed>>
  /\ UsedKept /\ LinksKept /\ Others(w) /\ tx'[w] = Idle
  /\ \/ objects' = objects \ {tx[w].key} /\ UNCHANGED abandoned
     \/ /\ UNCHANGED objects
        /\ abandoned' = IF tx[w].key # 0 THEN abandoned \cup {tx[w].key} ELSE abandoned

CallEffect ==
  \/ QuietCalls
  \/ \E w \in Workers :
       \/ \E r \in Requests : LinkRotated(w, r)
       \/ Mailed(w) \/ Stored(w) \/ VersionCommitted(w) \/ SignatureCommitted(w)
       \/ RolledBack(w)

\* A call's fields after it ends, and the calls beside it.
LEMMA CallOver ==
  ASSUME IndInv, NEW w \in Workers, Finish(w)
  PROVE  Others(w) /\ tx'[w] = Idle /\ Idle.key = 0 /\ Idle.op = "idle"
  BY DEF IndInv, TypeOK, Finish, Idle, Others

\* A call that begins, and the calls beside it.
LEMMA CallBegun ==
  ASSUME IndInv, NEW w \in Workers, NEW c, Begin(w, c)
  PROVE  Others(w) /\ tx[w] = Idle /\ tx'[w] = c /\ Idle.key = 0 /\ Idle.op = "idle"
  BY DEF IndInv, TypeOK, Begin, Idle, Others

\* Calls that only lock and read.
LEMMA BeginEffect ==
  ASSUME IndInv, NEW w \in Workers, NEW u \in Users,
         \/ \E d \in Documents : \/ DeleteDocument(w, d, u)
                                 \/ \E r \in Requests : CreateRequest(w, r, d, u)
         \/ \E r \in Requests : \/ \E mode \in Modes : OpenRequest(w, r, u, mode)
                                \/ Sign(w, r, u)
  PROVE  QuietCalls
<1>1. UNCHANGED <<rowVars, tenantVars, storeVars, mailed>>
  BY DEF DeleteDocument, CreateRequest, OpenRequest, Sign
<1>2. ASSUME NEW c, Begin(w, c), c.key = 0, c.op \notin StoringCalls \cup {"invite"}
      PROVE  QuietCalls
  BY <1>1, <1>2, CallBegun DEF QuietCalls, Others, UsedKept, LinksKept, rowVars, tenantVars, storeVars
<1>3. ASSUME NEW d \in Documents, DeleteDocument(w, d, u) PROVE QuietCalls
  BY <1>2, <1>3 DEF DeleteDocument, Idle, StoringCalls
<1>4. ASSUME NEW d \in Documents, NEW r \in Requests, CreateRequest(w, r, d, u) PROVE QuietCalls
  BY <1>2, <1>4, ZenonT(60) DEF CreateRequest, Idle, StoringCalls
<1>5. ASSUME NEW r \in Requests, NEW mode \in Modes, OpenRequest(w, r, u, mode) PROVE QuietCalls
  BY <1>2, <1>5, ZenonT(60) DEF OpenRequest, Idle, StoringCalls
<1>6. ASSUME NEW r \in Requests, Sign(w, r, u) PROVE QuietCalls
  BY <1>2, <1>6, ZenonT(60) DEF Sign, Idle, StoringCalls
<1> QED
  BY <1>3, <1>4, <1>5, <1>6, SMTT(60)

\* create_document, add_version and sign store under a new key.
LEMMA StoreEffect ==
  ASSUME IndInv, KeysAreHeld, NEW w \in Workers,
         \/ \E d \in Documents, u \in Users : CreateDocument(w, d, u) \/ AddVersion(w, d, u)
         \/ SignStamp(w)
  PROVE  Stored(w)
<1>1. UNCHANGED <<rowVars, tenantVars, abandoned, mailed>> /\ Put
  BY DEF CreateDocument, AddVersion, SignStamp
<1>2. ASSUME NEW d \in Documents, NEW u \in Users, CreateDocument(w, d, u)
      PROVE  Stored(w)
  <2> DEFINE c == [Idle EXCEPT !.op = "create_document", !.doc = d, !.user = u,
                               !.key = lastKey + 1, !.charged = PaidAccess]
  <2>1. Begin(w, c) /\ c.op = "create_document" /\ c.key = lastKey + 1
    BY <1>2 DEF CreateDocument, Idle
  <2> HIDE DEF c
  <2> QED
    BY <1>1, <2>1, CallBegun DEF Stored, UsedKept, LinksKept, rowVars, tenantVars, StoringCalls
<1>3. ASSUME NEW d \in Documents, NEW u \in Users, AddVersion(w, d, u)
      PROVE  Stored(w)
  <2> DEFINE c == [Idle EXCEPT !.op = "add_version", !.doc = d, !.user = u,
                               !.key = lastKey + 1]
  <2>1. Begin(w, c) /\ c.op = "add_version" /\ c.key = lastKey + 1
    BY <1>3 DEF AddVersion, Idle
  <2> HIDE DEF c
  <2> QED
    BY <1>1, <2>1, CallBegun DEF Stored, UsedKept, LinksKept, rowVars, tenantVars, StoringCalls
<1>4. CASE SignStamp(w)
  <2>1. tx \in [Workers -> Call] /\ tx[w].key = 0
    BY <1>4 DEF IndInv, TypeOK, KeysAreHeld, StoringCalls, SignStamp
  <2>2. Others(w) /\ tx'[w].op = "stamp" /\ tx'[w].key = lastKey + 1 /\ tx'[w].charged = ~Unmetered
    BY <1>4, <2>1 DEF SignStamp, Call, Others
  <2>3. ~Unmetered => account.used < FreeLimit
    BY <1>4 DEF SignStamp, MayConsumeSignature
  <2> QED
    BY <1>1, <2>1, <2>2, <2>3 DEF Stored, UsedKept, LinksKept, rowVars, tenantVars, StoringCalls
<1> QED
  BY <1>2, <1>3, <1>4

\* The commits of create_document and add_version add one version row.
LEMMA CommitVersionEffect ==
  ASSUME IndInv, IndInv', NEW w \in Workers, CreateDocumentCommit(w) \/ AddVersionCommit(w)
  PROVE  VersionCommitted(w)
<1>1. /\ UNCHANGED <<request, signatures, lastKey, abandoned, mailed>>
      /\ objects' \in ObjectsAfterCommit(w) /\ Finish(w)
      /\ tx[w].op \in StoringCalls
  BY DEF CreateDocumentCommit, AddVersionCommit, StoringCalls
<1>2. tx[w].key \in Keys
  BY DEF IndInv, CallsAreWellFormed, CreateDocumentCommit, AddVersionCommit
<1>3. UsedKept
  <2>1. account \in [plan: AllPlans, used: Nat, files: Nat]
    BY DEF IndInv, TypeOK, AccountRow
  <2> QED
    BY <2>1 DEF CreateDocumentCommit, AddVersionCommit, tenantVars, UsedKept
<1>4. \E row \in VersionRow : row.key = tx[w].key /\ versions' = versions \cup {row}
  <2>1. \E row : row.key = tx[w].key /\ versions' = versions \cup {row}
    BY DEF CreateDocumentCommit, AddVersionCommit
  <2> QED
    BY <2>1 DEF IndInv, TypeOK
<1> QED
  BY <1>1, <1>2, <1>3, <1>4, CallOver DEF VersionCommitted, LinksKept

\* The commit of sign adds one new signature row and its charge.
LEMMA CommitSignatureEffect ==
  ASSUME IndInv, NEW w \in Workers, SignCommit(w)
  PROVE  SignatureCommitted(w)
<1>1. /\ UNCHANGED <<versions, lastKey, abandoned, mailed>>
      /\ account' = [account EXCEPT !.used = IF tx[w].charged THEN @ + 1 ELSE @]
      /\ objects' \in ObjectsAfterCommit(w) /\ Finish(w) /\ tx[w].op = "stamp"
  BY DEF SignCommit, docVars
<1>2. tx[w].key \in Keys /\ tx[w].req \in Requests
  BY <1>1 DEF IndInv, CallsAreWellFormed, RequestCalls
<1>3. account'.used = IF tx[w].charged THEN account.used + 1 ELSE account.used
  <2>1. account \in [plan: AllPlans, used: Nat, files: Nat]
    BY DEF IndInv, TypeOK, AccountRow
  <2> QED
    BY <1>1, <2>1
<1>4. LinksKept
  <2>1. request \in [Requests -> RequestRow]
    BY DEF IndInv, TypeOK
  <2>2. PICK s : request' = [request EXCEPT ![tx[w].req].status = s]
    BY DEF SignCommit
  <2> QED
    BY <1>2, <2>1, <2>2 DEF LinksKept, RequestRow
<1>5. PICK r \in Requests, u \in Users, s \in SignatureRow :
        SignedBy(r, u, s) /\ s.key = tx[w].key /\ s.charged = tx[w].charged
  BY SignEffect
<1>6. s \notin signatures /\ signatures' = signatures \cup {s}
  <2>1. u \notin {t.signer : t \in {x \in signatures : x.request = r}}
    BY <1>5 DEF SignedBy, IndInv, RowsOfSigned
  <2> QED
    BY <1>5, <2>1 DEF SignedBy
<1> QED
  BY <1>1, <1>2, <1>3, <1>4, <1>5, <1>6, CallOver DEF SignatureCommitted

\* Calls that end without an object of their own.
LEMMA EndEffect ==
  ASSUME IndInv, KeysAreHeld, NEW w \in Workers,
         \/ DeleteDocumentRefuse(w) \/ SignRefuse(w)
         \/ \E force \in BOOLEAN : DeleteDocumentCommit(w, force)
         \/ CreateRequestCommit(w) \/ OpenRequestCommit(w)
  PROVE  QuietCalls
<1>1. /\ UNCHANGED <<versions, signatures, storeVars, tenantVars, mailed>> /\ Finish(w)
      /\ tx[w].op \notin StoringCalls
  BY DEF DeleteDocumentRefuse, SignRefuse, DeleteDocumentCommit, CreateRequestCommit,
     OpenRequestCommit, rowVars, docVars, StoringCalls
<1>2. LinksKept
  <2>1. request \in [Requests -> RequestRow]
    BY DEF IndInv, TypeOK
  <2>2. ASSUME NEW force \in BOOLEAN, DeleteDocumentCommit(w, force) PROVE LinksKept
    <3> SUFFICES ASSUME NEW r \in Requests PROVE request'[r].link = request[r].link
      BY DEF LinksKept
    <3>1. request[r] \in RequestRow
      BY <2>1
    <3>2. request'[r] = request[r] \/ request'[r] = [request[r] EXCEPT !.status = "cancelled"]
      BY <2>2 DEF DeleteDocumentCommit
    <3> QED
      BY <3>1, <3>2 DEF RequestRow
  <2>3. ASSUME CreateRequestCommit(w) \/ OpenRequestCommit(w) PROVE LinksKept
    <3>1. tx[w].req \in Requests
      BY <2>3 DEF IndInv, CallsAreWellFormed, CreateRequestCommit, OpenRequestCommit, RequestCalls
    <3> QED
      BY <2>1, <2>3, <3>1 DEF LinksKept, CreateRequestCommit, OpenRequestCommit, RequestRow
  <2>4. CASE DeleteDocumentRefuse(w) \/ SignRefuse(w)
    BY <2>4 DEF DeleteDocumentRefuse, SignRefuse, rowVars, LinksKept
  <2> QED
    BY <2>2, <2>3, <2>4
<1> QED
  BY <1>1, <1>2, CallOver DEF QuietCalls, Others, UsedKept, storeVars, tenantVars, KeysAreHeld,
     StoringCalls

\* SendInvitations mails what its call holds.
LEMMA MailEffect ==
  ASSUME IndInv, KeysAreHeld, NEW w \in Workers, NEW delivered \in SUBSET Users,
         SendInvitations(w, delivered)
  PROVE  Mailed(w)
  BY CallOver DEF SendInvitations, Mailed, rowVars, tenantVars, storeVars, UsedKept, LinksKept,
     KeysAreHeld, StoringCalls

\* create_signing_link saves its link before it mails it.
LEMMA LinkEffect ==
  ASSUME IndInv, NEW w \in Workers, NEW r \in Requests, NEW a \in Users, CreateSigningLink(w, r, a)
  PROVE  LinkRotated(w, r)
<1>1. PICK waiting \in SUBSET Users :
        waiting = {u \in Users : /\ signer[r][u].status \in {"pending", "viewed"}
                                 /\ ~signer[r][u].revoked}
  OBVIOUS
<1>2. /\ UNCHANGED <<versions, signatures, storeVars, tenantVars, mailed, signer>>
      /\ request' = [request EXCEPT ![r].link = request[r].link + 1]
  BY DEF CreateSigningLink, docVars
<1>3. /\ request'[r].link = request[r].link + 1
      /\ \A q \in Requests \ {r} : request'[q].link = request[q].link
  <2>1. request \in [Requests -> RequestRow] /\ request[r] \in RequestRow
    BY DEF IndInv, TypeOK
  <2> QED
    BY <1>2, <2>1 DEF RequestRow
<1>4. waiting \subseteq Signers(r)
  BY <1>1 DEF Signers
<1>5. CASE UNCHANGED tx
  BY <1>2, <1>3, <1>5 DEF LinkRotated, Others, UsedKept, storeVars, tenantVars
<1>6. CASE Begin(w, [Idle EXCEPT !.op = "invite", !.req = r, !.to = waiting,
                                 !.link = request[r].link + 1])
  <2> DEFINE c == [Idle EXCEPT !.op = "invite", !.req = r, !.to = waiting,
                               !.link = request[r].link + 1]
  <2>1. /\ Begin(w, c) /\ c.op = "invite" /\ c.req = r /\ c.to = waiting /\ c.key = 0
        /\ c.link = request[r].link + 1
    BY <1>6 DEF Idle
  <2> HIDE DEF c
  <2> QED
    BY <1>2, <1>3, <1>4, <2>1, CallBegun DEF LinkRotated, UsedKept, storeVars, tenantVars
<1> QED
  BY <1>1, <1>5, <1>6 DEF CreateSigningLink

\* An exception or the death of a worker leaves no row.
LEMMA RollbackEffect ==
  ASSUME IndInv, NEW w \in Workers, NEW refused \in BOOLEAN, Fail(w, refused) \/ Crash(w)
  PROVE  RolledBack(w)
  BY CallOver DEF Fail, Crash, ObjectsAfterFailure, RolledBack, rowVars, tenantVars, UsedKept, LinksKept

\* Steps outside every call.
LEMMA OutsideEffect ==
  ASSUME IndInv,
         \/ \E r \in Requests, a \in Users, u \in Users :
              \/ \E b \in BOOLEAN : AddSigner(r, a, u, b)
              \/ RevokeSignerLink(r, a, u)
              \/ CancelRequest(r, u) \/ View(r, u) \/ Decline(r, u)
         \/ \E r \in Requests : Expire(r)
         \/ \E plan \in Plans : ChangePlan(plan)
         \/ GraceLapses
         \/ \E u \in Volatile : ChangeMembership(u)
         \/ UNCHANGED vars
  PROVE  QuietCalls
<1>1. UNCHANGED <<versions, signatures, storeVars, mailed, tx>>
  <2>1. ASSUME NEW r \in Requests, NEW a \in Users, NEW u \in Users, NEW b \in BOOLEAN,
               AddSigner(r, a, u, b) \/ RevokeSignerLink(r, a, u) \/ CancelRequest(r, u)
               \/ View(r, u) \/ Decline(r, u)
        PROVE  UNCHANGED <<versions, signatures, storeVars, mailed, tx>>
    BY <2>1 DEF AddSigner, RevokeSignerLink, CancelRequest, View, Decline, docVars
  <2>2. ASSUME \/ \E r \in Requests : Expire(r)
               \/ \E plan \in Plans : ChangePlan(plan)
               \/ GraceLapses
               \/ \E u \in Volatile : ChangeMembership(u)
               \/ UNCHANGED vars
        PROVE  UNCHANGED <<versions, signatures, storeVars, mailed, tx>>
    BY <2>2 DEF Expire, ChangePlan, GraceLapses, ChangeMembership, vars, rowVars, docVars
  <2> QED
    BY <2>1, <2>2
<1>2. LinksKept
  <2>1. request \in [Requests -> RequestRow]
    BY DEF IndInv, TypeOK
  <2>2. ASSUME NEW r \in Requests, NEW u \in Users, CancelRequest(r, u)
        PROVE  LinksKept
    BY <2>1, <2>2 DEF CancelRequest, LinksKept, RequestRow
  <2>3. ASSUME NEW r \in Requests, NEW a \in Users, NEW u \in Users, NEW b \in BOOLEAN,
               AddSigner(r, a, u, b) \/ RevokeSignerLink(r, a, u) \/ View(r, u) \/ Decline(r, u)
        PROVE  LinksKept
    BY <2>3 DEF AddSigner, RevokeSignerLink, View, Decline, LinksKept
  <2>4. ASSUME \/ \E plan \in Plans : ChangePlan(plan)
               \/ GraceLapses
               \/ \E u \in Volatile : ChangeMembership(u)
               \/ UNCHANGED vars
        PROVE  LinksKept
    BY <2>4 DEF ChangePlan, GraceLapses, ChangeMembership, vars, rowVars, LinksKept
  <2>5. ASSUME NEW r \in Requests, Expire(r) PROVE LinksKept
    BY <2>1, <2>5 DEF Expire, LinksKept, RequestRow
  <2> QED
    BY <2>2, <2>3, <2>4, <2>5
<1>3. UsedKept
  <2>1. account \in [plan: AllPlans, used: Nat, files: Nat]
    BY DEF IndInv, TypeOK, AccountRow
  <2>2. ASSUME NEW r \in Requests, NEW a \in Users, NEW u \in Users, NEW b \in BOOLEAN,
               AddSigner(r, a, u, b) \/ RevokeSignerLink(r, a, u) \/ CancelRequest(r, u)
               \/ View(r, u) \/ Decline(r, u)
        PROVE  UsedKept
    BY <2>2 DEF AddSigner, RevokeSignerLink, CancelRequest, View, Decline, tenantVars, UsedKept
  <2>3. ASSUME \/ \E plan \in Plans : ChangePlan(plan)
               \/ GraceLapses
        PROVE  UsedKept
    BY <2>1, <2>3 DEF ChangePlan, GraceLapses, UsedKept
  <2>4. ASSUME \/ \E r \in Requests : Expire(r)
               \/ \E u \in Volatile : ChangeMembership(u)
               \/ UNCHANGED vars
        PROVE  UsedKept
    BY <2>4 DEF Expire, ChangeMembership, vars, tenantVars, UsedKept
  <2> QED
    BY <2>2, <2>3, <2>4
<1> QED
  BY <1>1, <1>2, <1>3 DEF QuietCalls, storeVars

\* Every step of the workflow does one of these things to the calls.
LEMMA StepCallEffect ==
  ASSUME IndInv, IndInv', KeysAreHeld, [Next]_vars
  PROVE  CallEffect
<1>1. ASSUME NEW w \in Workers, Advance(w) PROVE CallEffect
  BY <1>1, CommitVersionEffect, CommitSignatureEffect, EndEffect, MailEffect, StoreEffect
     DEF Advance, CallEffect
<1>2. ASSUME NEW w \in Workers, Crash(w) \/ \E refused \in BOOLEAN : Fail(w, refused)
      PROVE  CallEffect
  BY <1>2, RollbackEffect DEF CallEffect
<1>3. ASSUME NEW w \in Workers, NEW d \in Documents, NEW u \in Users,
             CreateDocument(w, d, u) \/ AddVersion(w, d, u)
      PROVE  CallEffect
  BY <1>3, StoreEffect DEF CallEffect
<1>4. ASSUME NEW w \in Workers, NEW d \in Documents, NEW u \in Users,
             \/ DeleteDocument(w, d, u)
             \/ \E r \in Requests : CreateRequest(w, r, d, u)
      PROVE  CallEffect
  BY <1>4, BeginEffect DEF CallEffect
<1>5. ASSUME NEW w \in Workers, NEW r \in Requests, NEW a \in Users,
             \/ \E mode \in Modes : OpenRequest(w, r, a, mode)
             \/ Sign(w, r, a)
      PROVE  CallEffect
  BY <1>5, BeginEffect DEF CallEffect
<1>6. ASSUME NEW w \in Workers, NEW r \in Requests, NEW a \in Users, CreateSigningLink(w, r, a)
      PROVE  CallEffect
  BY <1>6, LinkEffect DEF CallEffect
<1>7. ASSUME \/ \E r \in Requests, u \in Users :
                  \/ \E a \in Users :
                       \/ \E representative \in BOOLEAN : AddSigner(r, a, u, representative)
                       \/ RevokeSignerLink(r, a, u)
                  \/ CancelRequest(r, u)
                  \/ View(r, u)
                  \/ Decline(r, u)
             \/ \E r \in Requests : Expire(r)
             \/ \E plan \in Plans : ChangePlan(plan)
             \/ GraceLapses
             \/ \E u \in Volatile : ChangeMembership(u)
             \/ UNCHANGED vars
      PROVE  CallEffect
  BY <1>7, OutsideEffect DEF CallEffect
<1> QED
  BY <1>1, <1>2, <1>3, <1>4, <1>5, <1>6, <1>7 DEF Next

-----------------------------------------------------------------------------
(***************************************************************************)
(* Invitations, the free allowance and the keys of the object store        *)
(***************************************************************************)

\* A call that is about to mail a link names one that is committed, and only
\* signers of its request.
InvitesAreCommitted ==
  \A w \in Workers : tx[w].op = "invite" =>
    /\ tx[w].link \in 1..request[tx[w].req].link
    /\ tx[w].to \subseteq Signers(tx[w].req)

\* A charged artifact in flight still fits in the allowance.
ChargesFit ==
  \A w \in Workers : tx[w].op = "stamp" /\ tx[w].charged => account.used < FreeLimit

\* The invariant of the calls: what they hold, mail and charge.
CallInv ==
  /\ KeysAreHeld
  /\ InvitesAreCommitted
  /\ InvitationsFollowCommit
  /\ ChargesFit
  /\ IsFiniteSet(signatures)
  /\ FreeAllowanceIsExact

\* Only a storing call has a key.
LEMMA KeysHeldStep ==
  ASSUME KeysAreHeld, CallEffect
  PROVE  KeysAreHeld'
<1>1. Idle.key = 0 /\ Idle.op = "idle"
  BY DEF Idle
<1> QED
  BY <1>1 DEF KeysAreHeld, CallEffect, QuietCalls, LinkRotated, Mailed, Stored, VersionCommitted,
     SignatureCommitted, RolledBack, Others

\* Whoever is asked to sign stays so.
LEMMA SignersGrow ==
  ASSUME Effect, NEW r \in Requests
  PROVE  Signers(r) \subseteq Signers(r)'
  BY ZenonT(60) DEF Effect, Unmoved, Created, Opened, SignerAdded, AccessRevoked, SignedBy, CancelledAll,
     SignersKept, SignersKeptBut

\* A link is never taken back.
LEMMA LinksGrow ==
  ASSUME IndInv, IndInv', CallEffect, NEW r \in Requests
  PROVE  /\ request[r].link \in Nat /\ request'[r].link \in Nat
         /\ request[r].link <= request'[r].link
<1>1. request[r].link \in Nat /\ request'[r].link \in Nat
  BY BoundsAssumption DEF IndInv, TypeOK, RequestRow
<1>2. request'[r].link \in {request[r].link, request[r].link + 1}
  BY DEF CallEffect, QuietCalls, LinkRotated, Mailed, Stored, VersionCommitted,
     SignatureCommitted, RolledBack, LinksKept
<1> QED
  BY <1>1, <1>2

\* Mails and the calls that send them name committed links.
LEMMA InvitationsStep ==
  ASSUME IndInv, IndInv', Effect, CallEffect, InvitesAreCommitted, InvitationsFollowCommit
  PROVE  InvitesAreCommitted' /\ InvitationsFollowCommit'
<1>0. Idle.op = "idle"
  BY DEF Idle
<1>1. mailed \subseteq Invitation /\ \A w \in Workers : tx[w].op = "invite" => tx[w].req \in Requests
  BY DEF IndInv, TypeOK, CallsAreWellFormed
<1>2. \A r \in Requests : \A n : n \in 1..request[r].link => n \in 1..request'[r].link
  BY LinksGrow
<1>3. ASSUME NEW w \in Workers, tx'[w].op = "invite", tx'[w] # tx[w]
      PROVE  \E r \in Requests : LinkRotated(w, r) /\ tx'[w].req = r
               /\ tx'[w].link = request'[r].link /\ tx'[w].to \subseteq Signers(r)
  BY <1>0, <1>3 DEF CallEffect, QuietCalls, LinkRotated, Mailed, Stored, VersionCommitted,
     SignatureCommitted, RolledBack, Others, StoringCalls
<1>4. InvitesAreCommitted'
  <2> SUFFICES ASSUME NEW w \in Workers, (tx[w].op = "invite")'
               PROVE  (/\ tx[w].link \in 1..request[tx[w].req].link
                       /\ tx[w].to \subseteq Signers(tx[w].req))'
    BY DEF InvitesAreCommitted
  <2>1. CASE tx'[w] = tx[w]
    <3>1. PICK r \in Requests : r = tx[w].req
      BY <1>1, <2>1
    <3>2. tx[w].link \in 1..request[r].link /\ tx[w].to \subseteq Signers(r)
      BY <2>1, <3>1 DEF InvitesAreCommitted
    <3> QED
      BY <1>2, <2>1, <3>1, <3>2, SignersGrow
  <2>2. CASE tx'[w] # tx[w]
    <3>1. PICK r \in Requests : LinkRotated(w, r) /\ tx'[w].req = r
               /\ tx'[w].link = request'[r].link /\ tx'[w].to \subseteq Signers(r)
      BY <1>3, <2>2
    <3>2. request'[r].link \in 1..request'[r].link
      BY <3>1, LinksGrow DEF LinkRotated
    <3> QED
      BY <3>1, <3>2, SignersGrow
  <2> QED
    BY <2>1, <2>2
<1>5. InvitationsFollowCommit'
  <2> SUFFICES ASSUME NEW m \in mailed'
               PROVE  /\ m.link \in 1..request'[m.request].link
                      /\ signer'[m.request][m.user].status # "absent"
    BY DEF InvitationsFollowCommit
  <2>1. CASE m \in mailed
    <3>1. m.request \in Requests /\ m.user \in Users
      BY <1>1, <2>1 DEF Invitation
    <3>2. m.link \in 1..request[m.request].link /\ m.user \in Signers(m.request)
      BY <2>1, <3>1 DEF InvitationsFollowCommit, Signers
    <3>3. m.user \in Signers(m.request)'
      BY <3>1, <3>2, SignersGrow
    <3> QED
      BY <1>2, <3>1, <3>2, <3>3 DEF Signers
  <2>2. CASE m \notin mailed
    <3>1. PICK w \in Workers : Mailed(w)
      BY <2>2 DEF CallEffect, QuietCalls, LinkRotated, Stored, VersionCommitted,
         SignatureCommitted, RolledBack
    <3>2. PICK u \in tx[w].to : m = [request |-> tx[w].req, user |-> u, link |-> tx[w].link]
      BY <2>2, <3>1 DEF Mailed
    <3>3. /\ tx[w].req \in Requests /\ tx[w].link \in 1..request[tx[w].req].link
          /\ u \in Signers(tx[w].req)
      BY <1>1, <3>1, <3>2 DEF Mailed, InvitesAreCommitted
    <3>4. PICK r \in Requests : r = tx[w].req
      BY <3>3
    <3>5. u \in Signers(r)'
      BY <3>3, <3>4, SignersGrow
    <3> QED
      BY <1>2, <3>2, <3>3, <3>4, <3>5 DEF Signers
  <2> QED
    BY <2>1, <2>2
<1> QED
  BY <1>4, <1>5

\* The count of charged signatures and the allowance move together.
LEMMA AllowanceStep ==
  ASSUME IndInv, CallEffect, ChargesFit, IsFiniteSet(signatures), FreeAllowanceIsExact
  PROVE  ChargesFit' /\ IsFiniteSet(signatures') /\ FreeAllowanceIsExact'
<1>0. Idle.op = "idle" /\ account.used \in Nat /\ FreeLimit \in Nat
  BY BoundsAssumption DEF Idle, IndInv, TypeOK, AccountRow
<1>1. CASE UNCHANGED signatures /\ UsedKept
           /\ \A v \in Workers : tx'[v].op = "stamp" =>
                tx'[v] = tx[v] \/ (tx'[v].charged => account.used < FreeLimit)
  BY <1>0, <1>1 DEF ChargesFit, FreeAllowanceIsExact, UsedKept
<1>2. ASSUME NEW w \in Workers, SignatureCommitted(w)
      PROVE  ChargesFit' /\ IsFiniteSet(signatures') /\ FreeAllowanceIsExact'
  <2>1. PICK s \in SignatureRow : /\ s.charged = tx[w].charged
                                  /\ s \notin signatures /\ signatures' = signatures \cup {s}
    BY <1>2 DEF SignatureCommitted
  <2>2. \A v \in Workers : tx'[v].op # "stamp"
    BY <1>0, <1>2 DEF SignatureCommitted, Others, IndInv, LocksAreExclusive, AccountCalls
  <2>3. IsFiniteSet(signatures')
    BY <2>1, FS_AddElement
  <2> DEFINE paid == {t \in signatures : t.charged}
  <2>4. IsFiniteSet(paid)
    BY FS_Subset
  <2>5. CASE tx[w].charged
    <3>1. {t \in signatures' : t.charged} = paid \cup {s} /\ s \notin paid
      BY <2>1, <2>5
    <3>2. Cardinality(paid \cup {s}) = Cardinality(paid) + 1
      BY <2>4, <3>1, FS_AddElement
    <3>3. account'.used = account.used + 1 /\ account.used < FreeLimit
      BY <1>2, <2>5 DEF SignatureCommitted, ChargesFit
    <3>4. account.used = Cardinality(paid)
      BY DEF FreeAllowanceIsExact
    <3>5. Cardinality({t \in signatures' : t.charged}) = account.used + 1
      BY <3>1, <3>2, <3>4, Zenon
    <3>6. FreeAllowanceIsExact'
      BY <1>0, <3>3, <3>5 DEF FreeAllowanceIsExact
    <3> QED
      BY <2>2, <2>3, <3>6 DEF ChargesFit
  <2>6. CASE ~tx[w].charged
    <3>1. {t \in signatures' : t.charged} = paid
      BY <2>1, <2>6
    <3>2. account'.used = account.used
      BY <1>2, <2>6 DEF SignatureCommitted
    <3>3. FreeAllowanceIsExact'
      BY <3>1, <3>2 DEF FreeAllowanceIsExact
    <3> QED
      BY <2>2, <2>3, <3>3 DEF ChargesFit
  <2> QED
    BY <2>5, <2>6
<1>3. CASE QuietCalls
  BY <1>1, <1>3 DEF QuietCalls, StoringCalls
<1>4. ASSUME NEW w \in Workers,
             (\E r \in Requests : LinkRotated(w, r)) \/ Mailed(w) \/ VersionCommitted(w) \/ RolledBack(w)
      PROVE  ChargesFit' /\ IsFiniteSet(signatures') /\ FreeAllowanceIsExact'
  <2>1. UNCHANGED signatures /\ UsedKept
    BY <1>4 DEF LinkRotated, Mailed, VersionCommitted, RolledBack
  <2>2. \A v \in Workers : tx'[v].op = "stamp" => tx'[v] = tx[v]
    BY <1>0, <1>4 DEF LinkRotated, Mailed, VersionCommitted, RolledBack, Others
  <2> QED
    BY <1>1, <2>1, <2>2
<1>5. ASSUME NEW w \in Workers, Stored(w)
      PROVE  ChargesFit' /\ IsFiniteSet(signatures') /\ FreeAllowanceIsExact'
  BY <1>1, <1>5 DEF Stored, Others
<1> QED
  BY <1>2, <1>3, <1>4, <1>5 DEF CallEffect

\* The calls in flight keep within their bounds in every reachable state.
THEOREM CallInvariant == Spec => []CallInv
<1>1. Init => CallInv
  <2> SUFFICES ASSUME Init PROVE CallInv
    OBVIOUS
  <2>1. \A w \in Workers : tx[w].op = "idle" /\ tx[w].key = 0
    BY DEF Init, Idle
  <2>2. IsFiniteSet(signatures) /\ Cardinality({s \in signatures : s.charged}) = 0
    <3>1. signatures = {} /\ {s \in signatures : s.charged} = {}
      BY DEF Init
    <3> QED
      BY <3>1, FS_EmptySet
  <2>3. account.used = 0 /\ mailed = {}
    BY DEF Init
  <2> QED
    BY <2>1, <2>2, <2>3, BoundsAssumption DEF CallInv, KeysAreHeld, InvitesAreCommitted,
       InvitationsFollowCommit, ChargesFit, FreeAllowanceIsExact
<1>2. IndInv /\ IndInv' /\ CallInv /\ [Next]_vars => CallInv'
  BY StepEffect, StepCallEffect, KeysHeldStep, InvitationsStep, AllowanceStep DEF CallInv
<1> QED
  BY <1>1, <1>2, Invariant, PTL DEF Spec

\* An invitation that was mailed names a committed link and a signer: the mails
\* of create_signing_link leave after its commit, and no later step takes the
\* link or the signer back.
THEOREM InvitationsAreCommitted == Spec => []InvitationsFollowCommit
<1>1. CallInv => InvitationsFollowCommit
  BY DEF CallInv
<1> QED
  BY <1>1, CallInvariant, PTL

\* signatures_used is the number of committed signatures that were charged and
\* never passes the free limit, with any number of workers signing at once.
THEOREM AllowanceIsExact == Spec => []FreeAllowanceIsExact
<1>1. CallInv => FreeAllowanceIsExact
  BY DEF CallInv
<1> QED
  BY <1>1, CallInvariant, PTL

\* The keys: allocated once, each held by one call or owned by one row.
KeyInv ==
  /\ objects \subseteq 1..lastKey
  /\ \A w \in Workers : tx[w].key # 0 => tx[w].key \in objects \ OwnedKeys
  /\ \A v, w \in Workers : v # w /\ tx[v].key # 0 => tx[v].key # tx[w].key
  /\ IsFiniteSet(versions) /\ IsFiniteSet(signatures)
  /\ StorageMatchesRows

\* Steps that move no object and no row.
LEMMA KeysQuiet ==
  ASSUME KeyInv, UNCHANGED <<versions, signatures, objects, lastKey, abandoned>>,
         \A v \in Workers : tx'[v] = tx[v] \/ (tx[v].key = 0 /\ tx'[v].key = 0)
  PROVE  KeyInv'
<1>1. \A v \in Workers : tx'[v].key = tx[v].key
  OBVIOUS
<1>2. OwnedKeys' = OwnedKeys
  BY DEF OwnedKeys
<1>3. {tx'[w].key : w \in Workers} = {tx[w].key : w \in Workers}
  BY <1>1
<1>4. StorageMatchesRows'
  BY <1>2, <1>3 DEF KeyInv, StorageMatchesRows, RecordsAreStored, NoObjectLeaks
<1> QED
  BY <1>1, <1>2, <1>4 DEF KeyInv

\* A key that is put is new.
LEMMA KeysStored ==
  ASSUME IndInv, KeyInv, NEW w \in Workers, Stored(w)
  PROVE  KeyInv'
<1>0. lastKey \in Nat /\ Put
  BY BoundsAssumption DEF IndInv, TypeOK, Stored
<1>1. /\ lastKey' = lastKey + 1 /\ objects' = objects \cup {lastKey + 1}
      /\ lastKey + 1 \notin objects
  BY <1>0 DEF Put, KeyInv
<1>2. OwnedKeys' = OwnedKeys /\ OwnedKeys \subseteq objects
  BY DEF OwnedKeys, Stored, KeyInv, StorageMatchesRows, RecordsAreStored
<1>3. tx[w].key = 0 /\ tx'[w].key = lastKey + 1 /\ \A v \in Workers \ {w} : tx'[v] = tx[v]
  BY DEF Stored, Others
<1>4. objects' \subseteq 1..lastKey'
  <2>1. \A k \in 1..lastKey : k \in 1..(lastKey + 1)
    BY <1>0
  <2>2. lastKey + 1 \in 1..(lastKey + 1)
    BY <1>0
  <2> QED
    BY <1>1, <2>1, <2>2 DEF KeyInv
<1>5. \A v \in Workers : tx'[v].key # 0 => tx'[v].key \in objects' \ OwnedKeys'
  BY <1>1, <1>2, <1>3 DEF KeyInv
<1>6. \A v \in Workers \ {w} : tx[v].key # lastKey + 1
  BY <1>0, <1>1 DEF KeyInv
<1>7. \A u, v \in Workers : u # v /\ tx'[u].key # 0 => tx'[u].key # tx'[v].key
  BY <1>3, <1>6 DEF KeyInv
<1>8. objects' \subseteq OwnedKeys' \cup {tx'[v].key : v \in Workers} \cup abandoned'
  <2> SUFFICES ASSUME NEW k \in objects'
               PROVE  k \in OwnedKeys' \cup {tx'[v].key : v \in Workers} \cup abandoned'
    OBVIOUS
  <2>1. CASE k = lastKey + 1
    BY <1>3, <2>1
  <2>2. CASE k \in objects
    <3>1. k # 0
      BY <1>0, <2>2 DEF KeyInv
    <3>2. k \in OwnedKeys \/ k \in abandoned \/ \E v \in Workers : k = tx[v].key
      BY <2>2 DEF KeyInv, StorageMatchesRows, NoObjectLeaks
    <3> QED
      BY <1>2, <1>3, <3>1, <3>2 DEF Stored
  <2> QED
    BY <1>1, <2>1, <2>2
<1>9. StorageMatchesRows'
  BY <1>1, <1>2, <1>8 DEF KeyInv, StorageMatchesRows, RecordsAreStored, NoObjectLeaks, Stored
<1> QED
  BY <1>4, <1>5, <1>7, <1>9 DEF KeyInv, Stored

\* A row that commits takes over the key of its call.
LEMMA KeysCommitted ==
  ASSUME IndInv, KeyInv, ~LostCommits, NEW w \in Workers,
         VersionCommitted(w) \/ SignatureCommitted(w)
  PROVE  KeyInv'
<1>0. lastKey \in Nat /\ Idle.key = 0
  BY BoundsAssumption DEF IndInv, TypeOK, Idle
<1>1. /\ objects' = objects /\ lastKey' = lastKey /\ abandoned' = abandoned
      /\ tx'[w].key = 0 /\ \A v \in Workers \ {w} : tx'[v] = tx[v]
      /\ tx[w].key \in Keys
  BY <1>0 DEF VersionCommitted, SignatureCommitted, ObjectsAfterCommit, Others
<1>2. PICK k : k = tx[w].key
  OBVIOUS
<1>3. k # 0 /\ k \in objects \ OwnedKeys
  BY <1>1, <1>2, BoundsAssumption DEF KeyInv, Keys
<1>4. IsFiniteSet(OwnedKeys)
  <2>1. OwnedKeys \subseteq 1..lastKey /\ IsFiniteSet(1..lastKey)
    BY <1>0, FS_Interval DEF KeyInv, StorageMatchesRows, RecordsAreStored
  <2> QED
    BY <2>1, FS_Subset
<1>5. /\ Cardinality(versions) \in Nat /\ Cardinality(signatures) \in Nat
      /\ Cardinality(OwnedKeys) = Cardinality(versions) + Cardinality(signatures)
  BY FS_CardinalityType DEF KeyInv, StorageMatchesRows, RecordsAreStored
<1>6. /\ OwnedKeys' = OwnedKeys \cup {k}
      /\ IsFiniteSet(versions') /\ IsFiniteSet(signatures')
      /\ Cardinality(versions') + Cardinality(signatures')
           = Cardinality(versions) + Cardinality(signatures) + 1
  <2>1. CASE VersionCommitted(w)
    <3>1. PICK row \in VersionRow : row.key = k /\ versions' = versions \cup {row}
      BY <1>2, <2>1 DEF VersionCommitted
    <3>2. signatures' = signatures
      BY <2>1 DEF VersionCommitted
    <3>3. row \notin versions
      BY <1>3, <3>1 DEF OwnedKeys
    <3>4. IsFiniteSet(versions') /\ Cardinality(versions') = Cardinality(versions) + 1
      BY <3>1, <3>3, FS_AddElement DEF KeyInv
    <3>5. OwnedKeys' = OwnedKeys \cup {k}
      BY <3>1, <3>2 DEF OwnedKeys
    <3> QED
      BY <1>5, <3>2, <3>4, <3>5 DEF KeyInv
  <2>2. CASE SignatureCommitted(w)
    <3>1. PICK s \in SignatureRow : s.key = k /\ s \notin signatures /\ signatures' = signatures \cup {s}
      BY <1>2, <2>2 DEF SignatureCommitted
    <3>2. versions' = versions
      BY <2>2 DEF SignatureCommitted
    <3>4. IsFiniteSet(signatures') /\ Cardinality(signatures') = Cardinality(signatures) + 1
      BY <3>1, FS_AddElement DEF KeyInv
    <3>5. OwnedKeys' = OwnedKeys \cup {k}
      BY <3>1, <3>2 DEF OwnedKeys
    <3> QED
      BY <1>5, <3>2, <3>4, <3>5 DEF KeyInv
  <2> QED
    BY <2>1, <2>2
<1>7. Cardinality(OwnedKeys') = Cardinality(versions') + Cardinality(signatures')
  <2>1. Cardinality(OwnedKeys \cup {k}) = Cardinality(OwnedKeys) + 1
    BY <1>3, <1>4, FS_AddElement
  <2> QED
    BY <1>5, <1>6, <2>1
<1>8. OwnedKeys' \subseteq objects'
  BY <1>1, <1>3, <1>6 DEF KeyInv, StorageMatchesRows, RecordsAreStored
<1>9. \A v \in Workers \ {w} : tx[v].key # 0 => tx[v].key # k
  BY <1>2 DEF KeyInv
<1>10. objects' \subseteq OwnedKeys' \cup {tx'[v].key : v \in Workers} \cup abandoned'
  <2> SUFFICES ASSUME NEW j \in objects
               PROVE  j \in OwnedKeys' \cup {tx'[v].key : v \in Workers} \cup abandoned'
    BY <1>1
  <2>1. j \in OwnedKeys \/ j \in abandoned \/ \E v \in Workers : j = tx[v].key
    BY DEF KeyInv, StorageMatchesRows, NoObjectLeaks
  <2> QED
    BY <1>1, <1>2, <1>6, <2>1
<1>11. StorageMatchesRows'
  BY <1>7, <1>8, <1>10 DEF StorageMatchesRows, RecordsAreStored, NoObjectLeaks
<1>12. \A v \in Workers : tx'[v].key # 0 => tx'[v].key \in objects' \ OwnedKeys'
  BY <1>1, <1>6, <1>9 DEF KeyInv
<1>13. \A u, v \in Workers : u # v /\ tx'[u].key # 0 => tx'[u].key # tx'[v].key
  BY <1>1 DEF KeyInv
<1> QED
  BY <1>1, <1>6, <1>11, <1>12, <1>13 DEF KeyInv

\* A call that rolls back takes only its own object with it.
LEMMA KeysRolledBack ==
  ASSUME IndInv, KeyInv, NEW w \in Workers, RolledBack(w)
  PROVE  KeyInv'
<1>0. Idle.key = 0
  BY DEF Idle
<1>1. /\ lastKey' = lastKey /\ versions' = versions /\ signatures' = signatures
      /\ tx'[w].key = 0 /\ \A v \in Workers \ {w} : tx'[v] = tx[v]
  BY <1>0 DEF RolledBack, Others
<1>2. PICK k : k = tx[w].key
  OBVIOUS
<1>3. OwnedKeys' = OwnedKeys
  BY <1>1 DEF OwnedKeys
<1>4. /\ objects' \subseteq objects
      /\ \A j \in objects : j # k => j \in objects'
      /\ abandoned \subseteq abandoned'
      /\ k \in objects' => k = 0 \/ k \in abandoned'
  BY <1>2 DEF RolledBack
<1>5. k \notin OwnedKeys
  <2>1. k # 0 => k \notin OwnedKeys
    BY <1>2 DEF KeyInv
  <2>2. 0 \notin OwnedKeys
    BY BoundsAssumption DEF KeyInv, StorageMatchesRows, RecordsAreStored, IndInv, TypeOK, Keys
  <2> QED
    BY <2>1, <2>2
<1>6. OwnedKeys' \subseteq objects'
  BY <1>3, <1>4, <1>5 DEF KeyInv, StorageMatchesRows, RecordsAreStored
<1>7. objects' \subseteq OwnedKeys' \cup {tx'[v].key : v \in Workers} \cup abandoned'
  <2> SUFFICES ASSUME NEW j \in objects'
               PROVE  j \in OwnedKeys' \cup {tx'[v].key : v \in Workers} \cup abandoned'
    OBVIOUS
  <2>1. j \in OwnedKeys \/ j \in abandoned \/ \E v \in Workers : j = tx[v].key
    BY <1>4 DEF KeyInv, StorageMatchesRows, NoObjectLeaks
  <2> QED
    BY <1>1, <1>2, <1>3, <1>4, <2>1
<1>8. StorageMatchesRows'
  BY <1>1, <1>3, <1>6, <1>7 DEF KeyInv, StorageMatchesRows, RecordsAreStored, NoObjectLeaks
<1>9. \A v \in Workers \ {w} : tx[v].key # 0 => tx[v].key # k
  BY <1>2 DEF KeyInv
<1>10. \A v \in Workers : tx'[v].key # 0 => tx'[v].key \in objects' \ OwnedKeys'
  BY <1>1, <1>3, <1>4, <1>9 DEF KeyInv
<1>11. \A u, v \in Workers : u # v /\ tx'[u].key # 0 => tx'[u].key # tx'[v].key
  BY <1>1 DEF KeyInv
<1> QED
  BY <1>1, <1>4, <1>8, <1>10, <1>11 DEF KeyInv

\* Without a lost answer to COMMIT, every committed version and signature has
\* its own binary, and an object without a row is one in flight or abandoned by
\* a call that died or was refused its deletion.
THEOREM StorageIsConsistent ==
  ASSUME ~LostCommits
  PROVE  Spec => []StorageMatchesRows
<1>1. Init => KeyInv
  <2> SUFFICES ASSUME Init PROVE KeyInv
    OBVIOUS
  <2>1. /\ versions = {} /\ signatures = {} /\ objects = {}
        /\ \A w \in Workers : tx[w].key = 0
    BY DEF Init, Idle
  <2>2. OwnedKeys = {}
    BY <2>1 DEF OwnedKeys
  <2> QED
    BY <2>1, <2>2, FS_EmptySet DEF KeyInv, StorageMatchesRows, RecordsAreStored, NoObjectLeaks
<1>2. IndInv /\ IndInv' /\ CallInv /\ KeyInv /\ [Next]_vars => KeyInv'
  <2> SUFFICES ASSUME IndInv, IndInv', CallInv, KeyInv, [Next]_vars PROVE KeyInv'
    OBVIOUS
  <2>1. CallEffect
    BY StepCallEffect DEF CallInv
  <2>2. CASE QuietCalls
    BY <2>2, KeysQuiet DEF QuietCalls
  <2>3. ASSUME NEW w \in Workers, NEW r \in Requests, LinkRotated(w, r) PROVE KeyInv'
    BY <2>3, KeysQuiet DEF LinkRotated, Others
  <2>4. ASSUME NEW w \in Workers, Mailed(w) PROVE KeyInv'
    BY <2>4, KeysQuiet DEF Mailed, Others, Idle
  <2> QED
    BY <2>1, <2>2, <2>3, <2>4, KeysStored, KeysCommitted, KeysRolledBack DEF CallEffect
<1>3. KeyInv => StorageMatchesRows
  BY DEF KeyInv
<1> QED
  BY <1>1, <1>2, <1>3, Invariant, CallInvariant, PTL DEF Spec

=============================================================================
