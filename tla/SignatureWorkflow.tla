-------------------------- MODULE SignatureWorkflow --------------------------
(***************************************************************************)
(* The Core API's signature workflow: documents and their versions,        *)
(* signature requests, signers, signatures, the audit ledger and the       *)
(* binaries in DocumentStorage, for one tenant.                            *)
(*                                                                         *)
(* Handlers run in several worker processes against PostgreSQL at READ     *)
(* COMMITTED.  A handler that only locks, reads and writes rows is one     *)
(* action.  A handler that reads a row without locking it, waits for a     *)
(* second lock, or writes to the object store before it commits is a       *)
(* transaction in tx[w]: it begins in one action and commits, fails or     *)
(* dies in another.  A row lock is held exactly while such a transaction   *)
(* is in flight, so the locks are read off tx.                             *)
(***************************************************************************)
EXTENDS Naturals, FiniteSets

CONSTANTS
  Workers,        \* worker processes of the Core API
  Documents,      \* identifiers documents may take
  Requests,       \* identifiers signature requests may take
  Users,          \* authenticated subjects: operators and signers
  Admins,         \* the users whose membership role is admin
  Brazilian,      \* the users whose identity summary is a CPF or a CNPJ
  Modes,          \* signature modes this deployment has configured
  Plans,          \* plans the billing module may put the account on
  FreeLimit,      \* free_signatures_limit
  FileLimit,      \* file allowance of the paid plan
  Volatile,       \* users whose membership the tenant module may change
  MaxVersion,     \* bound: versions per document
  MaxLink,        \* bound: rotations of a signing link
  MaxKey,         \* bound: storage keys ever allocated
  LostCommits,    \* may a COMMIT succeed while its caller sees an error?
  None            \* no document, request, user or mode

AllModes == {"evidence", "serpro_timestamp", "serproid"}
AllPlans == {"free", "base", "business", "lifetime"}

ASSUME UsersAssumption == 
  Admins \subseteq Users /\ Brazilian \subseteq Users /\ Volatile \subseteq Users
ASSUME SettingsAssumption ==
  /\ Modes \subseteq AllModes
  /\ Plans \subseteq AllPlans
  /\ LostCommits \in BOOLEAN
ASSUME BoundsAssumption ==
  /\ FreeLimit \in Nat /\ FileLimit \in Nat
  /\ MaxVersion \in Nat \ {0} /\ MaxLink \in Nat /\ MaxKey \in Nat
ASSUME NoneAssumption ==
  None \notin Documents \cup Requests \cup Users \cup AllModes

VARIABLES
  document,    \* documents: status, current version, creator
  versions,    \* document_versions: append-only rows
  request,     \* signature_requests
  signer,      \* signers, one row per (request, auth_user_id)
  signatures,  \* signatures: append-only rows
  audit,       \* audit_events of a request: append-only rows
  account,     \* the tenant's billing account: plan and allowances
  members,     \* active admins and members of a tenant within its team limit
  objects,     \* storage keys whose object exists
  lastKey,     \* storage keys allocated so far (uuid4: never reused)
  abandoned,   \* keys whose transaction died or whose deletion was refused
  mailed,      \* signature invitations handed to the Notification API
  tx           \* the call each worker has in flight

docVars == <<document, versions>>
rowVars == <<document, versions, request, signer, signatures, audit>>
tenantVars == <<account, members>>
storeVars == <<objects, lastKey, abandoned>>
vars == <<rowVars, tenantVars, storeVars, mailed, tx>>

(***************************************************************************)
(* Rows and calls in flight                                                *)
(***************************************************************************)

Keys == 1..MaxKey

DocumentRow == [status: {"absent", "ready", "deleted"},
                version: 0..MaxVersion, creator: Users \cup {None}]
VersionRow == [doc: Documents, version: 1..MaxVersion, key: Keys]
RequestRow == [status: {"absent", "draft", "open", "completed", "cancelled"},
               doc: Documents \cup {None}, version: 0..MaxVersion,
               mode: AllModes, link: 0..MaxLink, expired: BOOLEAN]
SignerRow == [status: {"absent", "pending", "viewed", "signed", "declined"},
              revoked: BOOLEAN, representative: BOOLEAN]
SignatureRow == [request: Requests, signer: Users, version: 1..MaxVersion,
                 stamps: SUBSET Users, charged: BOOLEAN, key: Keys]
AuditRow == [action: {"created", "link_created", "opened", "cancelled",
                      "viewed", "signed", "declined", "revoked", "completed"},
             request: Requests, user: Users \cup {None}]
AccountRow == [plan: AllPlans, used: Nat, files: Nat]
Invitation == [request: Requests, user: Users, link: 0..MaxLink]

Ops == {"idle", "create_document", "add_version", "delete_document",
        "create_request", "open_request", "sign", "stamp", "invite"}
Call == [op: Ops, doc: Documents \cup {None}, req: Requests \cup {None},
         user: Users \cup {None}, version: 0..MaxVersion,
         mode: AllModes \cup {None}, key: 0..MaxKey, stamps: SUBSET Users,
         charged: BOOLEAN, to: SUBSET Users, link: 0..MaxLink]

Idle == [op |-> "idle", doc |-> None, req |-> None, user |-> None,
         version |-> 0, mode |-> None, key |-> 0, stamps |-> {},
         charged |-> FALSE, to |-> {}, link |-> 0]

TypeOK ==
  /\ document \in [Documents -> DocumentRow]
  /\ versions \subseteq VersionRow
  /\ request \in [Requests -> RequestRow]
  /\ signer \in [Requests -> [Users -> SignerRow]]
  /\ signatures \subseteq SignatureRow
  /\ audit \subseteq AuditRow
  /\ account \in AccountRow
  /\ members \subseteq Users
  /\ objects \subseteq Keys
  /\ lastKey \in 0..MaxKey
  /\ abandoned \subseteq Keys
  /\ mailed \subseteq Invitation
  /\ tx \in [Workers -> Call]

Init ==
  /\ document = [d \in Documents |->
                   [status |-> "absent", version |-> 0, creator |-> None]]
  /\ versions = {}
  /\ request = [r \in Requests |->
                  [status |-> "absent", doc |-> None, version |-> 0,
                   mode |-> "evidence", link |-> 0, expired |-> FALSE]]
  /\ signer = [r \in Requests |-> [u \in Users |->
                 [status |-> "absent", revoked |-> FALSE,
                  representative |-> FALSE]]]
  /\ signatures = {} /\ audit = {} /\ mailed = {}
  /\ account \in [plan: Plans, used: {0}, files: {0}]
  /\ members = Users
  /\ objects = {} /\ lastKey = 0 /\ abandoned = {}
  /\ tx = [w \in Workers |-> Idle]

(***************************************************************************)
(* Locks, access and the calls' own bookkeeping                            *)
(***************************************************************************)

\* The calls that hold a document, a request or the billing account.
DocumentCalls == {"add_version", "delete_document"}
RequestCalls == {"open_request", "sign", "stamp"}
AccountCalls == {"create_document", "stamp"}

\* SELECT ... FOR UPDATE on the document row.
DocumentLocked(d) ==
  \E w \in Workers : tx[w].op \in DocumentCalls /\ tx[w].doc = d

\* Mutants of RequestLocked: sign without FOR UPDATE; open_request without it.
RequestNeverLocked(r) == FALSE
RequestLockedBySignersOnly(r) ==
  \E w \in Workers : tx[w].op \in {"sign", "stamp"} /\ tx[w].req = r

\* SELECT ... FOR UPDATE on the request row; the signer rows are only ever
\* locked by a call that already holds their request.
RequestLocked(r) ==
  \E w \in Workers : tx[w].op \in RequestCalls /\ tx[w].req = r

\* Mutants of AccountLocked: consume_signature without FOR UPDATE; a
\* delete_document that locks the account before the requests.
AccountNeverLocked == FALSE
AccountLockedByDelete ==
  \E w \in Workers : tx[w].op \in {"create_document", "stamp", "delete_document"}

\* SELECT ... FOR UPDATE on the billing account row.
AccountLocked ==
  \E w \in Workers : tx[w].op \in AccountCalls

Begin(w, call) == tx[w] = Idle /\ tx' = [tx EXCEPT ![w] = call]
Finish(w) == tx' = [tx EXCEPT ![w] = Idle]

\* Mutant of Put: a key that is used again.
PutUnderUsedKey ==
  /\ lastKey < MaxKey
  /\ lastKey' = lastKey
  /\ objects' = objects \cup {lastKey + 1}

\* DocumentStorage.put: a new object under a key nobody has used.
Put ==
  /\ lastKey < MaxKey
  /\ lastKey' = lastKey + 1
  /\ objects' = objects \cup {lastKey + 1}

\* What the object store holds once the transaction has committed.  When the
\* answer to COMMIT is lost the caller sees an exception, and its handler
\* discards the key of a row that is in the database.
ObjectsAfterCommit(w) ==
  {objects} \cup (IF LostCommits THEN {objects \ {tx[w].key}} ELSE {})

\* Mutant of ObjectsAfterFailure: the except branch forgets the object.
ObjectsKeptAfterFailure(w, refused) == objects

\* discard_uncommitted in the except branch: the object goes, unless the
\* bucket's retention refuses (R2: AccessDenied).
ObjectsAfterFailure(w, refused) ==
  IF refused THEN objects ELSE objects \ {tx[w].key}

\* _require_document_access and _require_request_access: an active member who
\* is an administrator, created the document or is invited to the request.
MayAccess(r, a) ==
  /\ a \in members
  /\ \/ a \in Admins
     \/ document[request[r].doc].creator = a
     \/ signer[r][a].status # "absent"

Signers(r) == {u \in Users : signer[r][u].status # "absent"}
Unsigned(r) == {u \in Signers(r) : signer[r][u].status # "signed"}
Signed(r) == {u \in Users : signer[r][u].status = "signed"}

Log(rows) == audit' = audit \cup rows
Event(action, r, u) == [action |-> action, request |-> r, user |-> u]

PaidAccess == account.plan \in {"base", "business"}
BusinessFeatures == account.plan \in {"business", "lifetime"}

(***************************************************************************)
(* Documents                                                               *)
(***************************************************************************)

\* consume_document: only a paid plan counts files; without one there is no
\* limit, and a lifetime account is never counted.
MayConsumeDocument == PaidAccess => account.files < FileLimit

\* create_document up to its commit: role check, account row locked, the file
\* counted if the plan counts files now, the binary stored.
CreateDocument(w, d, u) ==
  /\ document[d].status = "absent"
  /\ u \in members
  /\ ~AccountLocked
  /\ MayConsumeDocument
  /\ Put
  /\ Begin(w, [Idle EXCEPT !.op = "create_document", !.doc = d, !.user = u,
                           !.key = lastKey + 1, !.charged = PaidAccess])
  /\ UNCHANGED <<rowVars, tenantVars, abandoned, mailed>>

\* The end of create_document: document, first version and charge commit
\* together.
CreateDocumentCommit(w) ==
  LET d == tx[w].doc IN
  /\ tx[w].op = "create_document"
  /\ document' = [document EXCEPT ![d] =
        [status |-> "ready", version |-> 1, creator |-> tx[w].user]]
  /\ versions' = versions \cup {[doc |-> d, version |-> 1, key |-> tx[w].key]}
  /\ account' = [account EXCEPT !.files = IF tx[w].charged THEN @ + 1 ELSE @]
  /\ objects' \in ObjectsAfterCommit(w)
  /\ Finish(w)
  /\ UNCHANGED <<request, signer, signatures, audit, members,
                 lastKey, abandoned, mailed>>

\* A document with an open or completed request keeps its version.
Frozen(d) ==
  \E r \in Requests : request[r].doc = d /\ request[r].status \in {"open", "completed"}

\* add_version up to its commit: document locked, frozen requests looked for
\* among committed rows, the binary stored.
AddVersion(w, d, u) ==
  /\ document[d].status = "ready"
  /\ ~DocumentLocked(d)
  /\ u \in members
  /\ ~Frozen(d)
  /\ document[d].version < MaxVersion
  /\ Put
  /\ Begin(w, [Idle EXCEPT !.op = "add_version", !.doc = d, !.user = u,
                           !.key = lastKey + 1])
  /\ UNCHANGED <<rowVars, tenantVars, abandoned, mailed>>

AddVersionCommit(w) ==
  LET d == tx[w].doc IN
  /\ tx[w].op = "add_version"
  /\ document' = [document EXCEPT ![d].version = @ + 1]
  /\ versions' = versions \cup
        {[doc |-> d, version |-> document[d].version + 1, key |-> tx[w].key]}
  /\ objects' \in ObjectsAfterCommit(w)
  /\ Finish(w)
  /\ UNCHANGED <<request, signer, signatures, audit, tenantVars,
                 lastKey, abandoned, mailed>>

\* delete_document locks the document first ...
DeleteDocument(w, d, a) ==
  /\ document[d].status = "ready"
  /\ ~DocumentLocked(d)
  /\ a \in members \cap Admins
  /\ Begin(w, [Idle EXCEPT !.op = "delete_document", !.doc = d, !.user = a])
  /\ UNCHANGED <<rowVars, tenantVars, storeVars, mailed>>

\* Mutant of ActiveRequests: delete_document overlooks open requests.
DraftRequests(d) ==
  {r \in Requests : request[r].doc = d /\ request[r].status = "draft"}

ActiveRequests(d) ==
  {r \in Requests : request[r].doc = d /\ request[r].status \in {"draft", "open"}}

\* ... then waits for the rows of its draft and open requests, and with force
\* (or nothing to force) cancels them and deletes the document.
DeleteDocumentCommit(w, force) ==
  LET d == tx[w].doc
      active == ActiveRequests(d)
  IN
  /\ tx[w].op = "delete_document"
  /\ \A r \in active : ~RequestLocked(r)
  /\ force \/ active = {}
  /\ request' = [r \in Requests |->
        IF r \in active THEN [request[r] EXCEPT !.status = "cancelled"]
                        ELSE request[r]]
  /\ Log({Event("cancelled", r, None) : r \in active})
  /\ document' = [document EXCEPT ![d].status = "deleted"]
  /\ Finish(w)
  /\ UNCHANGED <<versions, signer, signatures, tenantVars, storeVars, mailed>>

\* Without force a document in use answers 409 and keeps everything.
DeleteDocumentRefuse(w) ==
  /\ tx[w].op = "delete_document"
  /\ ActiveRequests(tx[w].doc) # {}
  /\ \A r \in ActiveRequests(tx[w].doc) : ~RequestLocked(r)
  /\ Finish(w)
  /\ UNCHANGED <<rowVars, tenantVars, storeVars, mailed>>

(***************************************************************************)
(* Requests and signers                                                    *)
(***************************************************************************)

\* create_request reads the document without locking it (r is the random
\* identifier the new row will have) ...
CreateRequest(w, r, d, u) ==
  /\ request[r].status = "absent"
  /\ \A other \in Workers : tx[other].req # r
  /\ document[d].status = "ready"
  /\ u \in members
  /\ Begin(w, [Idle EXCEPT !.op = "create_request", !.req = r, !.doc = d,
                           !.user = u, !.version = document[d].version])
  /\ UNCHANGED <<rowVars, tenantVars, storeVars, mailed>>

\* ... and inserts the request with the version it read.  The insert's
\* foreign key waits for whoever holds the document row.
CreateRequestCommit(w) ==
  LET r == tx[w].req IN
  /\ tx[w].op = "create_request"
  /\ ~DocumentLocked(tx[w].doc)
  /\ request' = [request EXCEPT ![r].status = "draft", ![r].doc = tx[w].doc,
                                ![r].version = tx[w].version]
  /\ Log({Event("created", r, None)})
  /\ Finish(w)
  /\ UNCHANGED <<docVars, signer, signatures, tenantVars, storeVars, mailed>>

\* add_signer: one row per user, on a draft.  A company representative needs
\* the business features, an active membership and a document still there;
\* a corporate seal is always refused.
AddSigner(r, a, u, representative) ==
  /\ request[r].status = "draft"
  /\ ~RequestLocked(r)
  /\ MayAccess(r, a)
  /\ representative => /\ document[request[r].doc].status = "ready"
                       /\ BusinessFeatures
                       /\ u \in members
  /\ signer[r][u].status = "absent"
  /\ signer' = [signer EXCEPT ![r][u] =
        [status |-> "pending", revoked |-> FALSE,
         representative |-> representative]]
  /\ Log({Event("link_created", r, u)})
  /\ UNCHANGED <<docVars, request, signatures, tenantVars,
                 storeVars, mailed, tx>>

\* The mode open_request may be asked for.  Serpro ID needs a sole signer
\* with a Brazilian identity.
ModeAllowed(r, mode) ==
  /\ mode \in Modes
  /\ mode = "serproid" => \E u \in Brazilian : Signers(r) = {u}

\* open_request up to its commit: request locked, document read without a
\* lock and compared with the frozen version.
OpenRequest(w, r, a, mode) ==
  /\ request[r].status = "draft"
  /\ ~RequestLocked(r)
  /\ MayAccess(r, a)
  /\ Signers(r) # {}
  /\ ModeAllowed(r, mode)
  /\ document[request[r].doc].status = "ready"
  /\ document[request[r].doc].version = request[r].version
  /\ Begin(w, [Idle EXCEPT !.op = "open_request", !.req = r, !.user = a,
                           !.mode = mode])
  /\ UNCHANGED <<rowVars, tenantVars, storeVars, mailed>>

OpenRequestCommit(w) ==
  LET r == tx[w].req IN
  /\ tx[w].op = "open_request"
  /\ request' = [request EXCEPT ![r].status = "open", ![r].mode = tx[w].mode]
  /\ Log({Event("opened", r, None)})
  /\ Finish(w)
  /\ UNCHANGED <<docVars, signer, signatures, tenantVars, storeVars, mailed>>

\* cancel_request.
CancelRequest(r, a) ==
  /\ request[r].status \in {"draft", "open"}
  /\ ~RequestLocked(r)
  /\ MayAccess(r, a)
  /\ request' = [request EXCEPT ![r].status = "cancelled"]
  /\ Log({Event("cancelled", r, None)})
  /\ UNCHANGED <<docVars, signer, signatures, tenantVars,
                 storeVars, mailed, tx>>

\* Mutant of CreateSigningLink: the mails leave before the link is saved.
MailLinkBeforeSaving(w, r, a) ==
  /\ request[r].status \in {"open", "completed"}
  /\ ~RequestLocked(r)
  /\ MayAccess(r, a)
  /\ request[r].link < MaxLink
  /\ Begin(w, [Idle EXCEPT !.op = "invite", !.req = r, !.to = Unsigned(r),
                           !.link = request[r].link + 1])
  /\ UNCHANGED <<rowVars, tenantVars, storeVars, mailed>>

\* create_signing_link: rotates the link in one transaction, and only then,
\* outside it, mails the signers that were still to answer.
CreateSigningLink(w, r, a) ==
  LET link == request[r].link + 1
      waiting == {u \in Users : /\ signer[r][u].status \in {"pending", "viewed"}
                                /\ ~signer[r][u].revoked}
  IN
  /\ request[r].status \in {"open", "completed"}
  /\ ~RequestLocked(r)
  /\ MayAccess(r, a)
  /\ document[request[r].doc].status = "ready"
  /\ link <= MaxLink
  /\ request' = [request EXCEPT ![r].link = link]
  /\ Log({Event("link_created", r, None)})
  /\ IF BusinessFeatures /\ waiting # {}
       THEN Begin(w, [Idle EXCEPT !.op = "invite", !.req = r, !.to = waiting,
                                  !.link = link])
       ELSE tx[w] = Idle /\ UNCHANGED tx
  /\ UNCHANGED <<docVars, signer, signatures, tenantVars, storeVars, mailed>>

\* send_signature_invitation, once per signer; the first delivery error stops
\* the loop, so any part of the signers may have been mailed.
SendInvitations(w, delivered) ==
  /\ tx[w].op = "invite"
  /\ delivered \subseteq tx[w].to
  /\ mailed' = mailed \cup {[request |-> tx[w].req, user |-> u, link |-> tx[w].link] :
                              u \in delivered}
  /\ Finish(w)
  /\ UNCHANGED <<rowVars, tenantVars, storeVars>>

\* revoke_signer_link: idempotent, refused once the signer has signed.
RevokeSignerLink(r, a, u) ==
  /\ request[r].status # "absent"
  /\ ~RequestLocked(r)
  /\ MayAccess(r, a)
  /\ signer[r][u].status \notin {"absent", "signed"}
  /\ ~signer[r][u].revoked
  /\ signer' = [signer EXCEPT ![r][u].revoked = TRUE]
  /\ Log({Event("revoked", r, u)})
  /\ UNCHANGED <<docVars, request, signatures, tenantVars,
                 storeVars, mailed, tx>>

(***************************************************************************)
(* Signing                                                                 *)
(***************************************************************************)

\* Mutant of Resolvable: the status check is missing.
ResolvableInAnyStatus(r, u) ==
  /\ ~RequestLocked(r)
  /\ request[r].link > 0
  /\ signer[r][u].status # "absent"
  /\ ~signer[r][u].revoked
  /\ ~request[r].expired

\* _resolve_request with lock: the caller's link is the current one, the
\* caller is a signer of an open request, not revoked, not expired.
Resolvable(r, u) ==
  /\ ~RequestLocked(r)
  /\ request[r].link > 0
  /\ signer[r][u].status # "absent"
  /\ ~signer[r][u].revoked
  /\ ~request[r].expired
  /\ request[r].status = "open"

\* Mutant of View: the in-memory service's "expired" signer status.
ViewExpires(r, u) ==
  /\ Resolvable(r, u)
  /\ signer' = [signer EXCEPT ![r][u].status = "expired"]
  /\ UNCHANGED <<docVars, request, signatures, audit, tenantVars,
                 storeVars, mailed, tx>>

\* view: only the first look at the document is recorded.
View(r, u) ==
  /\ Resolvable(r, u)
  /\ signer[r][u].status = "pending"
  /\ signer' = [signer EXCEPT ![r][u].status = "viewed"]
  /\ Log({Event("viewed", r, u)})
  /\ UNCHANGED <<docVars, request, signatures, tenantVars,
                 storeVars, mailed, tx>>

\* decline: final only towards decline; sign does not look at it.
Decline(r, u) ==
  /\ Resolvable(r, u)
  /\ signer[r][u].status \notin {"signed", "declined"}
  /\ signer' = [signer EXCEPT ![r][u].status = "declined"]
  /\ Log({Event("declined", r, u)})
  /\ UNCHANGED <<docVars, request, signatures, tenantVars,
                 storeVars, mailed, tx>>

\* sign up to the billing account: request and signer locked, every check of
\* the request, the frozen version, the document and the representation made.
Sign(w, r, u) ==
  /\ Resolvable(r, u)
  /\ signer[r][u].status # "signed"
  /\ request[r].mode = "serproid" => /\ signer[r][u].status \in {"pending", "viewed"}
                                     /\ Unsigned(r) = {u}
  /\ \E row \in versions : row.doc = request[r].doc /\ row.version = request[r].version
  /\ document[request[r].doc].status = "ready"
  /\ signer[r][u].representative => u \in members
  /\ Begin(w, [Idle EXCEPT !.op = "sign", !.req = r, !.user = u])
  /\ UNCHANGED <<rowVars, tenantVars, storeVars, mailed>>

\* consume_signature: paid and lifetime accounts are never counted.
Unmetered == PaidAccess \/ account.plan = "lifetime"
MayConsumeSignature == Unmetered \/ account.used < FreeLimit

\* Mutant of StampsFor: each artifact is made from the original alone.
OwnStampOnly(r, u) == {u}

\* The stamps of an artifact: every signature row of the request that the
\* transaction sees, and the signer's own.
StampsFor(r, u) ==
  {s.signer : s \in {t \in signatures : t.request = r}} \cup {u}

\* Mutant of IsLast: signers who declined are not counted as pending.
IsLastToAnswer(r, u) ==
  {v \in Unsigned(r) : signer[r][v].status # "declined"} \subseteq {u}

\* The count of signers that are not SIGNED, after u's own row was flushed.
IsLast(r, u) == Unsigned(r) \subseteq {u}

\* sign from the billing account to the object store: the account is locked
\* and charged, the original is read back, and the artifact with the stamps
\* of every earlier signature and of this one is stored.
SignStamp(w) ==
  LET r == tx[w].req IN
  /\ tx[w].op = "sign"
  /\ ~AccountLocked
  /\ MayConsumeSignature
  /\ \E row \in versions : /\ row.doc = request[r].doc
                           /\ row.version = request[r].version
                           /\ row.key \in objects
  /\ Put
  /\ tx' = [tx EXCEPT ![w].op = "stamp", ![w].key = lastKey + 1,
                      ![w].stamps = StampsFor(r, tx[w].user),
                      ![w].charged = ~Unmetered]
  /\ UNCHANGED <<rowVars, tenantVars, abandoned, mailed>>

\* sign when the free allowance is exhausted (402), the original is gone or
\* the object store refuses the artifact: everything rolls back.
SignRefuse(w) ==
  LET r == tx[w].req IN
  /\ tx[w].op = "sign"
  /\ ~AccountLocked
  /\ \/ ~MayConsumeSignature
     \/ lastKey = MaxKey
     \/ ~\E row \in versions : /\ row.doc = request[r].doc
                               /\ row.version = request[r].version
                               /\ row.key \in objects
  /\ Finish(w)
  /\ UNCHANGED <<rowVars, tenantVars, storeVars, mailed>>

\* The end of sign: the signature, the signer, the charge, the audit rows and,
\* when nobody is left to sign, the completion of the request commit together.
SignCommit(w) ==
  LET r == tx[w].req
      u == tx[w].user
      last == IsLast(r, u)
  IN
  /\ tx[w].op = "stamp"
  /\ signatures' = signatures \cup
        {[request |-> r, signer |-> u, version |-> request[r].version,
          stamps |-> tx[w].stamps, charged |-> tx[w].charged, key |-> tx[w].key]}
  /\ signer' = [signer EXCEPT ![r][u].status = "signed"]
  /\ account' = [account EXCEPT !.used = IF tx[w].charged THEN @ + 1 ELSE @]
  /\ request' = [request EXCEPT ![r].status = IF last THEN "completed" ELSE @]
  /\ Log({Event("signed", r, u)} \cup (IF last THEN {Event("completed", r, None)} ELSE {}))
  /\ objects' \in ObjectsAfterCommit(w)
  /\ Finish(w)
  /\ UNCHANGED <<docVars, members, lastKey, abandoned, mailed>>

\* signed_document: the artifact of the signature row whose id sorts last.  The
\* ids are random (uuid4), so it may be any row of the request.
SignedDocument(r) == {s \in signatures : s.request = r}

(***************************************************************************)
(* Failures, the clock, and the modules around this one                    *)
(***************************************************************************)

\* An exception rolls the transaction back, and the handler discards the
\* object it had already written.
Fail(w, refused) ==
  /\ tx[w].op \notin {"idle", "invite"}
  /\ objects' = ObjectsAfterFailure(w, refused)
  /\ abandoned' = IF refused /\ tx[w].key # 0 THEN abandoned \cup {tx[w].key}
                                              ELSE abandoned
  /\ Finish(w)
  /\ UNCHANGED <<rowVars, tenantVars, lastKey, mailed>>

\* The worker process dies: the database rolls back, the object stays.
Crash(w) ==
  /\ tx[w].op # "idle"
  /\ abandoned' = IF tx[w].key # 0 THEN abandoned \cup {tx[w].key} ELSE abandoned
  /\ Finish(w)
  /\ UNCHANGED <<rowVars, tenantVars, objects, lastKey, mailed>>

\* The clock passes expires_at.
Expire(r) ==
  /\ request[r].status \in {"draft", "open"}
  /\ ~request[r].expired
  /\ request' = [request EXCEPT ![r].expired = TRUE]
  /\ UNCHANGED <<docVars, signer, signatures, audit, tenantVars,
                 storeVars, mailed, tx>>

\* The billing module changes the plan, and may start a new file period,
\* under the lock of the account row.
ChangePlan(plan) ==
  /\ ~AccountLocked
  /\ plan # account.plan
  /\ account' \in {[account EXCEPT !.plan = plan],
                   [account EXCEPT !.plan = plan, !.files = 0]}
  /\ UNCHANGED <<rowVars, members, storeVars, mailed, tx>>

\* The clock passes grace_period_ends_at: paid access ends, and no lock can
\* hold that back (_paid_access_enabled compares with the current time).
GraceLapses ==
  /\ PaidAccess
  /\ "free" \in Plans
  /\ account' = [account EXCEPT !.plan = "free"]
  /\ UNCHANGED <<rowVars, members, storeVars, mailed, tx>>

\* The tenant module suspends or restores a member.
ChangeMembership(u) ==
  /\ members' = IF u \in members THEN members \ {u} ELSE members \cup {u}
  /\ UNCHANGED <<rowVars, account, storeVars, mailed, tx>>

\* The steps by which a call in flight finishes by itself.
Advance(w) ==
  \/ CreateDocumentCommit(w)
  \/ AddVersionCommit(w)
  \/ \E force \in BOOLEAN : DeleteDocumentCommit(w, force)
  \/ DeleteDocumentRefuse(w)
  \/ CreateRequestCommit(w)
  \/ OpenRequestCommit(w)
  \/ \E delivered \in SUBSET Users : SendInvitations(w, delivered)
  \/ SignStamp(w)
  \/ SignRefuse(w)
  \/ SignCommit(w)

Next ==
  \/ \E w \in Workers :
       \/ Advance(w)
       \/ \E refused \in BOOLEAN : Fail(w, refused)
       \/ Crash(w)
       \/ \E d \in Documents, u \in Users :
            \/ CreateDocument(w, d, u)
            \/ AddVersion(w, d, u)
            \/ DeleteDocument(w, d, u)
            \/ \E r \in Requests : CreateRequest(w, r, d, u)
       \/ \E r \in Requests, a \in Users :
            \/ \E mode \in Modes : OpenRequest(w, r, a, mode)
            \/ CreateSigningLink(w, r, a)
            \/ Sign(w, r, a)
  \/ \E r \in Requests, u \in Users :
       \/ \E a \in Users :
            \/ \E representative \in BOOLEAN : AddSigner(r, a, u, representative)
            \/ RevokeSignerLink(r, a, u)
       \/ CancelRequest(r, u)
       \/ View(r, u)
       \/ Decline(r, u)
  \/ \E r \in Requests : Expire(r)
  \/ \E plan \in Plans : ChangePlan(plan)
  \/ GraceLapses
  \/ \E u \in Volatile : ChangeMembership(u)

Spec == Init /\ [][Next]_vars

\* A call in flight goes on: the worker process is scheduled, and PostgreSQL
\* grants a row lock to those who queue for it.
FairSpec == Spec /\ \A w \in Workers : SF_vars(Advance(w))

(***************************************************************************)
(* Properties                                                              *)
(***************************************************************************)

\* A request is completed exactly when its last signer signs: a completed
\* request has signers and all of them signed, and an open one always has
\* somebody left, even when its last two signers sign at the same time (the
\* count of pending signers in sign runs under the request's lock).
CompletionIsExact ==
  \A r \in Requests :
    /\ request[r].status = "completed" => Signers(r) # {} /\ Unsigned(r) = {}
    /\ request[r].status = "open" => Unsigned(r) # {}

\* The artifacts of a request accumulate: each one carries the stamps of the
\* signatures committed before it and no other, so the artifacts form a chain
\* whose largest element shows every signature of the request.
ArtifactsAccumulate ==
  \A r \in Requests :
    LET rows == {s \in signatures : s.request = r} IN
    /\ \A s, t \in rows : s.stamps \subseteq t.stamps \/ t.stamps \subseteq s.stamps
    /\ rows # {} => \E s \in rows : s.stamps = Signed(r)
    /\ {s.signer : s \in rows} = Signed(r)

\* What the download of a signed document gives: the artifact that carries
\* every visible stamp of the request ("The signed PDF contains cumulative
\* visible stamps", docs/ARCHITECTURE.md:66).
DownloadShowsEveryStamp ==
  \A r \in Requests :
    \A s \in SignedDocument(r) : s.stamps = Signed(r)

\* The free allowance is exact: signatures_used counts the committed
\* signatures that were made without a paid or lifetime plan, none twice and
\* none for a signature that rolled back, and never passes the limit, however
\* many workers sign for the tenant at once.
FreeAllowanceIsExact ==
  /\ account.used = Cardinality({s \in signatures : s.charged})
  /\ account.used <= FreeLimit

\* A signature is only ever committed for a request that is open at that
\* moment, by a signer whose access is not revoked, over a document that is
\* not deleted, for the version the request froze.  sign makes these checks
\* several steps before it commits; the row locks must keep them true.
SignedUnderAuthority ==
  [][\A s \in signatures' \ signatures :
       /\ request[s.request].status = "open"
       /\ ~signer[s.request][s.signer].revoked
       /\ document[request[s.request].doc].status = "ready"
       /\ s.version = request[s.request].version]_vars

\* An open request always has its document, and the frozen version of every
\* request is a stored row of that document: delete_document and open_request
\* never miss each other, though neither locks what the other one locks first.
OpenRequestHasDocument ==
  \A r \in Requests :
    /\ request[r].status = "open" => document[request[r].doc].status = "ready"
    /\ request[r].status # "absent" =>
         \E row \in versions :
           row.doc = request[r].doc /\ row.version = request[r].version

OwnedKeys == {row.key : row \in versions} \cup {s.key : s \in signatures}

\* Every committed version and signature has its binary in the object store,
\* under a key that no other row uses: a failing call only ever discards the
\* object it wrote itself.
RecordsAreStored ==
  /\ OwnedKeys \subseteq objects
  /\ Cardinality(OwnedKeys) = Cardinality(versions) + Cardinality(signatures)

\* An object is the binary of a committed row or of a call in flight, or its
\* owner died or was refused its deletion: no other path leaks one.
NoObjectLeaks ==
  objects \subseteq OwnedKeys \cup {tx[w].key : w \in Workers} \cup abandoned

\* The object store and the rows agree, both ways, though no transaction spans
\* them: put, the commit and discard_uncommitted are separate steps.
StorageMatchesRows == RecordsAreStored /\ NoObjectLeaks

\* The audit ledger tells the state of a request: every completion,
\* cancellation, signature and revocation has its event and every such event
\* has happened ("Signature and audit writes occur in the same Core
\* transaction").
LedgerMatchesRows ==
  \A r \in Requests :
    /\ \A outcome \in {"completed", "cancelled"} :
         request[r].status = outcome <=> Event(outcome, r, None) \in audit
    /\ \A u \in Users :
         /\ u \in Signed(r) <=> Event("signed", r, u) \in audit
         /\ signer[r][u].revoked <=> Event("revoked", r, u) \in audit

\* An invitation that was mailed names a link that was committed before, of a
\* request its recipient signs: a link from a transaction that rolled back is
\* never mailed.
InvitationsFollowCommit ==
  \A m \in mailed :
    /\ m.link \in 1..request[m.request].link
    /\ signer[m.request][m.user].status # "absent"

\* The workflow implements the abstract life of a request: the rows another
\* session can see move only by its atomic steps, whatever is in flight.
Lifecycle == INSTANCE RequestLifecycle WITH
  status <- [r \in Requests |-> request[r].status],
  expected <- [r \in Requests |-> Signers(r)],
  signed <- [r \in Requests |-> Signed(r)]
ImplementsLifecycle == Lifecycle!Spec

\* No set of calls waits for each other's locks: every call ends, without a
\* deadlock having to be broken.
CallsEnd == \A w \in Workers : tx[w] # Idle ~> tx[w] = Idle

(***************************************************************************)
(* The inductive invariant behind the safety properties                    *)
(***************************************************************************)

\* A call carries what its kind needs.
CallsAreWellFormed ==
  \A w \in Workers :
    /\ tx[w].op \in DocumentCalls \cup {"create_document", "create_request"} =>
         tx[w].doc \in Documents
    /\ tx[w].op \in RequestCalls \cup {"create_request", "invite"} =>
         tx[w].req \in Requests
    /\ tx[w].op \in {"create_document", "sign", "stamp"} => tx[w].user \in Users
    /\ tx[w].op \in {"create_document", "add_version", "stamp"} => tx[w].key \in Keys
    /\ tx[w].op = "open_request" => tx[w].mode \in AllModes

\* A locked row has one holder.
LocksAreExclusive ==
  \A v, w \in Workers :
    v # w =>
      /\ tx[v].op \in DocumentCalls /\ tx[w].op \in DocumentCalls =>
           tx[v].doc # tx[w].doc
      /\ tx[v].op \in RequestCalls /\ tx[w].op \in RequestCalls =>
           tx[v].req # tx[w].req
      /\ tx[v].op = "create_request" /\ tx[w].op = "create_request" =>
           tx[v].req # tx[w].req
      /\ ~(tx[v].op \in AccountCalls /\ tx[w].op \in AccountCalls)

HasVersion(d, v) == \E row \in versions : row.doc = d /\ row.version = v

\* A ready document has its current version stored; an existing request names
\* a stored version of a document; only an existing request has signers, and
\* only an opened one has signatures.
RowsAreLinked ==
  /\ \A d \in Documents :
       document[d].status = "ready" => HasVersion(d, document[d].version)
  /\ \A r \in Requests :
       /\ request[r].status # "absent" =>
            request[r].doc \in Documents /\ HasVersion(request[r].doc, request[r].version)
       /\ request[r].status = "absent" => Signers(r) = {}
       /\ request[r].status = "draft" => Signed(r) = {}

\* What the call in flight at w checked when it began.
CheckHolds(w) ==
  LET call == tx[w] IN
  /\ call.op = "create_document" => document[call.doc].status = "absent"
  /\ call.op \in DocumentCalls => document[call.doc].status = "ready"
  /\ call.op = "add_version" => document[call.doc].version < MaxVersion
  /\ call.op = "create_request" => /\ request[call.req].status = "absent"
                                   /\ HasVersion(call.doc, call.version)
  /\ call.op \in RequestCalls => document[request[call.req].doc].status = "ready"
  /\ call.op = "open_request" => /\ request[call.req].status = "draft"
                                 /\ Signers(call.req) # {}
  /\ call.op \in {"sign", "stamp"} =>
       /\ request[call.req].status = "open"
       /\ signer[call.req][call.user].status \notin {"absent", "signed"}
       /\ ~signer[call.req][call.user].revoked
  /\ call.op = "stamp" => call.stamps = Signed(call.req) \cup {call.user}

\* What a call checked when it began is still true while it is in flight: the
\* locks it holds cover every row its checks depend on.
ChecksStillHold == \A w \in Workers : CheckHolds(w)

=============================================================================
