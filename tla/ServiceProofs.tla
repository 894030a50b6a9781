--------------------------- MODULE ServiceProofs -----------------------------
(***************************************************************************)
(* Proofs about the services beside the signature workflow: the doors to a *)
(* document (ReadAccess), the workspace of a suspended person              *)
(* (WorkspaceRescue), the workflow of the development backend              *)
(* (InMemoryWorkflow), the certificate signing with Serpro ID              *)
(* (SerproAuthorization), the services of generated domains (CrudService), *)
(* their generator (DomainScaffold) and the rules two parts compute alike  *)
(* (PlatformRules).  They share no state; each has its own specification   *)
(* and its own inductive invariant.                                        *)
(***************************************************************************)
EXTENDS ReadAccess, WorkspaceRescue, InMemoryWorkflow, SerproAuthorization,
        CrudService, DomainScaffold, PlatformRules, FiniteSetTheorems, SequenceTheorems,
        NaturalsInduction, WellFoundedInduction, TLAPS

-----------------------------------------------------------------------------
(* The doors to a document: a case analysis over every possible reader      *)

ReaderIsPossible ==
    reader # NoReader => reader \in ReaderFields /\ Possible(reader)

LEMMA PossibleReaders == ReadSpec => []ReaderIsPossible
<1>1. NobodyReads => ReaderIsPossible
  BY DEF NobodyReads, ReaderIsPossible
<1>2. ReaderIsPossible /\ [Read]_reader => ReaderIsPossible'
  BY ReadersAssumption DEF Read, ReaderIsPossible
<1> QED
  BY <1>1, <1>2, PTL DEF ReadSpec

LEMMA PossibleReadersAgree == ReaderIsPossible => DoorsAgree
<1> SUFFICES ASSUME ReaderIsPossible, reader # NoReader
             PROVE  DoorsAgree
  BY DEF DoorsAgree, ListsShowWhatOpens, LinkDoorsAgree
<1>1. /\ reader.role \in AnyRole
      /\ reader.signer \in {"account", "email", "no"}
      /\ reader.author \in BOOLEAN /\ reader.other \in BOOLEAN /\ reader.sender \in BOOLEAN
      /\ reader.administrator \in BOOLEAN /\ reader.intact \in BOOLEAN
      /\ reader.deleted \in BOOLEAN /\ reader.stamped \in BOOLEAN
      /\ reader.over \in BOOLEAN /\ reader.signers \in BOOLEAN
      /\ reader.revoked \in BOOLEAN /\ reader.expired \in BOOLEAN
  BY DEF ReaderIsPossible, ReaderFields, AnyRole
<1>2. ListsShowWhatOpens
  BY <1>1 DEF ListsShowWhatOpens, ListDocuments, GetDocument, GetContent, ListRequests,
     GetRequest, RequireDocumentAccess, RequireRequestAccess, RequireRole, Invited,
     AskedDifferently
<1>3. reader.answer = "signed" => ~reader.revoked /\ reader.stamped
  BY DEF ReaderIsPossible, Possible
<1>4. LinkDoorsAgree
  BY <1>1, <1>3 DEF LinkDoorsAgree, SigningContext, SigningDocument, SigningSignedDocument,
     AdmitToBytes, SignedDocument, AdministrativeView, ResolveRequest
<1> QED
  BY <1>2, <1>4 DEF DoorsAgree

\* For every set of possible readers: the document list shows what get_document and
\* its content open, and only that; the request list and get_request agree about a
\* document that is not deleted, but for a member who is no signer and either sent the
\* request or made the document; and the doors of a signing link agree with each other,
\* but for an administrator who is a signer.  Nothing is said of a desk door compared
\* with a link door.
THEOREM AllDoorsAgree == ReadSpec => []DoorsAgree
  BY PossibleReaders, PossibleReadersAgree, PTL

-----------------------------------------------------------------------------
(* The workspace of a suspended person                                      *)

RescueTypes ==
    /\ seat \in [Seats -> {"none", "active", "suspended"}]
    /\ opened \in Nat
    /\ rescue \in [Rescuers -> [at : {"idle", "waiting", "locked"}, rows : SUBSET Seats,
                                own : Nat]]

\* The rows of a call are rows: a seat, once added, is only suspended and reactivated.
RowsExist ==
    \A w \in Rescuers : \A s \in rescue[w].rows : seat[s] # "none"

\* A call that holds its rows holds suspended ones, and at least one.
LockedAreSuspended ==
    \A w \in Rescuers : rescue[w].at = "locked" =>
        /\ rescue[w].rows # {}
        /\ \A s \in rescue[w].rows : seat[s] = "suspended"

RescueInv == RescueTypes /\ RowsExist /\ LockedAreSuspended

LEMMA RescueStep == RescueInv /\ [RescueNext]_rescueVars => RescueInv'
<1> SUFFICES ASSUME RescueInv, [RescueNext]_rescueVars PROVE RescueInv'
  OBVIOUS
<1> USE DEF RescueInv, RescueTypes, RowsExist, LockedAreSuspended, NoRescue
<1>1. ASSUME NEW w \in Rescuers, AskForWorkspace(w) PROVE RescueInv'
  BY <1>1 DEF AskForWorkspace, Seated
<1>2. ASSUME NEW w \in Rescuers, LockMemberships(w) PROVE RescueInv'
  <2>1. CASE rescue' = [rescue EXCEPT ![w] = NoRescue]
    BY <1>2, <2>1 DEF LockMemberships
  <2>2. CASE /\ rescue' = [rescue EXCEPT ![w] = [rescue[w] EXCEPT !.at = "locked"]]
             /\ rescue[w].rows \cap Seated("active") = {}
             /\ rescue[w].rows \cap Seated("suspended") # {}
    BY <1>2, <2>2 DEF LockMemberships, Seated
  <2> QED
    BY <1>2, <2>1, <2>2 DEF LockMemberships
<1>3. ASSUME NEW w \in Rescuers, CreatePersonal(w) PROVE RescueInv'
  BY <1>3 DEF CreatePersonal
<1>4. ASSUME NEW w \in Rescuers, RescueFails(w) PROVE RescueInv'
  BY <1>4 DEF RescueFails
<1>5. ASSUME NEW s \in Seats, AddSeat(s), UNCHANGED <<opened, rescue, counted>>
      PROVE  RescueInv'
  BY <1>5 DEF AddSeat
<1>6. ASSUME NEW s \in Seats, ChangeSeat(s), UNCHANGED <<opened, rescue, counted>>
      PROVE  RescueInv'
  BY <1>6 DEF ChangeSeat, RowsLocked
<1>7. CASE UNCHANGED rescueVars
  BY <1>7 DEF rescueVars
<1> QED
  BY <1>1, <1>2, <1>3, <1>4, <1>5, <1>6, <1>7 DEF RescueNext

\* The rows a call found and locked are suspended, and stay so until it ends.
THEOREM RescueInvariant == RescueSpec => []RescueInv
<1>1. RescueInit => RescueInv
  BY DEF RescueInit, RescueInv, RescueTypes, RowsExist, LockedAreSuspended, NoRescue
<1> QED
  BY <1>1, RescueStep, PTL DEF RescueSpec

\* create_personal_after_suspension opens a workspace only on memberships that
\* are all suspended in the step that opens it, however administrators and a
\* second call interleave with it.
THEOREM RescuedAreSuspended == RescueSpec => RescueIsForTheSuspended
<1>1. ASSUME RescueInv, [RescueNext]_rescueVars
      PROVE  [opened' # opened => counted' # {} /\ counted' \subseteq Seated("suspended")]_rescueVars
  <2>1. ASSUME NEW w \in Rescuers, CreatePersonal(w)
        PROVE  counted' # {} /\ counted' \subseteq Seated("suspended")
    BY <1>1, <2>1 DEF RescueInv, RescueTypes, LockedAreSuspended, CreatePersonal, Seated
  <2>2. (\A w \in Rescuers : ~CreatePersonal(w)) => opened' = opened
    BY <1>1 DEF RescueNext, AskForWorkspace, LockMemberships, RescueFails, rescueVars
  <2> QED
    BY <2>1, <2>2
<1> QED
  BY <1>1, RescueInvariant, PTL DEF RescueSpec, RescueIsForTheSuspended

-----------------------------------------------------------------------------
(* The workflow of the development backend                                  *)

CaseStatuses == {"absent", "draft", "open", "completed", "cancelled"}

\* A request names a document at a version it really had, from the moment it is
\* stored, and so does the one create_request is about to store.
WorkflowTypes ==
    /\ papers \in [Papers -> 0..Deleted]
    /\ cases \in [Cases -> [document : Papers \cup {Nobody}, version : 0..MaxPaperVersion,
                            status : CaseStatuses]]
    /\ \A r \in Cases : cases[r].status # "absent" =>
          cases[r].document \in Papers /\ cases[r].version \in 1..MaxPaperVersion
    /\ answers \in [Cases -> [People -> {"none", "pending", "viewed", "signed", "declined",
                                         "expired"}]]
    /\ \/ creating = Nobody
       \/ creating \in [document : Papers, version : 1..MaxPaperVersion]

WorkflowInv == WorkflowTypes /\ OpenCaseMatchesPaper

LEMMA DocumentsStep ==
  ASSUME WorkflowInv, NEW d \in Papers,
         CreatePaper(d) \/ AddVersion(d) \/ ReadPaper(d)
           \/ \E force \in BOOLEAN : DeletePaper(d, force)
  PROVE  WorkflowInv'
<1> USE PapersAssumption DEF WorkflowInv, WorkflowTypes, OpenCaseMatchesPaper, Deleted
<1>1. CASE CreatePaper(d)
  <2>1. papers' \in [Papers -> 0..Deleted]
    BY <1>1 DEF CreatePaper
  <2>2. \A r \in Cases : cases[r].status = "open" => cases[r].document # d
    BY <1>1 DEF CreatePaper, CaseStatuses
  <2> QED
    BY <1>1, <2>1, <2>2 DEF CreatePaper, CaseStatuses
<1>2. CASE AddVersion(d)
  <2>1. papers' \in [Papers -> 0..Deleted]
    BY <1>2 DEF AddVersion, Present
  <2>2. \A r \in Cases : cases[r].status = "open" => cases[r].document # d
    BY <1>2 DEF AddVersion, CasesOf
  <2> QED
    BY <1>2, <2>1, <2>2 DEF AddVersion, CaseStatuses
<1>3. CASE ReadPaper(d)
  BY <1>3 DEF ReadPaper, Present
<1>4. ASSUME NEW force \in BOOLEAN, DeletePaper(d, force) PROVE WorkflowInv'
  <2>1. papers' \in [Papers -> 0..Deleted]
    BY <1>4 DEF DeletePaper
  <2>2. cases' \in [Cases -> [document : Papers \cup {Nobody}, version : 0..MaxPaperVersion,
                              status : CaseStatuses]]
    BY <1>4, SMTT(60) DEF DeletePaper, CaseStatuses
  <2>3. \A r \in Cases :
          /\ cases'[r].document = cases[r].document /\ cases'[r].version = cases[r].version
          /\ cases'[r].status # "absent" => cases[r].status # "absent"
          /\ cases'[r].status = "open" => cases[r].status = "open" /\ cases[r].document # d
    BY <1>4 DEF DeletePaper, CasesOf
  <2>4. UNCHANGED <<answers, creating>> /\ papers' = [papers EXCEPT ![d] = Deleted]
    BY <1>4 DEF DeletePaper
  <2>5. OpenCaseMatchesPaper'
    BY <2>3, <2>4 DEF CaseStatuses
  <2> QED
    BY <2>1, <2>2, <2>3, <2>4, <2>5
<1> QED
  BY <1>1, <1>2, <1>3, <1>4

LEMMA CasesStep ==
  ASSUME WorkflowInv, NEW r \in Cases,
         StoreCase(r) \/ CreateSigningLink(r) \/ OpenCase(r) \/ CancelCase(r) \/ PassExpiry(r)
  PROVE  WorkflowInv'
<1> USE PapersAssumption DEF WorkflowInv, WorkflowTypes, OpenCaseMatchesPaper, CaseStatuses
<1>1. CASE StoreCase(r)
  BY <1>1 DEF StoreCase
<1>2. CASE CreateSigningLink(r) \/ PassExpiry(r)
  BY <1>2 DEF CreateSigningLink, PassExpiry
<1>3. CASE OpenCase(r)
  BY <1>3 DEF OpenCase, DocumentUnchanged
<1>4. CASE CancelCase(r)
  BY <1>4 DEF CancelCase
<1> QED
  BY <1>1, <1>2, <1>3, <1>4

LEMMA AnswersStep ==
  ASSUME WorkflowInv, NEW r \in Cases, NEW u \in People,
         \/ AddSigner(r, u) \/ RevokeSignerLink(r, u) \/ FindExpired(r, u)
         \/ ViewCase(r, u) \/ SignCase(r, u) \/ DeclineCase(r, u)
  PROVE  WorkflowInv'
<1> USE DEF WorkflowInv, WorkflowTypes, OpenCaseMatchesPaper
<1>1. UNCHANGED <<papers, creating>>
  BY DEF AddSigner, RevokeSignerLink, FindExpired, ViewCase, SignCase, DeclineCase
<1>2. answers' \in [Cases -> [People -> {"none", "pending", "viewed", "signed", "declined",
                                         "expired"}]]
  <2>1. \/ answers' = answers
        \/ \E a \in {"pending", "viewed", "signed", "declined", "expired"} :
              answers' = [answers EXCEPT ![r][u] = a]
    BY DEF AddSigner, RevokeSignerLink, FindExpired, ViewCase, SignCase, DeclineCase
  <2>2. ASSUME NEW a \in {"pending", "viewed", "signed", "declined", "expired"},
               answers' = [answers EXCEPT ![r] = [answers[r] EXCEPT ![u] = a]]
        PROVE  answers' \in [Cases -> [People -> {"none", "pending", "viewed", "signed",
                                                  "declined", "expired"}]]
    <3>1. [answers[r] EXCEPT ![u] = a] \in
            [People -> {"none", "pending", "viewed", "signed", "declined", "expired"}]
      OBVIOUS
    <3> QED
      BY <2>2, <3>1
  <2> QED
    BY <2>1, <2>2
<1>3. cases' = cases \/ cases' = [cases EXCEPT ![r].status = "completed"]
  BY DEF AddSigner, RevokeSignerLink, FindExpired, ViewCase, SignCase, DeclineCase
<1>4. cases' # cases => cases[r].status = "open"
  BY DEF AddSigner, RevokeSignerLink, FindExpired, ViewCase, SignCase, DeclineCase, Resolved
<1>5. CASE cases' = cases
  BY <1>1, <1>2, <1>5
<1>6. CASE cases' = [cases EXCEPT ![r].status = "completed"] /\ cases[r].status = "open"
  BY <1>1, <1>2, <1>6, SMTT(60) DEF CaseStatuses
<1> QED
  BY <1>3, <1>4, <1>5, <1>6

\* The inductive invariant holds in every reachable state of the in-memory service.
THEOREM WorkflowInvariant == WorkflowSpec => []WorkflowInv
<1>1. WorkflowInit => WorkflowInv
  BY PapersAssumption DEF WorkflowInit, WorkflowInv, WorkflowTypes, OpenCaseMatchesPaper,
     CaseStatuses, Deleted
<1>2. WorkflowInv /\ [WorkflowNext]_workflowVars => WorkflowInv'
  <2> SUFFICES ASSUME WorkflowInv, [WorkflowNext]_workflowVars PROVE WorkflowInv'
    OBVIOUS
  <2>1. CASE UNCHANGED workflowVars
    BY <2>1 DEF workflowVars, WorkflowInv, WorkflowTypes, OpenCaseMatchesPaper
  <2> QED
    BY <2>1, DocumentsStep, CasesStep, AnswersStep DEF WorkflowNext
<1> QED
  BY <1>1, <1>2, PTL DEF WorkflowSpec

\* An open request of the in-memory service is for the document as it froze it,
\* although create_request read the document before it took the lock.
THEOREM OpenCasesMatch == WorkflowSpec => []OpenCaseMatchesPaper
<1>1. WorkflowInv => OpenCaseMatchesPaper
  BY DEF WorkflowInv
<1> QED
  BY <1>1, WorkflowInvariant, PTL

\* What RequestLifecycle sees of the in-memory service.
StatusOf == [r \in Cases |-> cases[r].status]
ExpectedOf == [r \in Cases |-> Signers(r)]
SignedOf == [r \in Cases |-> {u \in People : answers[r][u] = "signed"}]

\* A step that answers for no one and names no signer.
AnswersKept ==
    \A r \in Cases : \A u \in People :
        /\ answers'[r][u] = "none" <=> answers[r][u] = "none"
        /\ answers'[r][u] = "signed" <=> answers[r][u] = "signed"

LEMMA KeptAnswers ==
  ASSUME AnswersKept
  PROVE  ExpectedOf' = ExpectedOf /\ SignedOf' = SignedOf
BY DEF AnswersKept, ExpectedOf, SignedOf, Signers

LEMMA LifecycleStep ==
  ASSUME WorkflowInv, [WorkflowNext]_workflowVars
  PROVE  [Lifecycle!Next]_(Lifecycle!lifecycleVars)
<1> USE DEF WorkflowInv, WorkflowTypes
<1>1. ASSUME AnswersKept, \A q \in Cases : cases'[q].status = cases[q].status
      PROVE  UNCHANGED Lifecycle!lifecycleVars
  <2>1. StatusOf' = StatusOf
    BY <1>1 DEF StatusOf
  <2> QED
    BY <1>1, <2>1, KeptAnswers DEF Lifecycle!lifecycleVars, StatusOf, ExpectedOf, SignedOf
<1>2. ASSUME UNCHANGED <<answers>> PROVE AnswersKept
  BY <1>2 DEF AnswersKept
<1>3. ASSUME NEW d \in Papers, CreatePaper(d) \/ AddVersion(d) \/ ReadPaper(d)
      PROVE  UNCHANGED Lifecycle!lifecycleVars
  BY <1>1, <1>2, <1>3 DEF CreatePaper, AddVersion, ReadPaper
<1>4. ASSUME NEW d \in Papers, NEW force \in BOOLEAN, DeletePaper(d, force)
      PROVE  Lifecycle!Next
  <2>1. PICK S \in SUBSET Cases : S = CasesOf(d, {"draft", "open"})
    BY DEF CasesOf
  <2>2. /\ \A r \in S : StatusOf[r] \in {"draft", "open"}
        /\ StatusOf' = [r \in Cases |-> IF r \in S THEN "cancelled" ELSE StatusOf[r]]
    BY <1>4, <2>1 DEF DeletePaper, StatusOf, CasesOf
  <2>3. ExpectedOf' = ExpectedOf /\ SignedOf' = SignedOf
    BY <1>2, <1>4, KeptAnswers DEF DeletePaper
  <2>4. Lifecycle!Cancel(S)
    BY <2>2, <2>3 DEF Lifecycle!Cancel, StatusOf, ExpectedOf, SignedOf
  <2> QED
    BY <2>4 DEF Lifecycle!Next
<1>5. ASSUME NEW r \in Cases, StoreCase(r) PROVE Lifecycle!Next
  <2>1. StatusOf[r] = "absent" /\ StatusOf' = [StatusOf EXCEPT ![r] = "draft"]
    BY <1>5 DEF StoreCase, StatusOf
  <2>2. ExpectedOf' = ExpectedOf /\ SignedOf' = SignedOf
    BY <1>2, <1>5, KeptAnswers DEF StoreCase
  <2>3. Lifecycle!Create(r)
    BY <2>1, <2>2 DEF Lifecycle!Create, StatusOf, ExpectedOf, SignedOf
  <2> QED
    BY <2>3 DEF Lifecycle!Next
<1>6. ASSUME NEW r \in Cases, CreateSigningLink(r) \/ PassExpiry(r)
      PROVE  UNCHANGED Lifecycle!lifecycleVars
  BY <1>1, <1>2, <1>6 DEF CreateSigningLink, PassExpiry
<1>7. ASSUME NEW r \in Cases, OpenCase(r) PROVE Lifecycle!Next
  <2>1. /\ StatusOf[r] = "draft" /\ StatusOf' = [StatusOf EXCEPT ![r] = "open"]
        /\ ExpectedOf[r] # {}
    BY <1>7 DEF OpenCase, StatusOf, ExpectedOf
  <2>2. ExpectedOf' = ExpectedOf /\ SignedOf' = SignedOf
    BY <1>2, <1>7, KeptAnswers DEF OpenCase
  <2>3. Lifecycle!Open(r)
    BY <2>1, <2>2 DEF Lifecycle!Open, StatusOf, ExpectedOf, SignedOf
  <2> QED
    BY <2>3 DEF Lifecycle!Next
<1>8. ASSUME NEW r \in Cases, CancelCase(r) PROVE Lifecycle!Next
  <2>1. /\ \A q \in {r} : StatusOf[q] \in {"draft", "open"}
        /\ StatusOf' = [q \in Cases |-> IF q \in {r} THEN "cancelled" ELSE StatusOf[q]]
    BY <1>8 DEF CancelCase, StatusOf
  <2>2. ExpectedOf' = ExpectedOf /\ SignedOf' = SignedOf
    BY <1>2, <1>8, KeptAnswers DEF CancelCase
  <2>3. Lifecycle!Cancel({r})
    BY <2>1, <2>2 DEF Lifecycle!Cancel, StatusOf, ExpectedOf, SignedOf
  <2>4. {r} \in SUBSET Cases
    OBVIOUS
  <2> QED
    BY <2>3, <2>4 DEF Lifecycle!Next
<1>9. ASSUME NEW r \in Cases, NEW u \in People, AddSigner(r, u) PROVE Lifecycle!Next
  <2>1. /\ StatusOf[r] = "draft" /\ StatusOf' = StatusOf
    BY <1>9 DEF AddSigner, StatusOf
  <2>2. answers[r][u] = "none" /\ answers' = [answers EXCEPT ![r][u] = "pending"]
    BY <1>9 DEF AddSigner, Signers
  <2>3. ExpectedOf' = [ExpectedOf EXCEPT ![r] = ExpectedOf[r] \cup {u}]
    <3>1. \A q \in Cases : Signers(q)' = IF q = r THEN Signers(q) \cup {u} ELSE Signers(q)
      BY <2>2 DEF Signers
    <3> QED
      BY <3>1 DEF ExpectedOf
  <2>4. SignedOf' = SignedOf
    <3>1. \A q \in Cases, v \in People : answers'[q][v] = "signed" <=> answers[q][v] = "signed"
      BY <2>2
    <3> QED
      BY <3>1 DEF SignedOf
  <2>5. Lifecycle!Expect(r, u)
    BY <2>1, <2>3, <2>4 DEF Lifecycle!Expect, StatusOf, ExpectedOf, SignedOf
  <2> QED
    BY <2>5 DEF Lifecycle!Next
<1>10. ASSUME NEW r \in Cases, NEW u \in People, RevokeSignerLink(r, u)
       PROVE  UNCHANGED Lifecycle!lifecycleVars
  BY <1>1, <1>2, <1>10 DEF RevokeSignerLink
<1>11. ASSUME NEW r \in Cases, NEW u \in People,
              FindExpired(r, u) \/ ViewCase(r, u) \/ DeclineCase(r, u)
       PROVE  UNCHANGED Lifecycle!lifecycleVars
  <2>1. answers[r][u] \notin {"none", "signed"} /\ UNCHANGED cases
    BY <1>11 DEF FindExpired, ViewCase, DeclineCase, Resolved, Admitted, Signers
  <2>2. \E a \in {"expired", "viewed", "declined"} : answers' = [answers EXCEPT ![r][u] = a]
    BY <1>11 DEF FindExpired, ViewCase, DeclineCase
  <2>3. AnswersKept
    BY <2>1, <2>2 DEF AnswersKept
  <2> QED
    BY <1>1, <2>1, <2>3
<1>12. ASSUME NEW r \in Cases, NEW u \in People, SignCase(r, u) PROVE Lifecycle!Next
  <2>1. /\ StatusOf[r] = "open" /\ u \in ExpectedOf[r] \ SignedOf[r]
        /\ answers' = [answers EXCEPT ![r][u] = "signed"]
    BY <1>12 DEF SignCase, Resolved, Admitted, StatusOf, ExpectedOf, SignedOf
  <2>2. ExpectedOf' = ExpectedOf
    <3>1. \A q \in Cases, v \in People : answers'[q][v] = "none" <=> answers[q][v] = "none"
      BY <2>1 DEF ExpectedOf, Signers
    <3> QED
      BY <3>1 DEF ExpectedOf, Signers
  <2>3. SignedOf' = [SignedOf EXCEPT ![r] = SignedOf[r] \cup {u}]
    <3>1. \A q \in Cases : {v \in People : answers'[q][v] = "signed"} =
             IF q = r THEN {v \in People : answers[q][v] = "signed"} \cup {u}
                      ELSE {v \in People : answers[q][v] = "signed"}
      BY <2>1
    <3>2. \A q \in Cases : SignedOf'[q] = IF q = r THEN SignedOf[q] \cup {u} ELSE SignedOf[q]
      BY <3>1 DEF SignedOf
    <3>3. SignedOf' = [q \in Cases |-> SignedOf'[q]]
      BY DEF SignedOf
    <3>4. SignedOf = [q \in Cases |-> SignedOf[q]]
      BY DEF SignedOf
    <3> QED
      BY <3>2, <3>3, <3>4
  <2>4. Completes(r, u) <=> SignedOf'[r] = ExpectedOf[r]
    <3>1. SignedOf'[r] = {v \in People : answers[r][v] = "signed"} \cup {u}
      BY <2>3 DEF SignedOf
    <3>2. ExpectedOf[r] = Signers(r) /\ u \in Signers(r)
      BY <2>1 DEF ExpectedOf
    <3> QED
      BY <3>1, <3>2 DEF Completes, Signers
  <2>5. StatusOf' = [StatusOf EXCEPT ![r] =
                       IF SignedOf'[r] = ExpectedOf[r] THEN "completed" ELSE "open"]
    <3>1. CASE Completes(r, u)
      BY <1>12, <2>4, <3>1 DEF SignCase, StatusOf
    <3>2. CASE ~Completes(r, u)
      BY <1>12, <2>1, <2>4, <3>2 DEF SignCase, StatusOf
    <3> QED
      BY <3>1, <3>2
  <2>6. Lifecycle!Sign(r, u)
    BY <2>1, <2>2, <2>3, <2>5 DEF Lifecycle!Sign, StatusOf, ExpectedOf, SignedOf
  <2> QED
    BY <2>6 DEF Lifecycle!Next
<1>13. CASE UNCHANGED workflowVars
  BY <1>1, <1>2, <1>13 DEF workflowVars
<1> QED
  BY <1>3, <1>4, <1>5, <1>6, <1>7, <1>8, <1>9, <1>10, <1>11, <1>12, <1>13 DEF WorkflowNext

\* Every step of the backend the tests run on is a step of the request's life that
\* the database service shows too, or leaves it alone.
THEOREM DoubleImplementsLifecycle == WorkflowSpec => DoubleKeepsLifecycle
<1>1. WorkflowInit => Lifecycle!Init
  BY DEF WorkflowInit, Lifecycle!Init, Signers
<1> QED
  BY <1>1, WorkflowInvariant, LifecycleStep, PTL DEF WorkflowSpec, DoubleKeepsLifecycle,
     Lifecycle!Spec

-----------------------------------------------------------------------------
(* The certificate signing with Serpro ID                                   *)

Servings == [at : {"exchange", "sign", "serpro", "commit"}, attempt : Nat \ {0},
             holder : Signatories]

FormRows == [status : {"open", "completed", "cancelled"},
             signer : {"pending", "viewed", "signed", "declined"},
             link : Nat, revoked : BOOLEAN, expired : BOOLEAN]

AttemptRows == [form : Forms, subject : Signatories, link : Nat]

SerproTypes ==
    /\ form \in [Forms -> FormRows]
    /\ attempts \in Seq(AttemptRows)
    /\ asked \in Seq(Nat) /\ Len(asked) = Len(attempts)
    /\ states \in SUBSET (1..Len(attempts))
    /\ callback \in [Callers -> {NoCallback} \cup Servings]
    /\ sealed \in [Forms -> SUBSET Servings]

\* The signer of the form is the one who may start an authorization for it.
AttemptsAreTheSigners ==
    \A s \in 1..Len(attempts) : attempts[s].subject = SoleSigner[attempts[s].form]

\* GETDEL gave the attempt to one callback, and to no other.
AttemptsAreTaken ==
    \A c \in Callers : callback[c] # NoCallback =>
        /\ callback[c].attempt \in 1..Len(attempts) \ states
        /\ \A d \in Callers \ {c} : callback[d] # NoCallback =>
              callback[d].attempt # callback[c].attempt

\* Serpro has not been asked before the callback that holds the attempt asks it.
NotAskedYet ==
    /\ \A s \in states : asked[s] = 0
    /\ \A c \in Callers : callback[c].at \in {"exchange", "sign", "serpro"} =>
          asked[callback[c].attempt] = 0

\* Past the exchange the certificate is the subject's.
HolderIsTheSubject ==
    \A c \in Callers : callback[c].at \in {"sign", "serpro", "commit"} =>
        callback[c].holder = attempts[callback[c].attempt].subject

\* A form is sealed once and its signer's row says so, by his own certificate.
SealedOnce ==
    \A f \in Forms :
        /\ sealed[f] = {} \/ \E x \in Servings : sealed[f] = {x} /\ x.holder = SoleSigner[f]
        /\ sealed[f] # {} => form[f].signer = "signed"

ServingInv ==
    /\ SerproTypes /\ AttemptsAreTheSigners /\ AttemptsAreTaken /\ NotAskedYet
    /\ HolderIsTheSubject /\ SerproSignsOnce
SealInv == ServingInv /\ SerproSignsOpenRequest /\ SealedOnce

\* A caller that serves has an attempt and a holder.
LEMMA CallerServes ==
  ASSUME SerproTypes, NEW c \in Callers, callback[c].at # "idle"
  PROVE  callback[c] # NoCallback /\ callback[c] \in Servings
BY DEF SerproTypes, NoCallback

\* The attempt a caller holds is one that was stored.
LEMMA HeldAttempt ==
  ASSUME ServingInv, NEW c \in Callers, callback[c].at # "idle"
  PROVE  /\ callback[c].attempt \in 1..Len(attempts)
         /\ attempts[callback[c].attempt] \in AttemptRows
         /\ attempts[callback[c].attempt].form \in Forms
<1>1. callback[c].attempt \in 1..Len(attempts)
  BY CallerServes DEF ServingInv, AttemptsAreTaken
<1>2. attempts \in Seq(AttemptRows)
  BY DEF ServingInv, SerproTypes
<1>3. attempts[callback[c].attempt] \in AttemptRows
  BY <1>1, <1>2
<1> QED
  BY <1>1, <1>3 DEF AttemptRows

\* Only the forms change.
LEMMA FormsMove ==
  ASSUME SealInv, UNCHANGED <<attempts, states, callback, asked, sealed>>,
         form' \in [Forms -> FormRows],
         \A f \in Forms : form[f].signer = "signed" => form'[f].signer = "signed",
         \A f \in Forms : FormLocked(f) =>
            /\ form'[f].status = form[f].status /\ form'[f].signer = form[f].signer
            /\ form'[f].link = form[f].link /\ form'[f].revoked = form[f].revoked
  PROVE  SealInv'
<1>1. ServingInv'
  BY DEF SealInv, ServingInv, SerproTypes, AttemptsAreTheSigners, AttemptsAreTaken,
     NotAskedYet, HolderIsTheSubject, SerproSignsOnce
<1>2. SealedOnce'
  BY DEF SealInv, SealedOnce
<1>3. SerproSignsOpenRequest'
  <2> SUFFICES ASSUME NEW c \in Callers, callback[c].at \in {"serpro", "commit"}
               PROVE  LET a == attempts[callback[c].attempt] IN
                      /\ form'[a.form].status = "open"
                      /\ form'[a.form].signer \in {"pending", "viewed"}
                      /\ form'[a.form].link = a.link /\ ~form'[a.form].revoked
                      /\ \A d \in Callers \ {c} : callback[d].at \in {"serpro", "commit"} =>
                            attempts[callback[d].attempt].form # a.form
    BY DEF SerproSignsOpenRequest, LinkWorks
  <2>1. PICK a \in AttemptRows :
            a = attempts[callback[c].attempt]
    BY HeldAttempt DEF SealInv
  <2>2. FormLocked(a.form) /\ a.form \in Forms
    BY <2>1, HeldAttempt DEF FormLocked, SealInv
  <2> QED
    BY <2>1, <2>2 DEF SealInv, SerproSignsOpenRequest, LinkWorks
<1> QED
  BY <1>1, <1>2, <1>3 DEF SealInv

LEMMA FormActions ==
  ASSUME SealInv, NEW f \in Forms,
         \/ RegenerateLink(f) \/ RevokeLink(f) \/ CancelForm(f)
         \/ ViewForm(f) \/ DeclineForm(f) \/ PassDeadline(f)
  PROVE  SealInv'
<1>1. form \in [Forms -> FormRows]
  BY DEF SealInv, ServingInv, SerproTypes
<1>2. ASSUME NEW row \in FormRows, ChangeForm(f, row),
             form[f].signer = "signed" => row.signer = "signed"
      PROVE  SealInv'
  <2>1. UNCHANGED <<attempts, states, callback, asked, sealed>> /\ ~FormLocked(f)
        /\ form' = [form EXCEPT ![f] = row]
    BY <1>2 DEF ChangeForm
  <2>2. form' \in [Forms -> FormRows]
    BY <1>1, <2>1
  <2> QED
    BY <1>1, <1>2, <2>1, <2>2, FormsMove
<1>3. CASE RegenerateLink(f)
  BY <1>1, <1>2, <1>3 DEF RegenerateLink, FormRows
<1>4. CASE RevokeLink(f)
  BY <1>1, <1>2, <1>4 DEF RevokeLink, FormRows
<1>5. CASE CancelForm(f)
  BY <1>1, <1>2, <1>5 DEF CancelForm, FormRows
<1>6. CASE ViewForm(f)
  BY <1>1, <1>2, <1>6 DEF ViewForm, FormRows
<1>7. CASE DeclineForm(f)
  BY <1>1, <1>2, <1>7 DEF DeclineForm, MaySeal, FormRows
<1>8. CASE PassDeadline(f)
  <2>1. form' \in [Forms -> FormRows]
    BY <1>1, <1>8 DEF PassDeadline, FormRows
  <2> QED
    BY <1>1, <1>8, <2>1, FormsMove DEF PassDeadline, FormRows
<1> QED
  BY <1>3, <1>4, <1>5, <1>6, <1>7, <1>8

\* Nobody comes to hold a form, and no form changes.
LEMMA FormsStay ==
  ASSUME SealInv, SerproTypes', UNCHANGED <<form, sealed>>,
         \A s \in 1..Len(attempts) : attempts'[s] = attempts[s],
         \A c \in Callers : callback'[c].at \in {"serpro", "commit"} =>
            /\ callback[c].at \in {"serpro", "commit"}
            /\ callback'[c].attempt = callback[c].attempt
  PROVE  SerproSignsOpenRequest' /\ SealedOnce'
<1>1. SealedOnce'
  BY DEF SealInv, SealedOnce
<1>2. \A c \in Callers : callback[c].at \in {"serpro", "commit"} =>
          callback[c].attempt \in 1..Len(attempts)
  BY CallerServes DEF SealInv, ServingInv, AttemptsAreTaken
<1>3. \A c \in Callers : callback'[c].at \in {"serpro", "commit"} =>
          attempts'[callback'[c].attempt] = attempts[callback[c].attempt]
  BY <1>2
<1>4. SerproSignsOpenRequest'
  BY <1>3 DEF SealInv, SerproSignsOpenRequest, LinkWorks
<1> QED
  BY <1>1, <1>4

LEMMA StartAuthorizationStep ==
  ASSUME SealInv, NEW f \in Forms, NEW u \in Signatories, NEW link \in 1..MaxFormLinks,
         StartAuthorization(f, u, link)
  PROVE  SealInv'
<1> DEFINE a == [form |-> f, subject |-> u, link |-> link]
           n == Len(attempts)
<1>1. /\ attempts' = Append(attempts, a) /\ asked' = Append(asked, 0)
      /\ UNCHANGED <<form, callback, sealed>> /\ u = SoleSigner[f]
      /\ states' = states \cup {Len(attempts')}
  BY DEF StartAuthorization
<1>2. a \in AttemptRows /\ a.form = f /\ a.subject = u
  BY AttemptsAssumption DEF AttemptRows
<1> HIDE DEF a
<1>3. /\ n \in Nat /\ Len(attempts') = n + 1 /\ Len(asked') = n + 1
      /\ attempts'[n + 1] = a /\ asked'[n + 1] = 0
      /\ \A s \in 1..n : attempts'[s] = attempts[s] /\ asked'[s] = asked[s]
      /\ attempts' \in Seq(AttemptRows)
      /\ asked' \in Seq(Nat)
  BY <1>1, <1>2 DEF SealInv, ServingInv, SerproTypes
<1> HIDE DEF n
<1>4. /\ \A s \in 1..(n + 1) : s \in 1..n \/ s = n + 1
      /\ \A s \in 1..n : s \in 1..(n + 1) /\ s # n + 1
      /\ n + 1 \in 1..(n + 1)
  BY <1>3
<1>5. n = Len(attempts) /\ n = Len(asked)
  BY DEF n, SealInv, ServingInv, SerproTypes
<1>6. states' = states \cup {n + 1} /\ states \in SUBSET (1..n)
  BY <1>1, <1>3, <1>5 DEF SealInv, ServingInv, SerproTypes
<1>7. \A c \in Callers : callback[c] # NoCallback => callback[c].attempt \in 1..n
  BY <1>5 DEF SealInv, ServingInv, AttemptsAreTaken
<1>8. SerproTypes'
  BY <1>1, <1>3, <1>4, <1>6 DEF SealInv, ServingInv, SerproTypes
<1>9. AttemptsAreTheSigners'
  BY <1>1, <1>2, <1>3, <1>4, <1>5 DEF SealInv, ServingInv, SerproTypes, AttemptsAreTheSigners
<1>10. AttemptsAreTaken'
  BY <1>1, <1>3, <1>4, <1>5, <1>6, <1>7 DEF SealInv, ServingInv, AttemptsAreTaken
<1>11. NotAskedYet'
  <2>1. \A c \in Callers : callback[c].at \in {"exchange", "sign", "serpro"} =>
            callback[c].attempt \in 1..n
    BY <1>7, CallerServes DEF SealInv, ServingInv
  <2> QED
    BY <1>1, <1>3, <1>6, <2>1 DEF SealInv, ServingInv, NotAskedYet
<1>12. HolderIsTheSubject'
  <2>1. \A c \in Callers : callback[c].at \in {"sign", "serpro", "commit"} =>
            callback[c].attempt \in 1..n
    BY <1>7, CallerServes DEF SealInv, ServingInv
  <2> QED
    BY <1>1, <1>3, <2>1 DEF SealInv, ServingInv, HolderIsTheSubject
<1>13. SerproSignsOnce'
  <2>1. DOMAIN asked' = 1..(n + 1) /\ DOMAIN asked = 1..n
    BY <1>3, <1>5 DEF SealInv, ServingInv, SerproTypes
  <2> QED
    BY <1>3, <1>4, <2>1 DEF SealInv, ServingInv, SerproSignsOnce
<1> QED
  BY <1>1, <1>3, <1>5, <1>8, <1>9, <1>10, <1>11, <1>12, <1>13, FormsStay
     DEF SealInv, ServingInv

LEMMA StateExpiresStep ==
  ASSUME SealInv, NEW s \in states, StateExpires(s)
  PROVE  SealInv'
<1>1. states' = states \ {s} /\ UNCHANGED <<form, attempts, callback, asked, sealed>>
  BY DEF StateExpires
<1>2. ServingInv'
  BY <1>1 DEF SealInv, ServingInv, SerproTypes, AttemptsAreTheSigners, AttemptsAreTaken,
     NotAskedYet, HolderIsTheSubject, SerproSignsOnce
<1> QED
  BY <1>1, <1>2, FormsStay DEF SealInv, ServingInv

\* A caller gives up: it holds no attempt and no row any more.
LEMMA ReturnStep ==
  ASSUME SealInv, NEW c \in Callers, Return(c), UNCHANGED <<form, attempts, states, asked, sealed>>
  PROVE  SealInv'
<1>1. /\ callback' \in [Callers -> {NoCallback} \cup Servings]
      /\ callback'[c] = NoCallback /\ callback'[c].at = "idle"
      /\ \A d \in Callers \ {c} : callback'[d] = callback[d]
  BY DEF Return, SealInv, ServingInv, SerproTypes, NoCallback
<1>2. SerproTypes' /\ AttemptsAreTheSigners' /\ SerproSignsOnce'
  BY <1>1 DEF SealInv, ServingInv, SerproTypes, AttemptsAreTheSigners, SerproSignsOnce
<1>3. AttemptsAreTaken' /\ NotAskedYet' /\ HolderIsTheSubject'
  BY <1>1 DEF SealInv, ServingInv, AttemptsAreTaken, NotAskedYet, HolderIsTheSubject
<1> QED
  BY <1>1, <1>2, <1>3, FormsStay DEF SealInv, ServingInv

LEMMA CallbackStep ==
  ASSUME SealInv, NEW c \in Callers, NEW s \in states, NEW u \in Signatories,
         NEW holder \in Signatories \cup {Denied}, Callback(c, s, u, holder)
  PROVE  SealInv'
<1>1. states' = states \ {s} /\ UNCHANGED <<form, attempts, asked, sealed>>
  BY DEF Callback, ConsumeState
<1>2. CASE UNCHANGED callback
  <2>1. ServingInv'
    BY <1>1, <1>2 DEF SealInv, ServingInv, SerproTypes, AttemptsAreTheSigners, AttemptsAreTaken,
       NotAskedYet, HolderIsTheSubject, SerproSignsOnce
  <2> QED
    BY <1>1, <1>2, <2>1, FormsStay DEF SealInv, ServingInv
<1>3. CASE /\ holder # Denied
           /\ callback' = [callback EXCEPT
                 ![c] = [at |-> "exchange", attempt |-> s, holder |-> holder]]
  <2>1. s \in 1..Len(attempts) /\ s \in Nat \ {0} /\ asked[s] = 0
    BY DEF SealInv, ServingInv, SerproTypes, NotAskedYet
  <2> DEFINE x == [at |-> "exchange", attempt |-> s, holder |-> holder]
  <2>2. x \in Servings /\ x.at = "exchange" /\ x.attempt = s /\ x # NoCallback
    BY <1>3, <2>1 DEF Servings, NoCallback
  <2> HIDE DEF x
  <2>3. /\ callback' \in [Callers -> {NoCallback} \cup Servings]
        /\ callback'[c] = x /\ \A d \in Callers \ {c} : callback'[d] = callback[d]
    BY <1>3, <2>2 DEF x, SealInv, ServingInv, SerproTypes
  <2>4. SerproTypes' /\ AttemptsAreTheSigners' /\ SerproSignsOnce' /\ HolderIsTheSubject'
    BY <1>1, <2>2, <2>3 DEF SealInv, ServingInv, SerproTypes, AttemptsAreTheSigners,
       HolderIsTheSubject, SerproSignsOnce
  <2>5. AttemptsAreTaken'
    BY <1>1, <2>1, <2>2, <2>3 DEF SealInv, ServingInv, AttemptsAreTaken
  <2>6. NotAskedYet'
    BY <1>1, <2>1, <2>2, <2>3 DEF SealInv, ServingInv, NotAskedYet
  <2> QED
    BY <1>1, <2>2, <2>3, <2>4, <2>5, <2>6, FormsStay DEF SealInv, ServingInv
<1> QED
  BY <1>2, <1>3 DEF Callback

\* A caller goes on to the next step with the attempt it holds.
LEMMA GotoFacts ==
  ASSUME SealInv, NEW c \in Callers, callback[c].at # "idle",
         NEW at \in {"exchange", "sign", "serpro", "commit"}, Goto(c, at)
  PROVE  /\ callback' \in [Callers -> {NoCallback} \cup Servings]
         /\ callback'[c].at = at /\ callback'[c] # NoCallback
         /\ callback'[c].attempt = callback[c].attempt
         /\ callback'[c].holder = callback[c].holder
         /\ \A d \in Callers \ {c} : callback'[d] = callback[d]
<1>1. callback[c] # NoCallback /\ callback[c] \in Servings
  BY CallerServes DEF SealInv, ServingInv
<1> DEFINE x == [callback[c] EXCEPT !.at = at]
<1>2. /\ x \in Servings /\ x.at = at
      /\ x.attempt = callback[c].attempt /\ x.holder = callback[c].holder
  BY <1>1 DEF Servings
<1>3. callback' = [callback EXCEPT ![c] = x]
  BY DEF Goto
<1>4. x # NoCallback
  BY <1>2 DEF NoCallback
<1> HIDE DEF x
<1> QED
  BY <1>2, <1>3, <1>4 DEF SealInv, ServingInv, SerproTypes

LEMMA GotoAttempts ==
  ASSUME SealInv, NEW c \in Callers, callback[c].at # "idle",
         NEW at \in {"exchange", "sign", "serpro", "commit"}, Goto(c, at),
         UNCHANGED <<attempts, states>>
  PROVE  AttemptsAreTaken'
BY GotoFacts, CallerServes DEF SealInv, ServingInv, AttemptsAreTaken

LEMMA ExchangeStep ==
  ASSUME SealInv, NEW c \in Callers, Exchange(c)
  PROVE  SealInv'
<1>1. callback[c].at = "exchange" /\ UNCHANGED <<form, attempts, states, asked, sealed>>
  BY DEF Exchange
<1>2. CASE Goto(c, "sign") /\ IdentityMatchesCertificate(
                attempts[callback[c].attempt].subject, callback[c].holder)
  <2>1. SerproTypes' /\ AttemptsAreTheSigners' /\ SerproSignsOnce'
    BY <1>1, <1>2, GotoFacts DEF SealInv, ServingInv, SerproTypes, AttemptsAreTheSigners,
       SerproSignsOnce
  <2>2. AttemptsAreTaken' /\ NotAskedYet'
    BY <1>1, <1>2, GotoFacts, GotoAttempts DEF SealInv, ServingInv, NotAskedYet
  <2>3. HolderIsTheSubject'
    BY <1>1, <1>2, GotoFacts DEF SealInv, ServingInv, HolderIsTheSubject,
       IdentityMatchesCertificate, IdentityMatch
  <2>4. SerproSignsOpenRequest' /\ SealedOnce'
    BY <1>1, <1>2, <2>1, GotoFacts, FormsStay
  <2> QED
    BY <2>1, <2>2, <2>3, <2>4 DEF SealInv, ServingInv
<1> QED
  BY <1>1, <1>2, ReturnStep DEF Exchange

LEMMA LockFormStep ==
  ASSUME SealInv, NEW c \in Callers, LockForm(c)
  PROVE  SealInv'
<1>1. callback[c].at = "sign" /\ UNCHANGED <<form, attempts, states, asked, sealed>>
  BY DEF LockForm
<1>2. PICK a \in AttemptRows :
          a = attempts[callback[c].attempt]
  BY <1>1, HeldAttempt DEF SealInv
<1>3. CASE Goto(c, "serpro") /\ MaySeal(a.form, a.link) /\ ~FormLocked(a.form)
  <2>1. SerproTypes' /\ AttemptsAreTheSigners' /\ SerproSignsOnce'
    BY <1>1, <1>3, GotoFacts DEF SealInv, ServingInv, SerproTypes, AttemptsAreTheSigners,
       SerproSignsOnce
  <2>2. AttemptsAreTaken' /\ NotAskedYet'
    BY <1>1, <1>3, GotoFacts, GotoAttempts DEF SealInv, ServingInv, NotAskedYet
  <2>3. HolderIsTheSubject' /\ SealedOnce'
    BY <1>1, <1>3, GotoFacts DEF SealInv, ServingInv, HolderIsTheSubject, SealedOnce
  <2>4. /\ callback'[c].attempt = callback[c].attempt
        /\ \A d \in Callers \ {c} : callback'[d] = callback[d]
    BY <1>1, <1>3, GotoFacts
  <2>5. \A d \in Callers : callback[d].at \in {"serpro", "commit"} =>
           attempts[callback[d].attempt].form # a.form
    BY <1>3 DEF FormLocked
  <2>6. /\ form[a.form].status = "open" /\ form[a.form].signer \in {"pending", "viewed"}
        /\ LinkWorks(a.form, a.link)
    BY <1>3, SMTT(60) DEF MaySeal, StillOpen
  <2>7. SerproSignsOpenRequest'
    BY <1>1, <1>2, <2>4, <2>5, <2>6 DEF SealInv, SerproSignsOpenRequest, LinkWorks
  <2> QED
    BY <2>1, <2>2, <2>3, <2>7 DEF SealInv, ServingInv
<1> QED
  BY <1>1, <1>2, <1>3, ReturnStep DEF LockForm

LEMMA SignPdfStep ==
  ASSUME SealInv, NEW c \in Callers, SignPdfWithSerpro(c)
  PROVE  SealInv'
<1>1. callback[c].at = "serpro" /\ Goto(c, "commit") /\ UNCHANGED <<form, attempts, states, sealed>>
  BY DEF SignPdfWithSerpro
<1>2. PICK s \in 1..Len(attempts) : s = callback[c].attempt /\ s \notin states /\ asked[s] = 0
  BY <1>1, CallerServes DEF SealInv, ServingInv, AttemptsAreTaken, NotAskedYet
<1>3. /\ asked' \in Seq(Nat) /\ Len(asked') = Len(asked) /\ asked'[s] = 1
      /\ DOMAIN asked' = DOMAIN asked /\ DOMAIN asked = 1..Len(attempts)
      /\ \A q \in 1..Len(attempts) \ {s} : asked'[q] = asked[q]
  <2>1. asked' = [asked EXCEPT ![s] = asked[s] + 1]
    BY <1>2 DEF SignPdfWithSerpro
  <2> QED
    BY <1>2, <2>1 DEF SealInv, ServingInv, SerproTypes
<1>4. SerproTypes' /\ AttemptsAreTheSigners' /\ AttemptsAreTaken' /\ HolderIsTheSubject'
  <2>1. SerproTypes' /\ AttemptsAreTheSigners'
    BY <1>1, <1>3, GotoFacts DEF SealInv, ServingInv, SerproTypes, AttemptsAreTheSigners
  <2>2. AttemptsAreTaken'
    BY <1>1, GotoAttempts
  <2>3. HolderIsTheSubject'
    BY <1>1, GotoFacts DEF SealInv, ServingInv, HolderIsTheSubject
  <2> QED
    BY <2>1, <2>2, <2>3
<1>5. SerproSignsOnce'
  BY <1>3 DEF SealInv, ServingInv, SerproSignsOnce
<1>6. NotAskedYet'
  <2>1. \A q \in states' : asked'[q] = 0
    BY <1>1, <1>2, <1>3 DEF SealInv, ServingInv, SerproTypes, NotAskedYet
  <2>2. ASSUME NEW d \in Callers, callback'[d].at \in {"exchange", "sign", "serpro"}
        PROVE  asked'[callback'[d].attempt] = 0
    <3>1. d # c /\ callback'[d] = callback[d]
      BY <1>1, <2>2, GotoFacts
    <3>2. callback[d].attempt \in 1..Len(attempts) /\ callback[d].attempt # s
      BY <1>1, <1>2, <2>2, <3>1, CallerServes DEF SealInv, ServingInv, AttemptsAreTaken
    <3> QED
      BY <1>3, <2>2, <3>1, <3>2 DEF SealInv, ServingInv, NotAskedYet
  <2> QED
    BY <2>1, <2>2 DEF NotAskedYet
<1> QED
  BY <1>1, <1>4, <1>5, <1>6, GotoFacts, FormsStay DEF SealInv, ServingInv

LEMMA CommitSealStep ==
  ASSUME SealInv, NEW c \in Callers, CommitSeal(c)
  PROVE  SealInv'
<1>1. /\ callback[c].at = "commit" /\ Return(c) /\ UNCHANGED <<attempts, states, asked>>
      /\ callback[c] \in Servings
  BY CallerServes DEF CommitSeal, SealInv, ServingInv
<1>2. PICK a \in AttemptRows :
          a = attempts[callback[c].attempt]
  BY <1>1, HeldAttempt DEF SealInv
<1>3. PICK f \in Forms : f = a.form
  BY SMTT(60) DEF AttemptRows
<1>4. /\ form' = [form EXCEPT ![f].status = "completed", ![f].signer = "signed"]
      /\ sealed' = [sealed EXCEPT ![f] = sealed[f] \cup {callback[c]}]
  BY <1>2, <1>3 DEF CommitSeal
<1>5. /\ form' \in [Forms -> FormRows] /\ form'[f].signer = "signed"
      /\ \A g \in Forms \ {f} : form'[g] = form[g]
  <2> DEFINE row == [form[f] EXCEPT !.status = "completed", !.signer = "signed"]
  <2>1. form \in [Forms -> FormRows]
    BY DEF SealInv, ServingInv, SerproTypes
  <2>2. row \in FormRows /\ row.signer = "signed"
    BY <2>1 DEF FormRows
  <2>3. form' = [form EXCEPT ![f] = row]
    BY <1>4, <2>1
  <2> HIDE DEF row
  <2> QED
    BY <2>1, <2>2, <2>3
<1>6. /\ callback' \in [Callers -> {NoCallback} \cup Servings]
      /\ callback'[c] = NoCallback /\ callback'[c].at = "idle"
      /\ \A d \in Callers \ {c} : callback'[d] = callback[d]
  BY <1>1 DEF Return, SealInv, ServingInv, SerproTypes, NoCallback
<1>7. sealed[f] = {}
  BY <1>1, <1>2, <1>3 DEF SealInv, SerproSignsOpenRequest, SealedOnce
<1>8. callback[c].holder = SoleSigner[f]
  BY <1>1, <1>2, <1>3, CallerServes DEF SealInv, ServingInv, HolderIsTheSubject, AttemptsAreTaken,
     AttemptsAreTheSigners
<1>9. sealed' \in [Forms -> SUBSET Servings] /\ sealed'[f] = {callback[c]}
      /\ \A g \in Forms \ {f} : sealed'[g] = sealed[g]
  BY <1>1, <1>4, <1>7 DEF SealInv, ServingInv, SerproTypes
<1>10. ServingInv'
  <2>1. SerproTypes' /\ AttemptsAreTheSigners' /\ SerproSignsOnce'
    BY <1>1, <1>5, <1>6, <1>9 DEF SealInv, ServingInv, SerproTypes, AttemptsAreTheSigners,
       SerproSignsOnce
  <2>2. AttemptsAreTaken' /\ NotAskedYet' /\ HolderIsTheSubject'
    BY <1>1, <1>6 DEF SealInv, ServingInv, AttemptsAreTaken, NotAskedYet, HolderIsTheSubject
  <2> QED
    BY <2>1, <2>2 DEF ServingInv
<1>11. SealedOnce'
  BY <1>1, <1>5, <1>8, <1>9 DEF SealInv, SealedOnce
<1>12. SerproSignsOpenRequest'
  <2>1. \A d \in Callers : callback'[d].at \in {"serpro", "commit"} =>
            /\ d # c /\ callback'[d] = callback[d]
            /\ attempts[callback[d].attempt].form \in Forms \ {f}
    <3>1. ASSUME NEW d \in Callers, callback'[d].at \in {"serpro", "commit"}
          PROVE  /\ d # c /\ callback'[d] = callback[d]
                 /\ attempts[callback[d].attempt].form \in Forms \ {f}
      <4>1. d # c /\ callback'[d] = callback[d]
        BY <1>6, <3>1
      <4>2. attempts[callback[d].attempt].form \in Forms
        BY <3>1, <4>1, HeldAttempt DEF SealInv
      <4> QED
        BY <1>1, <1>2, <1>3, <3>1, <4>1, <4>2 DEF SealInv, SerproSignsOpenRequest
    <3> QED
      BY <3>1
  <2> QED
    BY <1>1, <1>5, <2>1 DEF SealInv, SerproSignsOpenRequest, LinkWorks
<1> QED
  BY <1>10, <1>11, <1>12, SMTT(60) DEF SealInv

\* The inductive invariant holds in every reachable state of the authorizations.
THEOREM SealInvariant == SerproSpec => []SealInv
<1>1. SerproInit => SealInv
  <2> SUFFICES ASSUME SerproInit PROVE SealInv
    OBVIOUS
  <2>1. SerproTypes
    BY DEF SerproInit, SerproTypes, FormRows, NoCallback
  <2>2. /\ \A c \in Callers : callback[c] = NoCallback /\ callback[c].at = "idle"
        /\ attempts = <<>> /\ asked = <<>> /\ Len(attempts) = 0 /\ states = {}
        /\ \A f \in Forms : sealed[f] = {}
    BY DEF SerproInit, NoCallback
  <2>3. ServingInv
    BY <2>1, <2>2 DEF ServingInv, AttemptsAreTheSigners, AttemptsAreTaken, NotAskedYet,
       HolderIsTheSubject, SerproSignsOnce
  <2> QED
    BY <2>2, <2>3 DEF SealInv, SerproSignsOpenRequest, SealedOnce
<1>2. SealInv /\ [SerproNext]_serproVars => SealInv'
  <2> SUFFICES ASSUME SealInv, [SerproNext]_serproVars PROVE SealInv'
    OBVIOUS
  <2>1. CASE UNCHANGED serproVars
    <3>1. UNCHANGED <<form, attempts, states, callback, asked, sealed>>
      BY <2>1 DEF serproVars
    <3> QED
      BY <3>1, FormsMove DEF SealInv, ServingInv, SerproTypes
  <2>2. ASSUME NEW c \in Callers, CallFails(c) PROVE SealInv'
    BY <2>2, ReturnStep DEF CallFails
  <2> QED
    BY <2>1, <2>2, FormActions, StartAuthorizationStep, StateExpiresStep, CallbackStep,
       ExchangeStep, LockFormStep, SignPdfStep, CommitSealStep DEF SerproNext
<1> QED
  BY <1>1, <1>2, PTL DEF SerproSpec

\* Serpro signs once for what the signer approved, for the request as he saw it,
\* and what sign stores is his own and the only one, although the callback may
\* be repeated, run twice at a time, or fail after Serpro has signed.
THEOREM SealsAreSound == SerproSpec => []SealIsSound
<1>1. ASSUME SealInv PROVE SealIsSound
  <2>1. ASSUME NEW f \in Forms
        PROVE  Cardinality(sealed[f]) <= 1 /\ \A s \in sealed[f] : s.holder = SoleSigner[f]
    <3>1. CASE sealed[f] = {}
      BY <3>1, FS_EmptySet
    <3>2. ASSUME NEW x \in Servings, sealed[f] = {x}, x.holder = SoleSigner[f]
          PROVE  Cardinality(sealed[f]) <= 1 /\ \A s \in sealed[f] : s.holder = SoleSigner[f]
      BY <3>2, FS_Singleton
    <3> QED
      BY <1>1, <3>1, <3>2 DEF SealInv, SealedOnce
  <2> QED
    BY <1>1, <2>1 DEF SealIsSound, SealIsTheSigners, SealInv, ServingInv
<1> QED
  BY <1>1, SealInvariant, PTL

-----------------------------------------------------------------------------
(* The services of generated domains                                        *)

CrudOps == {"create", "update", "delete", "restore", "link", "unlink"}
MemoryRow == [code : ItemCodes, parent : Parents \cup {Ghost, Nil}, deleted : BOOLEAN,
              tags : SUBSET (Tags \cup {Ghost})]
Columns == {"code", "parent", "deleted"}
Jobs == [op : CrudOps, req : RequestRows, item : Items, row : ItemRow,
         columns : SUBSET Columns, loaded : SUBSET Tags, tags : SUBSET (Tags \cup {Ghost})]

Busy(w) == crudJob[w] # CrudIdle

CrudTypes ==
    /\ table \in [Items -> ItemRow \cup {Nil}]
    /\ memory \in [CrudWorkers -> [Items -> MemoryRow \cup {Nil}]]
    /\ crudJob \in [CrudWorkers -> Jobs \cup {CrudIdle}]

\* What a loaded request will flush: the relation it wants comes from the one it
\* read; only a delete and a restore send deleted_at; a create has its id for
\* itself, the others a row that is there.
JobSound(held) ==
    /\ held.op = held.req.op
    /\ held.tags = WantedTags(held.req, held.loaded)
    /\ IF held.op = "create" THEN table[held.item] = Nil
       ELSE held.item = held.req.item /\ table[held.item] # Nil
    /\ held.op \in {"update", "link", "unlink"} => "deleted" \notin held.columns
    /\ held.op = "delete" => held.row.deleted

JobsAreSound ==
    /\ \A w \in CrudWorkers : Busy(w) => JobSound(crudJob[w])
    /\ \A v, w \in CrudWorkers : v # w /\ Busy(v) /\ Busy(w) /\ crudJob[v].op = "create" =>
          crudJob[v].item # crudJob[w].item

CrudInv == CrudTypes /\ JobsAreSound

LEMMA RequestFacts ==
  ASSUME NEW req \in CrudRequests
  PROVE  /\ req \in RequestRows /\ req.op \in CrudOps
         /\ req.op # "create" => req.item \in Items
         /\ req.op = "create" => /\ req.code \in ItemCodes
                                 /\ req.parent \in Parents \cup {Ghost, Nil}
                                 /\ req.tags \in SUBSET (Tags \cup {Ghost})
         /\ req.op = "update" => /\ req.code \in ItemCodes \cup {Nil}
                                 /\ req.parent \in Parents \cup {Ghost, Nil}
                                 /\ req.tags \in {Nil} \cup SUBSET (Tags \cup {Ghost})
         /\ req.op \in {"link", "unlink"} => req.tag \in Tags \cup {Ghost}
  BY CrudAssumption DEF RequestRows, CrudOps

LEMMA IdleIsNoJob == CrudIdle \notin Jobs /\ CrudIdle.op \notin CrudOps
  BY CrudAssumption DEF CrudIdle, Jobs, CrudOps

\* uuid4 draws an id that nobody has and nobody is about to insert.
LEMMA NextItemIsUnused ==
  ASSUME NEW t, Unused(t) # {}
  PROVE  NextItem(t) \in Unused(t)
<1>1. ASSUME NEW T \in SUBSET Nat, T # {} PROVE \E x \in T : \A y \in T : x <= y
  <2> DEFINE R == OpToRel(<, Nat)
  <2>1. IsWellFoundedOn(R, Nat)
    BY NatLessThanWellFounded
  <2>2. \A x, y \in Nat : y < x => <<y, x>> \in R
    BY DEF OpToRel
  <2> HIDE DEF R
  <2>3. PICK x \in T : \A y \in T : ~(<<y, x>> \in R)
    BY <1>1, <2>1, WFMin
  <2>4. ASSUME NEW y \in T PROVE x <= y
    <3>1. x \in Nat /\ y \in Nat /\ ~(y < x)
      BY <1>1, <2>2, <2>3
    <3> QED
      BY <3>1
  <2> QED
    BY <2>4
<1>2. Unused(t) \in SUBSET Nat
  BY CrudAssumption DEF Unused
<1>3. \E i \in Unused(t) : \A j \in Unused(t) : i <= j
  BY <1>1, <1>2
<1> QED
  BY <1>3 DEF NextItem

\* The relation a request wants is one of ids.
LEMMA WantedTagsType ==
  ASSUME NEW req \in CrudRequests, NEW loaded \in SUBSET (Tags \cup {Ghost})
  PROVE  WantedTags(req, loaded) \in SUBSET (Tags \cup {Ghost})
<1>1. CASE req.op \in {"create", "update"}
  BY <1>1, RequestFacts DEF WantedTags
<1>2. CASE req.op = "link"
  BY <1>2, RequestFacts DEF WantedTags
<1>3. CASE req.op = "unlink"
  BY <1>3, RequestFacts DEF WantedTags
<1>4. CASE req.op \in {"delete", "restore"}
  BY <1>4 DEF WantedTags
<1> QED
  BY <1>1, <1>2, <1>3, <1>4, RequestFacts DEF CrudOps

\* What a request makes of a row that is there: only a delete and a restore touch
\* deleted_at.
LEMMA WantedOfRow ==
  ASSUME NEW req \in CrudRequests, req.op # "create", NEW loaded \in ItemRow
  PROVE  /\ Wanted(req, loaded) \in ItemRow
         /\ req.op \in {"update", "link", "unlink"} =>
              Wanted(req, loaded).deleted = loaded.deleted
         /\ req.op = "delete" => Wanted(req, loaded).deleted = TRUE
<1>1. CASE req.op = "update"
  <2>1. Wanted(req, loaded) = [loaded EXCEPT !.code = Sent("code", loaded, req.code),
                                             !.parent = Sent("parent", loaded, req.parent)]
    BY <1>1 DEF Wanted
  <2>2. /\ Sent("code", loaded, req.code) \in ItemCodes
        /\ Sent("parent", loaded, req.parent) \in Parents \cup {Ghost, Nil}
    BY <1>1, RequestFacts DEF Sent, ItemRow
  <2> QED
    BY <1>1, <2>1, <2>2 DEF ItemRow
<1>2. CASE req.op = "delete"
  BY <1>2 DEF Wanted, ItemRow
<1>3. CASE req.op = "restore"
  BY <1>3 DEF Wanted, ItemRow
<1>4. CASE req.op \in {"link", "unlink"}
  BY <1>4 DEF Wanted
<1> QED
  BY <1>1, <1>2, <1>3, <1>4, RequestFacts DEF CrudOps

\* A request that loads begins a sound job, or ends at once.
LEMMA LoadedJob ==
  ASSUME CrudInv, NEW w \in CrudWorkers, NEW req \in CrudRequests, Load(w, req)
  PROVE  /\ UNCHANGED <<table, links, memory>> /\ ~Busy(w)
         /\ \/ UNCHANGED crudJob
            \/ \E held \in Jobs :
                 /\ crudJob' = [crudJob EXCEPT ![w] = held]
                 /\ JobSound(held)
                 /\ \A v \in CrudWorkers : /\ Busy(v)
                                           /\ held.op = "create" \/ crudJob[v].op = "create"
                                           => crudJob[v].item # held.item
<1>1. UNCHANGED <<table, links, memory>> /\ ~Busy(w)
  BY DEF Load, Busy
<1>2. CASE ReadOutcome(req) # "ok"
  BY <1>1, <1>2 DEF Load
<1>3. CASE ReadOutcome(req) = "ok"
  <2> DEFINE item   == IF req.op = "create" THEN NextItem(table) ELSE req.item
             row    == table[item]
             tags   == LinkedTo(item)
             wanted == Wanted(req, row)
             held    == [op |-> req.op, req |-> req, item |-> item, row |-> wanted,
                        columns |-> ChangedColumns(req, row, wanted),
                        loaded |-> tags, tags |-> WantedTags(req, tags)]
  <2>1. crudJob' = [crudJob EXCEPT ![w] = held]
    BY <1>3 DEF Load
  <2>2. req.op = "create" => item \in Unused(table)
    BY NextItemIsUnused DEF Load
  <2>3. item \in Items
    BY <2>2, RequestFacts DEF Unused
  <2>4. IF req.op = "create" THEN row = Nil ELSE row \in ItemRow /\ row # Nil
    <3>1. CASE req.op = "create"
      BY <2>2, <3>1 DEF Unused
    <3>2. CASE req.op # "create"
      <4>1. table[req.item] # Nil
        BY <1>3, <3>2 DEF ReadOutcome
      <4> QED
        BY <2>3, <3>2, <4>1 DEF CrudInv, CrudTypes
    <3> QED
      BY <3>1, <3>2
  <2>5. wanted \in ItemRow
    <3>1. CASE req.op = "create"
      <4>1. wanted = [code |-> req.code, parent |-> req.parent, deleted |-> FALSE]
        BY <3>1 DEF Wanted
      <4> QED
        BY <3>1, <4>1, RequestFacts DEF ItemRow
    <3>2. CASE req.op # "create"
      BY <2>4, <3>2, WantedOfRow
    <3> QED
      BY <3>1, <3>2
  <2>6. tags \in SUBSET Tags
    BY DEF LinkedTo
  <2>7. WantedTags(req, tags) \in SUBSET (Tags \cup {Ghost})
    <3>1. tags \in SUBSET (Tags \cup {Ghost})
      BY <2>6
    <3> HIDE DEF tags
    <3> QED
      BY <3>1, WantedTagsType
  <2>8. DOMAIN wanted = Columns
    BY <2>5 DEF ItemRow, Columns
  <2>9. ChangedColumns(req, row, wanted) \in SUBSET Columns
    BY <2>8 DEF ChangedColumns
  <2>10. req.op \in {"update", "link", "unlink"} => "deleted" \notin ChangedColumns(req, row, wanted)
    <3>1. SUFFICES ASSUME req.op \in {"update", "link", "unlink"}
                   PROVE  "deleted" \notin ChangedColumns(req, row, wanted)
      OBVIOUS
    <3>2. row # Nil /\ wanted.deleted = row.deleted /\ req.op # "delete"
      BY <2>4, <3>1, WantedOfRow
    <3> QED
      BY <3>2 DEF ChangedColumns
  <2>11. req.op = "delete" => wanted.deleted
    BY <2>4, WantedOfRow
  <2>12. \A v \in CrudWorkers : Busy(v) /\ (req.op = "create" \/ crudJob[v].op = "create")
            => crudJob[v].item # item
    <3>1. SUFFICES ASSUME NEW v \in CrudWorkers, Busy(v),
                          req.op = "create" \/ crudJob[v].op = "create"
                   PROVE  crudJob[v].item # item
      OBVIOUS
    <3>2. CASE req.op = "create"
      BY <2>2, <3>1, <3>2 DEF Unused, Busy
    <3>3. CASE req.op # "create"
      <4>1. table[crudJob[v].item] = Nil
        BY <3>1, <3>3 DEF CrudInv, JobsAreSound, JobSound
      <4> QED
        BY <2>4, <3>3, <4>1
    <3> QED
      BY <3>2, <3>3
  <2>13. req.op \in CrudOps /\ req \in RequestRows
    BY RequestFacts
  <2> HIDE DEF item, row, tags, wanted
  <2>14. held \in Jobs
    BY <2>3, <2>5, <2>6, <2>7, <2>9, <2>13 DEF Jobs
  <2>15. JobSound(held)
    BY <2>4, <2>10, <2>11 DEF JobSound, item, row
  <2>16. \A v \in CrudWorkers : Busy(v) /\ (held.op = "create" \/ crudJob[v].op = "create")
            => crudJob[v].item # held.item
    BY <2>12
  <2> HIDE DEF held
  <2> QED
    BY <1>1, <2>1, <2>14, <2>15, <2>16
<1> QED
  BY <1>2, <1>3

\* The flush writes a row, and deleted_at only for a delete or a restore.
LEMMA FlushedRow ==
  ASSUME CrudInv, NEW w \in CrudWorkers, Busy(w)
  PROVE  LET held == crudJob[w]
         IN  /\ held \in Jobs /\ Flushed(held) \in ItemRow /\ Flushed(held) # Nil
             /\ held.op \notin {"create", "restore"} =>
                  (table[held.item].deleted => Flushed(held).deleted)
<1> DEFINE held == crudJob[w]
<1>1. held \in Jobs /\ JobSound(held)
  BY DEF CrudInv, CrudTypes, JobsAreSound, Busy
<1> HIDE DEF held
<1>2. held.item \in Items /\ held.row \in ItemRow /\ held.op \in CrudOps
  BY <1>1 DEF Jobs
<1>3. CASE held.op = "create"
  <2>1. Flushed(held) = held.row
    BY <1>3 DEF Flushed
  <2> QED
    BY <1>1, <1>2, <1>3, <2>1, CrudAssumption DEF held
<1>4. CASE held.op # "create"
  <2>1. table[held.item] \in ItemRow
    BY <1>1, <1>2, <1>4 DEF CrudInv, CrudTypes, JobSound
  <2>2. DOMAIN held.row = Columns
    BY <1>2 DEF ItemRow, Columns
  <2>3. Flushed(held) = [c \in Columns |-> IF c \in held.columns THEN held.row[c]
                                          ELSE table[held.item][c]]
    BY <1>4, <2>2 DEF Flushed
  <2>4. Flushed(held) \in ItemRow
    BY <1>2, <2>1, <2>3 DEF ItemRow, Columns
  <2>5. Flushed(held).deleted = IF "deleted" \in held.columns THEN held.row.deleted
                               ELSE table[held.item].deleted
    BY <2>3 DEF Columns
  <2>6. held.op \notin {"create", "restore"} => (table[held.item].deleted => Flushed(held).deleted)
    BY <1>1, <1>2, <2>5 DEF JobSound, CrudOps
  <2> QED
    BY <1>1, <2>4, <2>6, CrudAssumption DEF held
<1> QED
  BY <1>3, <1>4

\* What a commit does to the rows and to the jobs.
LEMMA Committed ==
  ASSUME CrudInv, NEW w \in CrudWorkers, Commit(w)
  PROVE  /\ Busy(w) /\ crudJob[w] \in Jobs /\ JobSound(crudJob[w])
         /\ crudJob' = [crudJob EXCEPT ![w] = CrudIdle] /\ UNCHANGED memory
         /\ \E row \in ItemRow \ {Nil} :
              /\ table' = [table EXCEPT ![crudJob[w].item] = row]
              /\ crudJob[w].op \notin {"create", "restore"} =>
                   (table[crudJob[w].item].deleted => row.deleted)
         /\ crudAnswer'.op = crudJob[w].req.op /\ crudAnswer'.item = crudJob[w].req.item
<1>1. Busy(w)
  BY DEF Commit, Busy
<1>2. /\ crudJob[w] \in Jobs /\ Flushed(crudJob[w]) \in ItemRow /\ Flushed(crudJob[w]) # Nil
      /\ crudJob[w].op \notin {"create", "restore"} =>
           (table[crudJob[w].item].deleted => Flushed(crudJob[w]).deleted)
  BY <1>1, FlushedRow
<1>3. JobSound(crudJob[w])
  BY <1>1 DEF CrudInv, JobsAreSound
<1>4. /\ table' = [table EXCEPT ![crudJob[w].item] = Flushed(crudJob[w])]
      /\ crudJob' = [crudJob EXCEPT ![w] = CrudIdle] /\ UNCHANGED memory
  BY DEF Commit
<1>5. crudAnswer'.op = crudJob[w].req.op /\ crudAnswer'.item = crudJob[w].req.item
  BY DEF Commit, Answered
<1> QED
  BY <1>1, <1>2, <1>3, <1>4, <1>5

\* A job that ends leaves the others as they were.
LEMMA JobEnds ==
  ASSUME CrudInv, NEW w \in CrudWorkers, crudJob' = [crudJob EXCEPT ![w] = CrudIdle]
  PROVE  /\ crudJob' \in [CrudWorkers -> Jobs \cup {CrudIdle}]
         /\ crudJob'[w] = CrudIdle
         /\ \A v \in CrudWorkers \ {w} : crudJob'[v] = crudJob[v]
  BY DEF CrudInv, CrudTypes

LEMMA CommitKeeps ==
  ASSUME CrudInv, NEW w \in CrudWorkers, Commit(w)
  PROVE  CrudInv'
<1> DEFINE item == crudJob[w].item
<1>1. PICK row \in ItemRow \ {Nil} : table' = [table EXCEPT ![item] = row]
  BY Committed
<1>2. /\ Busy(w) /\ crudJob' = [crudJob EXCEPT ![w] = CrudIdle] /\ UNCHANGED memory
      /\ item \in Items
  BY Committed DEF Jobs
<1>3. CrudTypes'
  BY <1>1, <1>2, JobEnds DEF CrudInv, CrudTypes
<1>4. ASSUME NEW v \in CrudWorkers, Busy(v)'
      PROVE  v # w /\ crudJob'[v] = crudJob[v] /\ Busy(v)
  BY <1>2, <1>4, JobEnds DEF Busy
<1>5. ASSUME NEW v \in CrudWorkers, Busy(v)' PROVE JobSound(crudJob[v])'
  <2>1. v # w /\ crudJob'[v] = crudJob[v] /\ Busy(v)
    BY <1>4, <1>5
  <2>2. JobSound(crudJob[v]) /\ (crudJob[v].op = "create" => crudJob[v].item # item)
    BY <1>2, <2>1 DEF CrudInv, JobsAreSound
  <2>3. crudJob[v].item \in Items
    BY <2>1 DEF CrudInv, CrudTypes, Jobs, Busy
  <2>4. /\ table'[crudJob[v].item] # Nil <=>
             (crudJob[v].item = item \/ table[crudJob[v].item] # Nil)
    BY <1>1, <1>2, <2>3 DEF CrudInv, CrudTypes
  <2> QED
    BY <2>1, <2>2, <2>4 DEF JobSound
<1>6. \A u, v \in CrudWorkers :
        u # v /\ Busy(u)' /\ Busy(v)' /\ crudJob'[u].op = "create" =>
          crudJob'[u].item # crudJob'[v].item
  BY <1>4 DEF CrudInv, JobsAreSound
<1> QED
  BY <1>3, <1>5, <1>6 DEF CrudInv, JobsAreSound

LEMMA LoadKeeps ==
  ASSUME CrudInv, NEW w \in CrudWorkers, NEW req \in CrudRequests, Load(w, req)
  PROVE  CrudInv'
<1>1. UNCHANGED <<table, links, memory>> /\ ~Busy(w)
  BY LoadedJob
<1>2. CASE UNCHANGED crudJob
  BY <1>1, <1>2 DEF CrudInv, CrudTypes, JobsAreSound, JobSound, Busy
<1>3. ASSUME NEW held \in Jobs, crudJob' = [crudJob EXCEPT ![w] = held], JobSound(held),
             \A v \in CrudWorkers : Busy(v) /\ (held.op = "create" \/ crudJob[v].op = "create")
               => crudJob[v].item # held.item
      PROVE  CrudInv'
  <2>1. /\ crudJob' \in [CrudWorkers -> Jobs \cup {CrudIdle}] /\ crudJob'[w] = held
        /\ \A v \in CrudWorkers \ {w} : crudJob'[v] = crudJob[v]
    BY <1>3 DEF CrudInv, CrudTypes
  <2>2. CrudTypes'
    BY <1>1, <2>1 DEF CrudInv, CrudTypes
  <2>3. \A v \in CrudWorkers : Busy(v)' => JobSound(crudJob[v])'
    BY <1>1, <1>3, <2>1 DEF CrudInv, JobsAreSound, JobSound, Busy
  <2>4. \A u, v \in CrudWorkers :
          u # v /\ Busy(u)' /\ Busy(v)' /\ crudJob'[u].op = "create" =>
            crudJob'[u].item # crudJob'[v].item
    BY <1>3, <2>1 DEF CrudInv, JobsAreSound, Busy
  <2> QED
    BY <2>2, <2>3, <2>4 DEF CrudInv, JobsAreSound
<1> QED
  BY <1>2, <1>3, LoadedJob

\* A request that ends without a commit leaves the rows alone.
LEMMA FailKeeps ==
  ASSUME CrudInv, NEW w \in CrudWorkers, CommitFails(w)
  PROVE  CrudInv' /\ UNCHANGED <<table, links, memory>>
<1>1. crudJob' = [crudJob EXCEPT ![w] = CrudIdle] /\ UNCHANGED <<table, links, memory>>
  BY DEF CommitFails
<1>2. \A v \in CrudWorkers : Busy(v)' => crudJob'[v] = crudJob[v] /\ Busy(v)
  BY <1>1, JobEnds DEF Busy
<1>3. CrudTypes'
  BY <1>1, JobEnds DEF CrudInv, CrudTypes
<1>4. JobsAreSound'
  BY <1>1, <1>2 DEF CrudInv, JobsAreSound, JobSound
<1> QED
  BY <1>1, <1>3, <1>4 DEF CrudInv

\* A step of the in-memory service writes one item, new or found.
LEMMA MemoryStep ==
  ASSUME CrudInv, NEW w \in CrudWorkers, NEW req \in CrudRequests,
         MemoryCreate(w, req) \/ MemoryRequest(w, req)
  PROVE  /\ UNCHANGED <<table, links, crudJob>>
         /\ \/ UNCHANGED memory
            \/ \E i \in Items, row \in MemoryRow : memory' = [memory EXCEPT ![w][i] = row]
<1>1. CASE MemoryCreate(w, req)
  <2> DEFINE i == NextItem(memory[w])
             row == [code |-> req.code, parent |-> Nil, deleted |-> FALSE, tags |-> req.tags]
  <2>1. i \in Items /\ req.op = "create"
    BY <1>1, NextItemIsUnused DEF MemoryCreate, Unused
  <2>2. row \in MemoryRow
    BY <2>1, RequestFacts DEF MemoryRow
  <2>3. /\ UNCHANGED memory \/ memory' = [memory EXCEPT ![w][i] = row]
        /\ UNCHANGED <<table, links, crudJob>>
    BY <1>1 DEF MemoryCreate
  <2> HIDE DEF i, row
  <2> QED
    BY <2>1, <2>2, <2>3
<1>2. CASE MemoryRequest(w, req)
  <2> DEFINE item == Found(w, req)
             row == [item EXCEPT !.tags = WantedTags(req, item.tags)]
  <2>1. UNCHANGED <<table, links, crudJob>> /\ req.op # "create" /\ req.item \in Items
    BY <1>2, RequestFacts DEF MemoryRequest
  <2>2. CASE item = Nil
    BY <1>2, <2>1, <2>2 DEF MemoryRequest
  <2>3. CASE item # Nil
    <3>1. item \in MemoryRow
      BY <2>1, <2>3 DEF Found, CrudInv, CrudTypes
    <3>2. memory' = [memory EXCEPT ![w][req.item] = row]
      BY <1>2, <2>3 DEF MemoryRequest
    <3> HIDE DEF item
    <3>3. PICK tags \in SUBSET (Tags \cup {Ghost}) : tags = WantedTags(req, item.tags)
      BY <3>1, WantedTagsType DEF MemoryRow
    <3>4. row \in MemoryRow
      BY <3>1, <3>3 DEF MemoryRow
    <3> HIDE DEF row
    <3> QED
      BY <2>1, <3>2, <3>4
  <2> QED
    BY <2>2, <2>3
<1> QED
  BY <1>1, <1>2

LEMMA MemoryKeeps ==
  ASSUME CrudInv, NEW w \in CrudWorkers, NEW req \in CrudRequests,
         MemoryCreate(w, req) \/ MemoryRequest(w, req)
  PROVE  CrudInv'
<1>1. UNCHANGED <<table, links, crudJob>>
  BY MemoryStep
<1>2. memory' \in [CrudWorkers -> [Items -> MemoryRow \cup {Nil}]]
  <2>1. memory \in [CrudWorkers -> [Items -> MemoryRow \cup {Nil}]]
    BY DEF CrudInv, CrudTypes
  <2>2. ASSUME NEW i \in Items, NEW row \in MemoryRow, memory' = [memory EXCEPT ![w][i] = row]
        PROVE  memory' \in [CrudWorkers -> [Items -> MemoryRow \cup {Nil}]]
    BY <2>1, <2>2
  <2> QED
    BY <2>1, <2>2, MemoryStep
<1> QED
  BY <1>1, <1>2 DEF CrudInv, CrudTypes, JobsAreSound, JobSound, Busy

\* The inductive invariant holds in every reachable state of a generated service.
THEOREM CrudInvariant == CrudSpec => []CrudInv
<1>1. CrudInit => CrudInv
  <2> SUFFICES ASSUME CrudInit PROVE CrudInv
    OBVIOUS
  <2>1. \A w \in CrudWorkers : ~Busy(w)
    BY DEF CrudInit, Busy
  <2> QED
    BY <2>1 DEF CrudInit, CrudInv, CrudTypes, JobsAreSound
<1>2. CrudInv /\ [CrudNext]_crudVars => CrudInv'
  <2> SUFFICES ASSUME CrudInv, [CrudNext]_crudVars PROVE CrudInv'
    OBVIOUS
  <2>1. CASE UNCHANGED crudVars
    BY <2>1 DEF crudVars, CrudInv, CrudTypes, JobsAreSound, JobSound, Busy
  <2> QED
    BY <2>1, LoadKeeps, MemoryKeeps, CommitKeeps, FailKeeps DEF CrudNext
<1> QED
  BY <1>1, <1>2, PTL DEF CrudSpec

\* How a step of the service can change what is stored.
LEMMA CrudStepKinds ==
  ASSUME CrudInv, [CrudNext]_crudVars
  PROVE  \/ UNCHANGED <<table, links, memory>>
         \/ \E w \in CrudWorkers : Commit(w)
         \/ \E w \in CrudWorkers, req \in CrudRequests :
              MemoryCreate(w, req) \/ MemoryRequest(w, req)
<1>1. CASE UNCHANGED crudVars
  BY <1>1 DEF crudVars
<1>2. ASSUME NEW w \in CrudWorkers, NEW req \in CrudRequests, Load(w, req)
      PROVE  UNCHANGED <<table, links, memory>>
  BY <1>2 DEF Load
<1>3. ASSUME NEW w \in CrudWorkers, CommitFails(w)
      PROVE  UNCHANGED <<table, links, memory>>
  BY <1>3 DEF CommitFails
<1> QED
  BY <1>1, <1>2, <1>3 DEF CrudNext

LEMMA DeletedStay ==
  ASSUME CrudInv, [CrudNext]_crudVars
  PROVE  DeletedUntilRestored
<1> DEFINE Revived(i) ==
             table[i] # Nil /\ table'[i] # Nil /\ table[i].deleted /\ ~table'[i].deleted
<1>1. SUFFICES ASSUME NEW i \in Items, Revived(i)
               PROVE  crudAnswer'.op = "restore" /\ crudAnswer'.item = i
  BY DEF DeletedUntilRestored
<1>2. PICK w \in CrudWorkers : Commit(w)
  BY <1>1, CrudStepKinds, MemoryStep
<1>3. PICK row \in ItemRow \ {Nil} :
        /\ table' = [table EXCEPT ![crudJob[w].item] = row]
        /\ crudJob[w].op \notin {"create", "restore"} =>
             (table[crudJob[w].item].deleted => row.deleted)
  BY <1>2, Committed
<1>4. /\ JobSound(crudJob[w]) /\ crudJob[w] \in Jobs
      /\ crudAnswer'.op = crudJob[w].req.op /\ crudAnswer'.item = crudJob[w].req.item
  BY <1>2, Committed
<1>5. i = crudJob[w].item /\ table'[i] = row
  BY <1>1, <1>3 DEF CrudInv, CrudTypes
<1>6. crudJob[w].op # "create"
  BY <1>1, <1>4, <1>5 DEF JobSound
<1>7. crudJob[w].op = "restore"
  BY <1>1, <1>3, <1>5, <1>6
<1> QED
  BY <1>4, <1>5, <1>7 DEF JobSound

\* A commit inserts and deletes the pairs of its delta.
LEMMA LinksCommitted ==
  ASSUME NEW w \in CrudWorkers, Commit(w)
  PROVE  LET held == crudJob[w]
             add == {<<held.item, t>> : t \in held.tags \ held.loaded}
             remove == {<<held.item, t>> : t \in held.loaded \ held.tags}
         IN  /\ links' = (links \ remove) \cup add
             /\ add \cap links = {}
  BY DEF Commit, RelationDelta, FlushRefused

LEMMA LinksAsNamed ==
  ASSUME CrudInv, [CrudNext]_crudVars
  PROVE  LinksChangeAsNamed
<1> DEFINE Mine(held, tags) == {<<held.item, t>> : t \in tags}
<1>1. SUFFICES ASSUME NEW w \in CrudWorkers, links' # links, crudJob[w] # CrudIdle,
                      crudJob'[w] = CrudIdle
               PROVE  IF crudJob[w].op \in {"link", "unlink"}
                      THEN (links' \ links) \cup (links \ links') =
                             Mine(crudJob[w], {crudJob[w].req.tag})
                      ELSE /\ crudJob[w].op \in {"create", "update"}
                           /\ crudJob[w].req.tags # Nil
                           /\ links' \ links \subseteq Mine(crudJob[w], crudJob[w].req.tags)
                           /\ links \ links' \subseteq
                                Mine(crudJob[w], crudJob[w].loaded \ crudJob[w].req.tags)
  BY DEF LinksChangeAsNamed
<1>2. Commit(w)
  <2>1. PICK v \in CrudWorkers : Commit(v)
    BY <1>1, CrudStepKinds, MemoryStep
  <2>2. crudJob' = [crudJob EXCEPT ![v] = CrudIdle]
    BY <2>1, Committed
  <2> QED
    BY <1>1, <2>1, <2>2 DEF CrudInv, CrudTypes
<1> DEFINE held == crudJob[w]
           add == Mine(held, held.tags \ held.loaded)
           remove == Mine(held, held.loaded \ held.tags)
<1>3. links' = (links \ remove) \cup add /\ add \cap links = {}
  BY <1>2, LinksCommitted
<1>4. held.op = held.req.op /\ held.tags = WantedTags(held.req, held.loaded)
  BY <1>2, Committed DEF JobSound
<1> HIDE DEF held
<1>5. CASE held.op = "link"
  <2>1. held.tags = held.loaded \cup {held.req.tag}
    BY <1>4, <1>5 DEF WantedTags
  <2>2. remove = {} /\ add \subseteq Mine(held, {held.req.tag})
    BY <2>1
  <2>3. add # {}
    BY <1>1, <1>3, <2>2
  <2>4. add = Mine(held, {held.req.tag})
    BY <2>2, <2>3
  <2>5. (links' \ links) \cup (links \ links') = Mine(held, {held.req.tag})
    BY <1>3, <2>2, <2>4
  <2> QED
    BY <1>5, <2>5 DEF held
<1>6. CASE held.op = "unlink"
  <2>1. held.tags = held.loaded \ {held.req.tag}
    BY <1>4, <1>6 DEF WantedTags
  <2>2. add = {} /\ remove \subseteq Mine(held, {held.req.tag})
    BY <2>1
  <2>3. remove \cap links # {}
    BY <1>1, <1>3, <2>2
  <2>4. remove = Mine(held, {held.req.tag}) /\ remove \subseteq links
    BY <2>2, <2>3
  <2>5. (links' \ links) \cup (links \ links') = Mine(held, {held.req.tag})
    BY <1>3, <2>2, <2>4
  <2> QED
    BY <1>6, <2>5 DEF held
<1>7. CASE held.op \notin {"link", "unlink"}
  <2>1. held.tags # held.loaded
    <3>1. SUFFICES ASSUME held.tags = held.loaded PROVE FALSE
      OBVIOUS
    <3>2. add = {} /\ remove = {}
      BY <3>1
    <3> QED
      BY <1>1, <1>3, <3>2
  <2>2. /\ held.op \in {"create", "update"} /\ held.req.tags # Nil
        /\ held.tags = held.req.tags
    BY <1>4, <1>7, <2>1 DEF WantedTags
  <2>3. /\ links' \ links \subseteq Mine(held, held.req.tags)
        /\ links \ links' \subseteq Mine(held, held.loaded \ held.req.tags)
    BY <1>3, <2>2
  <2> QED
    BY <1>7, <2>2, <2>3 DEF held
<1> QED
  BY <1>5, <1>6, <1>7

\* Whatever a request had read, its commit undoes no deletion and no link that
\* another one committed since: only a restore brings an item back, and a replaced
\* relation keeps the links its request neither saw nor named.
THEOREM OthersWorkIsKept == CrudSpec => CommitsKeepOthersWork
<1>1. CrudInv /\ [CrudNext]_crudVars => [DeletedUntilRestored /\ LinksChangeAsNamed]_crudVars
  BY DeletedStay, LinksAsNamed
<1> QED
  BY <1>1, CrudInvariant, PTL DEF CrudSpec, CommitsKeepOthersWork
-----------------------------------------------------------------------------
(* The domain generator: the tree it writes can always be imported           *)

\* Where a form is in its list of files: the rest of the list is still to be
\* written, what comes before it is on disk.
Written(r, todo) ==
    /\ todo \in Seq(Kinds) /\ Len(todo) <= 6
    /\ \A i \in 1..Len(todo) : todo[i] = WriteOrder(r)[6 - Len(todo) + i]
    /\ \A i \in 1..(6 - Len(todo)) : Exists(<<r.domain, WriteOrder(r)[i]>>)

\* A form that writes has a place in its list, and the entities it refers to are
\* on disk; one that registers its domain has all its files there, and so has what
\* it read of routes.py and loader.py.
JobIsSound(j) ==
    \/ j = NoJob
    \/ /\ j.pc = "write" /\ j.req \in DomainForms
       /\ j = [pc |-> "write", req |-> j.req, todo |-> j.todo, migration |-> j.migration]
       /\ Written(j.req, j.todo)
       /\ j.req.relational => EntitiesExist(j.req)
    \/ /\ j.pc \in {"readRoutes", "writeRoutes", "readLoader", "writeLoader", "answer"}
       /\ j.req \in DomainForms
       /\ Exists(<<j.req.domain, "entity">>) /\ Exists(<<j.req.domain, "router">>)
       /\ j.pc = "writeRoutes" => /\ j.routes.imports \in Seq(Domains)
                                  /\ \A i \in DOMAIN j.routes.imports :
                                       Exists(<<j.routes.imports[i], "router">>)
       /\ j.pc = "writeLoader" => /\ j.loader \subseteq Domains
                                  /\ \A d \in j.loader : Exists(<<d, "entity">>)

ScaffoldInv ==
    /\ files \in [Domains \X Kinds -> DomainForms \cup {NoFile}]
    /\ DOMAIN job = WebWorkers /\ job = [w \in WebWorkers |-> job[w]]
    /\ routes.imports \in Seq(Domains) /\ loader \subseteq Domains
    /\ \A w \in WebWorkers : JobIsSound(job[w])
    /\ ImportsResolve

LEMMA FormFacts ==
  ASSUME NEW r \in DomainForms
  PROVE  /\ r # NoFile /\ r.domain \in Domains
         /\ Required(r) \subseteq Domains /\ r.related \subseteq Required(r)
  BY ScaffoldAssumption DEF Required

\* Both modes write the entity, the schema, the service and the router last and in
\* this order.
LEMMA OrderFacts ==
  ASSUME NEW r
  PROVE  /\ WriteOrder(r)[3] = "entity" /\ WriteOrder(r)[4] = "schema"
         /\ WriteOrder(r)[5] = "service" /\ WriteOrder(r)[6] = "router"
         /\ WriteOrder(r)[1] \in {"init", "notes"} /\ WriteOrder(r)[2] \in {"init", "notes"}
         /\ WriteOrder(r) \in Seq(Kinds) /\ Len(WriteOrder(r)) = 6
<1>1. CASE r.relational
  <2>1. WriteOrder(r) = <<"init", "notes", "entity", "schema", "service", "router">>
    BY <1>1 DEF WriteOrder
  <2> QED
    BY <2>1 DEF Kinds
<1>2. CASE ~r.relational
  <2>1. WriteOrder(r) = <<"notes", "init", "entity", "schema", "service", "router">>
    BY <1>2 DEF WriteOrder, MemoryOrder
  <2> QED
    BY <2>1 DEF Kinds
<1> QED
  BY <1>1, <1>2

\* What is on disk stays there.
Kept == \A f \in Domains \X Kinds : Exists(f) => Exists(f)'

LEMMA SoundJobStays ==
  ASSUME ScaffoldInv, Kept, NEW j, JobIsSound(j)
  PROVE  JobIsSound(j)'
<1>1. CASE j = NoJob
  BY <1>1 DEF JobIsSound
<1>2. CASE j.pc = "write" /\ j.req \in DomainForms /\ j # NoJob
  <2>1. /\ j = [pc |-> "write", req |-> j.req, todo |-> j.todo, migration |-> j.migration]
        /\ Written(j.req, j.todo)
        /\ j.req.relational => EntitiesExist(j.req)
    BY <1>2 DEF JobIsSound
  <2>2. j.req.relational => EntitiesExist(j.req)'
    BY <1>2, <2>1, FormFacts DEF EntitiesExist, Kept, Kinds
  <2>3. Written(j.req, j.todo)'
    <3>1. \A i \in 1..(6 - Len(j.todo)) : WriteOrder(j.req)[i] \in Kinds
      BY <2>1, OrderFacts DEF Written
    <3> QED
      BY <1>2, <2>1, <3>1, FormFacts DEF Written, Kept
  <2> QED
    BY <1>2, <2>1, <2>2, <2>3 DEF JobIsSound
<1>3. CASE j.pc # "write" /\ j # NoJob
  <2>1. /\ j.pc \in {"readRoutes", "writeRoutes", "readLoader", "writeLoader", "answer"}
        /\ j.req \in DomainForms
        /\ Exists(<<j.req.domain, "entity">>) /\ Exists(<<j.req.domain, "router">>)
        /\ j.pc = "writeRoutes" => /\ j.routes.imports \in Seq(Domains)
                                   /\ \A i \in DOMAIN j.routes.imports :
                                        Exists(<<j.routes.imports[i], "router">>)
        /\ j.pc = "writeLoader" => /\ j.loader \subseteq Domains
                                   /\ \A d \in j.loader : Exists(<<d, "entity">>)
    BY <1>3 DEF JobIsSound
  <2>2. \A d \in Domains : \A k \in {"entity", "router"} :
          Exists(<<d, k>>) => Exists(<<d, k>>)'
    BY DEF Kept, Kinds
  <2>3. Exists(<<j.req.domain, "entity">>)' /\ Exists(<<j.req.domain, "router">>)'
    BY <2>1, <2>2, FormFacts
  <2>4. j.pc = "writeRoutes" =>
          \A i \in DOMAIN j.routes.imports : Exists(<<j.routes.imports[i], "router">>)'
    <3>1. SUFFICES ASSUME j.pc = "writeRoutes", NEW i \in DOMAIN j.routes.imports
                   PROVE  Exists(<<j.routes.imports[i], "router">>)'
      OBVIOUS
    <3>2. PICK d \in Domains : d = j.routes.imports[i]
      BY <2>1, <3>1
    <3>3. Exists(<<d, "router">>)
      BY <2>1, <3>1, <3>2
    <3> QED
      BY <2>2, <3>2, <3>3
  <2>5. j.pc = "writeLoader" => \A d \in j.loader : Exists(<<d, "entity">>)'
    BY <2>1, <2>2
  <2> QED
    BY <2>1, <2>3, <2>4, <2>5 DEF JobIsSound
<1> QED
  BY <1>1, <1>2, <1>3 DEF JobIsSound

\* A worker's form moves along and nothing else does.
LEMMA JobMoves ==
  ASSUME ScaffoldInv, NEW w \in WebWorkers, NEW j, job' = [job EXCEPT ![w] = j],
         JobIsSound(j)', Kept, files' \in [Domains \X Kinds -> DomainForms \cup {NoFile}],
         routes'.imports \in Seq(Domains), loader' \subseteq Domains, ImportsResolve'
  PROVE  ScaffoldInv'
<1>1. /\ DOMAIN job' = WebWorkers /\ job' = [v \in WebWorkers |-> job'[v]]
      /\ job'[w] = j /\ \A v \in WebWorkers \ {w} : job'[v] = job[v]
  BY DEF ScaffoldInv
<1>2. ASSUME NEW v \in WebWorkers PROVE JobIsSound(job[v])'
  <2>1. PICK k : k = job'[v]
    OBVIOUS
  <2>2. CASE v = w
    <3>1. k = j
      BY <1>1, <2>1, <2>2
    <3> QED
      BY <2>1, <3>1 DEF JobIsSound, Written, EntitiesExist, Exists
  <2>3. CASE v # w
    <3>1. PICK i : i = job[v]
      OBVIOUS
    <3>2. JobIsSound(i)' /\ job'[v] = i
      BY <1>1, <2>3, <3>1, SoundJobStays DEF ScaffoldInv
    <3> QED
      BY <3>2 DEF JobIsSound, Written, EntitiesExist, Exists
  <2> QED
    BY <2>2, <2>3
<1> QED
  BY <1>1, <1>2 DEF ScaffoldInv

\* A step that writes no file, no route and no line of the loader.
LEMMA TreeStays ==
  ASSUME ScaffoldInv, UNCHANGED <<files, routes, loader>>
  PROVE  /\ Kept /\ ImportsResolve'
         /\ files' \in [Domains \X Kinds -> DomainForms \cup {NoFile}]
         /\ routes'.imports \in Seq(Domains) /\ loader' \subseteq Domains
  BY DEF ScaffoldInv, Kept, ImportsResolve, Exists

LEMMA NothingMoves ==
  ASSUME ScaffoldInv, UNCHANGED <<files, routes, loader, job>>
  PROVE  ScaffoldInv'
<1>1. ASSUME NEW v \in WebWorkers PROVE JobIsSound(job[v])'
  <2>1. PICK i : i = job[v]
    OBVIOUS
  <2>2. JobIsSound(i)' /\ job'[v] = i
    BY <2>1, TreeStays, SoundJobStays DEF ScaffoldInv
  <2> QED
    BY <2>2 DEF JobIsSound, Written, EntitiesExist, Exists
<1> QED
  BY <1>1, TreeStays DEF ScaffoldInv

LEMMA QuietJob ==
  ASSUME ScaffoldInv, UNCHANGED <<files, routes, loader>>, NEW w \in WebWorkers, NEW j,
         job' = [job EXCEPT ![w] = j], JobIsSound(j)
  PROVE  ScaffoldInv'
  BY TreeStays, JobMoves, SoundJobStays

\* A form that is accepted begins at the head of its list.
LEMMA AddDomainKeeps ==
  ASSUME ScaffoldInv, NEW w \in WebWorkers, NEW r \in DomainForms, AddDomain(w, r)
  PROVE  ScaffoldInv'
<1>1. UNCHANGED <<files, routes, loader>>
  BY DEF AddDomain
<1>2. CASE ~Accepted(r)
  <2>1. UNCHANGED job
    BY <1>2 DEF AddDomain
  <2> QED
    BY <1>1, <2>1, NothingMoves
<1>3. CASE Accepted(r)
  <2> DEFINE j == [pc |-> "write", req |-> r, todo |-> WriteOrder(r),
                   migration |-> IF r.relational THEN {MigrationOf(r)} ELSE {}]
  <2>1. job' = [job EXCEPT ![w] = j]
    BY <1>3 DEF AddDomain
  <2>2. Written(r, WriteOrder(r))
    <3>1. PICK order \in Seq(Kinds) : order = WriteOrder(r) /\ Len(order) = 6
      BY OrderFacts
    <3>2. /\ \A i \in 1..6 : order[i] = order[6 - 6 + i]
          /\ 1..(6 - 6) = {}
      OBVIOUS
    <3> QED
      BY <3>1, <3>2 DEF Written
  <2>3. r.relational => EntitiesExist(r)
    BY <1>3 DEF Accepted
  <2>4. JobIsSound(j)
    BY <2>2, <2>3 DEF JobIsSound
  <2> HIDE DEF j
  <2> QED
    BY <1>1, <2>1, <2>4, QuietJob
<1> QED
  BY <1>2, <1>3

\* A list of files is the end of an order, and how it gets shorter.
RestOf(todo, order) == \A i \in 1..Len(todo) : todo[i] = order[6 - Len(todo) + i]
Advances(todo, order) ==
    \E n \in 0..5 :
        /\ n = 6 - Len(todo) /\ Head(todo) = order[n + 1] /\ Head(todo) \in Kinds
        /\ Tail(todo) \in Seq(Kinds) /\ Len(Tail(todo)) = 5 - n
        /\ \A i \in 1..(5 - n) : Tail(todo)[i] = order[n + 1 + i]

\* The next file of a list, and what remains of it.
LEMMA NextFile ==
  ASSUME NEW order, NEW todo \in Seq(Kinds), Len(todo) <= 6, todo # <<>>, RestOf(todo, order)
  PROVE  Advances(todo, order)
<1>0. \A i \in 1..Len(todo) : todo[i] = order[6 - Len(todo) + i]
  BY DEF RestOf
<1>1. Len(todo) \in 1..6
  <2>1. PICK n \in Nat : n = Len(todo)
    OBVIOUS
  <2>2. n # 0
    BY <2>1, EmptySeq
  <2>3. n <= 6
    BY <2>1
  <2>4. n \in 1..6
    BY <2>2, <2>3
  <2> QED
    BY <2>1, <2>4
<1>2. PICK n \in 0..5 : n = 6 - Len(todo)
  <2>1. PICK k \in 1..6 : k = Len(todo)
    BY <1>1
  <2>2. 6 - k \in 0..5
    OBVIOUS
  <2> QED
    BY <2>1, <2>2
<1>3. /\ Head(todo) = todo[1] /\ Head(todo) \in Kinds
      /\ Tail(todo) \in Seq(Kinds) /\ Len(Tail(todo)) = Len(todo) - 1
      /\ \A i \in 1..(Len(todo) - 1) : Tail(todo)[i] = todo[i + 1]
  BY <1>1, HeadTailProperties
<1>4. todo[1] = order[n + 1]
  BY <1>0, <1>1, <1>2
<1>5. \A i \in 1..(5 - n) : todo[i + 1] = order[n + 1 + i]
  <2>1. ASSUME NEW i \in 1..(5 - n) PROVE todo[i + 1] = order[n + 1 + i]
    <3>1. i + 1 \in 1..Len(todo) /\ 6 - Len(todo) + (i + 1) = n + 1 + i
      BY <1>2
    <3> QED
      BY <1>0, <3>1
  <2> QED
    BY <2>1
<1>6. Len(todo) - 1 = 5 - n
  BY <1>1, <1>2
<1>7. \A i \in 1..(5 - n) : Tail(todo)[i] = order[n + 1 + i]
  BY <1>3, <1>5, <1>6
<1>8. Head(todo) = order[n + 1] /\ Len(Tail(todo)) = 5 - n
  BY <1>3, <1>4, <1>6
<1> QED
  BY <1>2, <1>3, <1>7, <1>8 DEF Advances

\* The files a file imports are written before it.
LEMMA ImportsWritten ==
  ASSUME NEW r \in DomainForms, NEW todo, Written(r, todo), todo # <<>>,
         r.relational => EntitiesExist(r)
  PROVE  \A f \in Imports(Head(todo), r) : f \in Domains \X Kinds /\ Exists(f)
<1>1. PICK n \in 0..5 : n = 6 - Len(todo) /\ Head(todo) = WriteOrder(r)[n + 1]
  <2>1. todo \in Seq(Kinds) /\ Len(todo) <= 6 /\ RestOf(todo, WriteOrder(r))
    BY DEF Written, RestOf
  <2>2. Advances(todo, WriteOrder(r))
    BY <2>1, NextFile
  <2> QED
    BY <2>2 DEF Advances
<1>2. /\ Head(todo) = WriteOrder(r)[n + 1]
      /\ \A i \in 1..n : Exists(<<r.domain, WriteOrder(r)[i]>>)
  BY <1>1 DEF Written
<1>3. r.domain \in Domains /\ Required(r) \subseteq Domains /\ r.related \subseteq Required(r)
  BY FormFacts
<1>4. r.relational => \A d \in Required(r) : Exists(<<d, "entity">>)
  BY DEF EntitiesExist
<1>5. CASE n \in {0, 1}
  <2>1. Head(todo) \in {"init", "notes"}
    BY <1>2, <1>5, OrderFacts
  <2> QED
    BY <2>1 DEF Imports
<1>6. CASE n = 2
  <2>1. Head(todo) = "entity"
    BY <1>2, <1>6, OrderFacts
  <2> QED
    BY <1>3, <1>4, <2>1 DEF Imports, EntityImports, Kinds
<1>7. CASE n = 3
  <2>1. Head(todo) = "schema"
    BY <1>2, <1>7, OrderFacts
  <2> QED
    BY <2>1 DEF Imports
<1>8. CASE n = 4
  <2>1. Head(todo) = "service"
    BY <1>2, <1>8, OrderFacts
  <2>2. Exists(<<r.domain, "entity">>) /\ Exists(<<r.domain, "schema">>)
    <3>1. Exists(<<r.domain, WriteOrder(r)[3]>>) /\ Exists(<<r.domain, WriteOrder(r)[4]>>)
      BY <1>2, <1>8
    <3> QED
      BY <3>1, OrderFacts DEF Exists
  <2> QED
    BY <1>3, <1>4, <2>1, <2>2 DEF Imports, ServiceImports, MemoryServiceImports, Kinds
<1>9. CASE n = 5
  <2>1. Head(todo) = "router"
    BY <1>2, <1>9, OrderFacts
  <2>2. Exists(<<r.domain, "service">>) /\ Exists(<<r.domain, "schema">>)
    <3>1. Exists(<<r.domain, WriteOrder(r)[4]>>) /\ Exists(<<r.domain, WriteOrder(r)[5]>>)
      BY <1>2, <1>9
    <3> QED
      BY <3>1, OrderFacts DEF Exists
  <2> QED
    BY <1>3, <2>1, <2>2 DEF Imports, RouterImports, Kinds
<1> QED
  BY <1>1, <1>5, <1>6, <1>7, <1>8, <1>9

LEMMA WriteFileKeeps ==
  ASSUME ScaffoldInv, NEW w \in WebWorkers, WriteFile(w)
  PROVE  ScaffoldInv'
<1>0. NoJob.pc # "write"
  BY DEF NoJob
<1>1. PICK r \in DomainForms, todo \in Seq(Kinds), m \in {job[w].migration} :
        /\ job[w] = [pc |-> "write", req |-> r, todo |-> todo, migration |-> m]
        /\ Written(r, todo) /\ todo # <<>>
        /\ r.relational => EntitiesExist(r)
  <2>1. job[w].pc = "write" /\ job[w].todo # <<>>
    BY DEF WriteFile
  <2>2. /\ job[w].req \in DomainForms
        /\ job[w] = [pc |-> "write", req |-> job[w].req, todo |-> job[w].todo,
                     migration |-> job[w].migration]
        /\ Written(job[w].req, job[w].todo)
        /\ job[w].req.relational => EntitiesExist(job[w].req)
    BY <1>0, <2>1 DEF ScaffoldInv, JobIsSound
  <2>3. job[w].todo \in Seq(Kinds)
    BY <2>2 DEF Written
  <2> QED
    BY <2>1, <2>2, <2>3
<1>2. PICK n \in 0..5 :
        /\ n = 6 - Len(todo) /\ Head(todo) = WriteOrder(r)[n + 1] /\ Head(todo) \in Kinds
        /\ Tail(todo) \in Seq(Kinds) /\ Len(Tail(todo)) = 5 - n
        /\ \A i \in 1..(5 - n) : Tail(todo)[i] = WriteOrder(r)[n + 1 + i]
  <2>1. Len(todo) <= 6 /\ \A i \in 1..Len(todo) : todo[i] = WriteOrder(r)[6 - Len(todo) + i]
    BY <1>1 DEF Written
  <2>2. todo # <<>> /\ RestOf(todo, WriteOrder(r))
    BY <1>1, <2>1 DEF RestOf
  <2>3. Advances(todo, WriteOrder(r))
    BY <2>1, <2>2, NextFile
  <2> QED
    BY <2>3 DEF Advances
<1>3. PICK kind \in Kinds, rest \in Seq(Kinds), f \in Domains \X Kinds :
        kind = Head(todo) /\ rest = Tail(todo) /\ f = <<r.domain, kind>>
  BY <1>2, FormFacts
<1>4. UNCHANGED <<routes, loader>> /\ job[w].req = r /\ job[w].todo = todo
  BY <1>1 DEF WriteFile
<1>5. CASE job' = [job EXCEPT ![w] = NoJob] /\ UNCHANGED files
  <2>1. JobIsSound(NoJob)
    BY DEF JobIsSound
  <2> QED
    BY <1>4, <1>5, <2>1, QuietJob
<1>6. CASE files' = [files EXCEPT ![f] = r] /\ job' = [job EXCEPT ![w].todo = Tail(@)]
  <2>1. \A g \in Domains \X Kinds : files'[g] = IF g = f THEN r ELSE files[g]
    BY <1>6 DEF ScaffoldInv
  <2>2. files' \in [Domains \X Kinds -> DomainForms \cup {NoFile}]
    BY <1>6 DEF ScaffoldInv
  <2>3. Kept /\ files'[f] # NoFile
    BY <2>1, FormFacts DEF Kept, Exists
  <2>4. \A g \in Imports(kind, r) : g \in Domains \X Kinds /\ Exists(g)
    BY <1>1, <1>3, ImportsWritten
  <2> DEFINE j == [pc |-> "write", req |-> r, todo |-> rest, migration |-> m]
  <2>5. job' = [job EXCEPT ![w] = j]
    <3>1. job' = [job EXCEPT ![w] = [job[w] EXCEPT !.todo = rest]]
      BY <1>3, <1>4, <1>6
    <3>2. [job[w] EXCEPT !.todo = rest] = j
      BY <1>1
    <3> QED
      BY <3>1, <3>2
  <2>6. Written(r, rest)'
    <3>1. \A i \in 1..n : Exists(<<r.domain, WriteOrder(r)[i]>>)
      BY <1>1, <1>2 DEF Written
    <3>2. \A i \in 1..(n + 1) : WriteOrder(r)[i] \in Kinds
      BY OrderFacts
    <3>3. ASSUME NEW i \in 1..(n + 1) PROVE Exists(<<r.domain, WriteOrder(r)[i]>>)'
      <4>1. PICK k \in Kinds : k = WriteOrder(r)[i]
        BY <3>2
      <4>2. CASE i = n + 1
        BY <1>2, <1>3, <2>3, <4>1, <4>2 DEF Exists
      <4>3. CASE i \in 1..n
        <5>1. Exists(<<r.domain, k>>) /\ <<r.domain, k>> \in Domains \X Kinds
          BY <3>1, <4>1, <4>3, FormFacts DEF Exists
        <5>2. Exists(<<r.domain, k>>)'
          BY <2>3, <5>1 DEF Kept
        <5> QED
          BY <4>1, <5>2 DEF Exists
      <4> QED
        BY <4>2, <4>3
    <3>4. 6 - Len(rest) = n + 1 /\ Len(rest) = 5 - n /\ Len(rest) <= 6
      BY <1>2, <1>3, SMTT(30)
    <3>5. \A i \in 1..Len(rest) : rest[i] = WriteOrder(r)[6 - Len(rest) + i]
      BY <1>2, <1>3, <3>4
    <3> QED
      BY <3>3, <3>4, <3>5 DEF Written, Exists
  <2>7. r.relational => EntitiesExist(r)'
    BY <1>1, <2>3, FormFacts DEF EntitiesExist, Kept, Kinds
  <2>8. JobIsSound(j)'
    BY <2>6, <2>7 DEF JobIsSound, Written
  <2>9. ImportsResolve'
    <3>1. ASSUME NEW g \in Domains \X Kinds, Exists(g)'
          PROVE  \A h \in Imports(g[2], files'[g]) : Exists(h)'
      <4>1. CASE g = f
        <5>1. files'[g] = r /\ g[2] = kind
          BY <1>3, <2>1, <4>1
        <5> QED
          BY <2>3, <2>4, <5>1 DEF Kept
      <4>2. CASE g # f
        <5>1. PICK q \in DomainForms : q = files[g] /\ files'[g] = q
          BY <2>1, <3>1, <4>2 DEF ScaffoldInv, Exists
        <5>2. \A h \in Imports(g[2], q) : Exists(h)
          BY <5>1, FormFacts DEF ScaffoldInv, ImportsResolve, Exists
        <5>3. Imports(g[2], q) \subseteq Domains \X Kinds
          BY FormFacts DEF Imports, EntityImports, ServiceImports, MemoryServiceImports,
             RouterImports, Kinds
        <5> QED
          BY <2>3, <5>1, <5>2, <5>3 DEF Kept
      <4> QED
        BY <4>1, <4>2
    <3>2. PICK text \in Seq(Domains) : text = routes.imports
      BY DEF ScaffoldInv
    <3>3. ASSUME NEW i \in DOMAIN text PROVE Exists(<<text[i], "router">>)'
      <4>1. PICK d \in Domains : d = text[i]
        BY <3>2
      <4>2. Exists(<<d, "router">>)
        BY <3>2, <4>1 DEF ScaffoldInv, ImportsResolve, Exists
      <4>3. Exists(<<d, "router">>)'
        BY <2>3, <4>2 DEF Kept, Kinds
      <4> QED
        BY <4>1, <4>3
    <3>4. ASSUME NEW d \in Domains, d \in loader PROVE Exists(<<d, "entity">>)'
      BY <2>3, <3>4 DEF ScaffoldInv, ImportsResolve, Kept, Kinds
    <3>5. /\ \A i \in DOMAIN routes'.imports : files'[<<routes'.imports[i], "router">>] # NoFile
          /\ \A d \in loader' : files'[<<d, "entity">>] # NoFile
      BY <1>4, <3>2, <3>3, <3>4 DEF Exists, ScaffoldInv
    <3>6. \A d \in Domains, k \in Kinds : files'[<<d, k>>] # NoFile =>
            \A h \in Imports(k, files'[<<d, k>>]) : files'[h] # NoFile
      BY <3>1 DEF Exists
    <3> QED
      BY <3>5, <3>6 DEF ImportsResolve, Exists
  <2>10. routes'.imports \in Seq(Domains) /\ loader' \subseteq Domains
    BY <1>4 DEF ScaffoldInv
  <2> HIDE DEF j
  <2> QED
    BY <2>2, <2>3, <2>5, <2>8, <2>9, <2>10, JobMoves
<1> QED
  BY <1>3, <1>4, <1>5, <1>6 DEF WriteFile

\* After the last file comes the migration, and all files are on disk.
LEMMA WriteMigrationKeeps ==
  ASSUME ScaffoldInv, NEW w \in WebWorkers, WriteMigration(w)
  PROVE  ScaffoldInv'
<1>0. NoJob.pc # "write"
  BY DEF NoJob
<1>1. /\ job[w].pc = "write" /\ job[w].todo = <<>> /\ UNCHANGED <<files, routes, loader>>
      /\ job' = [job EXCEPT ![w].pc = "readRoutes"]
  BY DEF WriteMigration
<1>2. PICK r \in DomainForms, m \in {job[w].migration} :
        /\ job[w] = [pc |-> "write", req |-> r, todo |-> <<>>, migration |-> m]
        /\ Written(r, <<>>)
  BY <1>0, <1>1 DEF ScaffoldInv, JobIsSound
<1> DEFINE j == [pc |-> "readRoutes", req |-> r, todo |-> <<>>, migration |-> m]
<1>3. job' = [job EXCEPT ![w] = j]
  <2>1. job' = [job EXCEPT ![w] = [job[w] EXCEPT !.pc = "readRoutes"]]
    BY <1>1
  <2>2. [job[w] EXCEPT !.pc = "readRoutes"] = j
    BY <1>2
  <2> QED
    BY <2>1, <2>2
<1>4. Exists(<<r.domain, WriteOrder(r)[3]>>) /\ Exists(<<r.domain, WriteOrder(r)[6]>>)
  <2>1. \A i \in 1..6 : Exists(<<r.domain, WriteOrder(r)[i]>>)
    <3>1. 6 - Len(<<>>) = 6
      OBVIOUS
    <3> QED
      BY <1>2, <3>1 DEF Written
  <2> QED
    BY <2>1
<1>5. Exists(<<r.domain, "entity">>) /\ Exists(<<r.domain, "router">>)
  BY <1>4, OrderFacts DEF Exists
<1>6. JobIsSound(j)
  BY <1>5 DEF JobIsSound
<1> HIDE DEF j
<1> QED
  BY <1>1, <1>3, <1>6, QuietJob

\* What a form that registers its domain relies on.
LEMMA Registering ==
  ASSUME ScaffoldInv, NEW w \in WebWorkers,
         job[w].pc \in {"readRoutes", "writeRoutes", "readLoader", "writeLoader", "answer"}
  PROVE  \E r \in DomainForms :
           /\ job[w].req = r /\ r.domain \in Domains
           /\ Exists(<<r.domain, "entity">>) /\ Exists(<<r.domain, "router">>)
           /\ job[w].pc = "writeRoutes" =>
                /\ job[w].routes.imports \in Seq(Domains)
                /\ \A i \in DOMAIN job[w].routes.imports :
                     Exists(<<job[w].routes.imports[i], "router">>)
           /\ job[w].pc = "writeLoader" =>
                /\ job[w].loader \subseteq Domains
                /\ \A d \in job[w].loader : Exists(<<d, "entity">>)
<1>1. NoJob.pc = "idle"
  BY DEF NoJob
<1> QED
  BY <1>1, FormFacts DEF ScaffoldInv, JobIsSound

LEMMA ReadKeeps ==
  ASSUME ScaffoldInv, NEW w \in WebWorkers, ReadRoutes(w) \/ ReadLoader(w)
  PROVE  ScaffoldInv'
<1>1. job[w].pc \in {"readRoutes", "readLoader"} /\ UNCHANGED <<files, routes, loader>>
  BY DEF ReadRoutes, ReadLoader
<1>2. PICK r \in DomainForms :
        /\ job[w].req = r
        /\ Exists(<<r.domain, "entity">>) /\ Exists(<<r.domain, "router">>)
  BY <1>1, Registering
<1>3. CASE ReadRoutes(w)
  <2> DEFINE j == [pc |-> "writeRoutes", req |-> r, routes |-> routes]
  <2>1. job' = [job EXCEPT ![w] = j]
    BY <1>2, <1>3 DEF ReadRoutes
  <2>2. JobIsSound(j)
    BY <1>2 DEF JobIsSound, ScaffoldInv, ImportsResolve
  <2> HIDE DEF j
  <2> QED
    BY <1>1, <2>1, <2>2, QuietJob
<1>4. CASE ReadLoader(w)
  <2> DEFINE j == [pc |-> "writeLoader", req |-> r, loader |-> loader]
  <2>1. job' = [job EXCEPT ![w] = j]
    BY <1>2, <1>4 DEF ReadLoader
  <2>2. JobIsSound(j)
    BY <1>2 DEF JobIsSound, ScaffoldInv, ImportsResolve
  <2> HIDE DEF j
  <2> QED
    BY <1>1, <2>1, <2>2, QuietJob
<1> QED
  BY <1>3, <1>4

\* routes.py is written back with the lines that were read and the domain's own.
LEMMA WriteRoutesKeeps ==
  ASSUME ScaffoldInv, NEW w \in WebWorkers, WriteRoutes(w)
  PROVE  ScaffoldInv'
<1>1. job[w].pc = "writeRoutes" /\ UNCHANGED <<files, loader>>
  BY DEF WriteRoutes
<1>2. PICK r \in DomainForms, text \in Seq(Domains) :
        /\ job[w].req = r /\ r.domain \in Domains /\ job[w].routes.imports = text
        /\ Exists(<<r.domain, "entity">>) /\ Exists(<<r.domain, "router">>)
        /\ \A i \in DOMAIN text : Exists(<<text[i], "router">>)
  BY <1>1, Registering
<1>3. routes'.imports = IF \E i \in DOMAIN text : text[i] = r.domain
                        THEN text ELSE Append(text, r.domain)
  BY <1>2 DEF WriteRoutes, WithRouter
<1>4. PICK new \in Seq(Domains) :
        new = routes'.imports /\ \A i \in DOMAIN new : Exists(<<new[i], "router">>)
  <2>1. CASE \E i \in DOMAIN text : text[i] = r.domain
    BY <1>2, <1>3, <2>1
  <2>2. CASE ~\E i \in DOMAIN text : text[i] = r.domain
    <3>1. PICK d \in Domains : d = r.domain
      BY <1>2
    <3>2. PICK new \in Seq(Domains) : new = Append(text, d) /\ Len(new) = Len(text) + 1
      BY AppendProperties
    <3>3. ASSUME NEW i \in DOMAIN new PROVE Exists(<<new[i], "router">>)
      <4>1. CASE i = Len(text) + 1
        <5>1. new[i] = d
          BY <3>2, <4>1
        <5> QED
          BY <1>2, <3>1, <5>1
      <4>2. CASE i # Len(text) + 1
        <5>1. i \in DOMAIN text /\ new[i] = text[i]
          BY <3>2, <3>3, <4>2
        <5> QED
          BY <1>2, <5>1
      <4> QED
        BY <4>1, <4>2
    <3> QED
      BY <1>3, <2>2, <3>1, <3>2, <3>3
  <2> QED
    BY <2>1, <2>2
<1> DEFINE j == [pc |-> "readLoader", req |-> r]
<1>5. job' = [job EXCEPT ![w] = j]
  BY <1>2 DEF WriteRoutes
<1>6. Kept /\ files' \in [Domains \X Kinds -> DomainForms \cup {NoFile}] /\ loader' \subseteq Domains
  BY <1>1 DEF Kept, Exists, ScaffoldInv
<1>7. ImportsResolve'
  BY <1>1, <1>4 DEF ScaffoldInv, ImportsResolve, Exists
<1>8. JobIsSound(j)
  BY <1>2 DEF JobIsSound
<1> HIDE DEF j
<1>9. JobIsSound(j)'
  BY <1>6, <1>8, SoundJobStays
<1> QED
  BY <1>4, <1>5, <1>6, <1>7, <1>9, JobMoves

LEMMA WriteLoaderKeeps ==
  ASSUME ScaffoldInv, NEW w \in WebWorkers, WriteLoader(w)
  PROVE  ScaffoldInv'
<1>1. job[w].pc = "writeLoader" /\ UNCHANGED <<files, routes>>
  BY DEF WriteLoader
<1>2. PICK r \in DomainForms, lines \in SUBSET Domains :
        /\ job[w].req = r /\ r.domain \in Domains /\ job[w].loader = lines
        /\ Exists(<<r.domain, "entity">>) /\ Exists(<<r.domain, "router">>)
        /\ \A d \in lines : Exists(<<d, "entity">>)
  BY <1>1, Registering
<1>3. loader' = lines \cup {r.domain}
  BY <1>2 DEF WriteLoader
<1> DEFINE j == [pc |-> "answer", req |-> r]
<1>4. job' = [job EXCEPT ![w] = j]
  BY <1>2 DEF WriteLoader
<1>5. /\ Kept /\ files' \in [Domains \X Kinds -> DomainForms \cup {NoFile}]
      /\ loader' \subseteq Domains /\ routes'.imports \in Seq(Domains)
  BY <1>1, <1>2, <1>3 DEF Kept, Exists, ScaffoldInv
<1>6. ImportsResolve'
  BY <1>1, <1>2, <1>3 DEF ScaffoldInv, ImportsResolve, Exists
<1>7. JobIsSound(j)
  BY <1>2 DEF JobIsSound
<1> HIDE DEF j
<1>8. JobIsSound(j)'
  BY <1>5, <1>7, SoundJobStays
<1> QED
  BY <1>4, <1>5, <1>6, <1>8, JobMoves

\* Forms end, workers die and databases are upgraded: the tree stays.
LEMMA EndKeeps ==
  ASSUME ScaffoldInv, NEW w \in WebWorkers, Answer(w) \/ ApplyMigration(w) \/ WorkerDies(w)
  PROVE  ScaffoldInv'
<1>1. UNCHANGED <<files, routes, loader>>
  BY DEF Answer, ApplyMigration, WorkerDies
<1>2. UNCHANGED job \/ job' = [job EXCEPT ![w] = NoJob]
  BY DEF Answer, ApplyMigration, WorkerDies
<1>3. JobIsSound(NoJob)
  BY DEF JobIsSound
<1> QED
  BY <1>1, <1>2, <1>3, NothingMoves, QuietJob

\* The inductive invariant holds in every reachable state of the generator.
THEOREM ScaffoldInvariant == ScaffoldSpec => []ScaffoldInv
<1>1. ScaffoldInit => ScaffoldInv
  <2> SUFFICES ASSUME ScaffoldInit PROVE ScaffoldInv
    OBVIOUS
  <2>1. /\ files \in [Domains \X Kinds -> DomainForms \cup {NoFile}]
        /\ \A d \in Domains, k \in Kinds : ~Exists(<<d, k>>)
    BY DEF ScaffoldInit, Exists
  <2>2. routes.imports = <<>> /\ DOMAIN routes.imports = {} /\ loader = {}
    BY DEF ScaffoldInit
  <2>3. routes.imports \in Seq(Domains)
    BY <2>2
  <2>4. ImportsResolve
    BY <2>1, <2>2 DEF ImportsResolve
  <2>5. /\ DOMAIN job = WebWorkers /\ job = [w \in WebWorkers |-> job[w]]
        /\ \A w \in WebWorkers : JobIsSound(job[w])
    BY DEF ScaffoldInit, JobIsSound
  <2> QED
    BY <2>1, <2>2, <2>3, <2>4, <2>5 DEF ScaffoldInv
<1>2. ScaffoldInv /\ [ScaffoldNext]_scaffoldVars => ScaffoldInv'
  <2> SUFFICES ASSUME ScaffoldInv, [ScaffoldNext]_scaffoldVars PROVE ScaffoldInv'
    OBVIOUS
  <2>1. CASE UNCHANGED scaffoldVars
    BY <2>1, NothingMoves DEF scaffoldVars
  <2>2. CASE ScaffoldNext
    BY <2>2, AddDomainKeeps, WriteFileKeeps, WriteMigrationKeeps, ReadKeeps, WriteRoutesKeeps,
       WriteLoaderKeeps, EndKeeps DEF ScaffoldNext
  <2> QED
    BY <2>1, <2>2
<1> QED
  BY <1>1, <1>2, PTL DEF ScaffoldSpec

\* The API can always be restarted: whatever forms ran at once, were refused half
\* way or died with their worker, each file on disk and each line of routes.py and
\* loader.py imports only what is on disk.
THEOREM TreeImports == ScaffoldSpec => []ImportsResolve
<1>1. ScaffoldInv => ImportsResolve
  BY DEF ScaffoldInv
<1> QED
  BY <1>1, ScaffoldInvariant, PTL

-----------------------------------------------------------------------------
(* The domain generator: the graph of its migrations                         *)

\* The migration a form has planned and not written yet, and who plans one.
Planned(w) == IF job[w].pc = "write" THEN job[w].migration ELSE {}
Planners == {w \in WebWorkers : Planned(w) # {}}

MigrationType(m) ==
    /\ m.revision \in (1..MaxForms + 1) \X (Domains \cup {NoFile})
    /\ m.refs \subseteq Domains

\* A migration builds on one with a smaller number.
BuildsOnOlder(m) == m.down \in Revisions /\ m.down[1] < m.revision[1]

\* What is counted: a number is given out once per form.
CountInv ==
    /\ IsFiniteSet(migrations) /\ <<1, NoFile>> \in Revisions
    /\ \A m \in migrations : MigrationType(m)
    /\ \A w \in WebWorkers : Planned(w) = {} \/ \E n : Planned(w) = {n} /\ MigrationType(n)
    /\ applied \subseteq Revisions /\ generated \subseteq Domains
    /\ forms \in 0..MaxForms /\ overlap \in BOOLEAN /\ replaced \in BOOLEAN
    /\ IsFiniteSet(Planners) /\ Cardinality(migrations) + Cardinality(Planners) <= forms + 1

\* While no file was replaced, a migration runs from the moment it is planned.
GraphInv ==
    ~replaced =>
      /\ \A m \in migrations : /\ m.revision[1] <= Cardinality(migrations)
                               /\ m.down = NoFile \/ BuildsOnOlder(m)
                               /\ Runs(m)
      /\ \A w \in WebWorkers : \A n \in Planned(w) :
           /\ n.revision[1] <= Cardinality(migrations) + 1
           /\ BuildsOnOlder(n)
           /\ Runs(n)

\* While no two forms overlapped, the one in progress builds on the only head and
\* has the next number.
HeadInv ==
    ~overlap =>
      /\ ~replaced
      /\ \A v, w \in WebWorkers : job[v] # NoJob /\ job[w] # NoJob => v = w
      /\ \E h : Heads = {h}
      /\ \A w \in WebWorkers : \A n \in Planned(w) :
           Heads = {n.down} /\ n.revision[1] = Cardinality(migrations) + 1

MigrationInv == CountInv /\ GraphInv /\ HeadInv

\* Revisions have numbers, so that a set of them has one with the largest.
LEMMA LargestNumber ==
  ASSUME NEW S, NEW k \in Nat, S # {}, \A r \in S : r[1] \in Nat /\ r[1] <= k
  PROVE  \E r \in S : \A q \in S : q[1] <= r[1]
<1> DEFINE R == OpToRel(<, Nat)
           T == {k - r[1] : r \in S}
<1>1. IsWellFoundedOn(R, Nat)
  BY NatLessThanWellFounded
<1>2. \A x, y \in Nat : y < x => <<y, x>> \in R
  BY DEF OpToRel
<1>3. T \subseteq Nat /\ T # {}
  OBVIOUS
<1> HIDE DEF R
<1>4. PICK x \in T : \A y \in T : ~(<<y, x>> \in R)
  <2> HIDE DEF T
  <2> QED
    BY <1>1, <1>3, WFMin
<1>5. PICK r \in S : x = k - r[1]
  OBVIOUS
<1>6. ASSUME NEW q \in S PROVE q[1] <= r[1]
  <2>1. k - q[1] \in T /\ k - q[1] \in Nat /\ x \in Nat
    BY <1>3
  <2>2. ~(k - q[1] < x)
    BY <1>2, <1>4, <2>1
  <2> QED
    BY <1>5, <2>1, <2>2
<1> QED
  BY <1>6

\* Below the heads is everything: a set that holds them and, with a migration, the
\* one below it, holds all.
LEMMA BelowTheHeads ==
  ASSUME CountInv, GraphInv, ~replaced, NEW S \in SUBSET Revisions, Heads \subseteq S,
         \A n \in migrations : n.revision \in S => BuildsOn(n, S)
  PROVE  S = Revisions
<1>1. SUFFICES ASSUME Revisions \ S # {} PROVE FALSE
  OBVIOUS
<1>2. Cardinality(migrations) \in Nat
  BY FS_CardinalityType DEF CountInv
<1>3. \A r \in Revisions : r[1] \in Nat /\ r[1] <= Cardinality(migrations) /\ r # NoFile
  <2>1. ASSUME NEW m \in migrations
        PROVE  /\ m.revision[1] \in Nat /\ m.revision[1] <= Cardinality(migrations)
               /\ m.revision # NoFile
    <3>1. m.revision \in (1..MaxForms + 1) \X (Domains \cup {NoFile})
      BY DEF CountInv, MigrationType
    <3>2. m.revision[1] \in 1..MaxForms + 1
      BY <3>1
    <3>3. m.revision # NoFile
      BY <3>1, ScaffoldAssumption
    <3> QED
      BY <3>2, <3>3, ScaffoldAssumption DEF GraphInv
  <2> QED
    BY <2>1 DEF Revisions
<1>4. PICK r \in Revisions \ S : \A q \in Revisions \ S : q[1] <= r[1]
  <2> DEFINE T == Revisions \ S
  <2>1. \A q \in T : q[1] \in Nat /\ q[1] <= Cardinality(migrations)
    BY <1>3
  <2>2. T # {}
    BY <1>1
  <2> HIDE DEF T
  <2>3. \E q \in T : \A p \in T : p[1] <= q[1]
    BY <1>2, <2>1, <2>2, LargestNumber
  <2> QED
    BY <2>3 DEF T
<1>5. PICK m \in migrations : m.down = r
  BY <1>4 DEF Heads
<1>6. m.revision \in Revisions /\ BuildsOnOlder(m)
  BY <1>3, <1>5 DEF GraphInv, Revisions
<1>7. m.revision \notin S
  BY <1>3, <1>5 DEF BuildsOn
<1>8. m.revision[1] <= r[1] /\ r[1] < m.revision[1] /\ r[1] \in Nat /\ m.revision[1] \in Nat
  BY <1>3, <1>4, <1>5, <1>6, <1>7 DEF BuildsOnOlder
<1> QED
  BY <1>8

\* So there is a head, and a migration planned on the only one builds on all.
LEMMA SomeHead ==
  ASSUME CountInv, GraphInv, ~replaced
  PROVE  Heads # {}
<1>1. SUFFICES ASSUME Heads = {} PROVE FALSE
  OBVIOUS
<1>2. {} = Revisions
  <2>1. PICK none : none = {}
    OBVIOUS
  <2>2. none \in SUBSET Revisions /\ Heads \subseteq none
    BY <1>1, <2>1
  <2>3. \A n \in migrations : n.revision \in none => BuildsOn(n, none)
    BY <2>1
  <2> QED
    BY <2>1, <2>2, <2>3, BelowTheHeads
<1> QED
  BY <1>2 DEF CountInv

LEMMA OnlyHead ==
  ASSUME CountInv, GraphInv, ~replaced, Cardinality(Heads) <= 1
  PROVE  /\ Heads = {CHOOSE h \in Heads : TRUE}
         /\ (CHOOSE h \in Heads : TRUE) \in Revisions
<1> DEFINE f == [m \in migrations |-> m.revision]
<1>1. f \in Surjection(migrations, Revisions)
  BY DEF Surjection, Revisions
<1>2. IsFiniteSet(Revisions)
  <2> HIDE DEF f
  <2> QED
    BY <1>1, FS_Surjection DEF CountInv
<1>3. Heads \in SUBSET Revisions
  BY DEF Heads
<1>4. IsFiniteSet(Heads) /\ Cardinality(Heads) \in Nat
  BY <1>2, <1>3, FS_Subset, FS_CardinalityType
<1>5. Cardinality(Heads) = 1
  BY <1>4, SomeHead, FS_EmptySet
<1>6. PICK h : Heads = {h}
  BY <1>4, <1>5, FS_Singleton
<1> QED
  BY <1>3, <1>6

LEMMA BuildsOnAll ==
  ASSUME CountInv, GraphInv, ~replaced, NEW n, Heads = {n.down}, n.down \in Revisions
  PROVE  Before(n) = Tables
<1>1. n.down # NoFile
  <2>1. PICK m \in migrations : m.revision = n.down
    BY DEF Revisions
  <2>2. m.revision \in (1..MaxForms + 1) \X (Domains \cup {NoFile})
    BY DEF CountInv, MigrationType
  <2> QED
    BY <2>1, <2>2, ScaffoldAssumption
<1>2. ASSUME NEW S \in SUBSET Revisions, BuildsOn(n, S),
             \A m \in migrations : m.revision \in S => BuildsOn(m, S)
      PROVE  S = Revisions
  <2>1. Heads \subseteq S
    BY <1>1, <1>2 DEF BuildsOn
  <2> QED
    BY <1>2, <2>1, BelowTheHeads
<1>3. Ancestors(n) = Revisions
  BY <1>2 DEF Ancestors
<1> QED
  BY <1>3 DEF Before, Tables, Revisions

\* The graph of a step that writes no migration.
LEMMA GraphStays ==
  ASSUME UNCHANGED migrations
  PROVE  /\ Revisions' = Revisions /\ Heads' = Heads
         /\ \A m : Runs(m)' = Runs(m) /\ BuildsOnOlder(m)' = BuildsOnOlder(m)
<1>1. Revisions' = Revisions /\ Heads' = Heads
  BY DEF Revisions, Heads
<1>2. ASSUME NEW m PROVE Runs(m)' = Runs(m)
  <2>1. Ancestors(m)' = Ancestors(m)
    BY DEF Ancestors, Revisions, BuildsOn
  <2>2. Before(m)' = Before(m)
    BY <2>1 DEF Before
  <2> QED
    BY <2>2 DEF Runs
<1>3. ASSUME NEW m PROVE BuildsOnOlder(m)' = BuildsOnOlder(m)
  BY <1>1 DEF BuildsOnOlder
<1> QED
  BY <1>1, <1>2, <1>3

\* A step that writes no migration and begins no form.
LEMMA NoNewForm ==
  ASSUME MigrationInv, UNCHANGED <<migrations, forms, overlap, replaced>>,
         \A w \in WebWorkers : Planned(w)' \in {Planned(w), {}},
         \A w \in WebWorkers : job'[w] # NoJob => job[w] # NoJob,
         applied' \in {applied, Revisions}, generated' \subseteq Domains
  PROVE  MigrationInv'
<1> USE DEF MigrationInv
<1>1. /\ Revisions' = Revisions /\ Heads' = Heads
      /\ \A m : Runs(m)' = Runs(m) /\ BuildsOnOlder(m)' = BuildsOnOlder(m)
      /\ \A m : MigrationType(m)' = MigrationType(m)
  BY GraphStays DEF MigrationType
<1>2. Planners' \in SUBSET Planners
  BY DEF Planners
<1>3. IsFiniteSet(Planners') /\ Cardinality(Planners') <= Cardinality(Planners)
      /\ Cardinality(Planners') \in Nat /\ Cardinality(Planners) \in Nat
      /\ Cardinality(migrations) \in Nat
  BY <1>2, FS_Subset, FS_CardinalityType DEF CountInv
<1>4. Cardinality(migrations) + Cardinality(Planners') <= forms + 1
  BY <1>3, ScaffoldAssumption DEF CountInv
<1>5. CountInv'
  <2>1. \A w \in WebWorkers :
          Planned(w)' = {} \/ \E n : Planned(w)' = {n} /\ MigrationType(n)'
    BY <1>1 DEF CountInv
  <2> QED
    BY <1>1, <1>3, <1>4, <2>1 DEF CountInv
<1>6. GraphInv'
  BY <1>1 DEF GraphInv
<1>7. HeadInv'
  BY <1>1 DEF HeadInv
<1> QED
  BY <1>5, <1>6, <1>7

\* A form that plans a migration, and one that plans none.
LEMMA FormPlans ==
  ASSUME MigrationInv, NEW w \in WebWorkers, NEW n,
         job[w] = NoJob, DOMAIN job = WebWorkers,
         forms < MaxForms, forms' = forms + 1,
         overlap' = (overlap \/ \E v \in WebWorkers : job[v] # NoJob),
         UNCHANGED <<migrations, applied, generated, replaced>>,
         \A v \in WebWorkers \ {w} : job'[v] = job[v],
         NEW r \in DomainForms, n = MigrationOf(r),
         Planned(w)' = {} \/ (Planned(w)' = {n} /\ MigrationFits(r))
  PROVE  MigrationInv'
<1> USE DEF MigrationInv
<1>0. Planned(w) = {} /\ \A v \in WebWorkers \ {w} : Planned(v)' = Planned(v)
  BY DEF Planned, NoJob
<1>1. /\ Revisions' = Revisions /\ Heads' = Heads
      /\ \A m : Runs(m)' = Runs(m) /\ BuildsOnOlder(m)' = BuildsOnOlder(m)
      /\ \A m : MigrationType(m)' = MigrationType(m)
  BY GraphStays DEF MigrationType
<1>2. /\ n.revision = <<Cardinality(migrations) + 1, r.domain>>
      /\ n.down = CHOOSE h \in Heads : TRUE
      /\ n.creates = Creates(r) /\ n.refs = Required(r)
  BY DEF MigrationOf
<1>3. IsFiniteSet(Planners) /\ Cardinality(Planners) \in Nat /\ Cardinality(migrations) \in Nat
      /\ forms \in Nat /\ MaxForms \in Nat
  BY FS_CardinalityType, ScaffoldAssumption DEF CountInv
<1>4. MigrationType(n)
  <2>1. Cardinality(migrations) + 1 \in 1..MaxForms + 1
    BY <1>3 DEF CountInv
  <2> QED
    BY <1>2, <2>1, FormFacts DEF MigrationType
<1>5. IsFiniteSet(Planners') /\ Cardinality(migrations) + Cardinality(Planners') <= forms' + 1
  <2>1. Planners' \in {Planners, Planners \cup {w}}
    BY <1>0 DEF Planners
  <2>2. IsFiniteSet(Planners \cup {w}) /\ Cardinality(Planners \cup {w}) <= Cardinality(Planners) + 1
    <3>1. IsFiniteSet(Planners \cup {w})
          /\ Cardinality(Planners \cup {w}) \in {Cardinality(Planners), Cardinality(Planners) + 1}
      BY <1>3, FS_AddElement
    <3> QED
      BY <1>3, <3>1
  <2>3. IsFiniteSet(Planners') /\ Cardinality(Planners') <= Cardinality(Planners) + 1
    <3>1. CASE Planners' = Planners
      BY <1>3, <3>1
    <3>2. CASE Planners' = Planners \cup {w}
      BY <2>2, <3>2
    <3> QED
      BY <2>1, <3>1, <3>2
  <2>4. Cardinality(Planners') \in Nat
    BY <2>3, FS_CardinalityType
  <2> QED
    BY <1>3, <2>3, <2>4 DEF CountInv
<1>6. CountInv'
  <2>1. \A v \in WebWorkers :
          Planned(v)' = {} \/ \E m : Planned(v)' = {m} /\ MigrationType(m)'
    BY <1>0, <1>1, <1>4 DEF CountInv
  <2>2. forms' \in 0..MaxForms /\ overlap' \in BOOLEAN
    BY <1>3 DEF CountInv
  <2> QED
    BY <1>1, <1>5, <2>1, <2>2 DEF CountInv
<1>7. ASSUME ~replaced, Planned(w)' # {}
      PROVE  /\ Heads = {n.down} /\ BuildsOnOlder(n) /\ Runs(n)
             /\ n.revision[1] = Cardinality(migrations) + 1
  <2>1. Heads = {n.down} /\ n.down \in Revisions
    BY <1>2, <1>7, OnlyHead DEF MigrationFits
  <2>2. PICK m \in migrations : m.revision = n.down
    BY <2>1 DEF Revisions
  <2>3. n.down[1] <= Cardinality(migrations) /\ n.down[1] \in Nat
    BY <1>7, <2>2, ScaffoldAssumption DEF GraphInv, CountInv, MigrationType
  <2>4. BuildsOnOlder(n)
    BY <1>2, <1>3, <2>1, <2>3 DEF BuildsOnOlder
  <2>5. Runs(n)
    BY <1>2, <1>7, <2>1, BuildsOnAll DEF Runs, MigrationFits
  <2> QED
    BY <1>2, <2>1, <2>4, <2>5
<1>8. GraphInv'
  <2>1. ASSUME ~replaced, NEW v \in WebWorkers, NEW m \in Planned(v)'
        PROVE  m.revision[1] <= Cardinality(migrations) + 1 /\ BuildsOnOlder(m) /\ Runs(m)
    <3>1. CASE v = w
      <4>1. m = n
        BY <2>1, <3>1
      <4> QED
        BY <1>3, <1>7, <2>1, <3>1, <4>1
    <3>2. CASE v # w
      BY <1>0, <2>1, <3>2 DEF GraphInv
    <3> QED
      BY <3>1, <3>2
  <2> QED
    BY <1>1, <2>1 DEF GraphInv
<1>9. HeadInv'
  <2>1. SUFFICES ASSUME ~overlap' PROVE HeadInv'
    BY DEF HeadInv
  <2>2. ~overlap /\ \A v \in WebWorkers : job[v] = NoJob
    BY <2>1
  <2>3. \A v \in WebWorkers : Planned(v) = {}
    BY <2>2 DEF Planned, NoJob
  <2>4. \A v \in WebWorkers : \A m \in Planned(v)' :
           Heads = {m.down} /\ m.revision[1] = Cardinality(migrations) + 1
    BY <1>0, <1>7, <2>2, <2>3 DEF HeadInv
  <2>5. \A v \in WebWorkers : job'[v] # NoJob => v = w
    BY <2>2
  <2>6. ~replaced /\ \E h : Heads = {h}
    BY <2>2 DEF HeadInv
  <2> QED
    BY <1>1, <2>4, <2>5, <2>6 DEF HeadInv
<1> QED
  BY <1>6, <1>8, <1>9

\* A new migration is below none that is there or planned.
LEMMA RunsKept ==
  ASSUME NEW n, migrations' = migrations \cup {n}, n.revision \notin Revisions,
         n.revision # NoFile,
         \A m \in migrations : m.down = NoFile \/ m.down \in Revisions,
         NEW m, m.down = NoFile \/ m.down \in Revisions, Runs(m)
  PROVE  Runs(m)'
<1>1. Revisions' = Revisions \cup {n.revision}
  BY DEF Revisions
<1>2. ASSUME NEW q \in Ancestors(m) PROVE q \in Ancestors(m)'
  <2>1. q \in Revisions'
    BY <1>1, <1>2 DEF Ancestors
  <2>2. ASSUME NEW S \in SUBSET Revisions', BuildsOn(m, S),
               \A k \in migrations' : k.revision \in S => BuildsOn(k, S)
        PROVE  q \in S
    <3>1. S \cap Revisions \in SUBSET Revisions
      OBVIOUS
    <3>2. BuildsOn(m, S \cap Revisions)
      BY <2>2 DEF BuildsOn
    <3>3. \A k \in migrations : k.revision \in S \cap Revisions => BuildsOn(k, S \cap Revisions)
      BY <2>2 DEF BuildsOn
    <3>4. q \in S \cap Revisions
      BY <1>2, <3>1, <3>2, <3>3 DEF Ancestors
    <3> QED
      BY <3>4
  <2>3. \A S \in SUBSET Revisions' :
           BuildsOn(m, S)' /\ (\A k \in migrations' : k.revision \in S => BuildsOn(k, S)') => q \in S
    BY <2>2 DEF BuildsOn
  <2> QED
    BY <2>1, <2>3 DEF Ancestors
<1>3. ASSUME NEW q \in Ancestors(m)' PROVE q \in Ancestors(m)
  <2>1. ASSUME NEW S \in SUBSET Revisions, BuildsOn(m, S),
               \A k \in migrations : k.revision \in S => BuildsOn(k, S)
        PROVE  q \in S
    <3>1. S \in SUBSET Revisions'
      BY <1>1
    <3>2. \A k \in migrations' : k.revision \in S => BuildsOn(k, S)
      BY <2>1
    <3>3. BuildsOn(m, S)' /\ \A k \in migrations' : k.revision \in S => BuildsOn(k, S)'
      BY <2>1, <3>2 DEF BuildsOn
    <3> QED
      BY <1>3, <3>1, <3>3 DEF Ancestors
  <2>2. q \in Revisions
    <3>1. BuildsOn(m, Revisions) /\ \A k \in migrations : BuildsOn(k, Revisions)
      BY DEF BuildsOn
    <3> QED
      BY <2>1, <3>1
  <2> QED
    BY <2>1, <2>2 DEF Ancestors
<1>4. Ancestors(m)' = Ancestors(m)
  BY <1>2, <1>3
<1>5. Ancestors(m) \subseteq Revisions
  BY DEF Ancestors
<1>6. {k \in migrations' : k.revision \in Ancestors(m)}
         = {k \in migrations : k.revision \in Ancestors(m)}
  BY <1>5
<1>7. Before(m)' = Before(m)
  BY <1>4, <1>6 DEF Before
<1> QED
  BY <1>7 DEF Runs

\* The planned migration is written: it is new, it was there already, or it takes
\* the place of another.
LEMMA WriteMigrationCounts ==
  ASSUME MigrationInv, NEW w \in WebWorkers, WriteMigration(w), DOMAIN job = WebWorkers
  PROVE  MigrationInv'
<1> USE DEF MigrationInv
<1>0. NoJob.pc = "idle"
  BY DEF NoJob
<1>1. /\ job[w].pc = "write" /\ Planned(w) = job[w].migration /\ job[w] # NoJob
      /\ job'[w].pc = "readRoutes" /\ \A v \in WebWorkers \ {w} : job'[v] = job[v]
      /\ UNCHANGED <<applied, forms, generated, overlap>>
  BY <1>0 DEF WriteMigration, Planned
<1>2. Planned(w)' = {} /\ \A v \in WebWorkers \ {w} : Planned(v)' = Planned(v)
  BY <1>1 DEF Planned
<1>3. \A v \in WebWorkers : job'[v] # NoJob => job[v] # NoJob
  BY <1>1
<1>4. CASE migrations' = migrations /\ replaced' = replaced
  BY <1>1, <1>2, <1>3, <1>4, NoNewForm DEF CountInv
<1>5. CASE Planned(w) = {}
  <2>1. migrations' = migrations /\ replaced' = replaced
    BY <1>1, <1>5 DEF WriteMigration, CountInv
  <2> QED
    BY <1>4, <2>1
<1>6. ASSUME NEW n, Planned(w) = {n}, MigrationType(n)
      PROVE  MigrationInv'
  <2>1. /\ migrations' = {m \in migrations : m.revision # n.revision} \cup {n}
        /\ replaced' = (replaced \/ \E m \in migrations : m.revision = n.revision /\ m # n)
    BY <1>1, <1>6 DEF WriteMigration, CountInv
  <2>2. Revisions' = Revisions \cup {n.revision}
    BY <2>1 DEF Revisions
  <2>3. n.revision # NoFile /\ \A m \in migrations : m.revision # NoFile
    BY <1>6, ScaffoldAssumption DEF MigrationType, CountInv
  <2>4. IsFiniteSet(migrations') /\ Cardinality(migrations') <= Cardinality(migrations) + 1
        /\ Cardinality(migrations') \in Nat /\ Cardinality(migrations) \in Nat
    <3> DEFINE old == {m \in migrations : m.revision # n.revision}
    <3>1. old \in SUBSET migrations /\ migrations' = old \cup {n}
      BY <2>1
    <3> HIDE DEF old
    <3>2. IsFiniteSet(old) /\ Cardinality(old) <= Cardinality(migrations)
          /\ Cardinality(migrations) \in Nat /\ Cardinality(old) \in Nat
      BY <3>1, FS_Subset, FS_CardinalityType DEF CountInv
    <3>3. IsFiniteSet(old \cup {n}) /\ Cardinality(old \cup {n}) \in Nat
          /\ Cardinality(old \cup {n}) \in {Cardinality(old), Cardinality(old) + 1}
      BY <3>2, FS_AddElement, FS_CardinalityType
    <3>4. Cardinality(old \cup {n}) <= Cardinality(migrations) + 1
      BY <3>2, <3>3
    <3> QED
      BY <3>1, <3>2, <3>3, <3>4
  <2>5. IsFiniteSet(Planners') /\ Cardinality(Planners') = Cardinality(Planners) - 1
        /\ Cardinality(Planners) \in Nat
    <3>1. Planners' = Planners \ {w} /\ w \in Planners
      BY <1>2, <1>6 DEF Planners
    <3> QED
      BY <3>1, FS_RemoveElement, FS_CardinalityType DEF CountInv
  <2>6. Cardinality(migrations') + Cardinality(Planners') <= forms + 1
    BY <2>4, <2>5 DEF CountInv
  <2>7. CountInv'
    <3>1. \A m : MigrationType(m)' = MigrationType(m)
      BY DEF MigrationType
    <3>2. \A v \in WebWorkers :
            Planned(v)' = {} \/ \E m : Planned(v)' = {m} /\ MigrationType(m)'
      BY <1>2, <3>1 DEF CountInv
    <3>3. \A m \in migrations' : MigrationType(m)'
      BY <1>6, <2>1, <3>1 DEF CountInv
    <3>4. replaced' \in BOOLEAN
      BY <2>1 DEF CountInv
    <3> QED
      BY <1>1, <2>2, <2>4, <2>5, <2>6, <3>2, <3>3, <3>4 DEF CountInv
  <2>8. ASSUME ~overlap
        PROVE  /\ ~replaced' /\ n.revision \notin Revisions
    <3>1. ~replaced /\ n.revision[1] = Cardinality(migrations) + 1
      BY <1>6, <2>8 DEF HeadInv
    <3>2. \A m \in migrations : m.revision[1] <= Cardinality(migrations)
      BY <3>1 DEF GraphInv
    <3>3. \A m \in migrations : m.revision # n.revision
      BY <2>4, <3>1, <3>2
    <3> QED
      BY <2>1, <3>1, <3>3 DEF Revisions
  <2>9. CASE replaced'
    BY <1>1, <2>7, <2>8, <2>9 DEF GraphInv, HeadInv
  <2>10. CASE ~replaced' /\ n.revision \in Revisions
    <3>1. n \in migrations /\ \A m \in migrations : m.revision = n.revision => m = n
      BY <2>1, <2>10 DEF Revisions
    <3>2. migrations' = migrations /\ replaced' = replaced
      BY <2>1, <2>10, <3>1 DEF CountInv
    <3> QED
      BY <1>4, <3>2
  <2>11. CASE ~replaced' /\ n.revision \notin Revisions
    <3>1. migrations' = migrations \cup {n} /\ ~replaced /\ n \notin migrations
      BY <2>1, <2>11 DEF Revisions
    <3>2. Cardinality(migrations') = Cardinality(migrations) + 1
      BY <3>1, FS_AddElement DEF CountInv
    <3>3. \A m \in migrations : m.down = NoFile \/ m.down \in Revisions
      BY <3>1 DEF GraphInv, BuildsOnOlder
    <3>4. \A m : (m.down = NoFile \/ m.down \in Revisions) /\ Runs(m) => Runs(m)'
      BY <2>3, <2>11, <3>1, <3>3, RunsKept
    <3>5. \A m : BuildsOnOlder(m) => BuildsOnOlder(m)'
      BY <2>2 DEF BuildsOnOlder
    <3>6. n.revision[1] <= Cardinality(migrations') /\ BuildsOnOlder(n)' /\ Runs(n)'
      BY <1>6, <3>1, <3>2, <3>4, <3>5 DEF GraphInv, BuildsOnOlder
    <3>7. ASSUME NEW m \in migrations'
          PROVE  /\ m.revision[1] <= Cardinality(migrations')
                 /\ m.down = NoFile \/ BuildsOnOlder(m)'
                 /\ Runs(m)'
      <4>1. CASE m = n
        BY <3>6, <4>1
      <4>2. CASE m \in migrations
        <5>1. m.revision[1] \in Nat /\ m.revision[1] <= Cardinality(migrations)
          BY <3>1, <4>2, ScaffoldAssumption DEF GraphInv, CountInv, MigrationType
        <5> QED
          BY <2>4, <3>1, <3>2, <3>3, <3>4, <3>5, <4>2, <5>1 DEF GraphInv
      <4> QED
        BY <3>1, <3>7, <4>1, <4>2
    <3>8. ASSUME NEW v \in WebWorkers, NEW m \in Planned(v)'
          PROVE  /\ m.revision[1] <= Cardinality(migrations') + 1
                 /\ BuildsOnOlder(m)' /\ Runs(m)'
      <4>1. m \in Planned(v)
        BY <1>2, <3>8
      <4>2. m.revision[1] \in Nat
        BY <4>1, ScaffoldAssumption DEF CountInv, MigrationType
      <4> QED
        BY <2>4, <3>1, <3>2, <3>4, <3>5, <4>1, <4>2 DEF GraphInv, BuildsOnOlder
    <3>9. GraphInv'
      BY <3>7, <3>8 DEF GraphInv
    <3>10. HeadInv'
      <4>1. SUFFICES ASSUME ~overlap PROVE HeadInv'
        BY <1>1 DEF HeadInv
      <4>2. \A v \in WebWorkers \ {w} : job[v] = NoJob
        BY <1>1, <4>1 DEF HeadInv
      <4>3. \A v \in WebWorkers : Planned(v)' = {}
        BY <1>0, <1>2, <4>2 DEF Planned
      <4>4. Heads = {n.down}
        BY <1>6, <4>1 DEF HeadInv
      <4>5. n.revision # n.down /\ \A m \in migrations : m.down # n.revision
        <5>1. n.down \in Revisions
          BY <4>4 DEF Heads
        <5> QED
          BY <2>3, <2>11, <3>3, <5>1
      <4>6. Heads' = {n.revision}
        BY <2>2, <3>1, <4>4, <4>5 DEF Heads
      <4>7. \A u, v \in WebWorkers : job'[u] # NoJob /\ job'[v] # NoJob => u = v
        BY <1>3, <4>1 DEF HeadInv
      <4>8. \E h : Heads' = {h}
        BY <4>6
      <4> QED
        BY <2>11, <4>3, <4>7, <4>8 DEF HeadInv
    <3> QED
      BY <2>7, <3>9, <3>10
  <2> QED
    BY <2>9, <2>10, <2>11
<1> QED
  BY <1>5, <1>6 DEF CountInv

\* The tree starts with one migration and no form.
LEMMA MigrationInit ==
  ASSUME ScaffoldInit
  PROVE  MigrationInv
<1> DEFINE first == [revision |-> <<1, NoFile>>, down |-> NoFile, creates |-> {}, refs |-> {}]
<1>1. /\ migrations = {first} /\ applied = {} /\ generated = {} /\ forms = 0
      /\ ~overlap /\ overlap \in BOOLEAN /\ ~replaced /\ replaced \in BOOLEAN
      /\ \A w \in WebWorkers : job[w] = NoJob
  BY DEF ScaffoldInit
<1>2. \A w \in WebWorkers : Planned(w) = {}
  BY <1>1 DEF Planned, NoJob
<1>3. Planners = {} /\ IsFiniteSet(Planners) /\ Cardinality(Planners) = 0
  BY <1>2, FS_EmptySet DEF Planners
<1>4. IsFiniteSet(migrations) /\ Cardinality(migrations) = 1
  BY <1>1, FS_Singleton
<1>5. /\ first.revision = <<1, NoFile>> /\ first.revision[1] = 1 /\ first.down = NoFile
      /\ first.refs = {} /\ first.creates = {}
  OBVIOUS
<1> HIDE DEF first
<1>6. Revisions = {<<1, NoFile>>}
  BY <1>1, <1>5 DEF Revisions
<1>7. <<1, NoFile>> # NoFile /\ MigrationType(first)
  <2>1. <<1, NoFile>> \in (1..MaxForms + 1) \X (Domains \cup {NoFile})
    BY ScaffoldAssumption
  <2> QED
    BY <1>5, <2>1, ScaffoldAssumption DEF MigrationType
<1>8. Heads = {<<1, NoFile>>}
  BY <1>1, <1>5, <1>6, <1>7 DEF Heads
<1>9. Runs(first)
  <2>1. Before(first) = {}
    BY <1>1, <1>5 DEF Before
  <2> QED
    BY <1>5, <2>1 DEF Runs
<1>10. CountInv
  BY <1>1, <1>2, <1>3, <1>4, <1>6, <1>7, ScaffoldAssumption DEF CountInv
<1>11. GraphInv
  BY <1>1, <1>2, <1>4, <1>5, <1>9 DEF GraphInv
<1>12. HeadInv
  BY <1>1, <1>2, <1>8 DEF HeadInv
<1> QED
  BY <1>10, <1>11, <1>12 DEF MigrationInv

\* Each step keeps the graph: a form that begins plans on the only head, and what it
\* writes in the end is new unless another form planned the same file.
LEMMA MigrationStep ==
  ASSUME ScaffoldInv, MigrationInv, [ScaffoldNext]_scaffoldVars
  PROVE  MigrationInv'
<1>0. DOMAIN job = WebWorkers /\ NoJob.pc = "idle" /\ applied \subseteq Revisions
      /\ generated \subseteq Domains
  BY DEF ScaffoldInv, NoJob, MigrationInv, CountInv
<1>1. CASE UNCHANGED scaffoldVars
  BY <1>0, <1>1, NoNewForm DEF scaffoldVars, Planned
<1>2. ASSUME NEW w \in WebWorkers, NEW r \in DomainForms, AddDomain(w, r)
      PROVE  MigrationInv'
  <2>1. /\ job[w] = NoJob /\ forms < MaxForms /\ forms' = forms + 1
        /\ overlap' = (overlap \/ \E v \in WebWorkers : job[v] # NoJob)
        /\ UNCHANGED <<migrations, applied, generated, replaced>>
    BY <1>2 DEF AddDomain
  <2>2. \A v \in WebWorkers \ {w} : job'[v] = job[v]
    BY <1>0, <1>2 DEF AddDomain
  <2>3. PICK n : n = MigrationOf(r)
    OBVIOUS
  <2>4. Planned(w)' = {} \/ (Planned(w)' = {n} /\ MigrationFits(r))
    <3>1. CASE ~Accepted(r)
      BY <1>0, <1>2, <2>1, <3>1 DEF AddDomain, Planned
    <3>2. CASE Accepted(r)
      <4>1. job'[w] = [pc |-> "write", req |-> r, todo |-> WriteOrder(r),
                       migration |-> IF r.relational THEN {MigrationOf(r)} ELSE {}]
        BY <1>0, <1>2, <3>2 DEF AddDomain
      <4>2. Planned(w)' = IF r.relational THEN {n} ELSE {}
        BY <2>3, <4>1 DEF Planned
      <4> QED
        BY <3>2, <4>2 DEF Accepted
    <3> QED
      BY <3>1, <3>2
  <2> QED
    BY <1>0, <2>1, <2>2, <2>3, <2>4, FormPlans
<1>3. ASSUME NEW w \in WebWorkers, WriteMigration(w)
      PROVE  MigrationInv'
  BY <1>0, <1>3, WriteMigrationCounts
<1>4. ASSUME NEW w \in WebWorkers, WriteFile(w)
      PROVE  MigrationInv'
  <2>1. \/ job' = [job EXCEPT ![w] = NoJob]
        \/ job' = [job EXCEPT ![w] = [job[w] EXCEPT !.todo = Tail(@)]]
    BY <1>4 DEF WriteFile
  <2>2. job[w] # NoJob /\ job[w].pc = "write"
    BY <1>0, <1>4 DEF WriteFile
  <2>3. job'[w] = NoJob \/ (job'[w].pc = "write" /\ job'[w].migration = job[w].migration)
    <3>1. CASE job'[w] = NoJob
      BY <3>1
    <3>2. CASE job' = [job EXCEPT ![w] = [job[w] EXCEPT !.todo = Tail(@)]]
      <4>1. job[w] = [pc |-> "write", req |-> job[w].req, todo |-> job[w].todo,
                      migration |-> job[w].migration]
        BY <2>2 DEF ScaffoldInv, JobIsSound
      <4>2. job'[w] = [job[w] EXCEPT !.todo = Tail(@)]
        BY <1>0, <3>2
      <4> QED
        BY <2>2, <4>1, <4>2
    <3> QED
      BY <1>0, <2>1, <3>1, <3>2
  <2>4. \A v \in WebWorkers \ {w} : job'[v] = job[v]
    BY <1>0, <2>1
  <2>5. Planned(w)' \in {Planned(w), {}} /\ \A v \in WebWorkers \ {w} : Planned(v)' = Planned(v)
    BY <1>0, <2>2, <2>3, <2>4 DEF Planned
  <2>6. \A v \in WebWorkers : job'[v] # NoJob => job[v] # NoJob
    BY <2>2, <2>4
  <2>7. UNCHANGED <<migrations, applied, forms, generated, overlap, replaced>>
    BY <1>4 DEF WriteFile
  <2> QED
    BY <1>0, <2>5, <2>6, <2>7, NoNewForm
<1>5. ASSUME NEW w \in WebWorkers, NEW j, j.pc # "write", job[w] # NoJob,
             job' = [job EXCEPT ![w] = j],
             UNCHANGED <<migrations, forms, overlap, replaced>>,
             applied' \in {applied, Revisions}, generated' \subseteq Domains
      PROVE  MigrationInv'
  <2>1. job'[w] = j /\ \A v \in WebWorkers \ {w} : job'[v] = job[v]
    BY <1>0, <1>5
  <2>2. Planned(w)' = {} /\ \A v \in WebWorkers \ {w} : Planned(v)' = Planned(v)
    BY <1>5, <2>1 DEF Planned
  <2> QED
    BY <1>5, <2>1, <2>2, NoNewForm
<1>6. ASSUME NEW w \in WebWorkers,
             ReadRoutes(w) \/ WriteRoutes(w) \/ ReadLoader(w) \/ WriteLoader(w)
      PROVE  MigrationInv'
  <2>1. job[w] # NoJob /\ \E j : j.pc # "write" /\ job' = [job EXCEPT ![w] = j]
    BY <1>0, <1>6 DEF ReadRoutes, WriteRoutes, ReadLoader, WriteLoader
  <2>2. UNCHANGED <<migrations, applied, forms, generated, overlap, replaced>>
    BY <1>6 DEF ReadRoutes, WriteRoutes, ReadLoader, WriteLoader
  <2> QED
    BY <1>0, <1>5, <2>1, <2>2
<1>7. ASSUME NEW w \in WebWorkers, Answer(w)
      PROVE  MigrationInv'
  <2>1. job[w] # NoJob /\ job[w].pc = "answer" /\ job' = [job EXCEPT ![w] = NoJob]
        /\ applied' \in {applied, Revisions}
        /\ UNCHANGED <<migrations, forms, overlap, replaced>>
    BY <1>0, <1>7 DEF Answer, Upgrade
  <2>2. job[w].req \in DomainForms
    BY <2>1 DEF ScaffoldInv, JobIsSound
  <2>3. generated' \subseteq Domains
    BY <1>0, <1>7, <2>2, FormFacts DEF Answer
  <2> QED
    BY <1>0, <1>5, <2>1, <2>3
<1>8. ASSUME NEW w \in WebWorkers, ApplyMigration(w)
      PROVE  MigrationInv'
  <2>1. UNCHANGED <<migrations, job, forms, generated, overlap, replaced>>
        /\ applied' \in {applied, Revisions}
    BY <1>8 DEF ApplyMigration, Upgrade
  <2> QED
    BY <1>0, <2>1, NoNewForm DEF Planned
<1>9. ASSUME NEW w \in WebWorkers, WorkerDies(w)
      PROVE  MigrationInv'
  BY <1>0, <1>5, <1>9 DEF WorkerDies
<1> QED
  BY <1>1, <1>2, <1>3, <1>4, <1>6, <1>7, <1>8, <1>9 DEF ScaffoldNext

-----------------------------------------------------------------------------
(* The domain generator: what routes.py and loader.py list                   *)

NoTwice(lines) == \A i, j \in DOMAIN lines : lines[i] = lines[j] => i = j

Listed(d) ==
    /\ \E i \in DOMAIN routes.imports : routes.imports[i] = d
    /\ EntityName[d] \in routes.included

\* No import line comes twice.  While no two forms overlapped, a form that writes
\* a file back has its latest text, and what was registered stays so.
RegisterInv ==
    /\ NoTwice(routes.imports)
    /\ \A w \in WebWorkers : job[w].pc = "writeRoutes" => NoTwice(job[w].routes.imports)
    /\ ~overlap =>
         /\ \A w \in WebWorkers :
              /\ job[w].pc = "writeRoutes" => job[w].routes = routes
              /\ job[w].pc = "writeLoader" => job[w].loader = loader
              /\ job[w].pc \in {"readLoader", "writeLoader", "answer"}
                   => Listed(job[w].req.domain)
              /\ job[w].pc = "answer" => job[w].req.domain \in loader
         /\ \A d \in generated : Listed(d) /\ d \in loader

\* The text written back has the domain's lines, once, and every line it had.
LEMMA WithRouterLists ==
  ASSUME NEW text, text.imports \in Seq(Domains), NoTwice(text.imports), NEW d \in Domains
  PROVE  /\ NoTwice(WithRouter(text, d).imports)
         /\ \E i \in DOMAIN WithRouter(text, d).imports : WithRouter(text, d).imports[i] = d
         /\ WithRouter(text, d).included = text.included \cup {EntityName[d]}
         /\ \A i \in DOMAIN text.imports :
              /\ i \in DOMAIN WithRouter(text, d).imports
              /\ WithRouter(text, d).imports[i] = text.imports[i]
<1>1. CASE \E i \in DOMAIN text.imports : text.imports[i] = d
  BY <1>1 DEF WithRouter
<1>2. CASE ~\E i \in DOMAIN text.imports : text.imports[i] = d
  <2>1. WithRouter(text, d).imports = Append(text.imports, d)
    BY <1>2 DEF WithRouter
  <2> QED
    BY <1>2, <2>1 DEF WithRouter, NoTwice
<1> QED
  BY <1>1, <1>2

\* Each step keeps what routes.py and loader.py list.
LEMMA RegisterStep ==
  ASSUME ScaffoldInv, HeadInv, RegisterInv, [ScaffoldNext]_scaffoldVars
  PROVE  RegisterInv'
<1>0. DOMAIN job = WebWorkers /\ NoJob.pc = "idle"
  BY DEF ScaffoldInv, NoJob
<1>1. CASE UNCHANGED scaffoldVars
  BY <1>1 DEF scaffoldVars, RegisterInv, Listed
<1>2. ASSUME NEW w \in WebWorkers, NEW j, job' = [job EXCEPT ![w] = j],
             overlap' \/ ~overlap,
             j.pc \in {"idle", "write", "readRoutes"},
             UNCHANGED <<routes, loader, generated>>
      PROVE  RegisterInv'
  <2>1. job'[w] = j /\ \A v \in WebWorkers \ {w} : job'[v] = job[v]
    BY <1>0, <1>2
  <2>2. \A d : Listed(d)' = Listed(d)
    BY <1>2 DEF Listed
  <2> QED
    BY <1>2, <2>1, <2>2 DEF RegisterInv
<1>3. ASSUME NEW w \in WebWorkers, NEW r \in DomainForms, AddDomain(w, r)
      PROVE  RegisterInv'
  <2>1. UNCHANGED <<routes, loader, generated>> /\ (overlap' \/ ~overlap) /\ job[w] = NoJob
    BY <1>3 DEF AddDomain
  <2>2. CASE Accepted(r)
    <3> DEFINE j == [pc |-> "write", req |-> r, todo |-> WriteOrder(r),
                     migration |-> IF r.relational THEN {MigrationOf(r)} ELSE {}]
    <3>1. job' = [job EXCEPT ![w] = j]
      BY <1>3, <2>2 DEF AddDomain
    <3>2. j.pc = "write"
      OBVIOUS
    <3> HIDE DEF j
    <3> QED
      BY <1>2, <2>1, <3>1, <3>2
  <2>3. CASE ~Accepted(r)
    <3>1. job' = job
      BY <1>3, <2>3 DEF AddDomain
    <3>2. job' = [job EXCEPT ![w] = NoJob]
      BY <1>0, <2>1, <3>1 DEF ScaffoldInv
    <3> QED
      BY <1>0, <1>2, <2>1, <3>2
  <2> QED
    BY <2>2, <2>3
<1>4. ASSUME NEW w \in WebWorkers, WriteFile(w)
      PROVE  RegisterInv'
  <2>1. UNCHANGED <<routes, loader, generated, overlap>> /\ job[w].pc = "write"
    BY <1>4 DEF WriteFile
  <2>2. job[w] = [pc |-> "write", req |-> job[w].req, todo |-> job[w].todo,
                  migration |-> job[w].migration]
    BY <1>0, <2>1 DEF ScaffoldInv, JobIsSound
  <2>3. \/ job' = [job EXCEPT ![w] = NoJob]
        \/ job' = [job EXCEPT ![w] = [job[w] EXCEPT !.todo = Tail(@)]]
    BY <1>4 DEF WriteFile
  <2>4. [job[w] EXCEPT !.todo = Tail(@)].pc = "write"
    BY <2>2
  <2> QED
    BY <1>0, <1>2, <2>1, <2>3, <2>4
<1>5. ASSUME NEW w \in WebWorkers, WriteMigration(w)
      PROVE  RegisterInv'
  <2>1. UNCHANGED <<routes, loader, generated, overlap>> /\ job[w].pc = "write"
        /\ job' = [job EXCEPT ![w] = [job[w] EXCEPT !.pc = "readRoutes"]]
    BY <1>5 DEF WriteMigration
  <2>2. job[w] = [pc |-> "write", req |-> job[w].req, todo |-> job[w].todo,
                  migration |-> job[w].migration]
    BY <1>0, <2>1 DEF ScaffoldInv, JobIsSound
  <2>3. [job[w] EXCEPT !.pc = "readRoutes"].pc = "readRoutes"
    BY <2>2
  <2> QED
    BY <1>2, <2>1, <2>3
<1>6. ASSUME NEW w \in WebWorkers, ReadRoutes(w)
      PROVE  RegisterInv'
  <2>1. /\ job' = [job EXCEPT ![w] = [pc |-> "writeRoutes", req |-> job[w].req,
                                      routes |-> routes]]
        /\ UNCHANGED <<routes, loader, generated, overlap>>
    BY <1>6 DEF ReadRoutes
  <2>2. /\ job'[w].pc = "writeRoutes" /\ job'[w].routes = routes
        /\ \A v \in WebWorkers \ {w} : job'[v] = job[v]
    BY <1>0, <2>1
  <2>3. \A d : Listed(d)' = Listed(d)
    BY <2>1 DEF Listed
  <2> QED
    BY <2>1, <2>2, <2>3 DEF RegisterInv
<1>7. ASSUME NEW w \in WebWorkers, WriteRoutes(w)
      PROVE  RegisterInv'
  <2>1. /\ job[w].pc = "writeRoutes" /\ job[w] # NoJob
        /\ routes' = WithRouter(job[w].routes, job[w].req.domain)
        /\ job' = [job EXCEPT ![w] = [pc |-> "readLoader", req |-> job[w].req]]
        /\ UNCHANGED <<loader, generated, overlap>>
    BY <1>0, <1>7 DEF WriteRoutes
  <2>2. /\ job'[w].pc = "readLoader" /\ job'[w].req = job[w].req
        /\ \A v \in WebWorkers \ {w} : job'[v] = job[v]
    BY <1>0, <2>1
  <2>3. job[w].req.domain \in Domains /\ job[w].routes.imports \in Seq(Domains)
    BY <2>1, FormFacts DEF ScaffoldInv, JobIsSound
  <2>4. NoTwice(job[w].routes.imports)
    BY <2>1 DEF RegisterInv
  <2>5. /\ NoTwice(routes'.imports)
        /\ \E i \in DOMAIN routes'.imports : routes'.imports[i] = job[w].req.domain
        /\ routes'.included = job[w].routes.included \cup {EntityName[job[w].req.domain]}
        /\ \A i \in DOMAIN job[w].routes.imports :
             /\ i \in DOMAIN routes'.imports
             /\ routes'.imports[i] = job[w].routes.imports[i]
    BY <2>1, <2>3, <2>4, WithRouterLists
  <2>6. ASSUME ~overlap
        PROVE  /\ job[w].routes = routes
               /\ \A v \in WebWorkers \ {w} : job[v] = NoJob
               /\ (Listed(job[w].req.domain))'
               /\ \A d : Listed(d) => Listed(d)'
    <3>1. job[w].routes = routes
      BY <2>1, <2>6 DEF RegisterInv
    <3>2. \A v \in WebWorkers \ {w} : job[v] = NoJob
      BY <2>1, <2>6 DEF HeadInv
    <3>3. \A d : Listed(d) => Listed(d)'
      BY <2>5, <3>1 DEF Listed
    <3>4. (Listed(job[w].req.domain))'
      BY <2>2, <2>5 DEF Listed
    <3> QED
      BY <3>1, <3>2, <3>3, <3>4
  <2>7. \A v \in WebWorkers : job'[v].pc = "writeRoutes" => NoTwice(job'[v].routes.imports)
    BY <2>2 DEF RegisterInv
  <2>8. ASSUME ~overlap', NEW v \in WebWorkers
        PROVE  /\ job'[v].pc = "writeRoutes" => job'[v].routes = routes'
               /\ job'[v].pc = "writeLoader" => job'[v].loader = loader'
               /\ (job[v].pc \in {"readLoader", "writeLoader", "answer"}
                    => Listed(job[v].req.domain))'
               /\ job'[v].pc = "answer" => job'[v].req.domain \in loader'
    <3>1. CASE v = w
      BY <2>1, <2>2, <2>6, <2>8, <3>1
    <3>2. CASE v # w
      BY <1>0, <2>1, <2>2, <2>6, <2>8, <3>2
    <3> QED
      BY <3>1, <3>2
  <2>9. ASSUME ~overlap', NEW d \in generated' PROVE Listed(d)' /\ d \in loader'
    BY <2>1, <2>6, <2>9 DEF RegisterInv
  <2> QED
    BY <2>5, <2>7, <2>8, <2>9 DEF RegisterInv
<1>8. ASSUME NEW w \in WebWorkers, ReadLoader(w)
      PROVE  RegisterInv'
  <2>1. /\ job[w].pc = "readLoader"
        /\ job' = [job EXCEPT ![w] = [pc |-> "writeLoader", req |-> job[w].req,
                                      loader |-> loader]]
        /\ UNCHANGED <<routes, loader, generated, overlap>>
    BY <1>8 DEF ReadLoader
  <2>2. /\ job'[w].pc = "writeLoader" /\ job'[w].loader = loader /\ job'[w].req = job[w].req
        /\ \A v \in WebWorkers \ {w} : job'[v] = job[v]
    BY <1>0, <2>1
  <2>3. \A d : Listed(d)' = Listed(d)
    BY <2>1 DEF Listed
  <2> QED
    BY <2>1, <2>2, <2>3 DEF RegisterInv
<1>9. ASSUME NEW w \in WebWorkers, WriteLoader(w)
      PROVE  RegisterInv'
  <2>1. /\ job[w].pc = "writeLoader" /\ job[w] # NoJob
        /\ loader' = job[w].loader \cup {job[w].req.domain}
        /\ job' = [job EXCEPT ![w] = [pc |-> "answer", req |-> job[w].req]]
        /\ UNCHANGED <<routes, generated, overlap>>
    BY <1>0, <1>9 DEF WriteLoader
  <2>2. /\ job'[w].pc = "answer" /\ job'[w].req = job[w].req
        /\ \A v \in WebWorkers \ {w} : job'[v] = job[v]
    BY <1>0, <2>1
  <2>3. \A d : Listed(d)' = Listed(d)
    BY <2>1 DEF Listed
  <2>4. ASSUME ~overlap
        PROVE  job[w].loader = loader /\ \A v \in WebWorkers \ {w} : job[v] = NoJob
    BY <2>1, <2>4 DEF RegisterInv, HeadInv
  <2>5. \A v \in WebWorkers : job'[v].pc = "writeRoutes" => NoTwice(job'[v].routes.imports)
    BY <2>2 DEF RegisterInv
  <2>6. ASSUME ~overlap', NEW v \in WebWorkers
        PROVE  /\ job'[v].pc = "writeRoutes" => job'[v].routes = routes'
               /\ job'[v].pc = "writeLoader" => job'[v].loader = loader'
               /\ (job[v].pc \in {"readLoader", "writeLoader", "answer"}
                    => Listed(job[v].req.domain))'
               /\ job'[v].pc = "answer" => job'[v].req.domain \in loader'
    <3>1. CASE v = w
      <4>1. Listed(job[w].req.domain)
        BY <2>1, <2>6 DEF RegisterInv
      <4>2. (Listed(job[w].req.domain))'
        BY <2>1, <2>2, <4>1 DEF Listed
      <4> QED
        BY <2>1, <2>2, <3>1, <4>2
    <3>2. CASE v # w
      BY <1>0, <2>1, <2>2, <2>4, <2>6, <3>2
    <3> QED
      BY <3>1, <3>2
  <2>7. ASSUME ~overlap', NEW d \in generated' PROVE Listed(d)' /\ d \in loader'
    BY <2>1, <2>3, <2>4, <2>7 DEF RegisterInv
  <2>8. NoTwice(routes'.imports)
    BY <2>1 DEF RegisterInv
  <2> QED
    BY <2>5, <2>6, <2>7, <2>8 DEF RegisterInv
<1>10. ASSUME NEW w \in WebWorkers, Answer(w)
       PROVE  RegisterInv'
  <2>1. /\ job[w].pc = "answer" /\ job' = [job EXCEPT ![w] = NoJob]
        /\ generated' = generated \cup {job[w].req.domain}
        /\ UNCHANGED <<routes, loader, overlap>>
    BY <1>10 DEF Answer
  <2>2. job'[w] = NoJob /\ \A v \in WebWorkers \ {w} : job'[v] = job[v]
    BY <1>0, <2>1
  <2>3. \A d : Listed(d)' = Listed(d)
    BY <2>1 DEF Listed
  <2>4. ASSUME ~overlap', NEW d \in generated' PROVE Listed(d) /\ d \in loader
    BY <2>1, <2>4 DEF RegisterInv
  <2> QED
    BY <1>0, <2>1, <2>2, <2>3, <2>4 DEF RegisterInv
<1>11. ASSUME NEW w \in WebWorkers, ApplyMigration(w)
       PROVE  RegisterInv'
  BY <1>11 DEF ApplyMigration, RegisterInv, Listed
<1>12. ASSUME NEW w \in WebWorkers, WorkerDies(w)
       PROVE  RegisterInv'
  BY <1>0, <1>2, <1>12 DEF WorkerDies
<1> QED
  BY <1>1, <1>3, <1>4, <1>5, <1>6, <1>7, <1>8, <1>9, <1>10, <1>11, <1>12 DEF ScaffoldNext

\* So the restarted API serves what was answered "generated".
LEMMA ListedIsServed ==
  ASSUME ScaffoldInv, RegisterInv
  PROVE  GeneratedIsServed
<1>1. SUFFICES ASSUME NEW d \in generated, ~overlap,
                      \A i \in DOMAIN routes.imports :
                        routes.imports[i] = d \/ EntityName[routes.imports[i]] # EntityName[d]
               PROVE  Serves(d) /\ d \in loader
  BY DEF GeneratedIsServed
<1>2. Listed(d) /\ d \in loader
  BY <1>1 DEF RegisterInv
<1>3. PICK i \in DOMAIN routes.imports : routes.imports[i] = d
  BY <1>2 DEF Listed
<1>4. \A j \in DOMAIN routes.imports : j > i => EntityName[routes.imports[j]] # EntityName[d]
  <2>1. SUFFICES ASSUME NEW j \in DOMAIN routes.imports, routes.imports[j] = d, j > i
                 PROVE  FALSE
    BY <1>1
  <2>2. i = j
    BY <1>3, <2>1 DEF RegisterInv, NoTwice
  <2>3. ~(j > j)
    BY <2>1 DEF ScaffoldInv
  <2> QED
    BY <2>1, <2>2, <2>3
<1> QED
  BY <1>2, <1>3, <1>4 DEF Serves, Listed

\* The files still to be written are the end of the planned list.
LEMMA TheRestOfTheFiles ==
  ASSUME NEW r, NEW todo, Written(r, todo)
  PROVE  \E n \in 0..6 : todo = SubSeq(WriteOrder(r), n + 1, 6)
<1>1. PICK k \in Nat : Len(todo) = k
  BY DEF Written
<1>2. /\ todo \in Seq(Kinds) /\ k <= 6
      /\ \A i \in 1..k : todo[i] = WriteOrder(r)[6 - k + i]
  BY <1>1 DEF Written
<1>3. PICK n \in 0..6 : n = 6 - k
  BY <1>2
<1>4. PICK list \in Seq(Kinds) : list = WriteOrder(r) /\ Len(list) = 6
  BY OrderFacts
<1>5. \A i \in (n + 1)..6 : list[i] \in Kinds
  <2>1. \A i \in (n + 1)..6 : i \in 1..Len(list)
    BY <1>4
  <2>2. \A i \in 1..Len(list) : list[i] \in Kinds
    BY <1>4
  <2> QED
    BY <2>1, <2>2
<1>6. /\ SubSeq(list, n + 1, 6) \in Seq(Kinds)
      /\ Len(SubSeq(list, n + 1, 6)) = k
      /\ \A i \in 1..k : SubSeq(list, n + 1, 6)[i] = list[n + i]
  <2>1. /\ SubSeq(list, n + 1, 6) \in Seq(Kinds)
        /\ Len(SubSeq(list, n + 1, 6)) = IF n + 1 <= 6 THEN 6 - (n + 1) + 1 ELSE 0
        /\ \A i \in 1..(6 - (n + 1) + 1) : SubSeq(list, n + 1, 6)[i] = list[(n + 1) + i - 1]
    BY <1>5, SubSeqProperties
  <2> QED
    BY <1>2, <1>3, <2>1
<1>7. todo = SubSeq(list, n + 1, 6)
  BY <1>1, <1>2, <1>3, <1>4, <1>6
<1> QED
  BY <1>4, <1>7

\* A generated domain can be used, whatever forms ran at once or died half way: the
\* tree imports, each migration runs on those it builds on (unless one replaced
\* another), there is one head (unless forms overlapped), and the restarted API
\* serves each domain whose form was answered (generate_relational_core_domain).
THEOREM GeneratedDomainsWork == ScaffoldSpec => []GeneratedDomainWorks
<1>1. ScaffoldInit => MigrationInv /\ RegisterInv
  <2> SUFFICES ASSUME ScaffoldInit PROVE MigrationInv /\ RegisterInv
    OBVIOUS
  <2>1. RegisterInv
    BY DEF ScaffoldInit, RegisterInv, NoTwice, NoJob
  <2> QED
    BY <2>1, MigrationInit
<1>2. ScaffoldInv /\ MigrationInv /\ RegisterInv /\ [ScaffoldNext]_scaffoldVars
        => MigrationInv' /\ RegisterInv'
  BY MigrationStep, RegisterStep DEF MigrationInv
<1>3. ASSUME ScaffoldInv, MigrationInv, RegisterInv PROVE GeneratedDomainWorks
  <2>1. ScaffoldTypeOK
    <3>1. \A w \in WebWorkers :
            job[w].pc = "write" =>
              \E n \in 0..6 : job[w].todo = SubSeq(WriteOrder(job[w].req), n + 1, 6)
      <4>1. SUFFICES ASSUME NEW w \in WebWorkers, job[w].pc = "write"
                     PROVE  \E n \in 0..6 : job[w].todo = SubSeq(WriteOrder(job[w].req), n + 1, 6)
        OBVIOUS
      <4>2. Written(job[w].req, job[w].todo)
        <5>1. job[w] # NoJob /\ JobIsSound(job[w])
          BY <1>3, <4>1 DEF ScaffoldInv, NoJob
        <5> QED
          BY <4>1, <5>1 DEF JobIsSound
      <4> QED
        BY <4>2, TheRestOfTheFiles
    <3>2. \A i \in DOMAIN routes.imports : routes.imports[i] \in Domains
      BY <1>3 DEF ScaffoldInv
    <3> QED
      BY <1>3, <3>1, <3>2
         DEF ScaffoldTypeOK, ScaffoldInv, MigrationInv, CountInv, MigrationType
  <2>2. MigrationsRun
    BY <1>3 DEF MigrationsRun, MigrationInv, GraphInv
  <2>3. OneHead
    BY <1>3, FS_Singleton DEF OneHead, MigrationInv, HeadInv
  <2> QED
    BY <1>3, <2>1, <2>2, <2>3, ListedIsServed DEF GeneratedDomainWorks, ScaffoldInv
<1> QED
  BY <1>1, <1>2, <1>3, ScaffoldInvariant, PTL DEF ScaffoldSpec

-----------------------------------------------------------------------------
(* The rules: recursion over a bounded argument                              *)

\* A set of numbers that is not empty has a smallest one.
LEMMA SmallestNumber ==
  ASSUME NEW T \in SUBSET Nat, T # {}
  PROVE  \E k \in T : \A j \in Nat : j < k => j \notin T
<1> DEFINE R == OpToRel(<, Nat)
<1>1. IsWellFoundedOn(R, Nat)
  BY NatLessThanWellFounded
<1>2. \A x, y \in Nat : y < x => <<y, x>> \in R
  BY DEF OpToRel
<1> HIDE DEF R
<1>3. PICK k \in T : \A y \in T : ~(<<y, k>> \in R)
  BY <1>1, WFMin
<1> QED
  BY <1>2, <1>3

\* What a sum over a set of indices is: nothing, or one of them and the rest.
AddedUp(f, g, s) ==
    IF s = {} THEN 0 ELSE LET x == CHOOSE x \in s : TRUE IN f[x] + g[s \ {x}]

UpTo(S, k) == {s \in SUBSET S : Cardinality(s) <= k}

LEMMA SumExists ==
  ASSUME NEW S, IsFiniteSet(S), NEW f
  PROVE  \E g : g = [s \in SUBSET S |-> AddedUp(f, g, s)]
<1> DEFINE T == {k \in Nat : ~\E g : g = [s \in UpTo(S, k) |-> AddedUp(f, g, s)]}
<1>0. ASSUME NEW s \in SUBSET S
      PROVE  IsFiniteSet(s) /\ Cardinality(s) \in Nat /\ Cardinality(s) <= Cardinality(S)
  BY FS_Subset, FS_CardinalityType
<1>1. T = {}
  <2>1. SUFFICES ASSUME T # {} PROVE FALSE
    OBVIOUS
  <2>2. PICK k \in T : \A j \in Nat : j < k => j \notin T
    <3>1. T \in SUBSET Nat
      OBVIOUS
    <3> HIDE DEF T
    <3> QED
      BY <2>1, <3>1, SmallestNumber
  <2>3. CASE k = 0
    <3> DEFINE g == [s \in UpTo(S, k) |-> 0]
    <3>1. \A s \in UpTo(S, k) : s = {}
      BY <1>0, <2>3, FS_EmptySet DEF UpTo
    <3>2. g = [s \in UpTo(S, k) |-> AddedUp(f, g, s)]
      BY <3>1 DEF AddedUp
    <3> QED
      BY <3>2
  <2>4. CASE k # 0
    <3>1. k - 1 \in Nat /\ k - 1 < k /\ k \in Nat
      BY <2>4
    <3>2. PICK g : g = [s \in UpTo(S, k - 1) |-> AddedUp(f, g, s)]
      BY <2>2, <3>1
    <3> DEFINE h == [s \in UpTo(S, k) |-> AddedUp(f, g, s)]
    <3>3. ASSUME NEW s \in UpTo(S, k) PROVE AddedUp(f, g, s) = AddedUp(f, h, s)
      <4>1. CASE s = {}
        BY <4>1 DEF AddedUp
      <4>2. CASE s # {}
        <5>1. PICK x : x = CHOOSE y \in s : TRUE
          OBVIOUS
        <5>2. x \in s
          BY <4>2, <5>1
        <5>3. IsFiniteSet(s) /\ Cardinality(s) \in Nat /\ Cardinality(s) <= k /\ s \in SUBSET S
          BY <1>0 DEF UpTo
        <5>4. Cardinality(s \ {x}) = Cardinality(s) - 1
          BY <5>2, <5>3, FS_RemoveElement
        <5>5. s \ {x} \in UpTo(S, k - 1) /\ s \ {x} \in UpTo(S, k)
          BY <3>1, <5>3, <5>4 DEF UpTo
        <5>6. g[s \ {x}] = h[s \ {x}]
          BY <3>2, <5>5
        <5> QED
          BY <4>2, <5>1, <5>6 DEF AddedUp
      <4> QED
        BY <4>1, <4>2
    <3>4. h = [s \in UpTo(S, k) |-> AddedUp(f, h, s)]
      BY <3>3
    <3> QED
      BY <3>4
  <2> QED
    BY <2>3, <2>4
<1>2. PICK n \in Nat : n = Cardinality(S)
  BY FS_CardinalityType
<1>3. UpTo(S, n) = SUBSET S
  BY <1>0, <1>2 DEF UpTo
<1>4. \E g : g = [s \in UpTo(S, n) |-> AddedUp(f, g, s)]
  BY <1>1
<1> QED
  BY <1>3, <1>4

LEMMA Elements ==
  ASSUME NEW S, NEW s \in Seq(S)
  PROVE  Len(s) \in Nat /\ DOMAIN s = 1..Len(s) /\ \A i \in 1..Len(s) : s[i] \in S
  OBVIOUS

\* The sum of numbers is a number.
LEMMA SumIsNumber ==
  ASSUME NEW f, IsFiniteSet(DOMAIN f), \A i \in DOMAIN f : f[i] \in Nat
  PROVE  SumFunction(f) \in Nat
<1> DEFINE S == DOMAIN f
           iter == CHOOSE g : g = [s \in SUBSET S |-> AddedUp(f, g, s)]
           T == {k \in Nat : \E s \in SUBSET S : Cardinality(s) = k /\ iter[s] \notin Nat}
<1>1. SumFunction(f) = iter[S]
  BY DEF SumFunction, SumFunctionOnSet, FoldFunctionOnSet, MapThenFoldSet, AddedUp
<1>2. iter = [s \in SUBSET S |-> AddedUp(f, iter, s)]
  BY SumExists
<1> HIDE DEF iter
<1>3. T = {}
  <2>1. SUFFICES ASSUME T # {} PROVE FALSE
    OBVIOUS
  <2>2. PICK k \in T : \A j \in Nat : j < k => j \notin T
    <3>1. T \in SUBSET Nat
      OBVIOUS
    <3> HIDE DEF T
    <3> QED
      BY <2>1, <3>1, SmallestNumber
  <2>3. PICK s \in SUBSET S : Cardinality(s) = k /\ iter[s] \notin Nat
    OBVIOUS
  <2>4. s # {}
    BY <1>2, <2>3 DEF AddedUp
  <2>5. PICK x : x = CHOOSE y \in s : TRUE
    OBVIOUS
  <2>6. x \in s /\ f[x] \in Nat /\ iter[s] = f[x] + iter[s \ {x}]
    BY <1>2, <2>4, <2>5 DEF AddedUp
  <2>7. IsFiniteSet(s) /\ k \in Nat
    BY FS_Subset
  <2>8. Cardinality(s \ {x}) = k - 1 /\ k - 1 \in Nat
    <3>1. Cardinality(s \ {x}) = k - 1 /\ IsFiniteSet(s \ {x})
      BY <2>3, <2>6, <2>7, FS_RemoveElement
    <3> QED
      BY <3>1, FS_CardinalityType
  <2>9. iter[s \ {x}] \in Nat
    BY <2>2, <2>7, <2>8
  <2> QED
    BY <2>3, <2>6, <2>9
<1>4. Cardinality(S) \in Nat
  BY FS_CardinalityType
<1> QED
  BY <1>1, <1>3, <1>4

-----------------------------------------------------------------------------
(* The rules: identifiers                                                    *)

\* What is kept of the first n characters.
KeptUpTo(keep, text, g, n) ==
    IF n = 0 THEN << >>
    ELSE IF text[n] \in keep THEN Append(g[n - 1], text[n])
    ELSE g[n - 1]

LEMMA KeptExists ==
  ASSUME NEW keep, NEW text, NEW n \in Nat
  PROVE  \E g : g = [m \in 0..n |-> KeptUpTo(keep, text, g, m)]
<1> DEFINE T == {k \in Nat : ~\E g : g = [m \in 0..k |-> KeptUpTo(keep, text, g, m)]}
<1>1. SUFFICES ASSUME T # {} PROVE FALSE
  OBVIOUS
<1>2. PICK k \in T : \A j \in Nat : j < k => j \notin T
  <2>1. T \in SUBSET Nat
    OBVIOUS
  <2> HIDE DEF T
  <2> QED
    BY <1>1, <2>1, SmallestNumber
<1>3. CASE k = 0
  <2> DEFINE g == [m \in 0..k |-> << >>]
  <2>1. g = [m \in 0..k |-> KeptUpTo(keep, text, g, m)]
    BY <1>3 DEF KeptUpTo
  <2> QED
    BY <2>1
<1>4. CASE k # 0
  <2>1. k - 1 \in Nat /\ k - 1 < k /\ k \in Nat
    BY <1>4
  <2>2. PICK g : g = [m \in 0..(k - 1) |-> KeptUpTo(keep, text, g, m)]
    BY <1>2, <2>1
  <2> DEFINE h == [m \in 0..k |-> KeptUpTo(keep, text, g, m)]
  <2>3. ASSUME NEW m \in 0..k PROVE KeptUpTo(keep, text, g, m) = KeptUpTo(keep, text, h, m)
    <3>1. CASE m = 0
      BY <3>1 DEF KeptUpTo
    <3>2. CASE m # 0
      <4>1. m - 1 \in 0..(k - 1) /\ m - 1 \in 0..k
        BY <2>1, <3>2
      <4>2. g[m - 1] = h[m - 1]
        BY <2>2, <4>1
      <4> QED
        BY <3>2, <4>2 DEF KeptUpTo
    <3> QED
      BY <3>1, <3>2
  <2>4. h = [m \in 0..k |-> KeptUpTo(keep, text, h, m)]
    BY <2>3
  <2> QED
    BY <2>4
<1> QED
  BY <1>3, <1>4

\* What is kept of a text is computed one character after the other.
LEMMA OnlySteps ==
  ASSUME NEW keep, NEW text, Len(text) \in Nat
  PROVE  \E g : /\ g = [m \in 0..Len(text) |-> KeptUpTo(keep, text, g, m)]
                /\ Only(keep, text) = g[Len(text)]
<1> DEFINE g == CHOOSE h : h = [m \in 0..Len(text) |-> KeptUpTo(keep, text, h, m)]
<1>1. g = [m \in 0..Len(text) |-> KeptUpTo(keep, text, g, m)]
  BY KeptExists
<1>2. Only(keep, text) = g[Len(text)]
  BY DEF Only, KeptUpTo
<1> QED
  BY <1>1, <1>2

\* A text of which every character is kept stays as it is.
LEMMA AllIsKept ==
  ASSUME NEW keep, NEW text \in Seq(keep)
  PROVE  Only(keep, text) = text
<1>1. PICK n \in Nat : n = Len(text)
  OBVIOUS
<1>2. PICK g : /\ g = [m \in 0..n |-> KeptUpTo(keep, text, g, m)]
               /\ Only(keep, text) = g[n]
  BY <1>1, OnlySteps
<1> DEFINE Same(k) == /\ g[k] \in Seq(keep) /\ Len(g[k]) = k
                      /\ \A i \in 1..k : g[k][i] = text[i]
           T == {k \in Nat : k <= n /\ ~Same(k)}
<1>3. T = {}
  <2>1. SUFFICES ASSUME T # {} PROVE FALSE
    OBVIOUS
  <2>2. PICK k \in T : \A j \in Nat : j < k => j \notin T
    <3>1. T \in SUBSET Nat
      OBVIOUS
    <3> HIDE DEF T
    <3> QED
      BY <2>1, <3>1, SmallestNumber
  <2>3. k \in 0..n /\ ~Same(k)
    OBVIOUS
  <2>4. k # 0
    <3>1. SUFFICES ASSUME k = 0 PROVE FALSE
      OBVIOUS
    <3>2. g[k] = << >>
      BY <1>2, <2>3, <3>1 DEF KeptUpTo
    <3> QED
      BY <2>3, <3>1, <3>2
  <2>5. k - 1 \in Nat /\ k - 1 \in 0..n /\ Same(k - 1)
    BY <2>2, <2>3, <2>4
  <2>6. text[k] \in keep
    BY <1>1, <2>3, <2>4
  <2>7. g[k] = Append(g[k - 1], text[k])
    BY <1>2, <2>3, <2>4, <2>6 DEF KeptUpTo
  <2>8. Same(k)
    BY <2>3, <2>4, <2>5, <2>6, <2>7
  <2> QED
    BY <2>3, <2>8
<1>4. Same(n)
  BY <1>3
<1> QED
  BY <1>1, <1>2, <1>4

\* If the letters and digits of a text are digits, they are its digits.
LEMMA DigitsAreAll ==
  ASSUME NEW text, Len(text) \in Nat, AllDigits(Only(Alphanumeric, text))
  PROVE  /\ Only(0..9, text) = Only(Alphanumeric, text)
         /\ Only(0..9, text) \in Seq(0..9)
<1>1. PICK n \in Nat : n = Len(text)
  OBVIOUS
<1>2. PICK g : /\ g = [m \in 0..n |-> KeptUpTo(Alphanumeric, text, g, m)]
               /\ Only(Alphanumeric, text) = g[n]
  BY <1>1, OnlySteps
<1>3. PICK h : /\ h = [m \in 0..n |-> KeptUpTo(0..9, text, h, m)]
               /\ Only(0..9, text) = h[n]
  BY <1>1, OnlySteps
<1> DEFINE Agrees(k) == /\ g[k] \in Seq(Alphanumeric) /\ h[k] \in Seq(0..9)
                        /\ AllDigits(g[k]) => h[k] = g[k]
           T == {k \in Nat : k <= n /\ ~Agrees(k)}
<1>4. T = {}
  <2>1. SUFFICES ASSUME T # {} PROVE FALSE
    OBVIOUS
  <2>2. PICK k \in T : \A j \in Nat : j < k => j \notin T
    <3>1. T \in SUBSET Nat
      OBVIOUS
    <3> HIDE DEF T
    <3> QED
      BY <2>1, <3>1, SmallestNumber
  <2>3. k \in 0..n /\ ~Agrees(k)
    OBVIOUS
  <2>4. k # 0
    <3>1. SUFFICES ASSUME k = 0 PROVE FALSE
      OBVIOUS
    <3>2. g[k] = << >> /\ h[k] = << >>
      BY <1>2, <1>3, <2>3, <3>1 DEF KeptUpTo
    <3> QED
      BY <2>3, <3>1, <3>2
  <2>5. k - 1 \in Nat /\ k - 1 \in 0..n /\ Agrees(k - 1)
    BY <2>2, <2>3, <2>4
  <2>6. 0..9 \subseteq Alphanumeric
    BY DEF Alphanumeric
  <2>7. CASE text[k] \notin Alphanumeric
    <3>1. g[k] = g[k - 1] /\ h[k] = h[k - 1]
      BY <1>2, <1>3, <2>3, <2>4, <2>6, <2>7 DEF KeptUpTo
    <3> QED
      BY <2>3, <2>5, <3>1
  <2>8. CASE text[k] \in Alphanumeric
    <3>1. PICK c \in Alphanumeric : c = text[k]
      BY <2>8
    <3>2. PICK s \in Seq(Alphanumeric) : s = g[k - 1]
      BY <2>5
    <3>3. g[k] = Append(s, c)
      BY <1>2, <2>3, <2>4, <3>1, <3>2 DEF KeptUpTo
    <3>4. AllDigits(g[k]) => AllDigits(s) /\ c \in 0..9
      <4>1. Len(s) + 1 \in DOMAIN g[k] /\ g[k][Len(s) + 1] = c
        BY <3>3
      <4>2. \A i \in DOMAIN s : i \in DOMAIN g[k] /\ g[k][i] = s[i]
        BY <3>3
      <4> QED
        BY <4>1, <4>2 DEF AllDigits
    <3>5. h[k] = IF c \in 0..9 THEN Append(h[k - 1], c) ELSE h[k - 1]
      BY <1>3, <2>3, <2>4, <3>1 DEF KeptUpTo
    <3>6. g[k] \in Seq(Alphanumeric) /\ h[k] \in Seq(0..9)
      BY <2>5, <3>3, <3>5
    <3>7. AllDigits(g[k]) => h[k] = g[k]
      BY <2>5, <3>2, <3>3, <3>4, <3>5
    <3> QED
      BY <2>3, <3>6, <3>7
  <2> QED
    BY <2>7, <2>8
<1>5. Agrees(n)
  BY <1>4
<1> QED
  BY <1>2, <1>3, <1>5

\* The weighted sum the code computes is the one of the reference, and a number.
CpfTotal(v, n) == SumFunction([i \in 1..n |-> v[i] * ((n - i) + 2)])
CnpjTotal(v, n) == SumFunction([i \in 1..n |-> v[i] * (((n - i) % 8) + 2)])

LEMMA TotalIsNumber ==
  ASSUME NEW f, NEW n \in Nat, DOMAIN f = 1..n, \A i \in 1..n : f[i] \in Nat
  PROVE  SumFunction(f) \in Nat
<1>1. IsFiniteSet(1..n)
  BY FS_Interval
<1> QED
  BY <1>1, SumIsNumber

LEMMA CpfTotals ==
  ASSUME NEW v, NEW n \in {9, 10}, \A i \in 1..n : v[i] \in 0..9
  PROVE  /\ WeightedSum(v, [i \in 1..n |-> n + 2 - i]) = CpfTotal(v, n)
         /\ CpfTotal(v, n) \in Nat
<1> DEFINE w == [i \in 1..n |-> n + 2 - i]
           f == [i \in 1..n |-> v[i] * ((n - i) + 2)]
<1>1. [i \in DOMAIN w |-> v[i] * w[i]] = f
  <2>1. \A i \in 1..n : n + 2 - i = (n - i) + 2
    OBVIOUS
  <2> QED
    BY <2>1
<1>2. \A i \in 1..n : f[i] \in Nat
  <2>1. ASSUME NEW i \in 1..n, NEW a \in Nat, a = v[i] PROVE a * ((n - i) + 2) \in Nat
    <3>1. (n - i) + 2 \in Nat
      OBVIOUS
    <3> QED
      BY <3>1
  <2>2. \A i \in 1..n : v[i] \in Nat
    OBVIOUS
  <2> QED
    BY <2>1, <2>2
<1>3. SumFunction(f) \in Nat
  <2>1. n \in Nat /\ DOMAIN f = 1..n
    OBVIOUS
  <2> HIDE DEF f
  <2> QED
    BY <1>2, <2>1, TotalIsNumber
<1> QED
  BY <1>1, <1>3 DEF WeightedSum, CpfTotal

LEMMA CnpjTotals ==
  ASSUME NEW v, NEW n \in {12, 13}, \A i \in 1..n : v[i] \in 0..9
  PROVE  /\ WeightedSum(v, CnpjWeights(n)) = CnpjTotal(v, n)
         /\ CnpjTotal(v, n) \in Nat
<1> DEFINE w == CnpjWeights(n)
           f == [i \in 1..n |-> v[i] * (((n - i) % 8) + 2)]
<1>1. DOMAIN w = 1..n /\ \A i \in 1..n : w[i] = ((n - i) % 8) + 2
  <2>1. CASE n = 12
    <3>1. w = <<5, 4, 3, 2, 9, 8, 7, 6, 5, 4, 3, 2>>
      BY <2>1 DEF CnpjWeights
    <3>2. 1..n = {1, 2, 3, 4, 5, 6, 7, 8, 9, 10, 11, 12}
      BY <2>1
    <3> HIDE DEF w
    <3> QED
      BY <2>1, <3>1, <3>2
  <2>2. CASE n = 13
    <3>1. w = <<6, 5, 4, 3, 2, 9, 8, 7, 6, 5, 4, 3, 2>>
      BY <2>2 DEF CnpjWeights
    <3>2. 1..n = {1, 2, 3, 4, 5, 6, 7, 8, 9, 10, 11, 12, 13}
      BY <2>2
    <3> HIDE DEF w
    <3> QED
      BY <2>2, <3>1, <3>2
  <2> QED
    BY <2>1, <2>2
<1> HIDE DEF w
<1>2. [i \in DOMAIN w |-> v[i] * w[i]] = f
  BY <1>1
<1>3. \A i \in 1..n : f[i] \in Nat
  <2>1. ASSUME NEW i \in 1..n, NEW a \in Nat, a = v[i] PROVE a * (((n - i) % 8) + 2) \in Nat
    <3>1. ((n - i) % 8) + 2 \in Nat
      OBVIOUS
    <3> QED
      BY <3>1
  <2>2. \A i \in 1..n : v[i] \in Nat
    OBVIOUS
  <2> QED
    BY <2>1, <2>2
<1>4. SumFunction(f) \in Nat
  <2>1. n \in Nat /\ DOMAIN f = 1..n
    OBVIOUS
  <2> HIDE DEF f
  <2> QED
    BY <1>3, <2>1, TotalIsNumber
<1> QED
  BY <1>2, <1>4 DEF WeightedSum, CnpjTotal, w

\* The two ways to write a check digit: as a number that is computed, and as one
\* that makes the total a multiple of eleven.
LEMMA CpfRemainders ==
  ASSUME NEW t \in Nat, NEW d \in 0..9
  PROVE  (((t * 10) % 11) % 10 = d) <=> ((t + d) % 11 = 0 \/ (t % 11 = 1 /\ d = 0))
  OBVIOUS

LEMMA CnpjRemainders ==
  ASSUME NEW t \in Nat, NEW d \in 0..9
  PROVE  ((IF t % 11 < 2 THEN 0 ELSE 11 - (t % 11)) = d)
           <=> ((t + d) % 11 = 0 \/ (t % 11 = 1 /\ d = 0))
  OBVIOUS

LEMMA CpfDigitIsCongruent ==
  ASSUME NEW v, NEW n \in {9, 10}, \A i \in 1..(n + 1) : v[i] \in 0..9
  PROVE  (CpfDigit(v, n) = v[n + 1]) <=> Congruent(v, n, LAMBDA k : k + 2)
<1>0. \A i \in 1..n : v[i] \in 0..9
  OBVIOUS
<1>1. PICK t \in Nat : t = CpfTotal(v, n) /\ t = WeightedSum(v, [i \in 1..n |-> n + 2 - i])
  BY <1>0, CpfTotals
<1>2. v[n + 1] \in 0..9
  OBVIOUS
<1>3. CpfDigit(v, n) = ((t * 10) % 11) % 10
  BY <1>1 DEF CpfDigit
<1>4. Congruent(v, n, LAMBDA k : k + 2)
        <=> ((t + v[n + 1]) % 11 = 0 \/ (t % 11 = 1 /\ v[n + 1] = 0))
  BY <1>1 DEF Congruent, CpfTotal
<1> QED
  BY <1>2, <1>3, <1>4, CpfRemainders

LEMMA CnpjDigitIsCongruent ==
  ASSUME NEW v, NEW n \in {12, 13}, \A i \in 1..(n + 1) : v[i] \in 0..9
  PROVE  (CnpjDigit(v, n) = v[n + 1]) <=> Congruent(v, n, LAMBDA k : (k % 8) + 2)
<1>0. \A i \in 1..n : v[i] \in 0..9
  OBVIOUS
<1>1. PICK t \in Nat : t = CnpjTotal(v, n) /\ t = WeightedSum(v, CnpjWeights(n))
  BY <1>0, CnpjTotals
<1>2. v[n + 1] \in 0..9
  OBVIOUS
<1>3. CnpjDigit(v, n) = IF t % 11 < 2 THEN 0 ELSE 11 - (t % 11)
  BY <1>1 DEF CnpjDigit
<1>4. Congruent(v, n, LAMBDA k : (k % 8) + 2)
        <=> ((t + v[n + 1]) % 11 = 0 \/ (t % 11 = 1 /\ v[n + 1] = 0))
  BY <1>1 DEF Congruent, CnpjTotal
<1> QED
  BY <1>2, <1>3, <1>4, CnpjRemainders

LEMMA BrazilIsACountry == "BR" # None
  BY RulesAssumption

\* What an answer says: the number is accepted, or it is not.
LEMMA AnswerIs ==
  ASSUME NEW answer, NEW v, NEW fits \in BOOLEAN,
         answer = IF fits THEN Stored(v) ELSE Refused
  PROVE  answer.ok = fits
<1>1. CASE fits = TRUE
  <2>1. answer = [ok |-> TRUE, value |-> v]
    BY <1>1 DEF Stored
  <2>2. answer.ok = TRUE
    BY <2>1
  <2> QED
    BY <1>1, <2>2
<1>2. CASE fits = FALSE
  <2>1. answer = [ok |-> FALSE]
    BY <1>2 DEF Refused
  <2>2. answer.ok = FALSE
    BY <2>1
  <2> QED
    BY <1>2, <2>2
<1> QED
  BY <1>1, <1>2

LEMMA SameAnswer ==
  ASSUME NEW p \in BOOLEAN, NEW q \in BOOLEAN, p <=> q
  PROVE  p = q
  OBVIOUS

LEMMA CpfAnswer ==
  ASSUME NEW v \in Seq(0..9), Len(v) = 11
  PROVE  AddIdentifier("BR", "BR_CPF", v, FALSE).ok
           = (~AllEqual(v) /\ \A n \in {9, 10} : Congruent(v, n, LAMBDA k : k + 2))
<1> DEFINE right == ~AllEqual(v) /\ \A n \in {9, 10} : Congruent(v, n, LAMBDA k : k + 2)
<1>1. NormalizeIdentifier(v) = v
  <2>1. v \in Seq(Alphanumeric)
    BY DEF Alphanumeric
  <2> QED
    BY <2>1, AllIsKept DEF NormalizeIdentifier
<1>2. DOMAIN v = 1..11 /\ \A i \in 1..11 : v[i] \in 0..9
  BY Elements
<1>3. ValidCpf(v) <=> right
  <2>1. \A n \in {9, 10} : (CpfDigit(v, n) = v[n + 1]) <=> Congruent(v, n, LAMBDA k : k + 2)
    <3>1. ASSUME NEW n \in {9, 10}
          PROVE  (CpfDigit(v, n) = v[n + 1]) <=> Congruent(v, n, LAMBDA k : k + 2)
      <4>1. \A i \in 1..(n + 1) : v[i] \in 0..9
        BY <1>2
      <4> QED
        BY <4>1, CpfDigitIsCongruent
    <3> QED
      BY <3>1
  <2>2. AllDigits(v)
    BY <1>2 DEF AllDigits
  <2> QED
    BY <2>1, <2>2 DEF ValidCpf
<1>4. AddIdentifier("BR", "BR_CPF", v, FALSE) = IF ValidCpf(v) THEN Stored(v) ELSE Refused
  BY <1>1, BrazilIsACountry DEF AddIdentifier, ValidateIdentifier
<1>5. AddIdentifier("BR", "BR_CPF", v, FALSE).ok = ValidCpf(v)
  BY <1>4, AnswerIs, Zenon DEF ValidCpf
<1>6. ValidCpf(v) = right
  <2>1. ValidCpf(v) \in BOOLEAN
    BY DEF ValidCpf
  <2>2. right \in BOOLEAN
    OBVIOUS
  <2> HIDE DEF right
  <2> QED
    BY <1>3, <2>1, <2>2, SameAnswer, Zenon
<1> QED
  BY <1>5, <1>6, Zenon

LEMMA CnpjAnswer ==
  ASSUME NEW v \in Seq(0..9), Len(v) = 14
  PROVE  AddIdentifier("BR", "BR_CNPJ", v, FALSE).ok
           = (~AllEqual(v) /\ \A n \in {12, 13} : Congruent(v, n, LAMBDA k : (k % 8) + 2))
<1> DEFINE right == ~AllEqual(v) /\ \A n \in {12, 13} :
                                      Congruent(v, n, LAMBDA k : (k % 8) + 2)
<1>1. NormalizeIdentifier(v) = v
  <2>1. v \in Seq(Alphanumeric)
    BY DEF Alphanumeric
  <2> QED
    BY <2>1, AllIsKept DEF NormalizeIdentifier
<1>2. DOMAIN v = 1..14 /\ \A i \in 1..14 : v[i] \in 0..9
  BY Elements
<1>3. ValidCnpj(v) <=> right
  <2>1. \A n \in {12, 13} :
          (CnpjDigit(v, n) = v[n + 1]) <=> Congruent(v, n, LAMBDA k : (k % 8) + 2)
    <3>1. ASSUME NEW n \in {12, 13}
          PROVE  (CnpjDigit(v, n) = v[n + 1]) <=> Congruent(v, n, LAMBDA k : (k % 8) + 2)
      <4>1. \A i \in 1..(n + 1) : v[i] \in 0..9
        BY <1>2
      <4> QED
        BY <4>1, CnpjDigitIsCongruent
    <3> QED
      BY <3>1
  <2>2. AllDigits(v)
    BY <1>2 DEF AllDigits
  <2> QED
    BY <2>1, <2>2 DEF ValidCnpj
<1>4. AddIdentifier("BR", "BR_CNPJ", v, FALSE) = IF ValidCnpj(v) THEN Stored(v) ELSE Refused
  BY <1>1, BrazilIsACountry DEF AddIdentifier, ValidateIdentifier
<1>5. AddIdentifier("BR", "BR_CNPJ", v, FALSE).ok = ValidCnpj(v)
  BY <1>4, AnswerIs, Zenon DEF ValidCnpj
<1>6. ValidCnpj(v) = right
  <2>1. ValidCnpj(v) \in BOOLEAN
    BY DEF ValidCnpj
  <2>2. right \in BOOLEAN
    OBVIOUS
  <2> HIDE DEF right
  <2> QED
    BY <1>3, <2>1, <2>2, SameAnswer, Zenon
<1> QED
  BY <1>5, <1>6, Zenon

\* Whatever is typed for a CNPJ: what Auth takes, Core takes alike.
LEMMA CoreTakesAlike ==
  ASSUME NEW t, Len(t) \in Nat, AddIdentifier("BR", "BR_CNPJ", t, FALSE).ok
  PROVE  NormalizeCnpj(t) = AddIdentifier("BR", "BR_CNPJ", t, FALSE)
<1> DEFINE v == NormalizeIdentifier(t)
<1>1. AddIdentifier("BR", "BR_CNPJ", t, FALSE) = IF ValidCnpj(v) THEN Stored(v) ELSE Refused
  BY BrazilIsACountry DEF AddIdentifier, ValidateIdentifier
<1>2. ValidCnpj(v)
  <2>1. AddIdentifier("BR", "BR_CNPJ", t, FALSE).ok = ValidCnpj(v)
    BY <1>1, AnswerIs, Zenon DEF ValidCnpj
  <2> QED
    BY <2>1
<1>3. Only(0..9, t) = v
  BY <1>2, DigitsAreAll DEF ValidCnpj, NormalizeIdentifier
<1>4. NormalizeCnpj(t) = Stored(v)
  BY <1>2, <1>3 DEF NormalizeCnpj, ValidCnpj
<1> QED
  BY <1>1, <1>2, <1>4

\* Every question that is asked is a case.
LEMMA CasesAreAsked == RulesSpec => [](question = None \/ question \in Questions)
<1>1. RulesOff => (question = None \/ question \in Questions)
  BY DEF RulesOff
<1>2. (question = None \/ question \in Questions) /\ [Ask]_question
        => (question = None \/ question \in Questions)'
  BY DEF Ask
<1> QED
  BY <1>1, <1>2, PTL DEF RulesSpec

LEMMA TwoMore ==
  ASSUME NEW S, NEW base \in Seq(S), NEW d \in S, NEW e \in S
  PROVE  base \o <<d, e>> \in Seq(S) /\ Len(base \o <<d, e>>) = Len(base) + 2
  OBVIOUS

\* What a CNPJ may look like when it is typed is a text.
LEMMA TypedIsText ==
  ASSUME NEW S, NEW v \in Seq(S), \A i \in 1..14 : v[i] \in S, NEW mark \in S, NEW letter \in S,
         NEW t \in {v, SubSeq(v, 1, 2) \o <<mark>> \o SubSeq(v, 3, 12)
                         \o <<mark>> \o SubSeq(v, 13, 14),
                    Append(v, letter)}
  PROVE  Len(t) \in Nat
<1>1. CASE t = v
  BY <1>1
<1>2. CASE t = Append(v, letter)
  BY <1>2
<1>3. CASE t = SubSeq(v, 1, 2) \o <<mark>> \o SubSeq(v, 3, 12) \o <<mark>> \o SubSeq(v, 13, 14)
  <2>1. ASSUME NEW m \in 1..14, NEW n \in 1..14 PROVE SubSeq(v, m, n) \in Seq(S)
    <3>1. m \in Int /\ n \in Int /\ \A i \in m..n : i \in 1..14
      OBVIOUS
    <3> QED
      BY <3>1, SubSeqProperties
  <2>2. SubSeq(v, 1, 2) \in Seq(S) /\ SubSeq(v, 3, 12) \in Seq(S) /\ SubSeq(v, 13, 14) \in Seq(S)
    BY <2>1
  <2>3. <<mark>> \in Seq(S)
    OBVIOUS
  <2>4. ASSUME NEW a \in Seq(S), NEW b \in Seq(S), NEW c \in Seq(S), NEW m \in Seq(S)
        PROVE  Len(a \o m \o b \o m \o c) \in Nat
    OBVIOUS
  <2> QED
    BY <1>3, <2>2, <2>3, <2>4
<1> QED
  BY <1>1, <1>2, <1>3

\* Identifiers are accepted by their check digits, whatever the number, and alike in
\* both services, with its punctuation or without (validate_identifier, normalize_cnpj).
THEOREM IdentifiersAlwaysAgree == RulesSpec => []IdentifiersAgree
<1>1. ASSUME question = None \/ question \in Questions,
             question # None, question.kind = "digits"
      PROVE  question.base \in Seq(0..9) /\ Len(question.base) \in {9, 12}
  BY <1>1, RulesAssumption DEF QuestionOK
<1>2. ASSUME question = None \/ question \in Questions
      PROVE  CheckDigitsMatch
  <2>1. SUFFICES ASSUME question # None, question.kind = "digits", NEW d \in 0..9, NEW e \in 0..9,
                        NEW v, v = question.base \o <<d, e>>
                 PROVE  IF Len(question.base) = 9
                        THEN AddIdentifier("BR", "BR_CPF", v, FALSE).ok
                               = (~AllEqual(v) /\ \A n \in {9, 10} :
                                    Congruent(v, n, LAMBDA k : k + 2))
                        ELSE AddIdentifier("BR", "BR_CNPJ", v, FALSE).ok
                               = (~AllEqual(v) /\ \A n \in {12, 13} :
                                    Congruent(v, n, LAMBDA k : (k % 8) + 2))
    BY DEF CheckDigitsMatch
  <2>2. question.base \in Seq(0..9) /\ Len(question.base) \in {9, 12}
    BY <1>1, <1>2, <2>1
  <2>3. v \in Seq(0..9) /\ Len(v) = Len(question.base) + 2
    BY <2>1, <2>2, TwoMore
  <2>4. CASE Len(question.base) = 9
    <3>1. Len(v) = 11
      BY <2>3, <2>4
    <3>2. AddIdentifier("BR", "BR_CPF", v, FALSE).ok
            = (~AllEqual(v) /\ \A n \in {9, 10} : Congruent(v, n, LAMBDA k : k + 2))
      BY <2>3, <3>1, CpfAnswer
    <3> QED
      BY <2>4, <3>2, Zenon
  <2>5. CASE Len(question.base) = 12
    <3>1. Len(v) = 14 /\ Len(question.base) # 9
      BY <2>3, <2>5
    <3>2. AddIdentifier("BR", "BR_CNPJ", v, FALSE).ok
            = (~AllEqual(v) /\ \A n \in {12, 13} : Congruent(v, n, LAMBDA k : (k % 8) + 2))
      BY <2>3, <3>1, CnpjAnswer
    <3> QED
      BY <3>1, <3>2, Zenon
  <2> QED
    BY <2>2, <2>4, <2>5
<1>3. ASSUME question = None \/ question \in Questions
      PROVE  ServicesAgreeOnCnpj
  <2>1. SUFFICES ASSUME question # None, question.kind = "digits", Len(question.base) = 12
                 PROVE  \A d \in 0..9, e \in 0..9 :
                          LET v == question.base \o <<d, e>>
                              typed == {v, SubSeq(v, 1, 2) \o <<Mark>> \o SubSeq(v, 3, 12)
                                             \o <<Mark>> \o SubSeq(v, 13, 14),
                                        Append(v, Letter)}
                          IN  \A t \in typed :
                                LET auth == AddIdentifier("BR", "BR_CNPJ", t, FALSE)
                                IN  auth.ok => NormalizeCnpj(t) = auth
    BY ZenonT(40) DEF ServicesAgreeOnCnpj
  <2> TAKE d \in 0..9, e \in 0..9
  <2> DEFINE v == question.base \o <<d, e>>
             typed == {v, SubSeq(v, 1, 2) \o <<Mark>> \o SubSeq(v, 3, 12)
                            \o <<Mark>> \o SubSeq(v, 13, 14),
                       Append(v, Letter)}
             Characters == 0..11
  <2>2. question.base \in Seq(0..9)
    BY <1>1, <1>3, <2>1
  <2>3. v \in Seq(0..9) /\ Len(v) = Len(question.base) + 2
    BY <2>2, TwoMore
  <2>4. /\ Len(v) = 14 /\ DOMAIN v = 1..14 /\ v = [i \in 1..14 |-> v[i]]
        /\ \A i \in 1..14 : v[i] \in Characters
    <3>1. Len(v) = 14
      BY <2>1, <2>3
    <3>2. DOMAIN v = 1..Len(v) /\ \A i \in 1..Len(v) : v[i] \in 0..9
      BY <2>3, Elements
    <3>3. v = [i \in DOMAIN v |-> v[i]]
      BY <2>3
    <3> HIDE DEF v
    <3> QED
      BY <3>1, <3>2, <3>3
  <2>5. Mark \in Characters /\ Letter \in Characters
    BY DEF Mark, Letter
  <2>6. ASSUME NEW t \in typed PROVE Len(t) \in Nat
    <3> HIDE DEF v, Characters
    <3>1. v \in Seq(Characters)
      BY <2>4
    <3> QED
      BY <2>4, <2>5, <3>1, TypedIsText
  <2>7. \A t \in typed : AddIdentifier("BR", "BR_CNPJ", t, FALSE).ok =>
                           NormalizeCnpj(t) = AddIdentifier("BR", "BR_CNPJ", t, FALSE)
    BY <2>6, CoreTakesAlike
  <2> QED
    BY <2>7, ZenonT(40)
<1>4. question = None \/ question \in Questions => IdentifiersAgree
  BY <1>2, <1>3 DEF IdentifiersAgree
<1> QED
  BY <1>4, CasesAreAsked, PTL

-----------------------------------------------------------------------------
(* The rules: the billing page                                               *)

Least(m, n) == IF m <= n THEN m ELSE n

\* If the k-th call in a row is granted exactly for k <= n, n calls are served.
LEMMA CallsServed ==
  ASSUME NEW n \in Nat, NEW after, \A k \in 1..Horizon : after[k].ok <=> k <= n
  PROVE  Cardinality({k \in 1..Horizon : after[k].ok}) = Least(n, Horizon)
<1>1. Horizon \in Nat
  BY RulesAssumption
<1>2. {k \in 1..Horizon : after[k].ok} = 1..Least(n, Horizon)
  BY <1>1 DEF Least
<1>3. Least(n, Horizon) \in Nat
  BY <1>1 DEF Least
<1>4. Cardinality(1..Least(n, Horizon)) = Least(n, Horizon)
  BY <1>3, FS_Interval
<1> QED
  BY <1>2, <1>4

\* The result of a call after another; two runs of calls that start and go on alike
\* are the same.
NextSignature(a, g, k) ==
    IF k = 0 THEN Granted(a)
    ELSE LET before == g[k - 1]
         IN  IF before.ok THEN ConsumeSignature(before.account) ELSE before

NextDocument(a, g, k) ==
    IF k = 0 THEN Granted(a)
    ELSE LET before == g[k - 1]
         IN  IF before.ok THEN ConsumeDocument(before.account) ELSE before

LEMMA SameCalls ==
  ASSUME NEW f, NEW g, f[0] = g[0], \A k \in 1..Horizon : f[k - 1] = g[k - 1] => f[k] = g[k]
  PROVE  \A k \in 0..Horizon : f[k] = g[k]
<1> DEFINE T == {k \in Nat : k \in 0..Horizon /\ f[k] # g[k]}
<1>1. T = {}
  <2>1. SUFFICES ASSUME T # {} PROVE FALSE
    OBVIOUS
  <2>2. PICK k \in T : \A j \in Nat : j < k => j \notin T
    <3>1. T \in SUBSET Nat
      OBVIOUS
    <3> HIDE DEF T
    <3> QED
      BY <2>1, <3>1, SmallestNumber
  <2>3. k \in 0..Horizon /\ f[k] # g[k]
    OBVIOUS
  <2>4. k \in 1..Horizon /\ k - 1 \in Nat /\ k - 1 < k /\ k - 1 \in 0..Horizon
    BY <2>3, RulesAssumption
  <2>5. f[k - 1] = g[k - 1]
    BY <2>2, <2>4
  <2> QED
    BY <2>3, <2>4, <2>5
<1> QED
  BY <1>1, RulesAssumption

UsedTo(a, x) == [a EXCEPT !.used = x]

LEMMA UsedAccount ==
  ASSUME NEW a \in BillingAccounts, NEW x \in Nat, NEW s, s = UsedTo(a, x)
  PROVE  /\ s.used = x /\ s.limit = a.limit /\ s.lifetime = a.lifetime
         /\ PaidAccessEnabled(s) = PaidAccessEnabled(a)
         /\ UsedTo(s, s.used + 1) = UsedTo(a, x + 1)
         /\ x = a.used => s = a
<1>1. a = [lifetime |-> a.lifetime, grace |-> a.grace, status |-> a.status, product |-> a.product,
           used |-> a.used, limit |-> a.limit, files |-> a.files,
           customer |-> a.customer, subscription |-> a.subscription]
  BY DEF BillingAccounts
<1>2. s = [lifetime |-> a.lifetime, grace |-> a.grace, status |-> a.status, product |-> a.product,
           used |-> x, limit |-> a.limit, files |-> a.files,
           customer |-> a.customer, subscription |-> a.subscription]
  BY <1>1 DEF UsedTo
<1>3. s.used = x /\ s.limit = a.limit /\ s.lifetime = a.lifetime
      /\ s.status = a.status /\ s.grace = a.grace
  BY <1>2
<1>4. UsedTo(s, s.used + 1) = UsedTo(a, x + 1)
  BY <1>1, <1>2 DEF UsedTo
<1>5. x = a.used => s = a
  BY <1>1, <1>2
<1> QED
  BY <1>3, <1>4, <1>5 DEF PaidAccessEnabled

FilesTo(a, x) == [a EXCEPT !.files = x]

LEMMA FilesAccount ==
  ASSUME NEW a \in BillingAccounts, NEW x \in Nat, NEW s, s = FilesTo(a, x)
  PROVE  /\ s.files = x /\ s.lifetime = a.lifetime
         /\ ActivePlanFileLimit(s) = ActivePlanFileLimit(a)
         /\ FilesTo(s, s.files + 1) = FilesTo(a, x + 1)
         /\ x = a.files => s = a
<1>1. a = [lifetime |-> a.lifetime, grace |-> a.grace, status |-> a.status, product |-> a.product,
           used |-> a.used, limit |-> a.limit, files |-> a.files,
           customer |-> a.customer, subscription |-> a.subscription]
  BY DEF BillingAccounts
<1>2. s = [lifetime |-> a.lifetime, grace |-> a.grace, status |-> a.status, product |-> a.product,
           used |-> a.used, limit |-> a.limit, files |-> x,
           customer |-> a.customer, subscription |-> a.subscription]
  BY <1>1 DEF FilesTo
<1>3. s.files = x /\ s.lifetime = a.lifetime /\ s.product = a.product
      /\ s.status = a.status /\ s.grace = a.grace
  BY <1>2
<1>4. FilesTo(s, s.files + 1) = FilesTo(a, x + 1)
  BY <1>1, <1>2 DEF FilesTo
<1>5. x = a.files => s = a
  BY <1>1, <1>2
<1>6. ActivePlanFileLimit(s) = ActivePlanFileLimit(a)
  BY <1>3 DEF PaidAccessEnabled, ActivePlanFileLimit
<1> QED
  BY <1>3, <1>4, <1>5, <1>6

\* What the calls in a row come to: the k-th is granted while the counter is below
\* its limit, and the counter has gone up by one with each.
LEMMA SignaturesServed ==
  ASSUME NEW a \in BillingAccounts
  PROVE  Served(ConsumeSignature, a) = Promised(Quote(a).signatures)
<1> DEFINE after == CHOOSE f : f = [k \in 0..Horizon |-> NextSignature(a, f, k)]
           free == a.lifetime \/ PaidAccessEnabled(a)
           n == Minus(a.limit, a.used)
           state(k) == [a EXCEPT !.used = a.used + k]
           g == [k \in 0..Horizon |->
                   IF free THEN Granted(a)
                   ELSE IF k <= n THEN Granted(state(k)) ELSE Exhausted(state(n))]
<1>1. Served(ConsumeSignature, a) = Cardinality({k \in 1..Horizon : after[k].ok})
  BY DEF Served, NextSignature
<1>2. /\ a.used \in Nat /\ a.limit \in Nat /\ n \in Nat /\ Horizon \in Nat
      /\ n = (IF a.limit > a.used THEN a.limit - a.used ELSE 0)
  BY RulesAssumption DEF BillingAccounts, Minus
<1> HIDE DEF n
<1>3. ASSUME NEW k \in Nat
      PROVE  /\ state(k).used = a.used + k /\ state(k).limit = a.limit
             /\ state(k).lifetime = a.lifetime
             /\ PaidAccessEnabled(state(k)) = PaidAccessEnabled(a)
             /\ [state(k) EXCEPT !.used = @ + 1] = state(k + 1)
             /\ k = 0 => state(k) = a
  <2>1. PICK x \in Nat : x = a.used + k /\ x + 1 = a.used + (k + 1) /\ (k = 0 => x = a.used)
    BY <1>2
  <2>2. PICK s : s = UsedTo(a, x)
    OBVIOUS
  <2>3. s = state(k) /\ state(k + 1) = UsedTo(a, x + 1)
    BY <2>1, <2>2 DEF UsedTo
  <2> HIDE DEF state
  <2>4. /\ s.used = x /\ s.limit = a.limit /\ s.lifetime = a.lifetime
        /\ PaidAccessEnabled(s) = PaidAccessEnabled(a)
        /\ UsedTo(s, s.used + 1) = UsedTo(a, x + 1)
        /\ x = a.used => s = a
    BY <2>1, <2>2, UsedAccount
  <2>5. [s EXCEPT !.used = @ + 1] = state(k + 1)
    BY <2>3, <2>4 DEF UsedTo
  <2> QED
    BY <2>1, <2>3, <2>4, <2>5
<1> HIDE DEF state
<1>4. g = [k \in 0..Horizon |-> NextSignature(a, g, k)]
  <2>1. SUFFICES ASSUME NEW k \in 0..Horizon PROVE g[k] = NextSignature(a, g, k)
    OBVIOUS
  <2>2. CASE k = 0
    <3>1. PICK zero \in Nat : zero = 0 /\ zero <= n
      BY <1>2
    <3>2. state(zero) = a
      BY <1>3, <3>1
    <3>3. g[k] = Granted(a)
      BY <2>2, <3>1, <3>2
    <3> QED
      BY <2>2, <3>3 DEF NextSignature
  <2>3. CASE k # 0
    <3>1. k - 1 \in 0..Horizon /\ k - 1 \in Nat /\ (k - 1) + 1 = k
      BY <1>2, <2>3
    <3>2. CASE free
      BY <2>3, <3>1, <3>2 DEF NextSignature, ConsumeSignature, Granted
    <3>3. CASE ~free /\ k <= n
      <4>1. g[k - 1] = Granted(state(k - 1)) /\ g[k] = Granted(state(k))
        BY <1>2, <3>1, <3>3
      <4>2. state(k - 1).used < a.limit /\ [state(k - 1) EXCEPT !.used = @ + 1] = state(k)
        <5>1. a.used + (k - 1) < a.limit
          BY <1>2, <3>1, <3>3
        <5> QED
          BY <1>3, <3>1, <5>1
      <4>3. /\ ~(state(k - 1).used >= state(k - 1).limit)
            /\ ~(state(k - 1).lifetime \/ PaidAccessEnabled(state(k - 1)))
        <5>1. state(k - 1).limit = a.limit /\ state(k - 1).used = a.used + (k - 1)
          BY <1>3, <3>1
        <5>2. ~(state(k - 1).used >= state(k - 1).limit)
          BY <1>2, <4>2, <5>1
        <5> QED
          BY <1>3, <3>1, <3>3, <5>2
      <4>4. ConsumeSignature(state(k - 1)) = Granted(state(k))
        BY <4>2, <4>3 DEF ConsumeSignature
      <4> QED
        BY <2>3, <4>1, <4>4 DEF NextSignature, Granted
    <3>4. CASE ~free /\ k = n + 1
      <4>1. g[k - 1] = Granted(state(n)) /\ g[k] = Exhausted(state(n))
        BY <1>2, <3>1, <3>4
      <4>2. /\ state(n).used >= state(n).limit
            /\ ~(state(n).lifetime \/ PaidAccessEnabled(state(n)))
        <5>1. a.used + n >= a.limit
          BY <1>2
        <5> QED
          BY <1>2, <1>3, <3>4, <5>1
      <4>3. ConsumeSignature(state(n)) = Exhausted(state(n))
        BY <4>2 DEF ConsumeSignature
      <4>4. Granted(state(n)).ok /\ Granted(state(n)).account = state(n)
        BY DEF Granted
      <4> QED
        BY <2>3, <4>1, <4>3, <4>4 DEF NextSignature
    <3>5. CASE ~free /\ k > n + 1
      BY <1>2, <2>3, <3>1, <3>5 DEF NextSignature, Exhausted
    <3> QED
      BY <1>2, <3>2, <3>3, <3>4, <3>5
  <2> QED
    BY <2>2, <2>3
<1>5. after = [k \in 0..Horizon |-> NextSignature(a, after, k)]
  <2> HIDE DEF g
  <2> QED
    BY <1>4
<1>6. \A k \in 0..Horizon : after[k] = g[k]
  <2> HIDE DEF g, after
  <2>1. after[0] = g[0]
    BY <1>2, <1>4, <1>5 DEF NextSignature
  <2>2. ASSUME NEW k \in 1..Horizon, after[k - 1] = g[k - 1] PROVE after[k] = g[k]
    <3>1. k \in 0..Horizon
      BY <1>2
    <3>2. after[k] = NextSignature(a, after, k) /\ g[k] = NextSignature(a, g, k)
      BY <1>4, <1>5, <3>1
    <3> QED
      BY <2>2, <3>2 DEF NextSignature
  <2> QED
    BY <2>1, <2>2, SameCalls
<1> HIDE DEF after
<1>7. CASE free
  <2>1. \A k \in 1..Horizon : after[k].ok <=> k <= Horizon
    <3>1. ASSUME NEW k \in 1..Horizon PROVE after[k].ok /\ k <= Horizon
      <4>1. k \in 0..Horizon
        BY <1>2
      <4>2. after[k] = Granted(a)
        BY <1>6, <1>7, <4>1
      <4> QED
        BY <1>2, <4>2 DEF Granted
    <3> QED
      BY <3>1
  <2>2. Served(ConsumeSignature, a) = Least(Horizon, Horizon)
    BY <1>1, <1>2, <2>1, CallsServed
  <2>3. Quote(a).signatures = None
    BY <1>7 DEF Quote
  <2> QED
    BY <1>2, <2>2, <2>3 DEF Least, Promised
<1>8. CASE ~free
  <2>1. \A k \in 1..Horizon : after[k].ok <=> k <= n
    <3>1. SUFFICES ASSUME NEW k \in 1..Horizon PROVE after[k].ok <=> k <= n
      OBVIOUS
    <3>2. k \in 0..Horizon
      BY <1>2
    <3>3. after[k] = IF k <= n THEN Granted(state(k)) ELSE Exhausted(state(n))
      BY <1>6, <1>8, <3>2
    <3>4. CASE k <= n
      BY <3>3, <3>4 DEF Granted
    <3>5. CASE ~(k <= n)
      BY <3>3, <3>5 DEF Exhausted
    <3> QED
      BY <3>4, <3>5
  <2>2. Served(ConsumeSignature, a) = Least(n, Horizon)
    BY <1>1, <1>2, <2>1, CallsServed
  <2>3. Quote(a).signatures = n
    BY <1>8 DEF Quote, n
  <2>4. n # None
    BY <1>2, RulesAssumption
  <2> QED
    BY <1>2, <2>2, <2>3, <2>4 DEF Least, Promised
<1> QED
  BY <1>7, <1>8

LEMMA DocumentsServed ==
  ASSUME NEW a \in BillingAccounts
  PROVE  Served(ConsumeDocument, a) = Promised(Quote(a).files)
<1> DEFINE after == CHOOSE f : f = [k \in 0..Horizon |-> NextDocument(a, f, k)]
           limit == ActivePlanFileLimit(a)
           free == a.lifetime \/ limit = None
           n == IF limit = None THEN 0 ELSE Minus(limit, a.files)
           state(k) == [a EXCEPT !.files = a.files + k]
           g == [k \in 0..Horizon |->
                   IF free THEN Granted(a)
                   ELSE IF k <= n THEN Granted(state(k)) ELSE Exhausted(state(n))]
<1>1. Served(ConsumeDocument, a) = Cardinality({k \in 1..Horizon : after[k].ok})
  BY DEF Served, NextDocument
<1>2. /\ a.files \in Nat /\ n \in Nat /\ Horizon \in Nat
      /\ ~free => limit \in Nat /\ n = (IF limit > a.files THEN limit - a.files ELSE 0)
  BY RulesAssumption DEF BillingAccounts, Minus, ActivePlanFileLimit
<1> HIDE DEF n, limit
<1>3. ASSUME NEW k \in Nat
      PROVE  /\ state(k).files = a.files + k /\ state(k).lifetime = a.lifetime
             /\ ActivePlanFileLimit(state(k)) = limit
             /\ [state(k) EXCEPT !.files = @ + 1] = state(k + 1)
             /\ k = 0 => state(k) = a
  <2>1. PICK x \in Nat : x = a.files + k /\ x + 1 = a.files + (k + 1) /\ (k = 0 => x = a.files)
    BY <1>2
  <2>2. PICK s : s = FilesTo(a, x)
    OBVIOUS
  <2>3. s = state(k) /\ state(k + 1) = FilesTo(a, x + 1)
    BY <2>1, <2>2 DEF FilesTo
  <2> HIDE DEF state
  <2>4. /\ s.files = x /\ s.lifetime = a.lifetime
        /\ ActivePlanFileLimit(s) = ActivePlanFileLimit(a)
        /\ FilesTo(s, s.files + 1) = FilesTo(a, x + 1)
        /\ x = a.files => s = a
    BY <2>1, <2>2, FilesAccount
  <2>5. [s EXCEPT !.files = @ + 1] = state(k + 1)
    BY <2>3, <2>4 DEF FilesTo
  <2> QED
    BY <2>1, <2>3, <2>4, <2>5 DEF limit
<1> HIDE DEF state
<1>4. g = [k \in 0..Horizon |-> NextDocument(a, g, k)]
  <2>1. SUFFICES ASSUME NEW k \in 0..Horizon PROVE g[k] = NextDocument(a, g, k)
    OBVIOUS
  <2>2. CASE k = 0
    <3>1. PICK zero \in Nat : zero = 0 /\ zero <= n
      BY <1>2
    <3>2. state(zero) = a
      BY <1>3, <3>1
    <3>3. g[k] = Granted(a)
      BY <2>2, <3>1, <3>2
    <3> QED
      BY <2>2, <3>3 DEF NextDocument
  <2>3. CASE k # 0
    <3>1. k - 1 \in 0..Horizon /\ k - 1 \in Nat /\ (k - 1) + 1 = k
      BY <1>2, <2>3
    <3>2. CASE free
      BY <2>3, <3>1, <3>2 DEF NextDocument, ConsumeDocument, Granted, limit
    <3>3. CASE ~free /\ k <= n
      <4>1. g[k - 1] = Granted(state(k - 1)) /\ g[k] = Granted(state(k))
        BY <1>2, <3>1, <3>3
      <4>2. state(k - 1).files < limit /\ [state(k - 1) EXCEPT !.files = @ + 1] = state(k)
        <5>1. a.files + (k - 1) < limit
          BY <1>2, <3>1, <3>3
        <5> QED
          BY <1>3, <3>1, <5>1
      <4>3. /\ ~(state(k - 1).files >= limit) /\ ActivePlanFileLimit(state(k - 1)) = limit
            /\ ~(state(k - 1).lifetime \/ limit = None)
        <5>1. state(k - 1).files = a.files + (k - 1)
          BY <1>3, <3>1
        <5>2. ~(state(k - 1).files >= limit)
          BY <1>2, <3>3, <4>2, <5>1
        <5> QED
          BY <1>3, <3>1, <3>3, <5>2
      <4>4. ConsumeDocument(state(k - 1)) = Granted(state(k))
        BY <4>2, <4>3 DEF ConsumeDocument
      <4> QED
        BY <2>3, <4>1, <4>4 DEF NextDocument, Granted
    <3>4. CASE ~free /\ k = n + 1
      <4>1. g[k - 1] = Granted(state(n)) /\ g[k] = Exhausted(state(n))
        BY <1>2, <3>1, <3>4
      <4>2. /\ state(n).files >= limit /\ ActivePlanFileLimit(state(n)) = limit
            /\ ~(state(n).lifetime \/ limit = None)
        <5>1. a.files + n >= limit
          BY <1>2, <3>4
        <5> QED
          BY <1>2, <1>3, <3>4, <5>1
      <4>3. ConsumeDocument(state(n)) = Exhausted(state(n))
        BY <4>2 DEF ConsumeDocument
      <4>4. Granted(state(n)).ok /\ Granted(state(n)).account = state(n)
        BY DEF Granted
      <4> QED
        BY <2>3, <4>1, <4>3, <4>4 DEF NextDocument
    <3>5. CASE ~free /\ k > n + 1
      BY <1>2, <2>3, <3>1, <3>5 DEF NextDocument, Exhausted
    <3> QED
      BY <1>2, <3>2, <3>3, <3>4, <3>5
  <2> QED
    BY <2>2, <2>3
<1>5. after = [k \in 0..Horizon |-> NextDocument(a, after, k)]
  <2> HIDE DEF g
  <2> QED
    BY <1>4
<1>6. \A k \in 0..Horizon : after[k] = g[k]
  <2> HIDE DEF g, after
  <2>1. after[0] = g[0]
    BY <1>2, <1>4, <1>5 DEF NextDocument
  <2>2. ASSUME NEW k \in 1..Horizon, after[k - 1] = g[k - 1] PROVE after[k] = g[k]
    <3>1. k \in 0..Horizon
      BY <1>2
    <3>2. after[k] = NextDocument(a, after, k) /\ g[k] = NextDocument(a, g, k)
      BY <1>4, <1>5, <3>1
    <3> QED
      BY <2>2, <3>2 DEF NextDocument
  <2> QED
    BY <2>1, <2>2, SameCalls
<1> HIDE DEF after
<1>7. CASE free
  <2>1. \A k \in 1..Horizon : after[k].ok <=> k <= Horizon
    <3>1. ASSUME NEW k \in 1..Horizon PROVE after[k].ok /\ k <= Horizon
      <4>1. k \in 0..Horizon
        BY <1>2
      <4>2. after[k] = Granted(a)
        BY <1>6, <1>7, <4>1
      <4> QED
        BY <1>2, <4>2 DEF Granted
    <3> QED
      BY <3>1
  <2>2. Served(ConsumeDocument, a) = Least(Horizon, Horizon)
    BY <1>1, <1>2, <2>1, CallsServed
  <2>3. Quote(a).files = None
    BY <1>7 DEF Quote, limit
  <2> QED
    BY <1>2, <2>2, <2>3 DEF Least, Promised
<1>8. CASE ~free
  <2>1. \A k \in 1..Horizon : after[k].ok <=> k <= n
    <3>1. SUFFICES ASSUME NEW k \in 1..Horizon PROVE after[k].ok <=> k <= n
      OBVIOUS
    <3>2. k \in 0..Horizon
      BY <1>2
    <3>3. after[k] = IF k <= n THEN Granted(state(k)) ELSE Exhausted(state(n))
      BY <1>6, <1>8, <3>2
    <3>4. CASE k <= n
      BY <3>3, <3>4 DEF Granted
    <3>5. CASE ~(k <= n)
      BY <3>3, <3>5 DEF Exhausted
    <3> QED
      BY <3>4, <3>5
  <2>2. Served(ConsumeDocument, a) = Least(n, Horizon)
    BY <1>1, <1>2, <2>1, CallsServed
  <2>3. Quote(a).files = n
    BY <1>8 DEF Quote, n, limit
  <2>4. n # None
    BY <1>2, RulesAssumption
  <2> QED
    BY <1>2, <2>2, <2>3, <2>4 DEF Least, Promised
<1> QED
  BY <1>7, <1>8

\* An account's question.
LEMMA QuotesAreKept ==
  ASSUME question # None => question \in Questions
  PROVE  QuoteIsHonest
<1>1. SUFFICES ASSUME question # None, question.kind = "account"
               PROVE  LET a == question.account
                          q == Quote(a)
                      IN  /\ Served(ConsumeSignature, a) = Promised(q.signatures)
                          /\ Served(ConsumeDocument, a) = Promised(q.files)
  BY DEF QuoteIsHonest
<1>2. question.account \in BillingAccounts
  BY <1>1, RulesAssumption DEF QuestionOK
<1> QED
  BY <1>2, SignaturesServed, DocumentsServed

\* The administrator has a door: without a subscription the checkout, with one the
\* customer's portal.
LEMMA DoorIsOpen ==
  ASSUME question # None => question \in Questions
  PROVE  AnotherPlanHasADoor
<1>1. SUFFICES ASSUME question # None, question.kind = "account", NEW p \in DOMAIN PlanFileLimits,
                      NEW a, a = question.account, ~a.lifetime, ~SamePlan(a, p)
               PROVE  CheckoutOpen(a, p) \/ PortalOpen(a, p)
  BY DEF AnotherPlanHasADoor
<1>2. a \in BillingAccounts
  BY <1>1, RulesAssumption DEF QuestionOK
<1>3. a.subscription => a.customer
  BY <1>2 DEF BillingAccounts
<1> QED
  BY <1>1, <1>3 DEF CheckoutOpen, PortalOpen, SubscriptionRequiresPortal

\* The price that is sold is in the table of prices, with its product.
LEMMA PriceIsKnown ==
  ASSUME question # None => question \in Questions
  PROVE  PurchasedPlanIsGranted
<1> DEFINE price == PriceForCurrency(BillingCurrency(question.country),
                                     question.product, question.interval)
           resource == [items |-> <<None, price>>, metadata |-> question.metadata]
<1>1. SUFFICES ASSUME question # None, question.kind = "purchase", price # None
               PROVE  ProductCode(resource) = question.product
  BY DEF PurchasedPlanIsGranted
<1>2. question.product \in DOMAIN PlanFileLimits /\ question.interval \in Intervals
  BY <1>1, RulesAssumption DEF QuestionOK
<1>3. BillingCurrency(question.country) \in Currencies
  BY DEF BillingCurrency, Currencies
<1>4. price \in ConfiguredPrices /\ price[1] = question.product
  BY <1>1, <1>2, <1>3 DEF PriceForCurrency, ConfiguredPrices
<1> HIDE DEF price
<1>5. SubscriptionPriceId(<<None, price>>) = price
  <2> DEFINE items == <<None, price>>
             priced == {i \in DOMAIN items : items[i] # None}
  <2>1. DOMAIN items = {1, 2} /\ items[1] = None /\ items[2] = price
    OBVIOUS
  <2>2. priced = {2}
    BY <1>1, <2>1
  <2>3. (CHOOSE i \in priced : \A j \in priced : i <= j) = 2
    BY <2>2
  <2> QED
    BY <2>1, <2>2, <2>3 DEF SubscriptionPriceId
<1>6. resource.items = <<None, price>>
  OBVIOUS
<1> QED
  BY <1>4, <1>5, <1>6 DEF ProductCode

\* What is announced: a new plan, or a new status that has a text.
LEMMA TextIsSent ==
  ASSUME NEW q, q.event # "created"
  PROVE  LET s == SubscriptionStatus(q.status)
             newPlan == q.event = "updated" /\ q.previousProduct \notin {None, q.product}
         IN  (BillingMessage(q) # None) = (newPlan \/ (s # q.previous /\ s # "not_configured"))
<1> DEFINE s == SubscriptionStatus(q.status)
           newPlan == q.event = "updated" /\ q.previousProduct \notin {None, q.product}
<1>1. /\ "plan_changed" # None /\ "active" # None /\ "failed" # None
      /\ "cancelled" # None /\ "paused" # None
  BY RulesAssumption
<1>2. s \in {"active", "past_due", "unpaid", "cancelled", "paused", "not_configured"}
  BY DEF SubscriptionStatus
<1> HIDE DEF s
<1>3. StatusNotice(s) # None <=> s # "not_configured"
  BY <1>1, <1>2 DEF StatusNotice
<1>4. BillingMessage(q) = IF newPlan THEN "plan_changed"
                          ELSE IF s = q.previous THEN None ELSE StatusNotice(s)
  BY DEF BillingMessage, s
<1>5. (BillingMessage(q) # None) <=> (newPlan \/ (s # q.previous /\ s # "not_configured"))
  BY <1>1, <1>3, <1>4
<1> QED
  BY <1>5 DEF s

\* The billing page keeps its word, for every account, plan table and number of calls:
\* what it quotes is granted, an administrator who wants another plan finds a door
\* open, the plan that is bought is the plan that is granted, and changes are
\* announced (_account, create_checkout, create_portal, _product_code, _billing_message).
THEOREM BillingPageKeepsItsWord == RulesSpec => []BillingPageIsHonest
<1>1. ASSUME question = None \/ question \in Questions
      PROVE  BillingPageIsHonest
  <2>1. ChangesAreAnnounced
    BY TextIsSent DEF ChangesAreAnnounced
  <2> QED
    BY <1>1, <2>1, QuotesAreKept, DoorIsOpen, PriceIsKnown DEF BillingPageIsHonest
<1> QED
  BY <1>1, CasesAreAsked, PTL
=============================================================================
