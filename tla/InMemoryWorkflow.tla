-------------------------- MODULE InMemoryWorkflow ---------------------------
(***************************************************************************)
(* signature_request/workflow_service.py: the workflow of the development  *)
(* backend, which the tests use in the place of the database service.  It  *)
(* keeps everything in dictionaries under one lock, so a method is a step; *)
(* only create_request looks at the document before it takes the lock.     *)
(* It must keep the same promises: it implements RequestLifecycle too.     *)
(***************************************************************************)
EXTENDS Naturals, FiniteSets

CONSTANTS
    Papers,             \* document ids
    Cases,              \* request ids
    People,             \* users who may be signers
    MaxPaperVersion,    \* bound on the versions of a document
    Nobody              \* no request being created

ASSUME PapersAssumption == MaxPaperVersion \in Nat

VARIABLES
    papers,         \* document -> its current version; 0 before, Deleted after
    cases,          \* request -> its document, frozen version and status
    answers,        \* request -> user -> the signer's status
    revoked,        \* pairs whose link was revoked
    tokens,         \* requests that have a signing link
    expired,        \* requests past their expires_at
    creating        \* what a create_request outside the lock has read

workflowVars == <<papers, cases, answers, revoked, tokens, expired, creating>>

Deleted == MaxPaperVersion + 1
Present(d) == papers[d] \in 1..MaxPaperVersion
Signers(r) == {u \in People : answers[r][u] # "none"}
CasesOf(d, statuses) == {r \in Cases : cases[r].document = d /\ cases[r].status \in statuses}

\* create_document; its object is stored before the lock is taken.
CreatePaper(d) ==
    /\ papers[d] = 0
    /\ papers' = [papers EXCEPT ![d] = 1]
    /\ UNCHANGED <<cases, answers, revoked, tokens, expired, creating>>

AddVersion(d) ==
    /\ Present(d) /\ papers[d] < MaxPaperVersion
    /\ CasesOf(d, {"open", "completed"}) = {}
    /\ papers' = [papers EXCEPT ![d] = @ + 1]
    /\ UNCHANGED <<cases, answers, revoked, tokens, expired, creating>>

\* Without force a document with active requests stays; with it they are
\* cancelled.
DeletePaper(d, force) ==
    LET active == CasesOf(d, {"draft", "open"})
    IN  /\ Present(d)
        /\ force \/ active = {}
        /\ cases' = [r \in Cases |-> IF r \in active
                                     THEN [cases[r] EXCEPT !.status = "cancelled"]
                                     ELSE cases[r]]
        /\ papers' = [papers EXCEPT ![d] = Deleted]
        /\ UNCHANGED <<answers, revoked, tokens, expired, creating>>

\* create_request reads the document ...
ReadPaper(d) ==
    /\ creating = Nobody /\ Present(d)
    /\ creating' = [document |-> d, version |-> papers[d]]
    /\ UNCHANGED <<papers, cases, answers, revoked, tokens, expired>>

\* ... and stores the request under the lock.
StoreCase(r) ==
    /\ creating # Nobody /\ cases[r].status = "absent"
    /\ cases' = [cases EXCEPT ![r] = [document |-> creating.document,
                                      version |-> creating.version,
                                      status |-> "draft"]]
    /\ creating' = Nobody
    /\ UNCHANGED <<papers, answers, revoked, tokens, expired>>

AddSigner(r, u) ==
    /\ cases[r].status = "draft" /\ u \notin Signers(r)
    /\ answers' = [answers EXCEPT ![r][u] = "pending"]
    /\ UNCHANGED <<papers, cases, revoked, tokens, expired, creating>>

CreateSigningLink(r) ==
    /\ cases[r].status = "open" /\ r \notin tokens
    /\ tokens' = tokens \cup {r}
    /\ UNCHANGED <<papers, cases, answers, revoked, expired, creating>>

RevokeSignerLink(r, u) ==
    /\ answers[r][u] \notin {"none", "signed"} /\ <<r, u>> \notin revoked
    /\ revoked' = revoked \cup {<<r, u>>}
    /\ UNCHANGED <<papers, cases, answers, tokens, expired, creating>>

\* Mutant: the document is not compared with the frozen version.
DocumentExists(r) == Present(cases[r].document)

\* The document is there and is still the one the request was created for.
DocumentUnchanged(r) == papers[cases[r].document] = cases[r].version

OpenCase(r) ==
    /\ cases[r].status = "draft" /\ Signers(r) # {}
    /\ DocumentUnchanged(r)
    /\ cases' = [cases EXCEPT ![r].status = "open"]
    /\ UNCHANGED <<papers, answers, revoked, tokens, expired, creating>>

CancelCase(r) ==
    /\ cases[r].status \in {"draft", "open"}
    /\ cases' = [cases EXCEPT ![r].status = "cancelled"]
    /\ UNCHANGED <<papers, answers, revoked, tokens, expired, creating>>

-----------------------------------------------------------------------------
(* The signer's side                                                       *)

Admitted(r, u) == r \in tokens /\ u \in Signers(r) /\ <<r, u>> \notin revoked
Resolved(r, u) == Admitted(r, u) /\ r \notin expired /\ cases[r].status = "open"

\* _resolve_request of an expired request marks the signer and refuses.
FindExpired(r, u) ==
    /\ Admitted(r, u) /\ r \in expired
    /\ answers[r][u] \notin {"signed", "declined", "expired"}
    /\ answers' = [answers EXCEPT ![r][u] = "expired"]
    /\ UNCHANGED <<papers, cases, revoked, tokens, expired, creating>>

ViewCase(r, u) ==
    /\ Resolved(r, u) /\ answers[r][u] = "pending"
    /\ answers' = [answers EXCEPT ![r][u] = "viewed"]
    /\ UNCHANGED <<papers, cases, revoked, tokens, expired, creating>>

\* Mutant: a request is complete when nobody is left to answer.
CompletesWithoutPending(r, u) ==
    \A v \in Signers(r) \ {u} : answers[r][v] \in {"signed", "declined"}

Completes(r, u) == \A v \in Signers(r) \ {u} : answers[r][v] = "signed"

SignCase(r, u) ==
    /\ Resolved(r, u) /\ answers[r][u] # "signed"
    /\ Present(cases[r].document)
    /\ answers' = [answers EXCEPT ![r][u] = "signed"]
    /\ cases' = IF Completes(r, u) THEN [cases EXCEPT ![r].status = "completed"]
                ELSE cases
    /\ UNCHANGED <<papers, revoked, tokens, expired, creating>>

DeclineCase(r, u) ==
    /\ Resolved(r, u) /\ answers[r][u] \notin {"signed", "declined"}
    /\ answers' = [answers EXCEPT ![r][u] = "declined"]
    /\ UNCHANGED <<papers, cases, revoked, tokens, expired, creating>>

\* The request's expires_at passes.
PassExpiry(r) ==
    /\ cases[r].status # "absent" /\ r \notin expired
    /\ expired' = expired \cup {r}
    /\ UNCHANGED <<papers, cases, answers, revoked, tokens, creating>>

-----------------------------------------------------------------------------
WorkflowInit ==
    /\ papers = [d \in Papers |-> 0]
    /\ cases = [r \in Cases |-> [document |-> Nobody, version |-> 0, status |-> "absent"]]
    /\ answers = [r \in Cases |-> [u \in People |-> "none"]]
    /\ revoked = {} /\ tokens = {} /\ expired = {}
    /\ creating = Nobody

WorkflowNext ==
    \/ \E d \in Papers : \/ CreatePaper(d) \/ AddVersion(d) \/ ReadPaper(d)
                         \/ \E force \in BOOLEAN : DeletePaper(d, force)
    \/ \E r \in Cases : \/ StoreCase(r) \/ CreateSigningLink(r) \/ OpenCase(r)
                        \/ CancelCase(r) \/ PassExpiry(r)
    \/ \E r \in Cases, u \in People :
         \/ AddSigner(r, u) \/ RevokeSignerLink(r, u) \/ FindExpired(r, u)
         \/ ViewCase(r, u) \/ SignCase(r, u) \/ DeclineCase(r, u)

WorkflowSpec == WorkflowInit /\ [][WorkflowNext]_workflowVars

-----------------------------------------------------------------------------
\* What is being signed is what the request froze: the document of an open
\* request is there at the request's version, although create_request read it
\* before another call replaced or deleted it (workflow_service.py:152 and
\* :224, add_version's refusal at :103, delete_document's at :126).
OpenCaseMatchesPaper ==
    \A r \in Cases : cases[r].status = "open" =>
        papers[cases[r].document] = cases[r].version

Lifecycle == INSTANCE RequestLifecycle WITH
    Requests <- Cases, Users <- People,
    status <- [r \in Cases |-> cases[r].status],
    expected <- [r \in Cases |-> Signers(r)],
    signed <- [r \in Cases |-> {u \in People : answers[r][u] = "signed"}]

\* The backend the tests run on keeps the promises of the database service:
\* signers only while a draft, no signature twice or on a request that is not
\* open, completion with the last signature and never without one, and nothing
\* after completion or cancellation (workflow_service.py:56).
DoubleKeepsLifecycle == Lifecycle!Spec
=============================================================================
