----------------------------- MODULE ReadAccess ------------------------------
(***************************************************************************)
(* Who may read a document, a signature request and its signed PDF.  The   *)
(* code answers the question in several places: the lists are SQL queries, *)
(* the single reads call require_role and the access checks, and the       *)
(* signing links resolve a token.  A reader is one person's relation to    *)
(* one request, its document and the tenant they belong to; the properties *)
(* compare the answers.                                                    *)
(***************************************************************************)
EXTENDS Naturals

CONSTANTS Readers,       \* the cases asked about
          NoReader
VARIABLE reader

\* The fields of a reader: his membership of the tenant and whether its team is
\* over the plan's limit; whether he created the document, and the request; how
\* he is a signer of the request ("account", "email", "no"), and of another
\* request of the document; the state of the document, the request and his part
\* in it; whether he has a platform administrator's permissions; whether the
\* request has signers at all, and signatures, and whether the stored bytes match
\* their hash.
ReaderFields ==
    [member : {"active", "suspended", "none"}, role : {"admin", "member", "auditor"},
     over : BOOLEAN, author : BOOLEAN, sender : BOOLEAN,
     signer : {"account", "email", "no"}, other : BOOLEAN, deleted : BOOLEAN,
     status : {"draft", "open", "completed", "cancelled"}, expired : BOOLEAN,
     answer : {"pending", "viewed", "signed", "declined"}, revoked : BOOLEAN,
     administrator : BOOLEAN, signers : BOOLEAN, stamped : BOOLEAN, intact : BOOLEAN]

\* Only an invited person answers, a signed link is not revoked, a request with an
\* answer has been opened, and it is completed when everybody signed.
Possible(r) ==
    /\ r.signer = "no" => r.answer = "pending" /\ ~r.revoked
    /\ r.signer # "no" => r.signers
    /\ r.answer = "signed" => ~r.revoked /\ r.stamped
    /\ r.answer # "pending" => r.status # "draft"
    /\ r.stamped => r.signers /\ r.status # "draft"
    /\ r.status = "completed" => r.stamped /\ (r.signer # "no" => r.answer = "signed")

ASSUME ReadersAssumption == \A r \in Readers : r \in ReaderFields /\ Possible(r)

-----------------------------------------------------------------------------
(* The tenant's desk *)

\* Mutant: a team over its limit may read.
RequireRoleOverLimit(r, roles) == r.member = "active" /\ r.role \in roles

\* require_role.
RequireRole(r, roles) == r.member = "active" /\ r.role \in roles /\ ~r.over

AnyRole == {"admin", "member", "auditor"}
Invited(r) == r.signer # "no"

\* _require_document_access, for a document and for one of its requests.
RequireDocumentAccess(r) ==
    RequireRole(r, AnyRole) /\ (r.role = "admin" \/ r.author \/ Invited(r) \/ r.other)
RequireRequestAccess(r) ==
    RequireRole(r, AnyRole) /\ (r.role = "admin" \/ r.author \/ Invited(r))

ListDocuments(r) ==
    /\ ~r.deleted /\ r.member = "active" /\ ~r.over
    /\ r.role = "admin" \/ r.author \/ Invited(r) \/ r.other
GetDocument(r) == ~r.deleted /\ RequireDocumentAccess(r)
GetContent(r) == GetDocument(r) /\ r.intact

ListRequests(r) ==
    /\ ~r.deleted /\ r.member = "active" /\ ~r.over
    /\ r.role = "admin" \/ r.sender \/ Invited(r)
GetRequest(r) == RequireRequestAccess(r)

\* signed_document, once a link has admitted its reader.
SignedDocument(r) == r.stamped /\ r.intact

-----------------------------------------------------------------------------
(* The signing link *)

\* Mutant: a link closes with its request, for those who signed as well.
ResolveOpenOnly(r) ==
    /\ r.signer = "account" /\ ~r.revoked
    /\ ~r.expired /\ r.status = "open"

\* _resolve_request with allow_completed.
ResolveRequest(r) ==
    /\ r.signer = "account" /\ ~r.revoked
    /\ (~r.expired /\ r.status = "open") \/ r.answer = "signed"

AdministrativeView(r) == r.administrator /\ r.signer # "account"

\* signing_context reads the document too, and an administrator's view needs a
\* signer to show.
SigningContext(r) ==
    /\ IF AdministrativeView(r) THEN RequireRequestAccess(r) /\ r.signers ELSE ResolveRequest(r)
    /\ ~r.deleted

\* An administrator who is a signer is not resolved for the bytes.
AdmitToBytes(r) ==
    IF r.administrator THEN r.signer = "account" \/ RequireRequestAccess(r)
                       ELSE ResolveRequest(r)
SigningDocument(r) == AdmitToBytes(r) /\ r.intact
SigningSignedDocument(r) == AdmitToBytes(r) /\ SignedDocument(r)

-----------------------------------------------------------------------------
NobodyReads == reader = NoReader
Read == reader = NoReader /\ reader' \in Readers
ReadSpec == NobodyReads /\ [][Read]_reader

\* The list asks who sent the request, the access check who made the document.
AskedDifferently(r) == r.role # "admin" /\ ~Invited(r) /\ r.sender # r.author

\* The document list shows what opens, and only that.  The request list shows the
\* requests of documents not deleted that open, and only those, to everybody but a
\* member who either sent the request or made its document, and is not a signer.
ListsShowWhatOpens == reader # NoReader =>
    /\ ListDocuments(reader) <=> GetDocument(reader)
    /\ reader.intact => (ListDocuments(reader) <=> GetContent(reader))
    /\ ~AskedDifferently(reader) =>
          (ListRequests(reader) <=> GetRequest(reader) /\ ~reader.deleted)

\* Whoever signed keeps the page and the signed PDF, whatever became of the
\* request, and the link's doors agree for everybody but an administrator who is a
\* signer himself: his bytes are served when his page is not.
LinkDoorsAgree == reader # NoReader =>
    /\ (reader.signer = "account" /\ reader.answer = "signed" /\ reader.intact) =>
          /\ SigningSignedDocument(reader)
          /\ ~reader.deleted => SigningContext(reader)
    /\ (~(reader.administrator /\ reader.signer = "account") /\ reader.intact
        /\ ~reader.deleted /\ reader.signers) =>
          /\ SigningContext(reader) <=> SigningDocument(reader)
          /\ reader.stamped => (SigningContext(reader) <=> SigningSignedDocument(reader))

\* The doors of the tenant's desk agree with each other on who may read a document
\* or a request, and so do the doors behind a signing link, outside the two cases
\* above; a desk door and a link door may differ (list_documents, get_document,
\* signing_context and their siblings).
DoorsAgree == ListsShowWhatOpens /\ LinkDoorsAgree
=============================================================================
