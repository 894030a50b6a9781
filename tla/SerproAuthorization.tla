------------------------ MODULE SerproAuthorization --------------------------
(***************************************************************************)
(* Certificate signing with Serpro ID.  The signer starts an               *)
(* authorization, which leaves an attempt in Redis under a one-use state,  *)
(* approves it at Serpro, and the browser comes back with a code.  The     *)
(* callback exchanges the code, checks whose certificate it is, and signs: *)
(* Serpro is called while the request's row is locked, and everything      *)
(* about the request may have changed since the authorization began.       *)
(*                                                                         *)
(* A Serpro ID request has exactly one signer (open_request) and a PDF     *)
(* that was frozen when it was created.  The endpoints are plain           *)
(* functions, served by a pool of threads, the callers.                    *)
(***************************************************************************)
EXTENDS Naturals, Sequences, FiniteSets

CONSTANTS
    Forms,              \* open requests in Serpro ID mode
    Signatories,        \* people with a Rubrica account
    SoleSigner,         \* form -> its signer
    Taxpayers,          \* the signatories with a CPF or CNPJ on record
    Callers,            \* threads that serve callbacks
    MaxAttempts,        \* bound: authorizations started
    MaxFormLinks,       \* bound: links made of a form
    Denied              \* the callback carries an error, or no code

ASSUME SignersAssumption ==
    /\ SoleSigner \in [Forms -> Signatories]
    /\ Taxpayers \subseteq Signatories /\ Denied \notin Signatories
ASSUME AttemptsAssumption == MaxAttempts \in Nat /\ MaxFormLinks \in Nat

VARIABLES form,         \* the request and its signer
          attempts,     \* the attempts that were stored, in order
          states,       \* those whose state is still in Redis
          callback,     \* caller -> what it serves
          asked,        \* attempt -> signatures Serpro made for it
          sealed        \* form -> certificate signatures stored

serproVars == <<form, attempts, states, callback, asked, sealed>>

NoCallback == [at |-> "idle"]

\* Mutant: signing reads the row and does not lock it.
FormNeverLocked(f) == FALSE

\* sign holds the request's row from its checks to its commit.
FormLocked(f) ==
    \E c \in Callers : /\ callback[c].at \in {"serpro", "commit"}
                       /\ attempts[callback[c].attempt].form = f

Goto(c, at) == callback' = [callback EXCEPT ![c].at = at]
Return(c) == callback' = [callback EXCEPT ![c] = NoCallback]

\* _resolve_request for the form's signer: a reader is also admitted once he signed.
LinkWorks(f, link) == form[f].link = link /\ ~form[f].revoked
StillOpen(f) == form[f].status = "open" /\ ~form[f].expired
ContextHolds(f, link) == LinkWorks(f, link) /\ (StillOpen(f) \/ form[f].signer = "signed")

MaySeal(f, link) ==
    LinkWorks(f, link) /\ StillOpen(f) /\ form[f].signer \in {"pending", "viewed"}

-----------------------------------------------------------------------------
(* The authorization *)

\* identity_summary: the account has a CPF or CNPJ on record.
BrazilianIdentity(u) == u \in Taxpayers

\* start_authorization: the attempt names the form, its signer and the link, and
\* is stored for ten minutes.
StartAuthorization(f, u, link) ==
    /\ Len(attempts) < MaxAttempts
    /\ BrazilianIdentity(u)
    /\ u = SoleSigner[f]
    /\ MaySeal(f, link)
    /\ attempts' = Append(attempts, [form |-> f, subject |-> u, link |-> link])
    /\ states' = states \cup {Len(attempts')}
    /\ asked' = Append(asked, 0)
    /\ UNCHANGED <<form, callback, sealed>>

StateExpires(s) ==
    /\ s \in states
    /\ states' = states \ {s}
    /\ UNCHANGED <<form, attempts, callback, asked, sealed>>

\* Mutant: the state is read and left in Redis.
ReadState(s) == states

\* GETDEL of the state.
ConsumeState(s) == states \ {s}

\* The browser comes back with state s in u's session, after holder approved it at
\* Serpro.  The state is gone whatever the callback then decides.
Callback(c, s, u, holder) ==
    LET a == attempts[s] IN
    /\ callback[c] = NoCallback
    /\ s \in states
    /\ states' = ConsumeState(s)
    /\ IF a.subject = u /\ holder # Denied /\ ContextHolds(a.form, a.link)
         THEN callback' = [callback EXCEPT
                             ![c] = [at |-> "exchange", attempt |-> s, holder |-> holder]]
         ELSE UNCHANGED callback
    /\ UNCHANGED <<form, attempts, asked, sealed>>

\* Mutant: any certificate of a taxpayer will do.
AnyTaxpayerMatches(u, holder) == holder \in Taxpayers

\* internal_identity_match: one of the user's records is the certificate's.
IdentityMatch(u, holder) == u \in Taxpayers /\ u = holder

\* identity_matches_certificate: no answer from auth_api is a mismatch, which is
\* what CallFails stands for.
IdentityMatchesCertificate(u, holder) == IdentityMatch(u, holder)

\* The code is exchanged, the certificate fetched and compared.
Exchange(c) ==
    /\ callback[c].at = "exchange"
    /\ IF IdentityMatchesCertificate(attempts[callback[c].attempt].subject, callback[c].holder)
         THEN Goto(c, "sign") ELSE Return(c)
    /\ UNCHANGED <<form, attempts, states, asked, sealed>>

\* sign takes the request's row and checks again.
LockForm(c) ==
    LET a == attempts[callback[c].attempt] IN
    /\ callback[c].at = "sign"
    /\ ~FormLocked(a.form)
    /\ IF MaySeal(a.form, a.link) THEN Goto(c, "serpro") ELSE Return(c)
    /\ UNCHANGED <<form, attempts, states, asked, sealed>>

\* _sign_pdf_with_serpro: Serpro signs the digest and the result verifies.
SignPdfWithSerpro(c) ==
    /\ callback[c].at = "serpro"
    /\ asked' = [asked EXCEPT ![callback[c].attempt] = @ + 1]
    /\ Goto(c, "commit")
    /\ UNCHANGED <<form, attempts, states, sealed>>

CommitSeal(c) ==
    LET f == attempts[callback[c].attempt].form IN
    /\ callback[c].at = "commit"
    /\ form' = [form EXCEPT ![f].status = "completed", ![f].signer = "signed"]
    /\ sealed' = [sealed EXCEPT ![f] = @ \cup {callback[c]}]
    /\ Return(c)
    /\ UNCHANGED <<attempts, states, asked>>

\* Serpro, auth_api, storage or the database fails: the attempt is spent and the
\* request stays as it was.
CallFails(c) ==
    /\ callback[c] # NoCallback
    /\ Return(c)
    /\ UNCHANGED <<form, attempts, states, asked, sealed>>

-----------------------------------------------------------------------------
(* What the others do to the request meanwhile, each under its row's lock.  *)

ChangeForm(f, row) ==
    /\ ~FormLocked(f)
    /\ form' = [form EXCEPT ![f] = row]
    /\ UNCHANGED <<attempts, states, callback, asked, sealed>>

RegenerateLink(f) ==
    /\ form[f].status \in {"open", "completed"}
    /\ form[f].link < MaxFormLinks
    /\ ChangeForm(f, [form[f] EXCEPT !.link = @ + 1])

RevokeLink(f) ==
    /\ form[f].signer # "signed" /\ ~form[f].revoked
    /\ ChangeForm(f, [form[f] EXCEPT !.revoked = TRUE])

CancelForm(f) ==
    form[f].status = "open" /\ ChangeForm(f, [form[f] EXCEPT !.status = "cancelled"])

ViewForm(f) ==
    /\ LinkWorks(f, form[f].link) /\ StillOpen(f) /\ form[f].signer = "pending"
    /\ ChangeForm(f, [form[f] EXCEPT !.signer = "viewed"])

DeclineForm(f) ==
    /\ MaySeal(f, form[f].link)
    /\ ChangeForm(f, [form[f] EXCEPT !.signer = "declined"])

\* The clock takes no lock.
PassDeadline(f) ==
    /\ ~form[f].expired
    /\ form' = [form EXCEPT ![f].expired = TRUE]
    /\ UNCHANGED <<attempts, states, callback, asked, sealed>>

SerproInit ==
    /\ form = [f \in Forms |-> [status |-> "open", signer |-> "pending", link |-> 1,
                                revoked |-> FALSE, expired |-> FALSE]]
    /\ attempts = <<>>
    /\ states = {}
    /\ callback = [c \in Callers |-> NoCallback]
    /\ asked = <<>>
    /\ sealed = [f \in Forms |-> {}]

SerproNext ==
    \/ \E f \in Forms :
          \/ \E u \in Signatories, link \in 1..MaxFormLinks : StartAuthorization(f, u, link)
          \/ RegenerateLink(f) \/ RevokeLink(f) \/ CancelForm(f)
          \/ ViewForm(f) \/ DeclineForm(f) \/ PassDeadline(f)
    \/ \E s \in states : StateExpires(s)
    \/ \E c \in Callers :
          \/ \E s \in states, u \in Signatories, holder \in Signatories \cup {Denied} :
                Callback(c, s, u, holder)
          \/ Exchange(c) \/ LockForm(c) \/ SignPdfWithSerpro(c) \/ CommitSeal(c)
          \/ CallFails(c)

SerproSpec == SerproInit /\ [][SerproNext]_serproVars

-----------------------------------------------------------------------------
(* Properties *)

\* "One-use Serpro ID authorisation": Serpro signs at most once for what the signer
\* approved, although the callback may be repeated, run twice at a time, or fail
\* after Serpro has signed.
SerproSignsOnce == \A s \in DOMAIN asked : asked[s] <= 1

\* While Serpro signs, the request is the one the authorization was given for:
\* open, unanswered, under the link the signer came by, and nobody else is
\* signing it.
SerproSignsOpenRequest ==
    \A c \in Callers : callback[c].at \in {"serpro", "commit"} =>
        LET a == attempts[callback[c].attempt] IN
        /\ form[a.form].status = "open" /\ form[a.form].signer \in {"pending", "viewed"}
        /\ LinkWorks(a.form, a.link)
        /\ \A d \in Callers \ {c} : callback[d].at \in {"serpro", "commit"} =>
              attempts[callback[d].attempt].form # a.form

\* A stored certificate signature is its signer's own, whoever approved it at
\* Serpro and in whose session the callback ran, and it is the only one.
SealIsTheSigners ==
    \A f \in Forms : /\ Cardinality(sealed[f]) <= 1
                     /\ \A s \in sealed[f] : s.holder = SoleSigner[f]

\* A certificate signature is made once per authorization, for the request as the
\* signer saw it, and what is stored is his own (serproid_service.py, sign).
SealIsSound == SerproSignsOnce /\ SerproSignsOpenRequest /\ SealIsTheSigners
=============================================================================
