----------------------------- MODULE AuthSession -----------------------------
(***************************************************************************)
(* Sessions and password reset of one account of auth_api.  The account    *)
(* row and its reset tokens live in PostgreSQL, sessions and token pairs   *)
(* in Redis, and every worker process runs one request at a time: an       *)
(* action is one Redis command (or script) or one database transaction of  *)
(* a request, and requests interleave between them.  A token pair is the   *)
(* access and the refresh token minted together; "known" holds the pairs a *)
(* response has carried to the client.  MfaChallenge.tla models what       *)
(* stands between the password and a session when the account has MFA.     *)
(***************************************************************************)
EXTENDS Naturals, Sequences, SequencesExt, FiniteSets

CONSTANTS Workers,         \* gunicorn worker processes of auth_api
          Sessions,        \* session identifiers
          ResetTokens,     \* password reset tokens
          MaxPairs,        \* bound: token pairs minted
          MaxVersion,      \* bound: version up to which reset_mfa is run
          NoSession

ASSUME NoSessionAssumption == NoSession \notin Sessions
ASSUME BoundsAssumption == {MaxPairs, MaxVersion} \subseteq Nat

VARIABLES version,         \* token_version of the users row
          reset,           \* token -> "none", "live", "dead"
          session,         \* session:<id> -> [pair, version], pair 0: no key
          owner,           \* sequence: pair -> the session it was minted for
          access, refresh, \* pairs whose access: and refresh: keys exist
          used,            \* pairs whose used-refresh: key exists
          index,           \* user:<id>:sessions
          tx,              \* worker -> the request it is running
          known            \* history: pairs a response carried

redis == <<session, owner, access, refresh, used, index>>
vars == <<version, reset, session, owner, access, refresh, used, index, tx, known>>

\* A request in progress: the session and pair, or the token, it is about, the
\* version it read, the sessions logout_all read and the rows it has left.
Idle == [op |-> "idle", s |-> NoSession, n |-> 0, v |-> 0, k |-> 0,
         seen |-> {}, todo |-> {}]

TypeOK ==
    /\ version \in Nat
    /\ reset \in [ResetTokens -> {"none", "live", "dead"}]
    /\ session \in [Sessions -> [pair : 0..MaxPairs, version : Nat]]
    /\ owner \in Seq(Sessions) /\ Len(owner) <= MaxPairs
    /\ access \cup refresh \cup used \cup known \subseteq 1..Len(owner)
    /\ index \subseteq Sessions
    /\ DOMAIN tx = Workers
    /\ \A w \in Workers :
          /\ tx[w].s \in Sessions \cup {NoSession}
          /\ tx[w].seen \subseteq Sessions
          /\ tx[w].todo \subseteq Sessions \cup ResetTokens

-----------------------------------------------------------------------------
(* Reading the state *)

Minted == Len(owner)
Exists(s) == session[s].pair # 0

\* _state_for_token: the key names a session and the session names the key.
StateFor(keys, n) == n \in keys /\ session[owner[n]].pair = n

\* _user_is_active: the row still has the version the session was given.
VersionMatches(s) == session[s].version = version

\* current_session behind require_authenticated_session.
CurrentSession(n) == StateFor(access, n) /\ VersionMatches(owner[n])

\* Mutant: the token is read without FOR UPDATE.
TokenNeverLocked(t) == FALSE

\* A reset token's row is locked by the request that consumes it.
TokenLocked(t) == \E w \in Workers : tx[w].op = "reset" /\ tx[w].k = t

Begin(w, call) == tx[w] = Idle /\ tx' = [tx EXCEPT ![w] = call]
Goto(w, call) == tx' = [tx EXCEPT ![w] = call]
Return(w) == tx' = [tx EXCEPT ![w] = Idle]

-----------------------------------------------------------------------------
(* Login and session storage *)

\* A fresh identifier: no key and no request uses it yet.
FreshSession(s) ==
    /\ s \notin ToSet(owner)
    /\ \A w \in Workers : tx[w].s # s

\* _create_session, after the password of an account without MFA or after the
\* second factor: the session will carry the version the request read.
Login(w) ==
    /\ \E s \in Sessions :
          /\ FreshSession(s)
          /\ Begin(w, [Idle EXCEPT !.op = "store", !.s = s, !.v = version])
    /\ UNCHANGED <<version, reset, redis, known>>

\* The session, its access key and its refresh key are set.  The three SETs are
\* one step: until the session is listed and the response is sent no request
\* can name any of the keys, and a crash between two of them leaves, like one
\* behind the last, only keys that nobody knows.
StoreSession(w) ==
    LET s == tx[w].s IN
    /\ tx[w].op = "store"
    /\ Minted < MaxPairs
    /\ owner' = Append(owner, s)
    /\ session' = [session EXCEPT ![s] = [pair |-> Minted + 1, version |-> tx[w].v]]
    /\ access' = access \cup {Minted + 1}
    /\ refresh' = refresh \cup {Minted + 1}
    /\ Goto(w, [tx[w] EXCEPT !.op = "list", !.n = Minted + 1])
    /\ UNCHANGED <<version, reset, known, used, index>>

\* SADD, and the response carries the pair.
ListSession(w) ==
    /\ tx[w].op = "list"
    /\ index' = index \cup {tx[w].s}
    /\ known' = known \cup {tx[w].n}
    /\ Return(w)
    /\ UNCHANGED <<version, reset, session, owner, access, refresh, used>>

-----------------------------------------------------------------------------
(* Refresh and revocation *)

\* What refresh reads decides what it will do: rotate the pair, revoke a
\* session whose account moved on, or revoke one whose old token came back.
Refresh(w, n) ==
    LET s == owner[n]
        Next_(op, pair) == Begin(w, [Idle EXCEPT !.op = op, !.s = s, !.n = pair])
    IN /\ n \in known
       /\ \/ StateFor(refresh, n) /\ VersionMatches(s) /\ Next_("rotate", n)
          \/ StateFor(refresh, n) /\ ~VersionMatches(s) /\ Next_("revoke", n)
          \/ /\ ~StateFor(refresh, n) /\ n \in used /\ Exists(s)
             /\ Next_("revoke", session[s].pair)
       /\ UNCHANGED <<version, reset, redis, known>>

\* Mutants: the script trusts what refresh read, or sets the keys of the new pair
\* without the session they belong to.
RotateUnchecked(w) ==
    LET s == tx[w].s
        n == tx[w].n
        m == Minted + 1
    IN /\ m <= MaxPairs
       /\ owner' = Append(owner, s)
       /\ session' = [session EXCEPT ![s].pair = m]
       /\ access' = (access \ {n}) \cup {m}
       /\ refresh' = (refresh \ {n}) \cup {m}
       /\ used' = used \cup {n}
       /\ index' = index \cup {s}
       /\ known' = known \cup {m}

RotateWithoutOwner(w) ==
    LET m == Minted + 1 IN
    /\ m <= MaxPairs
    /\ access' = (access \ {tx[w].n}) \cup {m}
    /\ refresh' = (refresh \ {tx[w].n}) \cup {m}
    /\ used' = used \cup {tx[w].n}
    /\ known' = known \cup {m}
    /\ UNCHANGED <<session, owner, index>>

\* The rotation script, atomic in Redis: it checks again that the key and
\* the session are there and name each other.
RotateScript(w) ==
    LET s == tx[w].s
        n == tx[w].n
        m == Minted + 1
    IN IF n \in refresh /\ Exists(s) /\ session[s].pair = n
         THEN /\ m <= MaxPairs
              /\ owner' = Append(owner, s)
              /\ session' = [session EXCEPT ![s].pair = m]
              /\ access' = (access \ {n}) \cup {m}
              /\ refresh' = (refresh \ {n}) \cup {m}
              /\ used' = used \cup {n}
              /\ index' = index \cup {s}
              /\ known' = known \cup {m}
         ELSE UNCHANGED <<redis, known>>

Rotate(w) ==
    /\ tx[w].op = "rotate"
    /\ RotateScript(w)
    /\ Return(w)
    /\ UNCHANGED <<version, reset>>

\* Mutant: the session key is deleted only if it still names the pair.
RevokeIfCurrent(s, n) ==
    /\ access' = access \ {n}
    /\ refresh' = refresh \ {n}
    /\ session' = IF session[s].pair = n
                    THEN [session EXCEPT ![s] = [pair |-> 0, version |-> 0]] ELSE session
    /\ index' = index \ {s}
    /\ UNCHANGED <<owner, used>>

\* _revoke_state deletes the keys the state it read names, and the session.
RevokeState(s, n) ==
    /\ access' = access \ {n}
    /\ refresh' = refresh \ {n}
    /\ session' = [session EXCEPT ![s] = [pair |-> 0, version |-> 0]]
    /\ index' = index \ {s}
    /\ UNCHANGED <<owner, used>>

Revoke(w) ==
    /\ tx[w].op \in {"revoke", "revokeNext"}
    /\ RevokeState(tx[w].s, tx[w].n)
    /\ IF tx[w].op = "revoke" THEN Return(w)
         ELSE Goto(w, [tx[w] EXCEPT !.op = "logoutAll", !.s = NoSession, !.n = 0])
    /\ UNCHANGED <<version, reset, known>>

Logout(w, n) ==
    /\ n \in known /\ CurrentSession(n)
    /\ Begin(w, [Idle EXCEPT !.op = "revoke", !.s = owner[n], !.n = n])
    /\ UNCHANGED <<version, reset, redis, known>>

\* logout_all reads the index, then loads and revokes the sessions in it.
LogoutAll(w, n) ==
    /\ n \in known /\ CurrentSession(n)
    /\ Begin(w, [Idle EXCEPT !.op = "logoutAll", !.seen = index, !.todo = index])
    /\ UNCHANGED <<version, reset, redis, known>>

LoadNext(w) ==
    /\ tx[w].op = "logoutAll"
    /\ \E s \in tx[w].todo :
          Goto(w, IF Exists(s)
                    THEN [tx[w] EXCEPT !.op = "revokeNext", !.s = s,
                                       !.n = session[s].pair, !.todo = @ \ {s}]
                    ELSE [tx[w] EXCEPT !.todo = @ \ {s}])
    /\ UNCHANGED <<version, reset, redis, known>>

FinishLogoutAll(w) ==
    /\ tx[w].op = "logoutAll" /\ tx[w].todo = {}
    /\ index' = {}
    /\ Return(w)
    /\ UNCHANGED <<version, reset, session, owner, access, refresh, used, known>>

-----------------------------------------------------------------------------
(* Password reset *)

\* _issue_token supersedes the live tokens its UPDATE saw; the new token is
\* visible when the transaction commits, so two requests may both leave one.
RequestRecovery(w) ==
    /\ \E t \in ResetTokens :
          /\ reset[t] = "none"
          /\ \A v \in Workers : ~(tx[v].op = "issue" /\ tx[v].k = t)
          /\ Begin(w, [Idle EXCEPT !.op = "issue", !.k = t,
                                   !.todo = {u \in ResetTokens : reset[u] = "live"}])
    /\ UNCHANGED <<version, reset, redis, known>>

IssueToken(w) ==
    /\ tx[w].op = "issue"
    /\ \A t \in tx[w].todo : ~TokenLocked(t)
    /\ reset' = [t \in ResetTokens |-> IF t = tx[w].k THEN "live"
                                       ELSE IF t \in tx[w].todo THEN "dead"
                                       ELSE reset[t]]
    /\ Return(w)
    /\ UNCHANGED <<version, redis, known>>

\* reset_password locks the token and reads the account without a lock.
ResetPassword(w, t) ==
    /\ reset[t] = "live" /\ ~TokenLocked(t)
    /\ Begin(w, [Idle EXCEPT !.op = "reset", !.k = t, !.v = version])
    /\ UNCHANGED <<version, reset, redis, known>>

CommitReset(w) ==
    /\ tx[w].op = "reset"
    /\ version' = tx[w].v + 1
    /\ reset' = [reset EXCEPT ![tx[w].k] = "dead"]
    /\ Return(w)
    /\ UNCHANGED <<redis, known>>

\* The operator's reset_mfa ends the sessions too, under the row's lock.
ResetMfa ==
    /\ version < MaxVersion
    /\ version' = version + 1
    /\ UNCHANGED <<reset, redis, tx, known>>

-----------------------------------------------------------------------------
(* Time and crashes *)

\* Keys reach their TTL.  A session and its refresh key are written together
\* with one TTL, and the index outlives them.  The other keys only admit
\* requests: a request that finds one expired ends, like one never sent.
Expire ==
    /\ \E s \in Sessions :
          /\ Exists(s)
          /\ session' = [session EXCEPT ![s] = [pair |-> 0, version |-> 0]]
          /\ refresh' = refresh \ {session[s].pair}
    /\ UNCHANGED <<version, reset, owner, access, used, index, tx, known>>

\* A worker dies: Redis keeps what was written, the database rolls back.
Crash(w) ==
    /\ tx[w] # Idle
    /\ Return(w)
    /\ UNCHANGED <<version, reset, redis, known>>

Init ==
    /\ version = 1
    /\ reset = [t \in ResetTokens |-> "none"]
    /\ session = [s \in Sessions |-> [pair |-> 0, version |-> 0]]
    /\ owner = <<>> /\ access = {} /\ refresh = {} /\ used = {} /\ index = {}
    /\ tx = [w \in Workers |-> Idle]
    /\ known = {}

Next ==
    \/ \E w \in Workers :
          \/ Login(w) \/ StoreSession(w) \/ ListSession(w)
          \/ Rotate(w) \/ Revoke(w) \/ LoadNext(w) \/ FinishLogoutAll(w)
          \/ RequestRecovery(w) \/ IssueToken(w) \/ CommitReset(w) \/ Crash(w)
          \/ \E n \in known : Refresh(w, n) \/ Logout(w, n) \/ LogoutAll(w, n)
          \/ \E t \in ResetTokens : ResetPassword(w, t)
    \/ ResetMfa \/ Expire

Spec == Init /\ [][Next]_vars

-----------------------------------------------------------------------------
(* Properties *)

\* Sessions over Redis behave like the registry: whatever refreshes, logouts,
\* expiries and crashes overlap, a session that ended is never live again, and
\* a pair is replaced once, by a fresh one.
Registry == INSTANCE SessionRegistry WITH
    status <- [s \in Sessions |-> IF Exists(s) THEN "live"
                                  ELSE IF s \in ToSet(owner) THEN "ended" ELSE "none"],
    current <- [s \in Sessions |-> session[s].pair],
    minted <- Minted
ImplementsRegistry == Registry!RegistrySpec

\* When logout_all is done, every session it found listed has ended, also one
\* that a refresh rotated after logout_all had loaded its old keys.
LogoutAllEndsSessions ==
    \A w \in Workers :
        tx[w].op = "logoutAll" => \A s \in tx[w].seen \ tx[w].todo : ~Exists(s)

\* The keys in Redis are well formed, every pair belongs to a session, and
\* logout_all ends what it found (session_service.py).
SessionsAreSound == TypeOK /\ LogoutAllEndsSessions

\* A request that is about to change the password still holds a live token that
\* no other request is using: a token works once, and never after a newer one.
ResetHoldsItsToken ==
    \A w \in Workers : tx[w].op = "reset" =>
        /\ reset[tx[w].k] = "live"
        /\ \A v \in Workers \ {w} : ~(tx[v].op = "reset" /\ tx[v].k = tx[w].k)
=============================================================================
