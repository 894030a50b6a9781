--------------------------- MODULE SessionRegistry ---------------------------
(***************************************************************************)
(* What the session service promises to a browser: a session is opened     *)
(* once, its token pair is replaced by a pair never seen before, only the  *)
(* holder of the current pair replaces it, and a session that ended never  *)
(* comes back.  AuthSession.tla implements it over Redis.                  *)
(***************************************************************************)
EXTENDS Naturals

CONSTANT Sessions          \* session identifiers, token_urlsafe(18)

VARIABLES status,          \* session -> "none", "live" or "ended"
          current,         \* session -> its token pair, 0 unless live
          minted           \* token pairs handed to sessions so far

registryVars == <<status, current, minted>>

RegistryInit ==
    /\ status = [s \in Sessions |-> "none"]
    /\ current = [s \in Sessions |-> 0]
    /\ minted = 0

\* A login stores a session that did not exist, with a fresh pair.
Open(s) ==
    /\ status[s] = "none"
    /\ minted' = minted + 1
    /\ status' = [status EXCEPT ![s] = "live"]
    /\ current' = [current EXCEPT ![s] = minted']

\* A refresh replaces the pair of a live session.
Replace(s) ==
    /\ status[s] = "live"
    /\ minted' = minted + 1
    /\ current' = [current EXCEPT ![s] = minted']
    /\ UNCHANGED status

\* A logout, a replayed token, a changed password or the TTL ends it.
End(s) ==
    /\ status[s] = "live"
    /\ status' = [status EXCEPT ![s] = "ended"]
    /\ current' = [current EXCEPT ![s] = 0]
    /\ UNCHANGED minted

RegistryNext == \E s \in Sessions : Open(s) \/ Replace(s) \/ End(s)

RegistrySpec == RegistryInit /\ [][RegistryNext]_registryVars
=============================================================================
