-------------------------- MODULE AuthSessionProofs --------------------------
(***************************************************************************)
(* Proofs about AuthSession, for every number of workers, sessions and     *)
(* reset tokens and every bound: the sessions in Redis implement the       *)
(* registry, logout_all ends what it found, a reset token works once.      *)
(***************************************************************************)
EXTENDS AuthSession, TLAPS

Ops == {"idle", "store", "list", "rotate", "revoke", "revokeNext", "logoutAll",
        "issue", "reset"}

\* The requests that name a session by its stored identifier.
SessionCalls == {"list", "rotate", "revoke", "revokeNext"}

Call == [op : Ops, s : Sessions \cup {NoSession}, n : Nat, v : Nat,
         k : ResetTokens \cup {0}, seen : SUBSET Sessions,
         todo : SUBSET (Sessions \cup ResetTokens)]

\* What a request in progress knows: the session it will store is its own
\* and was never stored, the session it names was stored, what logout_all read
\* was stored, and the tokens are tokens.
CallsAreWellFormed ==
    /\ tx \in [Workers -> Call]
    /\ \A w \in Workers :
          /\ tx[w].op = "store" => /\ tx[w].s \in Sessions \ ToSet(owner)
                                   /\ \A v \in Workers \ {w} : tx[v].s # tx[w].s
          /\ tx[w].op \in SessionCalls => tx[w].s \in ToSet(owner)
          /\ tx[w].op = "list" => tx[w].n \in 1..Len(owner)
          /\ tx[w].op \in {"logoutAll", "revokeNext"} =>
                tx[w].todo \cup tx[w].seen \subseteq ToSet(owner)
          /\ tx[w].op \in {"issue", "reset"} => tx[w].k \in ResetTokens
          /\ tx[w].op = "issue" => tx[w].todo \subseteq ResetTokens

\* A session key names a pair that was minted for this session, and only
\* sessions that were stored are listed.
KeysAreLinked ==
    /\ \A s \in Sessions : Exists(s) => /\ session[s].pair \in 1..Len(owner)
                                        /\ owner[session[s].pair] = s
    /\ index \subseteq ToSet(owner)

\* Of the sessions logout_all found, those it is done with have ended; while
\* it revokes one, all but that one.
LogoutAllProgress ==
    \A w \in Workers :
        /\ tx[w].op = "logoutAll" => \A s \in tx[w].seen \ tx[w].todo : ~Exists(s)
        /\ tx[w].op = "revokeNext" =>
              \A s \in tx[w].seen \ (tx[w].todo \cup {tx[w].s}) : ~Exists(s)

\* The inductive invariant.
IndInv ==
    /\ TypeOK
    /\ CallsAreWellFormed
    /\ KeysAreLinked
    /\ LogoutAllProgress
    /\ ResetHoldsItsToken

-----------------------------------------------------------------------------
(***************************************************************************)
(* Facts used by many actions                                              *)
(***************************************************************************)

\* A worker without a request has no request in progress.
LEMMA IdleIsCall == Idle \in Call
  BY DEF Idle, Call, Ops

\* Minting appends the pair's session and keeps the older pairs.
LEMMA MintedPair ==
  ASSUME owner \in Seq(Sessions), NEW s \in Sessions
  PROVE  /\ Append(owner, s) \in Seq(Sessions)
         /\ Len(Append(owner, s)) = Len(owner) + 1
         /\ Append(owner, s)[Len(owner) + 1] = s
         /\ \A n \in 1..Len(owner) : Append(owner, s)[n] = owner[n]
         /\ ToSet(Append(owner, s)) = ToSet(owner) \cup {s}
<1>1. /\ Append(owner, s) \in Seq(Sessions)
      /\ Len(Append(owner, s)) = Len(owner) + 1
      /\ Append(owner, s)[Len(owner) + 1] = s
      /\ \A n \in 1..Len(owner) : Append(owner, s)[n] = owner[n]
  OBVIOUS
<1>2. Len(owner) \in Nat /\ DOMAIN owner = 1..Len(owner)
  OBVIOUS
<1>3. DOMAIN Append(owner, s) = 1..(Len(owner) + 1)
  BY <1>1
<1>4. ToSet(Append(owner, s)) = ToSet(owner) \cup {s}
  <2>1. \A n \in 1..(Len(owner) + 1) : n \in 1..Len(owner) \/ n = Len(owner) + 1
    BY <1>2
  <2>2. \A n \in 1..Len(owner) : n \in 1..(Len(owner) + 1)
    BY <1>2
  <2>3. Len(owner) + 1 \in 1..(Len(owner) + 1)
    BY <1>2
  <2> QED
    BY <1>1, <1>2, <1>3, <2>1, <2>2, <2>3 DEF ToSet
<1> QED
  BY <1>1, <1>4

\* The pairs' sessions are sessions.
LEMMA OwnersAreSessions ==
  ASSUME owner \in Seq(Sessions)
  PROVE  /\ ToSet(owner) \subseteq Sessions
         /\ \A n \in 1..Len(owner) : owner[n] \in ToSet(owner)
  BY DEF ToSet

\* A session that exists was stored.
LEMMA ExistingWasStored ==
  ASSUME IndInv, NEW s \in Sessions, Exists(s)
  PROVE  s \in ToSet(owner)
  BY OwnersAreSessions DEF IndInv, TypeOK, KeysAreLinked

\* What a new request has to satisfy beside its type.
NewCall(w, c) ==
    /\ c.op = "store" => c.s \in Sessions \ ToSet(owner)
    /\ \A v \in Workers \ {w} : c.op = "store" \/ tx[v].op = "store" => tx[v].s # c.s
    /\ c.op \in SessionCalls => c.s \in ToSet(owner)
    /\ c.op = "list" => c.n \in 1..Len(owner)
    /\ c.op \in {"logoutAll", "revokeNext"} => c.todo \cup c.seen \subseteq ToSet(owner)
    /\ c.op \in {"issue", "reset"} => c.k \in ResetTokens
    /\ c.op = "issue" => c.todo \subseteq ResetTokens
    /\ c.op = "logoutAll" => \A s \in c.seen \ c.todo : ~Exists(s)
    /\ c.op = "revokeNext" => \A s \in c.seen \ (c.todo \cup {c.s}) : ~Exists(s)
    /\ c.op = "reset" => /\ reset[c.k] = "live"
                         /\ \A v \in Workers \ {w} : ~(tx[v].op = "reset" /\ tx[v].k = c.k)

\* A step that only moves one request along preserves the invariant when the
\* request is well formed.
LEMMA QuietStep ==
  ASSUME IndInv, NEW w \in Workers, NEW c \in Call, tx' = [tx EXCEPT ![w] = c],
         NewCall(w, c), UNCHANGED <<version, reset, redis, known>>
  PROVE  IndInv'
<1> USE DEF redis, IndInv
<1>1. /\ tx' \in [Workers -> Call] /\ tx'[w] = c
      /\ \A v \in Workers \ {w} : tx'[v] = tx[v]
  BY DEF CallsAreWellFormed
<1>2. TypeOK'
  BY <1>1 DEF TypeOK, Call
<1>3. CallsAreWellFormed'
  BY <1>1 DEF CallsAreWellFormed, NewCall
<1>4. KeysAreLinked'
  BY DEF KeysAreLinked, Exists
<1>5. LogoutAllProgress'
  BY <1>1 DEF LogoutAllProgress, NewCall, Exists
<1>6. ResetHoldsItsToken'
  BY <1>1 DEF ResetHoldsItsToken, NewCall
<1> QED
  BY <1>2, <1>3, <1>4, <1>5, <1>6

\* Ending a request is always well formed.
LEMMA NoCall ==
  ASSUME IndInv, NEW w \in Workers
  PROVE  NewCall(w, Idle)
  BY NoSessionAssumption DEF NewCall, Idle, SessionCalls, IndInv, CallsAreWellFormed

-----------------------------------------------------------------------------
(***************************************************************************)
(* Every action preserves the invariant: steps that write no key           *)
(***************************************************************************)

LEMMA LoginStep ==
  ASSUME IndInv, NEW w \in Workers, Login(w)
  PROVE  IndInv'
<1>1. PICK s \in Sessions :
        FreshSession(s) /\ Begin(w, [Idle EXCEPT !.op = "store", !.s = s, !.v = version])
  BY DEF Login
<1> DEFINE c == [Idle EXCEPT !.op = "store", !.s = s, !.v = version]
<1>2. c \in Call /\ c.op = "store" /\ c.s = s
  BY IdleIsCall DEF IndInv, TypeOK, Call, Ops
<1>3. NewCall(w, c)
  BY <1>1, <1>2 DEF FreshSession, NewCall, SessionCalls
<1> QED
  BY <1>1, <1>2, <1>3, QuietStep DEF Login, Begin

LEMMA RefreshStep ==
  ASSUME IndInv, NEW w \in Workers, NEW n \in known, Refresh(w, n)
  PROVE  IndInv'
<1> DEFINE C(op, m) == [Idle EXCEPT !.op = op, !.s = owner[n], !.n = m]
<1>1. n \in 1..Len(owner) /\ owner[n] \in ToSet(owner) /\ owner[n] \in Sessions
  BY OwnersAreSessions DEF IndInv, TypeOK
<1>2. session[owner[n]].pair \in Nat /\ n \in Nat
  BY <1>1, BoundsAssumption DEF IndInv, TypeOK
<1>3. PICK op \in {"rotate", "revoke"}, m \in Nat : tx' = [tx EXCEPT ![w] = C(op, m)]
  BY <1>2 DEF Refresh, Begin
<1>4. C(op, m) \in Call /\ C(op, m).op = op /\ C(op, m).s = owner[n]
  BY <1>1, IdleIsCall DEF Call, Ops
<1>5. NewCall(w, C(op, m))
  BY <1>1, <1>4 DEF NewCall, SessionCalls, IndInv, CallsAreWellFormed
<1> QED
  BY <1>3, <1>4, <1>5, QuietStep DEF Refresh

LEMMA LogoutStep ==
  ASSUME IndInv, NEW w \in Workers, NEW n \in known, Logout(w, n)
  PROVE  IndInv'
<1> DEFINE c == [Idle EXCEPT !.op = "revoke", !.s = owner[n], !.n = n]
<1>1. n \in 1..Len(owner) /\ n \in Nat /\ owner[n] \in ToSet(owner) /\ owner[n] \in Sessions
  BY OwnersAreSessions DEF IndInv, TypeOK
<1>2. c \in Call /\ c.op = "revoke" /\ c.s = owner[n]
  BY <1>1, IdleIsCall DEF Call, Ops
<1>3. NewCall(w, c)
  BY <1>1, <1>2 DEF NewCall, SessionCalls, IndInv, CallsAreWellFormed
<1> QED
  BY <1>2, <1>3, QuietStep DEF Logout, Begin

LEMMA LogoutAllStep ==
  ASSUME IndInv, NEW w \in Workers, NEW n \in known, LogoutAll(w, n)
  PROVE  IndInv'
<1> DEFINE c == [Idle EXCEPT !.op = "logoutAll", !.seen = index, !.todo = index]
<1>1. index \subseteq ToSet(owner) /\ index \subseteq Sessions
  BY DEF IndInv, TypeOK, KeysAreLinked
<1>2. c \in Call /\ c.op = "logoutAll" /\ c.s = NoSession /\ c.seen = index /\ c.todo = index
  BY <1>1, IdleIsCall DEF Call, Ops, Idle
<1>3. NewCall(w, c)
  BY <1>1, <1>2, NoSessionAssumption DEF NewCall, SessionCalls, IndInv, CallsAreWellFormed
<1> QED
  BY <1>2, <1>3, QuietStep DEF LogoutAll, Begin

\* A session whose key is gone needs no revocation: it has ended already.
LEMMA LoadNextStep ==
  ASSUME IndInv, NEW w \in Workers, LoadNext(w)
  PROVE  IndInv'
<1>1. PICK s \in tx[w].todo :
        Goto(w, IF Exists(s)
                  THEN [tx[w] EXCEPT !.op = "revokeNext", !.s = s,
                                     !.n = session[s].pair, !.todo = @ \ {s}]
                  ELSE [tx[w] EXCEPT !.todo = @ \ {s}])
  BY DEF LoadNext
<1>2. /\ tx[w] \in Call /\ tx[w].op = "logoutAll"
      /\ tx[w].todo \cup tx[w].seen \subseteq ToSet(owner)
      /\ s \in ToSet(owner) /\ s \in Sessions
      /\ \A v \in Workers \ {w} : tx[v].op = "store" => tx[v].s \notin ToSet(owner)
      /\ \A v \in Workers \ {w} : tx[v].op = "store" => tx[v].s # tx[w].s
  BY OwnersAreSessions DEF IndInv, TypeOK, CallsAreWellFormed, LoadNext
<1>3. \A t \in tx[w].seen \ tx[w].todo : ~Exists(t)
  BY <1>2 DEF IndInv, LogoutAllProgress
<1>4. CASE Exists(s)
  <2> DEFINE c == [tx[w] EXCEPT !.op = "revokeNext", !.s = s,
                                !.n = session[s].pair, !.todo = @ \ {s}]
  <2>1. session[s].pair \in Nat
    BY <1>2, BoundsAssumption DEF IndInv, TypeOK
  <2>2. /\ c \in Call /\ c.op = "revokeNext" /\ c.s = s
        /\ c.todo = tx[w].todo \ {s} /\ c.seen = tx[w].seen
    BY <1>2, <2>1 DEF Call, Ops
  <2>3. NewCall(w, c)
    BY <1>2, <1>3, <2>2 DEF NewCall, SessionCalls
  <2> QED
    BY <1>1, <1>4, <2>2, <2>3, QuietStep DEF LoadNext, Goto
<1>5. CASE ~Exists(s)
  <2> DEFINE c == [tx[w] EXCEPT !.todo = @ \ {s}]
  <2>1. /\ c \in Call /\ c.op = "logoutAll" /\ c.s = tx[w].s
        /\ c.todo = tx[w].todo \ {s} /\ c.seen = tx[w].seen
    BY <1>2 DEF Call, Ops
  <2>2. NewCall(w, c)
    BY <1>2, <1>3, <1>5, <2>1 DEF NewCall, SessionCalls
  <2> QED
    BY <1>1, <1>5, <2>1, <2>2, QuietStep DEF LoadNext, Goto
<1> QED
  BY <1>4, <1>5

LEMMA RequestRecoveryStep ==
  ASSUME IndInv, NEW w \in Workers, RequestRecovery(w)
  PROVE  IndInv'
<1>1. PICK t \in ResetTokens :
        Begin(w, [Idle EXCEPT !.op = "issue", !.k = t,
                              !.todo = {u \in ResetTokens : reset[u] = "live"}])
  BY DEF RequestRecovery
<1> DEFINE live == {u \in ResetTokens : reset[u] = "live"}
           c == [Idle EXCEPT !.op = "issue", !.k = t, !.todo = live]
<1>2. live \subseteq ResetTokens
  OBVIOUS
<1> HIDE DEF live
<1>3. c \in Call /\ c.op = "issue" /\ c.k = t /\ c.todo = live /\ c.s = NoSession
  BY <1>2, IdleIsCall DEF Call, Ops, Idle
<1>4. NewCall(w, c)
  BY <1>2, <1>3, NoSessionAssumption DEF NewCall, SessionCalls, IndInv, CallsAreWellFormed
<1> QED
  BY <1>1, <1>3, <1>4, QuietStep DEF RequestRecovery, Begin, live

\* The row's lock is what makes the token this request's alone.
LEMMA ResetPasswordStep ==
  ASSUME IndInv, NEW w \in Workers, NEW t \in ResetTokens, ResetPassword(w, t)
  PROVE  IndInv'
<1> DEFINE c == [Idle EXCEPT !.op = "reset", !.k = t, !.v = version]
<1>1. c \in Call /\ c.op = "reset" /\ c.k = t /\ c.s = NoSession
  BY IdleIsCall DEF Call, Ops, Idle, IndInv, TypeOK
<1>2. NewCall(w, c)
  BY <1>1, NoSessionAssumption
     DEF NewCall, SessionCalls, IndInv, CallsAreWellFormed, ResetPassword, TokenLocked
<1> QED
  BY <1>1, <1>2, QuietStep DEF ResetPassword, Begin

\* A crash loses the request and keeps what Redis and the database hold.
LEMMA CrashStep ==
  ASSUME IndInv, NEW w \in Workers, Crash(w)
  PROVE  IndInv'
  BY IdleIsCall, NoCall, QuietStep DEF Crash, Return

-----------------------------------------------------------------------------
(***************************************************************************)
(* Every action preserves the invariant: steps that write keys and rows    *)
(***************************************************************************)

\* The request of worker w moves to c, and every other request stays.
LEMMA CallsMove ==
  ASSUME IndInv, NEW w \in Workers, NEW c \in Call, tx' = [tx EXCEPT ![w] = c]
  PROVE  /\ tx' \in [Workers -> Call] /\ tx'[w] = c
         /\ \A v \in Workers \ {w} : tx'[v] = tx[v]
  BY DEF IndInv, CallsAreWellFormed

\* Only its own request knew the identifier, so no logout_all counted the new
\* session as ended.
LEMMA StoreSessionStep ==
  ASSUME IndInv, NEW w \in Workers, StoreSession(w)
  PROVE  IndInv'
<1>1. /\ tx[w] \in Call /\ tx[w].op = "store" /\ tx[w].s \in Sessions \ ToSet(owner)
      /\ \A v \in Workers \ {w} : tx[v].s # tx[w].s
      /\ Len(owner) \in Nat
  BY DEF IndInv, TypeOK, CallsAreWellFormed, StoreSession
<1>2. PICK s \in Sessions : s = tx[w].s
  BY <1>1
<1>3. PICK m \in Nat : m = Len(owner) + 1
  BY <1>1
<1> DEFINE c == [tx[w] EXCEPT !.op = "list", !.n = m]
<1>4. /\ m <= MaxPairs /\ m # 0
      /\ owner' \in Seq(Sessions) /\ Len(owner') = m /\ owner'[m] = s
      /\ \A n \in 1..Len(owner) : owner'[n] = owner[n]
      /\ ToSet(owner') = ToSet(owner) \cup {s}
  BY <1>1, <1>2, <1>3, MintedPair, BoundsAssumption DEF IndInv, TypeOK, StoreSession, Minted
<1>5. /\ c \in Call /\ c.op = "list" /\ c.n = m /\ c.s = s
      /\ c.seen = tx[w].seen /\ c.todo = tx[w].todo
  BY <1>1, <1>2, <1>3 DEF Call, Ops
<1>6. /\ tx' \in [Workers -> Call] /\ tx'[w] = c
      /\ \A v \in Workers \ {w} : tx'[v] = tx[v]
  BY <1>3, <1>5, CallsMove DEF StoreSession, Goto, Minted
<1>7. /\ session' = [session EXCEPT ![s] = [pair |-> m, version |-> tx[w].v]]
      /\ access' = access \cup {m} /\ refresh' = refresh \cup {m}
      /\ UNCHANGED <<version, reset, known, used, index>>
  BY <1>2, <1>3 DEF StoreSession, Minted
<1>8. /\ session'[s].pair = m
      /\ \A t \in Sessions \ {s} : session'[t] = session[t]
      /\ session' \in [Sessions -> [pair : 0..MaxPairs, version : Nat]]
  BY <1>1, <1>4, <1>7, BoundsAssumption DEF IndInv, TypeOK, Call
<1> HIDE DEF c
<1>9. TypeOK'
  BY <1>1, <1>3, <1>4, <1>6, <1>7, <1>8, SMTT(60) DEF IndInv, TypeOK, Call
<1>10. CallsAreWellFormed'
  BY <1>1, <1>2, <1>3, <1>4, <1>5, <1>6 DEF IndInv, CallsAreWellFormed, SessionCalls
<1>11. KeysAreLinked'
  <2>1. ASSUME NEW t \in Sessions, Exists(t)'
        PROVE  session'[t].pair \in 1..Len(owner') /\ owner'[session'[t].pair] = t
    <3>1. CASE t = s
      BY <1>3, <1>4, <1>8, <3>1
    <3>2. CASE t # s
      <4>1. session'[t] = session[t] /\ Exists(t)
        BY <1>8, <2>1, <3>2 DEF Exists
      <4>2. session[t].pair \in 1..Len(owner) /\ owner[session[t].pair] = t
        BY <4>1 DEF IndInv, KeysAreLinked
      <4> QED
        BY <1>1, <1>3, <1>4, <4>1, <4>2
    <3> QED
      BY <3>1, <3>2
  <2>2. index' \subseteq ToSet(owner')
    BY <1>4, <1>7 DEF IndInv, KeysAreLinked
  <2> QED
    BY <2>1, <2>2 DEF KeysAreLinked
<1>12. LogoutAllProgress'
  <2>1. \A t \in Sessions \ {s} : ~Exists(t) => ~Exists(t)'
    BY <1>8 DEF Exists
  <2>2. ASSUME NEW v \in Workers, tx'[v].op \in {"logoutAll", "revokeNext"}
        PROVE  /\ tx'[v] = tx[v] /\ tx[v].seen \subseteq ToSet(owner)
               /\ tx[v].seen \subseteq Sessions \ {s}
    BY <1>1, <1>2, <1>5, <1>6, <2>2, OwnersAreSessions DEF IndInv, TypeOK, CallsAreWellFormed
  <2> QED
    BY <2>1, <2>2 DEF IndInv, LogoutAllProgress
<1>13. ResetHoldsItsToken'
  BY <1>5, <1>6, <1>7 DEF IndInv, ResetHoldsItsToken
<1> QED
  BY <1>9, <1>10, <1>11, <1>12, <1>13 DEF IndInv

LEMMA ListSessionStep ==
  ASSUME IndInv, NEW w \in Workers, ListSession(w)
  PROVE  IndInv'
<1>1. tx[w].s \in ToSet(owner) /\ tx[w].s \in Sessions /\ tx[w].n \in 1..Len(owner)
  BY OwnersAreSessions DEF IndInv, TypeOK, CallsAreWellFormed, ListSession, SessionCalls
<1>2. /\ tx' \in [Workers -> Call] /\ tx'[w] = Idle
      /\ \A v \in Workers \ {w} : tx'[v] = tx[v]
  BY IdleIsCall, CallsMove DEF ListSession, Return
<1>3. Idle.op = "idle" /\ Idle.s = NoSession
  BY DEF Idle
<1>4. TypeOK'
  BY <1>1, <1>2 DEF IndInv, TypeOK, ListSession, Call
<1>5. CallsAreWellFormed'
  BY <1>2, <1>3, NoSessionAssumption DEF IndInv, CallsAreWellFormed, ListSession, SessionCalls
<1>6. KeysAreLinked'
  BY <1>1 DEF IndInv, KeysAreLinked, Exists, ListSession
<1>7. LogoutAllProgress'
  BY <1>2, <1>3 DEF IndInv, LogoutAllProgress, Exists, ListSession
<1>8. ResetHoldsItsToken'
  BY <1>2, <1>3 DEF IndInv, ResetHoldsItsToken, ListSession
<1> QED
  BY <1>4, <1>5, <1>6, <1>7, <1>8 DEF IndInv

\* A request that ends while the sessions that were stored, and the ones that
\* ended, stay so, preserves what requests know.
LEMMA CallEnds ==
  ASSUME IndInv, NEW w \in Workers, Return(w), UNCHANGED reset,
         ToSet(owner') = ToSet(owner), Len(owner') >= Len(owner),
         owner \in Seq(Sessions), owner' \in Seq(Sessions),
         \A s \in Sessions : ~Exists(s) => ~Exists(s)'
  PROVE  /\ tx' \in [Workers -> Call] /\ CallsAreWellFormed'
         /\ LogoutAllProgress' /\ ResetHoldsItsToken'
<1>1. /\ tx' \in [Workers -> Call] /\ tx'[w] = Idle
      /\ \A v \in Workers \ {w} : tx'[v] = tx[v]
  BY IdleIsCall, CallsMove DEF Return
<1>2. Idle.op = "idle" /\ Idle.s = NoSession
  BY DEF Idle
<1>3. CallsAreWellFormed'
  BY <1>1, <1>2, NoSessionAssumption DEF IndInv, CallsAreWellFormed, SessionCalls
<1>4. LogoutAllProgress'
  BY <1>1, <1>2 DEF IndInv, LogoutAllProgress, CallsAreWellFormed, Call
<1>5. ResetHoldsItsToken'
  BY <1>1, <1>2 DEF IndInv, ResetHoldsItsToken
<1> QED
  BY <1>1, <1>3, <1>4, <1>5

\* The script renews only a session that is there: it revives none.
LEMMA RotateStep ==
  ASSUME IndInv, NEW w \in Workers, Rotate(w)
  PROVE  IndInv'
<1>1. /\ owner \in Seq(Sessions) /\ tx[w].s \in ToSet(owner) /\ tx[w].s \in Sessions
      /\ Len(owner) \in Nat
  BY OwnersAreSessions DEF IndInv, TypeOK, CallsAreWellFormed, Rotate, SessionCalls
<1>2. PICK s \in Sessions : s = tx[w].s
  BY <1>1
<1>3. PICK m \in Nat : m = Len(owner) + 1
  BY <1>1
<1>4. PICK n : n = tx[w].n
  OBVIOUS
<1>5. CASE n \in refresh /\ Exists(s) /\ session[s].pair = n
  <2>1. /\ m <= MaxPairs /\ owner' = Append(owner, s)
        /\ session' = [session EXCEPT ![s].pair = m]
        /\ access' = (access \ {n}) \cup {m} /\ refresh' = (refresh \ {n}) \cup {m}
        /\ used' = used \cup {n} /\ index' = index \cup {s} /\ known' = known \cup {m}
        /\ UNCHANGED <<version, reset>>
    BY <1>2, <1>3, <1>4, <1>5 DEF Rotate, RotateScript, Minted
  <2>2. /\ owner' \in Seq(Sessions) /\ Len(owner') = m /\ owner'[m] = s
        /\ \A k \in 1..Len(owner) : owner'[k] = owner[k]
        /\ ToSet(owner') = ToSet(owner)
    <3>1. ToSet(owner) \cup {s} = ToSet(owner)
      BY <1>1, <1>2
    <3> QED
      BY <1>1, <1>3, <2>1, <3>1, MintedPair
  <2>3. n \in 1..Len(owner)
    BY <1>5 DEF IndInv, TypeOK
  <2>4. /\ session' \in [Sessions -> [pair : 0..MaxPairs, version : Nat]]
        /\ session'[s].pair = m
        /\ \A t \in Sessions \ {s} : session'[t] = session[t]
    <3>1. m \in 0..MaxPairs
      BY <2>1, BoundsAssumption
    <3> QED
      BY <2>1, <3>1 DEF IndInv, TypeOK
  <2>5. \A t \in Sessions : ~Exists(t) => ~Exists(t)'
    BY <1>5, <2>4 DEF Exists
  <2>6. /\ tx' \in [Workers -> Call] /\ CallsAreWellFormed'
        /\ LogoutAllProgress' /\ ResetHoldsItsToken'
    BY <1>1, <1>3, <2>1, <2>2, <2>5, CallEnds DEF Rotate
  <2>7. TypeOK'
    <3>1. 1..Len(owner) \subseteq 1..Len(owner') /\ m \in 1..Len(owner')
      BY <1>1, <1>3, <2>2
    <3>2. access' \cup refresh' \cup used' \cup known' \subseteq 1..Len(owner')
      BY <2>1, <2>3, <3>1 DEF IndInv, TypeOK
    <3> QED
      BY <2>1, <2>2, <2>4, <2>6, <3>2 DEF IndInv, TypeOK, Call
  <2>8. KeysAreLinked'
    BY <1>1, <1>2, <1>3, <2>1, <2>2, <2>4 DEF IndInv, KeysAreLinked, Exists
  <2> QED
    BY <2>6, <2>7, <2>8 DEF IndInv
<1>6. CASE ~(n \in refresh /\ Exists(s) /\ session[s].pair = n)
  BY <1>2, <1>4, <1>6, IdleIsCall, NoCall, QuietStep DEF Rotate, RotateScript, Return
<1> QED
  BY <1>5, <1>6

\* Whatever pair the request had read, the session it names is gone after.
LEMMA RevokeStep ==
  ASSUME IndInv, NEW w \in Workers, Revoke(w)
  PROVE  IndInv'
<1>1. /\ tx[w] \in Call /\ tx[w].s \in ToSet(owner) /\ tx[w].s \in Sessions
      /\ owner \in Seq(Sessions)
  BY OwnersAreSessions DEF IndInv, TypeOK, CallsAreWellFormed, Revoke, SessionCalls
<1>2. PICK s \in Sessions : s = tx[w].s
  BY <1>1
<1>3. /\ access' \subseteq access /\ refresh' \subseteq refresh /\ index' \subseteq index
      /\ session' = [session EXCEPT ![s] = [pair |-> 0, version |-> 0]]
      /\ UNCHANGED <<version, reset, owner, used, known>>
  BY <1>2 DEF Revoke, RevokeState
<1>4. /\ session' \in [Sessions -> [pair : 0..MaxPairs, version : Nat]]
      /\ session'[s].pair = 0
      /\ \A t \in Sessions \ {s} : session'[t] = session[t]
  <2>1. 0 \in 0..MaxPairs
    BY BoundsAssumption
  <2> QED
    BY <1>3, <2>1 DEF IndInv, TypeOK
<1>5. ~Exists(s)' /\ \A t \in Sessions : ~Exists(t) => ~Exists(t)'
  BY <1>4 DEF Exists
<1>6. KeysAreLinked'
  BY <1>3, <1>4 DEF IndInv, KeysAreLinked, Exists
<1>7. tx' \in [Workers -> Call] => TypeOK'
  BY <1>3, <1>4 DEF IndInv, TypeOK, Call
<1>8. CASE tx[w].op = "revoke"
  BY <1>1, <1>3, <1>5, <1>6, <1>7, <1>8, CallEnds DEF Revoke, IndInv, TypeOK
<1>9. CASE tx[w].op = "revokeNext"
  <2> DEFINE c == [tx[w] EXCEPT !.op = "logoutAll", !.s = NoSession, !.n = 0]
  <2>1. /\ c \in Call /\ c.op = "logoutAll" /\ c.s = NoSession
        /\ c.seen = tx[w].seen /\ c.todo = tx[w].todo
    BY <1>1 DEF Call, Ops
  <2>2. /\ tx' \in [Workers -> Call] /\ tx'[w] = c
        /\ \A v \in Workers \ {w} : tx'[v] = tx[v]
    BY <1>9, <2>1, CallsMove DEF Revoke, Goto
  <2> HIDE DEF c
  <2>3. CallsAreWellFormed'
    BY <1>3, <1>9, <2>1, <2>2, NoSessionAssumption
       DEF IndInv, CallsAreWellFormed, SessionCalls
  <2>4. LogoutAllProgress'
    <3>1. \A t \in tx[w].seen \ (tx[w].todo \cup {s}) : ~Exists(t)
      BY <1>2, <1>9 DEF IndInv, LogoutAllProgress
    <3>2. \A v \in Workers : tx[v].seen \subseteq Sessions
      BY DEF IndInv, TypeOK
    <3>3. \A t \in c.seen \ c.todo : ~Exists(t)'
      BY <1>5, <2>1, <3>1, <3>2
    <3> QED
      BY <1>5, <2>1, <2>2, <3>2, <3>3 DEF IndInv, LogoutAllProgress
  <2>5. ResetHoldsItsToken'
    BY <1>3, <2>1, <2>2 DEF IndInv, ResetHoldsItsToken
  <2> QED
    BY <1>6, <1>7, <2>2, <2>3, <2>4, <2>5 DEF IndInv
<1> QED
  BY <1>8, <1>9 DEF Revoke

LEMMA FinishLogoutAllStep ==
  ASSUME IndInv, NEW w \in Workers, FinishLogoutAll(w)
  PROVE  IndInv'
<1>1. /\ tx' \in [Workers -> Call] /\ CallsAreWellFormed'
      /\ LogoutAllProgress' /\ ResetHoldsItsToken'
  BY CallEnds DEF FinishLogoutAll, IndInv, TypeOK, Exists
<1>2. TypeOK'
  BY <1>1 DEF FinishLogoutAll, IndInv, TypeOK, Call
<1>3. KeysAreLinked'
  BY DEF FinishLogoutAll, IndInv, KeysAreLinked, Exists
<1> QED
  BY <1>1, <1>2, <1>3 DEF IndInv

\* A request that ends after writing token rows: no key moves, and the tokens
\* of the other resets must stay live.
LEMMA TokenRowsStep ==
  ASSUME IndInv, NEW w \in Workers, Return(w), UNCHANGED <<redis, known>>,
         version' \in Nat, reset' \in [ResetTokens -> {"none", "live", "dead"}],
         \A v \in Workers \ {w} : tx[v].op = "reset" => reset'[tx[v].k] = "live"
  PROVE  IndInv'
<1> USE DEF redis
<1>1. /\ tx' \in [Workers -> Call] /\ tx'[w] = Idle
      /\ \A v \in Workers \ {w} : tx'[v] = tx[v]
  BY IdleIsCall, CallsMove DEF Return
<1>2. Idle.op = "idle" /\ Idle.s = NoSession
  BY DEF Idle
<1>3. TypeOK'
  BY <1>1 DEF IndInv, TypeOK, Call
<1>4. CallsAreWellFormed'
  BY <1>1, <1>2, NoSessionAssumption DEF IndInv, CallsAreWellFormed, SessionCalls
<1>5. KeysAreLinked' /\ LogoutAllProgress'
  BY <1>1, <1>2 DEF IndInv, KeysAreLinked, LogoutAllProgress, Exists
<1>6. ResetHoldsItsToken'
  BY <1>1, <1>2 DEF IndInv, ResetHoldsItsToken
<1> QED
  BY <1>3, <1>4, <1>5, <1>6 DEF IndInv

\* The UPDATE that supersedes tokens waits for the ones in use.
LEMMA IssueTokenStep ==
  ASSUME IndInv, NEW w \in Workers, IssueToken(w)
  PROVE  IndInv'
<1>1. reset' \in [ResetTokens -> {"none", "live", "dead"}]
  BY DEF IssueToken, IndInv, TypeOK
<1>2. ASSUME NEW v \in Workers \ {w}, tx[v].op = "reset"
      PROVE  reset'[tx[v].k] = "live"
  <2>1. tx[v].k \in ResetTokens /\ reset[tx[v].k] = "live"
    BY <1>2 DEF IndInv, CallsAreWellFormed, ResetHoldsItsToken
  <2>2. tx[v].k \notin tx[w].todo
    BY <1>2 DEF IssueToken, TokenLocked
  <2> QED
    BY <2>1, <2>2 DEF IssueToken
<1> QED
  BY <1>1, <1>2, TokenRowsStep DEF IssueToken, IndInv, TypeOK

LEMMA CommitResetStep ==
  ASSUME IndInv, NEW w \in Workers, CommitReset(w)
  PROVE  IndInv'
<1>1. tx[w] \in Call /\ tx[w].k \in ResetTokens /\ tx[w].v + 1 \in Nat
  BY DEF CommitReset, IndInv, CallsAreWellFormed, Call
<1>2. reset' \in [ResetTokens -> {"none", "live", "dead"}]
  BY <1>1 DEF CommitReset, IndInv, TypeOK
<1>3. ASSUME NEW v \in Workers \ {w}, tx[v].op = "reset"
      PROVE  reset'[tx[v].k] = "live"
  <2>1. tx[v].k \in ResetTokens /\ reset[tx[v].k] = "live" /\ tx[v].k # tx[w].k
    BY <1>3 DEF IndInv, CallsAreWellFormed, ResetHoldsItsToken, CommitReset
  <2> QED
    BY <1>1, <2>1 DEF CommitReset, IndInv, TypeOK
<1> QED
  BY <1>1, <1>2, <1>3, TokenRowsStep DEF CommitReset

\* ResetMfa moves the version, Expire ends a session: no request moves.
LEMMA OutsideStep ==
  ASSUME IndInv, ResetMfa \/ Expire \/ UNCHANGED vars
  PROVE  IndInv'
<1>1. /\ UNCHANGED <<reset, owner, access, used, index, tx, known>>
      /\ refresh' \subseteq refresh /\ version' \in Nat
  BY DEF ResetMfa, Expire, IndInv, TypeOK, redis, vars
<1>2. /\ session' \in [Sessions -> [pair : 0..MaxPairs, version : Nat]]
      /\ \A t \in Sessions : Exists(t)' => Exists(t) /\ session'[t] = session[t]
  <2>1. CASE Expire
    <3>1. PICK s \in Sessions : session' = [session EXCEPT ![s] = [pair |-> 0, version |-> 0]]
      BY <2>1 DEF Expire
    <3>2. 0 \in 0..MaxPairs
      BY BoundsAssumption
    <3> QED
      BY <3>1, <3>2 DEF IndInv, TypeOK, Exists
  <2>2. CASE UNCHANGED session
    BY <2>2 DEF IndInv, TypeOK, Exists
  <2> QED
    BY <2>1, <2>2 DEF ResetMfa, redis, vars
<1>3. TypeOK'
  BY <1>1, <1>2 DEF IndInv, TypeOK
<1>4. CallsAreWellFormed' /\ ResetHoldsItsToken'
  BY <1>1 DEF IndInv, CallsAreWellFormed, ResetHoldsItsToken
<1>5. KeysAreLinked'
  BY <1>1, <1>2 DEF IndInv, KeysAreLinked
<1>6. LogoutAllProgress'
  BY <1>1, <1>2 DEF IndInv, TypeOK, LogoutAllProgress
<1> QED
  BY <1>3, <1>4, <1>5, <1>6 DEF IndInv

-----------------------------------------------------------------------------
(***************************************************************************)
(* The theorems                                                            *)
(***************************************************************************)

LEMMA InitInvariant == Init => IndInv
<1> SUFFICES ASSUME Init PROVE IndInv
  OBVIOUS
<1>1. tx \in [Workers -> Call] /\ \A w \in Workers : tx[w] = Idle
  BY IdleIsCall DEF Init
<1>2. Idle.op = "idle"
  BY DEF Idle
<1>3. TypeOK
  BY <1>1, BoundsAssumption DEF Init, TypeOK, Call
<1>4. CallsAreWellFormed
  BY <1>1, <1>2 DEF CallsAreWellFormed, SessionCalls
<1>5. KeysAreLinked
  BY DEF Init, KeysAreLinked, Exists
<1>6. LogoutAllProgress /\ ResetHoldsItsToken
  BY <1>1, <1>2 DEF LogoutAllProgress, ResetHoldsItsToken
<1> QED
  BY <1>3, <1>4, <1>5, <1>6 DEF IndInv

LEMMA StepInvariant == IndInv /\ [Next]_vars => IndInv'
<1> SUFFICES ASSUME IndInv, [Next]_vars PROVE IndInv'
  OBVIOUS
<1>1. ASSUME NEW w \in Workers,
             \/ Login(w) \/ StoreSession(w) \/ ListSession(w)
             \/ Rotate(w) \/ Revoke(w) \/ LoadNext(w) \/ FinishLogoutAll(w)
             \/ RequestRecovery(w) \/ IssueToken(w) \/ CommitReset(w) \/ Crash(w)
      PROVE  IndInv'
  BY <1>1, LoginStep, StoreSessionStep, ListSessionStep, RotateStep, RevokeStep,
     LoadNextStep, FinishLogoutAllStep, RequestRecoveryStep, IssueTokenStep,
     CommitResetStep, CrashStep
<1>2. ASSUME NEW w \in Workers, NEW n \in known, Refresh(w, n) \/ Logout(w, n) \/ LogoutAll(w, n)
      PROVE  IndInv'
  BY <1>2, RefreshStep, LogoutStep, LogoutAllStep
<1>3. ASSUME NEW w \in Workers, NEW t \in ResetTokens, ResetPassword(w, t)
      PROVE  IndInv'
  BY <1>3, ResetPasswordStep
<1> QED
  BY <1>1, <1>2, <1>3, OutsideStep DEF Next

\* The inductive invariant holds in every reachable state.
THEOREM Invariant == Spec => []IndInv
  BY InitInvariant, StepInvariant, PTL DEF Spec

\* Whatever refreshes, expiries and crashes overlap with logout_all, every
\* session it found listed has ended when it is done, and the keys stay well
\* formed (session_service.py), for any number of workers and sessions.
THEOREM SessionsSound == Spec => []SessionsAreSound
<1>1. IndInv => SessionsAreSound
  BY DEF IndInv, SessionsAreSound, LogoutAllProgress, LogoutAllEndsSessions
<1> QED
  BY <1>1, Invariant, PTL

\* Two reset_password requests never hold one token, and a token that a newer
\* request superseded is never about to change the password.
THEOREM ResetHoldsToken == Spec => []ResetHoldsItsToken
<1>1. IndInv => ResetHoldsItsToken
  BY DEF IndInv
<1> QED
  BY <1>1, Invariant, PTL

-----------------------------------------------------------------------------
(***************************************************************************)
(* The refinement: every step of the keys is a step of the registry        *)
(***************************************************************************)

\* What the registry sees of one session, and of all of them.
StatusOf(s) == IF Exists(s) THEN "live" ELSE IF s \in ToSet(owner) THEN "ended" ELSE "none"
StatusMap == [s \in Sessions |-> StatusOf(s)]
CurrentMap == [s \in Sessions |-> session[s].pair]

\* A step that leaves what the registry sees alone is invisible.
LEMMA RegistryStutter ==
  ASSUME \A s \in Sessions : StatusOf(s)' = StatusOf(s) /\ session'[s].pair = session[s].pair,
         Len(owner') = Len(owner)
  PROVE  UNCHANGED Registry!registryVars
<1>1. StatusMap' = StatusMap
  BY DEF StatusMap
<1>2. CurrentMap' = CurrentMap
  BY DEF CurrentMap
<1> QED
  BY <1>1, <1>2 DEF Registry!registryVars, StatusMap, StatusOf, CurrentMap, Minted

\* Deleting the key of a stored session ends it, or is invisible.
LEMMA RegistryEnd ==
  ASSUME IndInv, NEW s \in Sessions, s \in ToSet(owner), UNCHANGED owner,
         session' = [session EXCEPT ![s] = [pair |-> 0, version |-> 0]]
  PROVE  [Registry!RegistryNext]_(Registry!registryVars)
<1>1. /\ session'[s].pair = 0
      /\ \A t \in Sessions \ {s} : session'[t] = session[t]
  BY DEF IndInv, TypeOK
<1>2. StatusOf(s)' = "ended" /\ \A t \in Sessions \ {s} : StatusOf(t)' = StatusOf(t)
  BY <1>1 DEF StatusOf, Exists
<1>3. CASE Exists(s)
  <2>1. StatusMap[s] = "live"
    BY <1>3 DEF StatusMap, StatusOf
  <2>2. StatusMap' = [StatusMap EXCEPT ![s] = "ended"]
    BY <1>2 DEF StatusMap
  <2>3. CurrentMap' = [CurrentMap EXCEPT ![s] = 0]
    <3>1. \A t \in Sessions : session'[t].pair = IF t = s THEN 0 ELSE session[t].pair
      BY <1>1
    <3> QED
      BY <3>1, Zenon DEF CurrentMap
  <2>4. Registry!End(s)
    BY <2>1, <2>2, <2>3 DEF Registry!End, StatusMap, StatusOf, CurrentMap, Minted
  <2> QED
    BY <2>4 DEF Registry!RegistryNext
<1>4. CASE ~Exists(s)
  BY <1>1, <1>2, <1>4, RegistryStutter DEF StatusOf, Exists
<1> QED
  BY <1>3, <1>4

\* Storing a session opens one that never was.
LEMMA RegistryOpen ==
  ASSUME IndInv, NEW w \in Workers, StoreSession(w)
  PROVE  Registry!RegistryNext
<1>1. tx[w].s \in Sessions \ ToSet(owner) /\ owner \in Seq(Sessions) /\ Len(owner) \in Nat
  BY DEF IndInv, TypeOK, CallsAreWellFormed, StoreSession
<1>2. PICK s \in Sessions : s = tx[w].s
  BY <1>1
<1>3. ~Exists(s)
  BY <1>1, <1>2, ExistingWasStored
<1>4. /\ Len(owner') = Len(owner) + 1 /\ Len(owner) + 1 # 0
      /\ ToSet(owner') = ToSet(owner) \cup {s}
  BY <1>1, <1>2, MintedPair DEF StoreSession
<1>5. /\ session'[s].pair = Len(owner) + 1
      /\ \A t \in Sessions \ {s} : session'[t] = session[t]
  BY <1>2 DEF StoreSession, IndInv, TypeOK, Minted
<1>6. StatusOf(s) = "none" /\ StatusOf(s)' = "live"
  BY <1>1, <1>2, <1>3, <1>4, <1>5 DEF StatusOf, Exists
<1>7. \A t \in Sessions \ {s} : StatusOf(t)' = StatusOf(t)
  BY <1>4, <1>5 DEF StatusOf, Exists
<1>8. StatusMap[s] = "none" /\ StatusMap' = [StatusMap EXCEPT ![s] = "live"]
  BY <1>6, <1>7 DEF StatusMap
<1>9. CurrentMap' = [CurrentMap EXCEPT ![s] = Len(owner')]
  BY <1>4, <1>5 DEF CurrentMap
<1>10. Registry!Open(s)
  BY <1>4, <1>8, <1>9 DEF Registry!Open, StatusMap, StatusOf, CurrentMap, Minted
<1> QED
  BY <1>10 DEF Registry!RegistryNext

\* The rotation script replaces the pair of a live session, or does nothing.
LEMMA RegistryReplace ==
  ASSUME IndInv, NEW w \in Workers, Rotate(w)
  PROVE  [Registry!RegistryNext]_(Registry!registryVars)
<1>1. /\ tx[w].s \in ToSet(owner) /\ tx[w].s \in Sessions
      /\ owner \in Seq(Sessions) /\ Len(owner) \in Nat
  BY OwnersAreSessions DEF IndInv, TypeOK, CallsAreWellFormed, Rotate, SessionCalls
<1>2. PICK s \in Sessions : s = tx[w].s
  BY <1>1
<1>3. CASE tx[w].n \in refresh /\ Exists(s) /\ session[s].pair = tx[w].n
  <2>1. owner' = Append(owner, s) /\ session' = [session EXCEPT ![s].pair = Len(owner) + 1]
    BY <1>2, <1>3 DEF Rotate, RotateScript, Minted
  <2>2. /\ Len(owner') = Len(owner) + 1 /\ Len(owner) + 1 # 0
        /\ ToSet(owner') = ToSet(owner) \cup {s}
    BY <1>1, <2>1, MintedPair
  <2>3. ToSet(owner') = ToSet(owner)
    BY <1>1, <1>2, <2>2
  <2>4. /\ session'[s].pair = Len(owner) + 1
        /\ \A t \in Sessions \ {s} : session'[t] = session[t]
    BY <2>1 DEF IndInv, TypeOK
  <2>5. StatusOf(s) = "live" /\ \A t \in Sessions : StatusOf(t)' = StatusOf(t)
    BY <1>3, <2>2, <2>3, <2>4 DEF StatusOf, Exists
  <2>6. StatusMap[s] = "live" /\ StatusMap' = StatusMap
    BY <2>5 DEF StatusMap
  <2>7. CurrentMap' = [CurrentMap EXCEPT ![s] = Len(owner')]
    BY <2>2, <2>4 DEF CurrentMap
  <2>8. Registry!Replace(s)
    BY <2>2, <2>6, <2>7 DEF Registry!Replace, StatusMap, StatusOf, CurrentMap, Minted
  <2> QED
    BY <2>8 DEF Registry!RegistryNext
<1>4. CASE ~(tx[w].n \in refresh /\ Exists(s) /\ session[s].pair = tx[w].n)
  <2>1. UNCHANGED <<session, owner>>
    BY <1>2, <1>4 DEF Rotate, RotateScript, redis
  <2> QED
    BY <2>1, RegistryStutter DEF StatusOf, Exists
<1> QED
  BY <1>3, <1>4

LEMMA RegistryStep ==
  ASSUME IndInv, [Next]_vars
  PROVE  [Registry!RegistryNext]_(Registry!registryVars)
<1>1. ASSUME UNCHANGED <<session, owner>>
      PROVE  [Registry!RegistryNext]_(Registry!registryVars)
  BY <1>1, RegistryStutter DEF StatusOf, Exists
<1>2. ASSUME NEW w \in Workers,
             \/ Login(w) \/ StoreSession(w) \/ ListSession(w)
             \/ Rotate(w) \/ Revoke(w) \/ LoadNext(w) \/ FinishLogoutAll(w)
             \/ RequestRecovery(w) \/ IssueToken(w) \/ CommitReset(w) \/ Crash(w)
      PROVE  [Registry!RegistryNext]_(Registry!registryVars)
  <2>1. CASE StoreSession(w)
    BY <2>1, RegistryOpen
  <2>2. CASE Rotate(w)
    BY <2>2, RegistryReplace
  <2>3. CASE Revoke(w)
    <3>1. tx[w].s \in ToSet(owner) /\ tx[w].s \in Sessions
      BY <2>3, OwnersAreSessions DEF IndInv, TypeOK, CallsAreWellFormed, Revoke, SessionCalls
    <3>2. PICK s \in Sessions : s = tx[w].s
      BY <3>1
    <3> QED
      BY <2>3, <3>1, <3>2, RegistryEnd DEF Revoke, RevokeState
  <2>4. CASE \/ Login(w) \/ ListSession(w) \/ LoadNext(w) \/ FinishLogoutAll(w)
             \/ RequestRecovery(w) \/ IssueToken(w) \/ CommitReset(w) \/ Crash(w)
    BY <1>1, <2>4 DEF Login, ListSession, LoadNext, FinishLogoutAll, RequestRecovery,
       IssueToken, CommitReset, Crash, redis
  <2> QED
    BY <1>2, <2>1, <2>2, <2>3, <2>4
<1>3. ASSUME NEW w \in Workers, NEW n \in known, Refresh(w, n) \/ Logout(w, n) \/ LogoutAll(w, n)
      PROVE  [Registry!RegistryNext]_(Registry!registryVars)
  BY <1>1, <1>3 DEF Refresh, Logout, LogoutAll, redis
<1>4. ASSUME NEW w \in Workers, NEW t \in ResetTokens, ResetPassword(w, t)
      PROVE  [Registry!RegistryNext]_(Registry!registryVars)
  BY <1>1, <1>4 DEF ResetPassword, redis
<1>5. CASE Expire
  <2>1. PICK s \in Sessions : /\ Exists(s)
                              /\ session' = [session EXCEPT ![s] = [pair |-> 0, version |-> 0]]
    BY <1>5 DEF Expire
  <2> QED
    BY <1>5, <2>1, ExistingWasStored, RegistryEnd DEF Expire
<1>6. CASE ResetMfa \/ UNCHANGED vars
  BY <1>1, <1>6 DEF ResetMfa, redis, vars
<1> QED
  BY <1>2, <1>3, <1>4, <1>5, <1>6 DEF Next

\* Sessions over Redis implement the registry, for any number of workers and
\* sessions: a session that ended is never live again, and a pair is replaced
\* once, by a fresh one, whatever requests, expiries and crashes overlap.
THEOREM SessionsImplementRegistry == Spec => ImplementsRegistry
<1>1. Init => Registry!RegistryInit
  <2> SUFFICES ASSUME Init PROVE Registry!RegistryInit
    OBVIOUS
  <2>1. \A s \in Sessions : StatusOf(s) = "none" /\ session[s].pair = 0
    BY DEF Init, StatusOf, Exists, ToSet
  <2>2. StatusMap = [s \in Sessions |-> "none"] /\ CurrentMap = [s \in Sessions |-> 0]
    BY <2>1 DEF StatusMap, CurrentMap
  <2>3. Minted = 0
    BY DEF Init, Minted
  <2> QED
    BY <2>2, <2>3 DEF Registry!RegistryInit, StatusMap, StatusOf, CurrentMap
<1>2. IndInv /\ [Next]_vars => [Registry!RegistryNext]_(Registry!registryVars)
  BY RegistryStep
<1> QED
  BY <1>1, <1>2, Invariant, PTL DEF Spec, ImplementsRegistry, Registry!RegistrySpec
=============================================================================
