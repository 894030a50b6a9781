---------------------------- MODULE MfaChallenge -----------------------------
(***************************************************************************)
(* The second factor of one account of auth_api: the users row and the     *)
(* recovery codes in PostgreSQL, the challenge tickets and their attempt   *)
(* counters in Redis, and the requests of the worker processes between     *)
(* them.  A challenge keeps the row locked FOR UPDATE while it deletes the *)
(* ticket and creates the session; confirm and regenerate_recovery_codes   *)
(* read the row without a lock.  Sessions are those of AuthSession.tla: it *)
(* only matters here which code opened which.  The MFA endpoints take any  *)
(* session of the account, and one is assumed throughout.                  *)
(***************************************************************************)
EXTENDS Naturals, FiniteSets

CONSTANTS Workers,         \* gunicorn worker processes of auth_api
          Tickets,         \* challenge tickets, numbers above 0
          AttemptLimit,    \* codes a ticket may be tried with (5)
          MaxBatch,        \* bound: batches of recovery codes written
          MaxStep          \* bound: TOTP steps the clock passes

ASSUME BoundsAssumption == AttemptLimit \in Nat /\ {MaxBatch, MaxStep} \subseteq Nat \ {0}
ASSUME WorkersAssumption == IsFiniteSet(Workers)
ASSUME TicketsAssumption == Tickets \subseteq Nat \ {0}

VARIABLES user,            \* users row: mfa, pending, step (last used)
          codes,           \* mfa_recovery_codes rows, one per batch
          consumed,        \* the rows whose consumed_at is set
          batches,         \* batches written so far
          ticket,          \* mfa:<ticket> -> "none", "live", "gone"
          attempts,        \* mfa-attempts:<ticket>
          now,             \* the clock's TOTP step
          tx,              \* worker -> the request it is running
          opened,          \* history: proof -> sessions it opened
          tries            \* history: ticket -> codes checked for it

vars == <<user, codes, consumed, batches, ticket, attempts, now, tx, opened, tries>>

\* What a request proves with: the TOTP code of a step or a recovery code.
Steps == {"step"} \X (1..MaxStep)
Codes == {"code"} \X (1..MaxBatch)
NoProof == <<"none", 0>>

\* A request: its ticket, its attempt number, the accepted code, the codes the
\* row had when it was read.
Idle == [op |-> "idle", k |-> 0, v |-> 0, proof |-> NoProof, seen |-> {}]

\* UserEntity, as far as MFA reads and writes it.
UserRows == [mfa : BOOLEAN, pending : BOOLEAN, step : 0..MaxStep]

TypeOK ==
    /\ user \in UserRows
    /\ batches \in 0..MaxBatch /\ consumed \subseteq codes /\ codes \subseteq 1..batches
    /\ ticket \in [Tickets -> {"none", "live", "gone"}]
    /\ attempts \in [Tickets -> 0..AttemptLimit]
    /\ now \in 1..MaxStep
    /\ tx \in [Workers -> [op : {"idle", "ticket", "verify", "commit", "confirm",
                                 "regenerate"},
                           k : Tickets \cup {0}, v : 0..AttemptLimit,
                           proof : Steps \cup Codes \cup {NoProof},
                           seen : SUBSET (1..MaxBatch)]]
    /\ opened \in [Steps \cup Codes -> Nat]
    /\ tries \in [Tickets -> Nat]

-----------------------------------------------------------------------------
\* Mutant: the challenge reads the account without FOR UPDATE.
UserNeverLocked == FALSE

\* The users row stays locked from the check of the code to the commit.
UserLocked == \E w \in Workers : tx[w].op = "commit"

\* verify_user_code: a TOTP code counts for the clock's step if that is later
\* than the last one used, and a recovery code if it is not consumed.
Accepts(proof) ==
    \/ proof \in Steps /\ proof[2] = now /\ now > user.step
    \/ proof \in Codes /\ proof[2] \in codes \ consumed

Goto(w, call) == tx' = [tx EXCEPT ![w] = call]
Return(w) == Goto(w, Idle)

\* Mutant: only the counter is deleted.
DeleteCounter(k) ==
    /\ attempts' = [attempts EXCEPT ![k] = 0]
    /\ UNCHANGED ticket

\* DEL of the ticket and of its counter, one command.
DeleteTicket(k) ==
    /\ ticket' = [ticket EXCEPT ![k] = "gone"]
    /\ attempts' = [attempts EXCEPT ![k] = 0]

\* login of an account with MFA hands out a ticket.
CreateMfaChallenge(k) ==
    /\ user.mfa
    /\ ticket[k] = "none"
    /\ ticket' = [ticket EXCEPT ![k] = "live"]
    /\ UNCHANGED <<user, codes, consumed, batches, attempts, now, tx, opened, tries>>

\* Mutant: the limit is compared with the attempts before this one.
ChallengeOnceMore(w, k) ==
    /\ tx[w] = Idle
    /\ ticket[k] # "none"
    /\ IF attempts[k] > AttemptLimit
         THEN DeleteTicket(k) /\ UNCHANGED tx
         ELSE /\ attempts' = [attempts EXCEPT ![k] = @ + 1]
              /\ Goto(w, [Idle EXCEPT !.op = "ticket", !.k = k, !.v = attempts[k] + 1])
              /\ UNCHANGED ticket
    /\ UNCHANGED <<user, codes, consumed, batches, now, opened, tries>>

\* complete_mfa_challenge counts the attempt before anything else, also for a
\* ticket that is gone; beyond the limit it deletes both keys.
Challenge(w, k) ==
    /\ tx[w] = Idle
    /\ ticket[k] # "none"
    /\ IF attempts[k] + 1 > AttemptLimit
         THEN DeleteTicket(k) /\ UNCHANGED tx
         ELSE /\ attempts' = [attempts EXCEPT ![k] = @ + 1]
              /\ Goto(w, [Idle EXCEPT !.op = "ticket", !.k = k, !.v = attempts[k] + 1])
              /\ UNCHANGED ticket
    /\ UNCHANGED <<user, codes, consumed, batches, now, opened, tries>>

ReadTicket(w) ==
    /\ tx[w].op = "ticket"
    /\ IF ticket[tx[w].k] = "live" THEN Goto(w, [tx[w] EXCEPT !.op = "verify"])
                                   ELSE Return(w)
    /\ UNCHANGED <<user, codes, consumed, batches, ticket, attempts, now, opened, tries>>

\* SELECT ... FOR UPDATE waits for the row.  A wrong code ends the request, and
\* the ticket with the last attempt; a right one deletes the ticket and creates
\* the session while the transaction is still open.
Verify(w) ==
    LET k == tx[w].k IN
    /\ tx[w].op = "verify"
    /\ ~UserLocked
    /\ \/ /\ ~user.mfa
          /\ Return(w)
          /\ UNCHANGED <<ticket, attempts, tries>>
       \/ /\ user.mfa
          /\ IF tx[w].v >= AttemptLimit THEN DeleteTicket(k)
                                        ELSE UNCHANGED <<ticket, attempts>>
          /\ tries' = [tries EXCEPT ![k] = @ + 1]
          /\ Return(w)
       \/ /\ user.mfa
          /\ \E proof \in Steps \cup Codes :
                /\ Accepts(proof)
                /\ Goto(w, [tx[w] EXCEPT !.op = "commit", !.proof = proof])
          /\ DeleteTicket(k)
          /\ tries' = [tries EXCEPT ![k] = @ + 1]
    /\ UNCHANGED <<user, codes, consumed, batches, now, opened>>

\* The commit marks the step or the code used and the response carries the
\* session.  A code whose row another transaction deleted fails the commit: the
\* session stays in Redis and its tokens are never sent.
CommitChallenge(w) ==
    LET proof == tx[w].proof IN
    /\ tx[w].op = "commit"
    /\ IF proof \in Codes /\ proof[2] \notin codes
         THEN UNCHANGED <<user, consumed, opened>>
         ELSE /\ user' = IF proof \in Steps THEN [user EXCEPT !.step = proof[2]] ELSE user
              /\ consumed' = IF proof \in Codes THEN consumed \cup {proof[2]} ELSE consumed
              /\ opened' = [opened EXCEPT ![proof] = @ + 1]
    /\ Return(w)
    /\ UNCHANGED <<codes, batches, ticket, attempts, now, tries>>

\* setup writes a pending secret.
Setup(w) ==
    /\ tx[w] = Idle
    /\ ~UserLocked
    /\ user' = [user EXCEPT !.pending = TRUE]
    /\ UNCHANGED <<codes, consumed, batches, ticket, attempts, now, tx, opened, tries>>

\* confirm takes a code of the pending secret whatever the last step was,
\* regenerate_recovery_codes the account's own; neither locks the row.
ReadForCodes(w) ==
    LET Read(op, proof) ==
            Goto(w, [Idle EXCEPT !.op = op, !.proof = proof, !.seen = codes])
    IN /\ tx[w] = Idle
       /\ \/ user.pending /\ Read("confirm", <<"step", now>>)
          \/ /\ user.mfa
             /\ \E proof \in Steps \cup Codes : Accepts(proof) /\ Read("regenerate", proof)
       /\ UNCHANGED <<user, codes, consumed, batches, ticket, attempts, now, opened, tries>>

\* The commit waits for the row, and fails if the code it was given was deleted.
\* A batch is written; the DELETE before it saw the codes of the first read or,
\* if it ran later, the ones there are now.
WriteCodes(w) ==
    LET proof == tx[w].proof
        confirms == tx[w].op = "confirm"
    IN /\ tx[w].op \in {"confirm", "regenerate"}
       /\ ~UserLocked
       /\ IF proof \in Codes /\ proof[2] \notin codes
            THEN UNCHANGED <<user, codes, consumed, batches>>
            ELSE /\ batches < MaxBatch
                 /\ batches' = batches + 1
                 /\ \E gone \in {tx[w].seen, codes} :
                       codes' = (codes \ gone) \cup {batches'}
                 /\ consumed' = consumed \cap codes'
                 /\ user' = [user EXCEPT !.step = IF proof \in Steps THEN proof[2] ELSE @,
                                         !.mfa = @ \/ confirms,
                                         !.pending = @ /\ ~confirms]
       /\ Return(w)
       /\ UNCHANGED <<ticket, attempts, now, opened, tries>>

\* The operator's reset_mfa, one transaction under the row lock.
ResetMfa ==
    /\ ~UserLocked
    /\ user' = [mfa |-> FALSE, pending |-> FALSE, step |-> 0]
    /\ codes' = {} /\ consumed' = {}
    /\ UNCHANGED <<batches, ticket, attempts, now, tx, opened, tries>>

\* A ticket reaches its TTL; its counter was set later and outlives it.
ExpireTicket(k) ==
    /\ ticket[k] = "live"
    /\ ticket' = [ticket EXCEPT ![k] = "gone"]
    /\ UNCHANGED <<user, codes, consumed, batches, attempts, now, tx, opened, tries>>

Tick ==
    /\ now < MaxStep
    /\ now' = now + 1
    /\ UNCHANGED <<user, codes, consumed, batches, ticket, attempts, tx, opened, tries>>

\* A worker dies: Redis keeps what was written, the database rolls back.
Crash(w) ==
    /\ tx[w] # Idle
    /\ Return(w)
    /\ UNCHANGED <<user, codes, consumed, batches, ticket, attempts, now, opened, tries>>

\* An account without MFA, or one with a first batch of codes.
Init ==
    /\ \E mfa \in BOOLEAN :
          /\ user = [mfa |-> mfa, pending |-> FALSE, step |-> 0]
          /\ batches = IF mfa THEN 1 ELSE 0
          /\ codes = 1..batches
    /\ consumed = {}
    /\ ticket = [k \in Tickets |-> "none"]
    /\ attempts = [k \in Tickets |-> 0]
    /\ now = 1
    /\ tx = [w \in Workers |-> Idle]
    /\ opened = [p \in Steps \cup Codes |-> 0]
    /\ tries = [k \in Tickets |-> 0]

Next ==
    \/ \E w \in Workers :
          \/ ReadTicket(w) \/ Verify(w) \/ CommitChallenge(w)
          \/ Setup(w) \/ ReadForCodes(w) \/ WriteCodes(w) \/ Crash(w)
          \/ \E k \in Tickets : Challenge(w, k)
    \/ \E k \in Tickets : CreateMfaChallenge(k) \/ ExpireTicket(k)
    \/ ResetMfa \/ Tick

Spec == Init /\ [][Next]_vars

-----------------------------------------------------------------------------
(* Properties *)

\* However requests for one ticket overlap, it is tried with at most AttemptLimit
\* codes: counting first, and deleting both keys at once, keeps the limit.
ChallengeIsBounded == \A k \in Tickets : tries[k] <= AttemptLimit

\* The counter in Redis stays within the limit, and so do the codes that were
\* checked (complete_mfa_challenge).
AttemptsAreBounded == TypeOK /\ ChallengeIsBounded

\* A recovery code opens one session, also when it is sent twice at once with two
\* tickets: the account row is locked until the code is marked consumed.
RecoveryCodeOpensOneSession == \A c \in Codes : opened[c] <= 1
=============================================================================
