-------------------------- MODULE MfaChallengeProofs -------------------------
(***************************************************************************)
(* Proofs about MfaChallenge, for every number of workers and tickets and  *)
(* every attempt limit: a ticket is tried with at most AttemptLimit codes, *)
(* and a recovery code opens one session.                                  *)
(***************************************************************************)
EXTENDS MfaChallenge, FiniteSetTheorems, TLAPS

Call == [op : {"idle", "ticket", "verify", "commit", "confirm", "regenerate"},
         k : Tickets \cup {0}, v : 0..AttemptLimit,
         proof : Steps \cup Codes \cup {NoProof}, seen : SUBSET (1..MaxBatch)]

\* The requests that will check a code for a ticket, and those that were counted
\* for it and have not checked one yet.
Checking(k) == {w \in Workers : tx[w].op = "verify" /\ tx[w].k = k}
Counted(k) == {w \in Workers : tx[w].op \in {"ticket", "verify"} /\ tx[w].k = k}

CallsAreWellFormed ==
    \A w \in Workers :
        /\ tx[w].op \in {"ticket", "verify"} => tx[w].k \in Tickets
        /\ tx[w].op \in {"commit", "confirm", "regenerate"} => tx[w].proof \in Steps \cup Codes

\* A request that found the ticket alive is within the limit although others
\* delete the counter meanwhile; while the ticket lives the counter covers
\* everyone it let in.
AttemptsCover ==
    \A k \in Tickets :
        /\ tries[k] + Cardinality(Checking(k)) <= AttemptLimit
        /\ ticket[k] = "live" => tries[k] + Cardinality(Counted(k)) <= attempts[k]
        /\ ticket[k] = "none" => tries[k] = 0 /\ attempts[k] = 0 /\ Counted(k) = {}

\* One challenge at a time is between its check and its commit, and the code it
\* accepted is still unused; a code that opened a session never counts again.
CodesAreSpent ==
    /\ \A v, w \in Workers : tx[v].op = "commit" /\ tx[w].op = "commit" => v = w
    /\ \A w \in Workers : tx[w].op = "commit" /\ tx[w].proof \in Codes =>
          tx[w].proof[2] \in codes \ consumed
    /\ \A i \in 1..MaxBatch : opened[<<"code", i>>] # 0 =>
          opened[<<"code", i>>] = 1 /\ i <= batches /\ i \notin codes \ consumed

\* The inductive invariant.
IndInv ==
    /\ TypeOK
    /\ CallsAreWellFormed
    /\ AttemptsCover
    /\ CodesAreSpent

-----------------------------------------------------------------------------
(***************************************************************************)
(* Facts used by many actions                                              *)
(***************************************************************************)

LEMMA IdleIsCall == Idle \in Call
  BY BoundsAssumption DEF Idle, Call

\* Requests of finitely many workers can be counted.
LEMMA Counts ==
  ASSUME NEW k
  PROVE  /\ IsFiniteSet(Checking(k)) /\ Cardinality(Checking(k)) \in Nat
         /\ IsFiniteSet(Counted(k)) /\ Cardinality(Counted(k)) \in Nat
         /\ IsFiniteSet(Checking(k)') /\ Cardinality(Checking(k)') \in Nat
         /\ IsFiniteSet(Counted(k)') /\ Cardinality(Counted(k)') \in Nat
<1>1. /\ Checking(k) \subseteq Workers /\ Counted(k) \subseteq Workers
      /\ Checking(k)' \subseteq Workers /\ Counted(k)' \subseteq Workers
  BY DEF Checking, Counted
<1> QED
  BY <1>1, WorkersAssumption, FS_Subset, FS_CardinalityType

\* The request of worker w becomes c, and every other one stays.
LEMMA CallsMove ==
  ASSUME IndInv, NEW w \in Workers, NEW c \in Call, Goto(w, c)
  PROVE  /\ tx' \in [Workers -> Call] /\ tx'[w] = c
         /\ \A v \in Workers \ {w} : tx'[v] = tx[v]
  BY DEF IndInv, TypeOK, Goto, Call

LEMMA Returned ==
  ASSUME IndInv, NEW w \in Workers, Return(w)
  PROVE  /\ tx' \in [Workers -> Call] /\ tx'[w] = Idle /\ Idle.op = "idle"
         /\ \A v \in Workers \ {w} : tx'[v] = tx[v]
         /\ CallsAreWellFormed'
         /\ \A k \in Tickets : Checking(k)' = Checking(k) \ {w} /\ Counted(k)' = Counted(k) \ {w}
<1>1. /\ tx' \in [Workers -> Call] /\ tx'[w] = Idle
      /\ \A v \in Workers \ {w} : tx'[v] = tx[v]
  BY IdleIsCall, CallsMove DEF Return
<1>2. Idle.op = "idle"
  BY DEF Idle
<1>3. CallsAreWellFormed'
  BY <1>1, <1>2 DEF IndInv, CallsAreWellFormed
<1>4. \A k \in Tickets : Checking(k)' = Checking(k) \ {w} /\ Counted(k)' = Counted(k) \ {w}
  BY <1>1, <1>2 DEF Checking, Counted
<1> QED
  BY <1>1, <1>2, <1>3, <1>4

\* When nobody new is counted and no ticket comes to life, the limits hold on.
LEMMA NobodyNew ==
  ASSUME IndInv, UNCHANGED tries, tries \in [Tickets -> Nat], attempts \in [Tickets -> Nat],
         \A k \in Tickets : /\ Checking(k)' \subseteq Checking(k)
                            /\ Counted(k)' \subseteq Counted(k)
                            /\ ticket'[k] = "live" =>
                                 /\ ticket[k] = "live" \/ (ticket[k] = "none" /\ attempts[k] = 0)
                                 /\ attempts'[k] = attempts[k]
                            /\ ticket'[k] = "none" =>
                                 ticket[k] = "none" /\ attempts'[k] = attempts[k]
  PROVE  AttemptsCover'
<1> SUFFICES ASSUME NEW k \in Tickets
             PROVE  /\ tries[k] + Cardinality(Checking(k)') <= AttemptLimit
                    /\ ticket'[k] = "live" => tries[k] + Cardinality(Counted(k)') <= attempts'[k]
                    /\ ticket'[k] = "none" =>
                         tries[k] = 0 /\ attempts'[k] = 0 /\ Counted(k)' = {}
  BY DEF AttemptsCover
<1>1. /\ Cardinality(Checking(k)') <= Cardinality(Checking(k))
      /\ Cardinality(Counted(k)') <= Cardinality(Counted(k))
  BY Counts, FS_Subset
<1>2. /\ tries[k] + Cardinality(Checking(k)) <= AttemptLimit
      /\ ticket[k] = "live" => tries[k] + Cardinality(Counted(k)) <= attempts[k]
      /\ ticket[k] = "none" => tries[k] = 0 /\ attempts[k] = 0 /\ Counted(k) = {}
  BY DEF IndInv, AttemptsCover
<1>3. tries[k] \in Nat /\ attempts[k] \in Nat /\ AttemptLimit \in Nat
  BY BoundsAssumption
<1>4. Cardinality({}) = 0
  BY FS_EmptySet
<1>5. ticket[k] = "none" => tries[k] = 0 /\ attempts[k] = 0 /\ Counted(k)' = {}
  BY <1>2
<1> QED
  BY <1>1, <1>2, <1>3, <1>4, <1>5, Counts

\* When rows and clock stay and no request comes to its commit, codes stay spent.
LEMMA CodesKept ==
  ASSUME IndInv, UNCHANGED <<codes, consumed, batches, opened>>,
         \A v \in Workers : tx'[v] = tx[v] \/ tx'[v].op # "commit"
  PROVE  CodesAreSpent'
  BY DEF IndInv, CodesAreSpent

\* The types of what most actions leave alone.
LEMMA TypeKept ==
  ASSUME IndInv, tx' \in [Workers -> Call], UNCHANGED <<user, codes, consumed, batches, now, opened>>,
         ticket' \in [Tickets -> {"none", "live", "gone"}],
         attempts' \in [Tickets -> 0..AttemptLimit], tries' \in [Tickets -> Nat]
  PROVE  TypeOK'
  BY DEF IndInv, TypeOK, Call

-----------------------------------------------------------------------------
(***************************************************************************)
(* Every action preserves the invariant: tickets and attempts              *)
(***************************************************************************)

\* Login hands out a fresh ticket, a TTL ends one, a crash ends a request.
LEMMA TicketStep ==
  ASSUME IndInv, NEW k \in Tickets, CreateMfaChallenge(k) \/ ExpireTicket(k)
  PROVE  IndInv'
<1>1. /\ UNCHANGED <<user, codes, consumed, batches, attempts, now, tx, opened, tries>>
      /\ ticket' \in [Tickets -> {"none", "live", "gone"}]
      /\ \A j \in Tickets \ {k} : ticket'[j] = ticket[j]
      /\ ticket'[k] = "live" => ticket[k] = "none"
      /\ ticket'[k] # "none"
  BY DEF CreateMfaChallenge, ExpireTicket, IndInv, TypeOK
<1>2. \A j \in Tickets : Checking(j)' = Checking(j) /\ Counted(j)' = Counted(j)
  BY <1>1 DEF Checking, Counted
<1>3. attempts \in [Tickets -> Nat] /\ tries \in [Tickets -> Nat]
  BY BoundsAssumption DEF IndInv, TypeOK
<1>4. \A j \in Tickets : ticket[j] = "none" => attempts[j] = 0
  BY DEF IndInv, AttemptsCover
<1>5. AttemptsCover'
  BY <1>1, <1>2, <1>3, <1>4, NobodyNew
<1>6. TypeOK'
  BY <1>1, TypeKept DEF IndInv, TypeOK, Call
<1>7. CallsAreWellFormed' /\ CodesAreSpent'
  BY <1>1, CodesKept DEF IndInv, CallsAreWellFormed
<1> QED
  BY <1>5, <1>6, <1>7 DEF IndInv

\* DEL of both keys, with what the step does to requests left open.
LEMMA Deleted ==
  ASSUME IndInv, NEW k \in Tickets, DeleteTicket(k)
  PROVE  /\ ticket' \in [Tickets -> {"none", "live", "gone"}]
         /\ attempts' \in [Tickets -> 0..AttemptLimit]
         /\ ticket'[k] = "gone"
         /\ \A j \in Tickets \ {k} : ticket'[j] = ticket[j] /\ attempts'[j] = attempts[j]
<1>1. 0 \in 0..AttemptLimit
  BY BoundsAssumption
<1> QED
  BY <1>1 DEF DeleteTicket, IndInv, TypeOK

\* The attempt is counted before the ticket is read, so a request that is let in
\* is always covered by the counter.
LEMMA ChallengeStep ==
  ASSUME IndInv, NEW w \in Workers, NEW k \in Tickets, Challenge(w, k)
  PROVE  IndInv'
<1>1. /\ tx[w] = Idle /\ Idle.op = "idle" /\ ticket[k] # "none"
      /\ UNCHANGED <<user, codes, consumed, batches, now, opened, tries>>
      /\ attempts[k] \in Nat /\ AttemptLimit \in Nat
      /\ attempts \in [Tickets -> 0..AttemptLimit] /\ tries \in [Tickets -> Nat]
  BY BoundsAssumption DEF Challenge, Idle, IndInv, TypeOK
<1>2. CASE attempts[k] + 1 > AttemptLimit
  <2>1. DeleteTicket(k) /\ UNCHANGED tx
    BY <1>2 DEF Challenge
  <2>2. \A j \in Tickets : Checking(j)' = Checking(j) /\ Counted(j)' = Counted(j)
    BY <2>1 DEF Checking, Counted
  <2>3. attempts \in [Tickets -> Nat]
    BY <1>1
  <2>4. AttemptsCover'
    BY <1>1, <2>1, <2>2, <2>3, Deleted, NobodyNew
  <2>5. TypeOK'
    BY <1>1, <2>1, Deleted, TypeKept DEF IndInv, TypeOK, Call
  <2>6. CallsAreWellFormed' /\ CodesAreSpent'
    BY <1>1, <2>1, CodesKept DEF IndInv, CallsAreWellFormed
  <2> QED
    BY <2>4, <2>5, <2>6 DEF IndInv
<1>3. CASE ~(attempts[k] + 1 > AttemptLimit)
  <2> DEFINE c == [Idle EXCEPT !.op = "ticket", !.k = k, !.v = attempts[k] + 1]
  <2>1. Goto(w, c) /\ UNCHANGED ticket /\ attempts' = [attempts EXCEPT ![k] = @ + 1]
    BY <1>3 DEF Challenge
  <2>2. attempts[k] + 1 \in 0..AttemptLimit
    BY <1>1, <1>3
  <2>3. c \in Call /\ c.op = "ticket" /\ c.k = k
    BY <2>2, IdleIsCall DEF Call
  <2>4. /\ tx' \in [Workers -> Call] /\ tx'[w] = c
        /\ \A v \in Workers \ {w} : tx'[v] = tx[v]
    BY <2>1, <2>3, CallsMove
  <2> HIDE DEF c
  <2>5. /\ Counted(k)' = Counted(k) \cup {w} /\ w \notin Counted(k)
        /\ \A j \in Tickets \ {k} : Counted(j)' = Counted(j)
        /\ \A j \in Tickets : Checking(j)' = Checking(j)
    BY <1>1, <2>3, <2>4 DEF Counted, Checking
  <2>6. Cardinality(Counted(k)') = Cardinality(Counted(k)) + 1
    BY <2>5, Counts, FS_AddElement
  <2>7. /\ attempts' \in [Tickets -> 0..AttemptLimit] /\ attempts'[k] = attempts[k] + 1
        /\ \A j \in Tickets \ {k} : attempts'[j] = attempts[j]
    BY <1>1, <2>1, <2>2
  <2>8. AttemptsCover'
    <3>1. ASSUME NEW j \in Tickets \ {k}
          PROVE  /\ tries'[j] + Cardinality(Checking(j)') <= AttemptLimit
                 /\ ticket'[j] = "live" => tries'[j] + Cardinality(Counted(j)') <= attempts'[j]
                 /\ ticket'[j] = "none" => tries'[j] = 0 /\ attempts'[j] = 0 /\ Counted(j)' = {}
      BY <1>1, <2>1, <2>5, <2>7 DEF IndInv, AttemptsCover
    <3>2. /\ tries'[k] + Cardinality(Checking(k)') <= AttemptLimit
          /\ ticket'[k] = "live" => tries'[k] + Cardinality(Counted(k)') <= attempts'[k]
      <4>1. /\ tries[k] + Cardinality(Checking(k)) <= AttemptLimit
            /\ ticket[k] = "live" => tries[k] + Cardinality(Counted(k)) <= attempts[k]
        BY DEF IndInv, AttemptsCover
      <4> QED
        BY <1>1, <2>1, <2>5, <2>6, <2>7, <4>1, Counts
    <3> QED
      BY <1>1, <2>1, <3>1, <3>2 DEF AttemptsCover
  <2>9. TypeOK'
    BY <1>1, <2>1, <2>4, <2>7, TypeKept DEF IndInv, TypeOK
  <2>10. CallsAreWellFormed' /\ CodesAreSpent'
    BY <1>1, <2>3, <2>4, CodesKept DEF IndInv, CallsAreWellFormed
  <2> QED
    BY <2>8, <2>9, <2>10 DEF IndInv
<1> QED
  BY <1>2, <1>3

\* A request that only ends.
LEMMA ReturnStep ==
  ASSUME IndInv, NEW w \in Workers, Return(w),
         UNCHANGED <<user, codes, consumed, batches, now, opened, tries>>,
         UNCHANGED <<ticket, attempts>> \/ \E k \in Tickets : DeleteTicket(k)
  PROVE  IndInv'
<1>1. attempts \in [Tickets -> Nat] /\ tries \in [Tickets -> Nat]
  BY BoundsAssumption DEF IndInv, TypeOK
<1>2. /\ ticket' \in [Tickets -> {"none", "live", "gone"}]
      /\ attempts' \in [Tickets -> 0..AttemptLimit]
      /\ \A j \in Tickets : ticket'[j] # "gone" =>
           ticket'[j] = ticket[j] /\ attempts'[j] = attempts[j]
  BY Deleted DEF IndInv, TypeOK
<1>3. AttemptsCover'
  BY <1>1, <1>2, Returned, NobodyNew
<1>4. TypeOK'
  BY <1>1, <1>2, Returned, TypeKept
<1>5. CodesAreSpent'
  BY Returned, CodesKept
<1> QED
  BY <1>3, <1>4, <1>5, Returned DEF IndInv

\* A live ticket admits the request, and the counter had covered it.
LEMMA ReadTicketStep ==
  ASSUME IndInv, NEW w \in Workers, ReadTicket(w)
  PROVE  IndInv'
<1>1. /\ tx[w].op = "ticket" /\ tx[w].k \in Tickets /\ tx[w] \in Call
      /\ UNCHANGED <<user, codes, consumed, batches, ticket, attempts, now, opened, tries>>
      /\ attempts \in [Tickets -> 0..AttemptLimit] /\ tries \in [Tickets -> Nat]
      /\ AttemptLimit \in Nat
  BY BoundsAssumption DEF ReadTicket, IndInv, CallsAreWellFormed, TypeOK, Call
<1>2. PICK k \in Tickets : k = tx[w].k
  BY <1>1
<1>3. CASE ticket[k] = "live"
  <2> DEFINE c == [tx[w] EXCEPT !.op = "verify"]
  <2>1. Goto(w, c)
    BY <1>2, <1>3 DEF ReadTicket
  <2>2. c \in Call /\ c.op = "verify" /\ c.k = k
    BY <1>1, <1>2 DEF Call
  <2>3. /\ tx' \in [Workers -> Call] /\ tx'[w] = c
        /\ \A v \in Workers \ {w} : tx'[v] = tx[v]
    BY <2>1, <2>2, CallsMove
  <2> HIDE DEF c
  <2>4. /\ \A j \in Tickets : Counted(j)' = Counted(j)
        /\ \A j \in Tickets \ {k} : Checking(j)' = Checking(j)
        /\ Checking(k)' \subseteq Counted(k)
    BY <1>1, <1>2, <2>2, <2>3 DEF Counted, Checking
  <2>5. Cardinality(Checking(k)') <= Cardinality(Counted(k))
    BY <2>4, Counts, FS_Subset
  <2>6. AttemptsCover'
    <3>1. ASSUME NEW j \in Tickets \ {k}
          PROVE  /\ tries'[j] + Cardinality(Checking(j)') <= AttemptLimit
                 /\ ticket'[j] = "live" => tries'[j] + Cardinality(Counted(j)') <= attempts'[j]
                 /\ ticket'[j] = "none" => tries'[j] = 0 /\ attempts'[j] = 0 /\ Counted(j)' = {}
      BY <1>1, <2>4 DEF IndInv, AttemptsCover
    <3>2. /\ tries[k] + Cardinality(Counted(k)) <= attempts[k]
          /\ attempts[k] \in 0..AttemptLimit /\ tries[k] \in Nat
      BY <1>1, <1>3 DEF IndInv, AttemptsCover
    <3>3. tries[k] + Cardinality(Checking(k)') <= AttemptLimit
      BY <1>1, <2>5, <3>2, Counts
    <3> QED
      BY <1>1, <1>3, <2>4, <3>1, <3>2, <3>3 DEF AttemptsCover
  <2>7. TypeOK'
    BY <1>1, <2>3, TypeKept DEF IndInv, TypeOK
  <2>8. CallsAreWellFormed' /\ CodesAreSpent'
    BY <1>1, <2>2, <2>3, CodesKept DEF IndInv, CallsAreWellFormed
  <2> QED
    BY <2>6, <2>7, <2>8 DEF IndInv
<1>4. CASE ticket[k] # "live"
  BY <1>1, <1>2, <1>4, ReturnStep DEF ReadTicket
<1> QED
  BY <1>3, <1>4

\* A code is checked: the request leaves the ones still checking, and its try
\* takes its place in the budget.
LEMMA CodeChecked ==
  ASSUME IndInv, NEW w \in Workers, NEW k \in Tickets, w \in Checking(k),
         \A j \in Tickets : Checking(j)' = Checking(j) \ {w} /\ Counted(j)' = Counted(j) \ {w},
         tries' = [tries EXCEPT ![k] = @ + 1],
         UNCHANGED <<ticket, attempts>> \/ DeleteTicket(k)
  PROVE  AttemptsCover' /\ tries' \in [Tickets -> Nat]
<1>1. /\ attempts \in [Tickets -> 0..AttemptLimit] /\ tries \in [Tickets -> Nat]
      /\ AttemptLimit \in Nat
  BY BoundsAssumption DEF IndInv, TypeOK
<1>2. /\ tries' \in [Tickets -> Nat] /\ tries'[k] = tries[k] + 1
      /\ \A j \in Tickets \ {k} : tries'[j] = tries[j]
  BY <1>1
<1>3. w \in Counted(k) /\ \A j \in Tickets \ {k} : w \notin Counted(j) /\ w \notin Checking(j)
  BY DEF Checking, Counted
<1>4. /\ Cardinality(Checking(k)') = Cardinality(Checking(k)) - 1
      /\ Cardinality(Counted(k)') = Cardinality(Counted(k)) - 1
  BY <1>3, Counts, FS_RemoveElement
<1>5. \A j \in Tickets \ {k} : /\ Checking(j)' = Checking(j) /\ Counted(j)' = Counted(j)
                               /\ ticket'[j] = ticket[j] /\ attempts'[j] = attempts[j]
  <2>1. ASSUME NEW j \in Tickets \ {k}
        PROVE  Checking(j)' = Checking(j) /\ Counted(j)' = Counted(j)
    <3>1. Checking(j) \ {w} = Checking(j) /\ Counted(j) \ {w} = Counted(j)
      BY <1>3
    <3>2. Checking(j)' = Checking(j) \ {w} /\ Counted(j)' = Counted(j) \ {w}
      OBVIOUS
    <3> QED
      BY <3>1, <3>2
  <2>2. \A j \in Tickets \ {k} : ticket'[j] = ticket[j] /\ attempts'[j] = attempts[j]
    BY Deleted
  <2> QED
    BY <2>1, <2>2
<1>6. ASSUME NEW j \in Tickets \ {k}
      PROVE  /\ tries'[j] + Cardinality(Checking(j)') <= AttemptLimit
             /\ ticket'[j] = "live" => tries'[j] + Cardinality(Counted(j)') <= attempts'[j]
             /\ ticket'[j] = "none" => tries'[j] = 0 /\ attempts'[j] = 0 /\ Counted(j)' = {}
  BY <1>2, <1>5 DEF IndInv, AttemptsCover
<1>7. /\ tries[k] + Cardinality(Checking(k)) <= AttemptLimit
      /\ ticket[k] = "live" => tries[k] + Cardinality(Counted(k)) <= attempts[k]
      /\ ticket[k] # "none"
  BY <1>3 DEF IndInv, AttemptsCover
<1>8. tries'[k] + Cardinality(Checking(k)') <= AttemptLimit
  BY <1>1, <1>2, <1>4, <1>7, Counts
<1>9. ticket'[k] # "none" /\ (ticket'[k] = "live" => ticket[k] = "live" /\ attempts'[k] = attempts[k])
  BY <1>7, Deleted
<1>10. ticket'[k] = "live" => tries'[k] + Cardinality(Counted(k)') <= attempts'[k]
  BY <1>1, <1>2, <1>4, <1>7, <1>9, Counts
<1> QED
  BY <1>2, <1>6, <1>8, <1>9, <1>10 DEF AttemptsCover

-----------------------------------------------------------------------------
(***************************************************************************)
(* Every action preserves the invariant: the account row and the codes     *)
(***************************************************************************)

\* Accepting a code under the row lock: nobody else is at its commit.
LEMMA VerifyStep ==
  ASSUME IndInv, NEW w \in Workers, Verify(w)
  PROVE  IndInv'
<1>1. /\ tx[w].op = "verify" /\ tx[w].k \in Tickets /\ tx[w] \in Call
      /\ UNCHANGED <<user, codes, consumed, batches, now, opened>>
      /\ \A v \in Workers : tx[v].op # "commit"
  BY DEF Verify, UserLocked, IndInv, CallsAreWellFormed, TypeOK, Call
<1>2. PICK k \in Tickets : k = tx[w].k
  BY <1>1
<1>3. w \in Checking(k)
  BY <1>1, <1>2 DEF Checking
<1>4. ticket \in [Tickets -> {"none", "live", "gone"}] /\ attempts \in [Tickets -> 0..AttemptLimit]
  BY DEF IndInv, TypeOK
<1>5. CASE Return(w) /\ UNCHANGED <<ticket, attempts, tries>>
  BY <1>1, <1>5, ReturnStep
<1>6. CASE /\ Return(w) /\ tries' = [tries EXCEPT ![k] = @ + 1]
           /\ UNCHANGED <<ticket, attempts>> \/ DeleteTicket(k)
  <2>1. AttemptsCover' /\ tries' \in [Tickets -> Nat]
    BY <1>3, <1>6, Returned, CodeChecked
  <2>2. TypeOK'
    BY <1>1, <1>4, <1>6, <2>1, Returned, Deleted, TypeKept
  <2>3. CodesAreSpent'
    BY <1>1, <1>6, Returned, CodesKept
  <2> QED
    BY <1>6, <2>1, <2>2, <2>3, Returned DEF IndInv
<1>7. CASE /\ \E proof \in Steps \cup Codes :
                /\ Accepts(proof)
                /\ Goto(w, [tx[w] EXCEPT !.op = "commit", !.proof = proof])
           /\ DeleteTicket(k)
           /\ tries' = [tries EXCEPT ![k] = @ + 1]
  <2>1. PICK proof \in Steps \cup Codes :
          Accepts(proof) /\ Goto(w, [tx[w] EXCEPT !.op = "commit", !.proof = proof])
    BY <1>7
  <2> DEFINE c == [tx[w] EXCEPT !.op = "commit", !.proof = proof]
  <2>2. c \in Call /\ c.op = "commit" /\ c.proof = proof
    BY <1>1 DEF Call
  <2>3. /\ tx' \in [Workers -> Call] /\ tx'[w] = c
        /\ \A v \in Workers \ {w} : tx'[v] = tx[v]
    BY <2>1, <2>2, CallsMove
  <2> HIDE DEF c
  <2>4. \A j \in Tickets : Checking(j)' = Checking(j) \ {w} /\ Counted(j)' = Counted(j) \ {w}
    BY <2>2, <2>3 DEF Checking, Counted
  <2>5. AttemptsCover' /\ tries' \in [Tickets -> Nat]
    BY <1>3, <1>7, <2>4, CodeChecked
  <2>6. TypeOK'
    BY <1>1, <1>7, <2>3, <2>5, Deleted, TypeKept
  <2>7. CallsAreWellFormed'
    BY <2>2, <2>3 DEF IndInv, CallsAreWellFormed
  <2>8. proof \in Codes => proof[2] \in codes \ consumed
    BY <2>1 DEF Accepts, Codes, Steps
  <2>9. CodesAreSpent'
    BY <1>1, <2>2, <2>3, <2>8 DEF IndInv, CodesAreSpent
  <2> QED
    BY <2>5, <2>6, <2>7, <2>9 DEF IndInv
<1> QED
  BY <1>2, <1>5, <1>6, <1>7 DEF Verify

\* Steps that leave tickets, counters and histories alone keep the limits.
LEMMA TicketsKept ==
  ASSUME IndInv, UNCHANGED <<ticket, attempts, tries>>,
         \A j \in Tickets : Checking(j)' \subseteq Checking(j) /\ Counted(j)' \subseteq Counted(j)
  PROVE  AttemptsCover'
<1>1. attempts \in [Tickets -> Nat] /\ tries \in [Tickets -> Nat]
  BY BoundsAssumption DEF IndInv, TypeOK
<1> QED
  BY <1>1, NobodyNew

\* The commit spends the code before it releases the row.
LEMMA CommitChallengeStep ==
  ASSUME IndInv, NEW w \in Workers, CommitChallenge(w)
  PROVE  IndInv'
<1>1. /\ tx[w].op = "commit" /\ tx[w].proof \in Steps \cup Codes /\ Return(w)
      /\ UNCHANGED <<codes, batches, ticket, attempts, now, tries>>
      /\ tx[w].proof \in Codes => tx[w].proof[2] \in codes \ consumed
      /\ \A v \in Workers \ {w} : tx[v].op # "commit"
  BY DEF CommitChallenge, IndInv, CallsAreWellFormed, CodesAreSpent
<1>2. PICK proof \in Steps \cup Codes : proof = tx[w].proof
  BY <1>1
<1>3. /\ user' = IF proof \in Steps THEN [user EXCEPT !.step = proof[2]] ELSE user
      /\ consumed' = IF proof \in Codes THEN consumed \cup {proof[2]} ELSE consumed
      /\ opened' = [opened EXCEPT ![proof] = @ + 1]
  BY <1>1, <1>2 DEF CommitChallenge
<1>4. AttemptsCover'
  BY <1>1, Returned, TicketsKept
<1>5. user' \in UserRows
  <2>1. proof \in Steps => proof[2] \in 0..MaxStep
    BY DEF Steps
  <2> QED
    BY <1>3, <2>1 DEF IndInv, TypeOK, UserRows
<1>6. consumed' \subseteq codes'
  BY <1>1, <1>2, <1>3 DEF IndInv, TypeOK
<1>7. /\ opened' \in [Steps \cup Codes -> Nat] /\ opened'[proof] = opened[proof] + 1
      /\ \A p \in (Steps \cup Codes) \ {proof} : opened'[p] = opened[p]
  BY <1>3 DEF IndInv, TypeOK
<1>8. TypeOK'
  BY <1>1, <1>5, <1>6, <1>7, Returned DEF IndInv, TypeOK, Call
<1>9. ASSUME NEW i \in 1..MaxBatch, opened'[<<"code", i>>] # 0
      PROVE  opened'[<<"code", i>>] = 1 /\ i <= batches' /\ i \notin codes' \ consumed'
  <2>1. <<"code", i>> \in Codes /\ <<"code", i>>[2] = i
    BY DEF Codes
  <2>2. CASE proof = <<"code", i>>
    <3>1. i \in codes \ consumed
      BY <1>1, <1>2, <2>1, <2>2
    <3>2. opened[<<"code", i>>] = 0 /\ i <= batches
      BY <3>1 DEF IndInv, CodesAreSpent, TypeOK
    <3> QED
      BY <1>1, <1>3, <1>7, <2>1, <2>2, <3>2
  <2>3. CASE proof # <<"code", i>>
    <3>1. opened'[<<"code", i>>] = opened[<<"code", i>>]
      BY <1>7, <2>1, <2>3
    <3> QED
      BY <1>1, <1>3, <1>9, <3>1 DEF IndInv, CodesAreSpent
  <2> QED
    BY <2>2, <2>3
<1>10. CodesAreSpent'
  BY <1>1, <1>9, Returned DEF CodesAreSpent
<1> QED
  BY <1>1, <1>4, <1>8, <1>10, Returned DEF IndInv

\* setup, the clock and the operator's reset run outside every request; only
\* the reset deletes codes, and it waits for the row.
LEMMA OutsideStep ==
  ASSUME IndInv, ResetMfa \/ Tick \/ (\E w \in Workers : Setup(w)) \/ UNCHANGED vars
  PROVE  IndInv'
<1>1. UNCHANGED <<batches, ticket, attempts, tx, opened, tries>>
  BY DEF ResetMfa, Tick, Setup, vars
<1>2. user' \in UserRows /\ now' \in 1..MaxStep /\ consumed' \subseteq codes' /\ codes' \subseteq codes
  <2>1. CASE ResetMfa
    BY <2>1, BoundsAssumption DEF ResetMfa, IndInv, TypeOK, UserRows
  <2>2. CASE Tick
    BY <2>2, BoundsAssumption DEF Tick, IndInv, TypeOK
  <2>3. ASSUME NEW w \in Workers, Setup(w)
        PROVE  /\ user' \in UserRows /\ now' \in 1..MaxStep
               /\ consumed' \subseteq codes' /\ codes' \subseteq codes
    BY <2>3 DEF Setup, IndInv, TypeOK, UserRows
  <2>4. CASE UNCHANGED vars
    BY <2>4 DEF vars, IndInv, TypeOK
  <2> QED
    BY <2>1, <2>2, <2>3, <2>4
<1>3. TypeOK'
  BY <1>1, <1>2 DEF IndInv, TypeOK
<1>4. CallsAreWellFormed'
  BY <1>1 DEF IndInv, CallsAreWellFormed
<1>5. AttemptsCover'
  BY <1>1, TicketsKept DEF Checking, Counted
<1>6. CodesAreSpent'
  <2>1. CASE ResetMfa
    <3>1. \A w \in Workers : tx[w].op # "commit"
      BY <2>1 DEF ResetMfa, UserLocked
    <3> QED
      BY <1>1, <2>1, <3>1 DEF ResetMfa, IndInv, CodesAreSpent
  <2>2. CASE UNCHANGED <<codes, consumed>>
    BY <1>1, <2>2, CodesKept
  <2> QED
    BY <2>1, <2>2 DEF Tick, Setup, vars
<1> QED
  BY <1>3, <1>4, <1>5, <1>6 DEF IndInv

LEMMA ReadForCodesStep ==
  ASSUME IndInv, NEW w \in Workers, ReadForCodes(w)
  PROVE  IndInv'
<1> DEFINE C(op, proof) == [Idle EXCEPT !.op = op, !.proof = proof, !.seen = codes]
<1>1. UNCHANGED <<user, codes, consumed, batches, ticket, attempts, now, opened, tries>>
  BY DEF ReadForCodes
<1>2. <<"step", now>> \in Steps
  BY DEF Steps, IndInv, TypeOK
<1>3. PICK op \in {"confirm", "regenerate"}, proof \in Steps \cup Codes : Goto(w, C(op, proof))
  BY <1>2 DEF ReadForCodes
<1>4. codes \in SUBSET (1..MaxBatch)
  BY BoundsAssumption DEF IndInv, TypeOK
<1>5. C(op, proof) \in Call /\ C(op, proof).op = op /\ C(op, proof).proof = proof
  BY <1>4, IdleIsCall DEF Call
<1>6. /\ tx' \in [Workers -> Call] /\ tx'[w] = C(op, proof)
      /\ \A v \in Workers \ {w} : tx'[v] = tx[v]
  BY <1>3, <1>5, CallsMove
<1> HIDE DEF C
<1>7. AttemptsCover'
  <2>1. \A j \in Tickets : Checking(j)' \subseteq Checking(j) /\ Counted(j)' \subseteq Counted(j)
    BY <1>5, <1>6 DEF Checking, Counted
  <2> QED
    BY <1>1, <2>1, TicketsKept
<1>8. TypeOK'
  BY <1>1, <1>6, TypeKept DEF IndInv, TypeOK
<1>9. CallsAreWellFormed'
  BY <1>5, <1>6 DEF IndInv, CallsAreWellFormed
<1>10. CodesAreSpent'
  BY <1>1, <1>5, <1>6, CodesKept
<1> QED
  BY <1>7, <1>8, <1>9, <1>10 DEF IndInv

\* A new batch has new codes, and what was spent of the old ones stays spent.
LEMMA WriteCodesStep ==
  ASSUME IndInv, NEW w \in Workers, WriteCodes(w)
  PROVE  IndInv'
<1>1. /\ tx[w].op \in {"confirm", "regenerate"} /\ tx[w].proof \in Steps \cup Codes
      /\ Return(w) /\ UNCHANGED <<ticket, attempts, now, opened, tries>>
      /\ \A v \in Workers : tx[v].op # "commit"
  BY DEF WriteCodes, UserLocked, IndInv, CallsAreWellFormed
<1>2. CASE UNCHANGED <<user, codes, consumed, batches>>
  BY <1>1, <1>2, ReturnStep
<1>3. CASE ~(tx[w].proof \in Codes /\ tx[w].proof[2] \notin codes)
  <2>1. PICK gone : codes' = (codes \ gone) \cup {batches'}
    BY <1>3 DEF WriteCodes
  <2>2. /\ batches < MaxBatch /\ batches' = batches + 1
        /\ consumed' = consumed \cap codes'
        /\ user' = [user EXCEPT !.step = IF tx[w].proof \in Steps THEN tx[w].proof[2] ELSE @,
                                !.mfa = @ \/ tx[w].op = "confirm",
                                !.pending = @ /\ ~(tx[w].op = "confirm")]
    BY <1>3 DEF WriteCodes
  <2>3. /\ batches \in Nat /\ batches' \in 0..MaxBatch
        /\ codes' \subseteq 1..batches' /\ consumed' \subseteq codes'
    BY <2>1, <2>2, BoundsAssumption DEF IndInv, TypeOK
  <2>4. user' \in UserRows
    <3>1. tx[w].proof \in Steps => tx[w].proof[2] \in 0..MaxStep
      BY DEF Steps
    <3>2. user.step \in 0..MaxStep /\ user.mfa \in BOOLEAN /\ user.pending \in BOOLEAN
      BY DEF IndInv, TypeOK, UserRows
    <3>3. PICK step \in 0..MaxStep, mfa \in BOOLEAN, pending \in BOOLEAN :
            user' = [user EXCEPT !.step = step, !.mfa = mfa, !.pending = pending]
      BY <2>2, <3>1, <3>2, Zenon
    <3>4. user \in [mfa : BOOLEAN, pending : BOOLEAN, step : 0..MaxStep]
      BY DEF IndInv, TypeOK, UserRows
    <3> QED
      BY <3>3, <3>4 DEF UserRows
  <2>5. TypeOK'
    BY <1>1, <2>3, <2>4, Returned DEF IndInv, TypeOK, Call
  <2>6. AttemptsCover'
    BY <1>1, Returned, TicketsKept
  <2>7. ASSUME NEW i \in 1..MaxBatch, opened[<<"code", i>>] # 0
        PROVE  opened[<<"code", i>>] = 1 /\ i <= batches' /\ i \notin codes' \ consumed'
    <3>1. opened[<<"code", i>>] = 1 /\ i <= batches /\ i \notin codes \ consumed
      BY <2>7 DEF IndInv, CodesAreSpent
    <3>2. i # batches' /\ i <= batches'
      BY <2>2, <2>3, <3>1
    <3> QED
      BY <2>1, <2>2, <3>1, <3>2
  <2>8. CodesAreSpent'
    BY <1>1, <2>7, Returned DEF CodesAreSpent
  <2> QED
    BY <1>1, <2>5, <2>6, <2>8, Returned DEF IndInv
<1> QED
  BY <1>2, <1>3 DEF WriteCodes

-----------------------------------------------------------------------------
(***************************************************************************)
(* The theorems                                                            *)
(***************************************************************************)

LEMMA InitInvariant == Init => IndInv
<1> SUFFICES ASSUME Init PROVE IndInv
  OBVIOUS
<1>1. tx \in [Workers -> Call] /\ \A w \in Workers : tx[w] = Idle
  BY IdleIsCall DEF Init
<1>2. Idle.op = "idle"
  BY DEF Idle
<1>3. TypeOK
  <2>1. PICK mfa \in BOOLEAN : /\ user = [mfa |-> mfa, pending |-> FALSE, step |-> 0]
                               /\ batches = IF mfa THEN 1 ELSE 0
                               /\ codes = 1..batches
    BY DEF Init
  <2>2. user \in UserRows
    BY <2>1, BoundsAssumption DEF UserRows
  <2>3. batches \in 0..MaxBatch /\ consumed \subseteq codes /\ codes \subseteq 1..batches
    BY <2>1, BoundsAssumption DEF Init
  <2>4. now \in 1..MaxStep /\ attempts \in [Tickets -> 0..AttemptLimit]
    BY BoundsAssumption DEF Init
  <2> QED
    BY <1>1, <2>2, <2>3, <2>4 DEF Init, TypeOK, Call
<1>4. CallsAreWellFormed
  BY <1>1, <1>2 DEF CallsAreWellFormed
<1>5. AttemptsCover
  <2>1. \A k \in Tickets : Checking(k) = {} /\ Counted(k) = {}
    BY <1>1, <1>2 DEF Checking, Counted
  <2>2. \A k \in Tickets : tries[k] = 0 /\ attempts[k] = 0 /\ ticket[k] = "none"
    BY DEF Init
  <2>3. Cardinality({}) = 0
    BY FS_EmptySet
  <2>4. ASSUME NEW k \in Tickets
        PROVE  tries[k] + Cardinality(Checking(k)) <= AttemptLimit
    BY <2>1, <2>2, <2>3, BoundsAssumption
  <2> QED
    BY <2>1, <2>2, <2>4 DEF AttemptsCover
<1>6. CodesAreSpent
  <2>1. \A i \in 1..MaxBatch : opened[<<"code", i>>] = 0
    BY DEF Init, Codes
  <2> QED
    BY <1>1, <1>2, <2>1 DEF CodesAreSpent
<1> QED
  BY <1>3, <1>4, <1>5, <1>6 DEF IndInv

LEMMA StepInvariant == IndInv /\ [Next]_vars => IndInv'
<1> SUFFICES ASSUME IndInv, [Next]_vars PROVE IndInv'
  OBVIOUS
<1>1. ASSUME NEW w \in Workers, Crash(w)
      PROVE  IndInv'
  BY <1>1, ReturnStep DEF Crash
<1> QED
  BY <1>1, ReadTicketStep, VerifyStep, CommitChallengeStep, ReadForCodesStep, WriteCodesStep,
     ChallengeStep, TicketStep, OutsideStep DEF Next

\* The inductive invariant holds in every reachable state.
THEOREM Invariant == Spec => []IndInv
  BY InitInvariant, StepInvariant, PTL DEF Spec

\* However many requests for one ticket overlap in however many workers, it is
\* tried with at most AttemptLimit codes (complete_mfa_challenge).
THEOREM AttemptsBounded == Spec => []AttemptsAreBounded
<1>1. IndInv => AttemptsAreBounded
  <2> SUFFICES ASSUME IndInv, NEW k \in Tickets PROVE tries[k] <= AttemptLimit
    BY DEF IndInv, AttemptsAreBounded, ChallengeIsBounded
  <2>1. tries[k] + Cardinality(Checking(k)) <= AttemptLimit /\ tries[k] \in Nat
    BY DEF IndInv, AttemptsCover, TypeOK
  <2> QED
    BY <2>1, Counts, BoundsAssumption
<1> QED
  BY <1>1, Invariant, PTL

\* A recovery code opens one session, however many tickets it is sent with at
\* once and whatever confirm, regenerate and reset_mfa do to the codes.
THEOREM CodeOpensOneSession == Spec => []RecoveryCodeOpensOneSession
<1>1. IndInv => RecoveryCodeOpensOneSession
  <2> SUFFICES ASSUME IndInv, NEW c \in Codes PROVE opened[c] <= 1
    BY DEF RecoveryCodeOpensOneSession
  <2>1. PICK i \in 1..MaxBatch : c = <<"code", i>>
    BY DEF Codes
  <2>2. opened[c] = 0 \/ opened[c] = 1
    BY <2>1 DEF IndInv, CodesAreSpent
  <2> QED
    BY <2>2
<1> QED
  BY <1>1, Invariant, PTL
=============================================================================
