-------------------------- MODULE RequestLifecycle --------------------------
(***************************************************************************)
(* What a signature request promises to those who look at it: who is       *)
(* expected to sign, who has signed, and a status that follows from that.  *)
(* No workers, locks, links, storage or billing: every step is atomic.     *)
(* SignatureWorkflow implements it.                                        *)
(***************************************************************************)
CONSTANTS Requests, Users

VARIABLES
  status,     \* where each request is in its life
  expected,   \* the users each request needs a signature of
  signed      \* the users who have signed it

lifecycleVars == <<status, expected, signed>>

Init ==
  /\ status = [r \in Requests |-> "absent"]
  /\ expected = [r \in Requests |-> {}]
  /\ signed = [r \in Requests |-> {}]

Create(r) ==
  /\ status[r] = "absent"
  /\ status' = [status EXCEPT ![r] = "draft"]
  /\ UNCHANGED <<expected, signed>>

\* Signers are named before the request opens, never later.
Expect(r, u) ==
  /\ status[r] = "draft"
  /\ expected' = [expected EXCEPT ![r] = @ \cup {u}]
  /\ UNCHANGED <<status, signed>>

Open(r) ==
  /\ status[r] = "draft"
  /\ expected[r] # {}
  /\ status' = [status EXCEPT ![r] = "open"]
  /\ UNCHANGED <<expected, signed>>

\* The last signature completes the request in the same step.
Sign(r, u) ==
  /\ status[r] = "open"
  /\ u \in expected[r] \ signed[r]
  /\ signed' = [signed EXCEPT ![r] = @ \cup {u}]
  /\ status' = [status EXCEPT ![r] =
                  IF signed'[r] = expected[r] THEN "completed" ELSE "open"]
  /\ UNCHANGED expected

\* Cancelling one request, or with its document all that are active.
Cancel(group) ==
  /\ \A r \in group : status[r] \in {"draft", "open"}
  /\ status' = [r \in Requests |-> IF r \in group THEN "cancelled" ELSE status[r]]
  /\ UNCHANGED <<expected, signed>>

Next ==
  \/ \E r \in Requests : Create(r) \/ Open(r)
  \/ \E r \in Requests, u \in Users : Expect(r, u) \/ Sign(r, u)
  \/ \E group \in SUBSET Requests : Cancel(group)

Spec == Init /\ [][Next]_lifecycleVars

=============================================================================
