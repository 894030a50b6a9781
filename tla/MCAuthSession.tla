---------------------------- MODULE MCAuthSession ----------------------------
(* Model values for AuthSession: workers and session identifiers are       *)
(* interchangeable.                                                        *)
EXTENDS AuthSession, TLC

CONSTANTS w1, w2, s1, s2

MCSymmetry == Permutations({w1, w2}) \cup Permutations({s1, s2})
=============================================================================
