--------------------------- MODULE MCMfaChallenge ----------------------------
(* Model values for MfaChallenge: the worker processes are interchangeable. *)
EXTENDS MfaChallenge, TLC

CONSTANTS w1, w2

MCSymmetry == Permutations({w1, w2})
=============================================================================
