-------------------------- MODULE MCTenantIdentity ---------------------------
(* Model values for TenantIdentity. *)
EXTENDS TenantIdentity, TLC

CONSTANTS w1, w2, t1, t2, c1, c2
=============================================================================
