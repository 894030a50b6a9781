------------------------ MODULE MCAccountProvisioning ------------------------
(* Model values for AccountProvisioning. *)
EXTENDS AccountProvisioning, TLC

CONSTANTS a1, a2, c1, ann, bob, cpf
=============================================================================
