------------------------ MODULE MCSignatureWorkflow ------------------------
(***************************************************************************)
(* Instances of SignatureWorkflow for TLC.                                 *)
(***************************************************************************)
EXTENDS SignatureWorkflow, TLC

\* Workers are interchangeable.
WorkerSymmetry == Permutations(Workers)

=============================================================================
