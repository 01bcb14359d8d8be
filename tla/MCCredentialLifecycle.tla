------------------------ MODULE MCCredentialLifecycle ------------------------
(* CredentialLifecycle on a small instance: processes are interchangeable.  *)
EXTENDS CredentialLifecycle, TLC

Symmetry == Permutations(Procs)
=============================================================================
