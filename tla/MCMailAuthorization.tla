-------------------------- MODULE MCMailAuthorization --------------------------
(* Two calls, two flows and the credentials they may obtain.                *)
EXTENDS MailAuthorization, TLC

Symmetry == Permutations(Calls) \cup Permutations(Credentials) \cup Permutations(Flows)
================================================================================
