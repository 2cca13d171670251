-------------------------- MODULE MCMailConnection --------------------------
(* Small instances of MailConnection for TLC. *)
EXTENDS MailConnection, TLC

CONSTANTS c1, c2, k1, k2, m1, r1, r2

Symmetry == Permutations(Calls) \cup Permutations(Credentials) \cup Permutations(Watches)
=============================================================================
