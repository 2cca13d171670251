------------------------------- MODULE MCMailRule -------------------------------
(* Concurrent batches over two messages.                                    *)
EXTENDS MailRule, TLC

Symmetry == Permutations(Callers) \cup Permutations(Messages)
================================================================================
