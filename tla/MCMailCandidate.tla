----------------------------- MODULE MCMailCandidate -----------------------------
(* Concurrent requests about one task and one piece of knowledge.           *)
EXTENDS MailCandidate, TLC

Symmetry == Permutations(Callers) \cup Permutations(Candidates \ Knowledge)
================================================================================
