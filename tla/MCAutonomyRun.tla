----------------------------- MODULE MCAutonomyRun -----------------------------
(* Two runs of a subject, each on a connection of its own.                  *)
EXTENDS AutonomyRun, TLC

CONSTANTS r1, r2, a1, a2, bad, fine

OwnAccounts == r1 :> a1 @@ r2 :> a2
================================================================================
