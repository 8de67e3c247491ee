----------------------------- MODULE MCSession -----------------------------
(* Instances of the sessions for TLC: the bounds are in the .cfg files.    *)
EXTENDS SessionProperties, TLC

CONSTANTS c1, c2

(* c1 submits plans and has them carried out, c2 is the command line.      *)
MCUses == c1 :> {"read", "submit-plan", "rollback"} @@ c2 :> {"read", "preview-rollback"}
MCRequests == c1 :> 3 @@ c2 :> 1

(* Enough for a plan and its rollback, and for a previewed one. *)
MCFewRequests == c1 :> 2 @@ c2 :> 1
=============================================================================
