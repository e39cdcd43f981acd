---------------------------- MODULE MCMoveRepos -----------------------------
(* move_repos_into_place called several times on one day, so that the   *)
(* names of earlier calls are there when a later one probes for its own. *)
EXTENDS MoveRepos
=============================================================================
