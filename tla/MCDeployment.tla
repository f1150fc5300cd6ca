----------------------------- MODULE MCDeployment -----------------------------
(***************************************************************************)
(* An instance of Deployment: the second release brings two migrations,    *)
(* one of which sorts before a file already applied, and two data tasks.   *)
(***************************************************************************)
EXTENDS Deployment, TLC

CONSTANTS d1, d2

MCFiles == <<{2}, {1, 2, 3}>>
MCTasks == <<{1}, {1, 2, 3}>>
=============================================================================
