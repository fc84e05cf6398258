---------------------------- MODULE MCAutoDeploy ----------------------------
(* Model-checking instance of AutoDeploy: a user, a project, a push after  *)
(* the first commit and two calls of deploy(), one of which creates what   *)
(* the worker then watches.  For safety the calls are interchangeable.     *)
(* Symmetry is not sound for liveness: there c1 is the user's and c2 the   *)
(* worker's, so that the worker meets every state of a deployment that is  *)
(* not its own, and a deployment of its own.                               *)
EXTENDS AutoDeploy, TLC

CONSTANTS c1, c2

MCKey == Kind \X Project

Symmetry == Permutations(Call)

OneEach == phase'[c2] # "idle" /\ phase[c2] = "idle" => worker = "announcing"

MCAutoSpec == AutoInit /\ [][AutoNext /\ OneEach]_autoVars /\ AutoFairness
=============================================================================
