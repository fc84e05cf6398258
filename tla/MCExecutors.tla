---------------------------- MODULE MCExecutors ----------------------------
(* Model-checking instance of Executors.  A reply may ask for as many      *)
(* calls as a request can contain, and for more.  The first two            *)
(* deployments of the project go to any targets; the third one, which      *)
(* leaves room for another target in between, goes to Railway, the only    *)
(* target where the project has something that outlives a deployment.      *)
EXTENDS Executors, TLC

ThirdIsRailway == \A r \in Run : r > 2 => platform'[r] \in {"none", "railway"}

MCExecutorsSpec ==
    ExecutorsInit /\ [][ExecutorsNext /\ ThirdIsRailway]_executorsVars /\ ExecutorsFairness
=============================================================================
