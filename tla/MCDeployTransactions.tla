------------------------ MODULE MCDeployTransactions ------------------------
(* Model-checking instance of DeployTransactions.  The target keys are     *)
(* exactly the pairs deploy() builds.                                      *)
EXTENDS DeployTransactions, TLC

MCKey == Kind \X Call

Symmetry == Permutations(Call) \cup Permutations(Kind)
=============================================================================
