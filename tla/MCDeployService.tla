-------------------------- MODULE MCDeployService --------------------------
(* Model-checking instance of DeployService.  The target keys are exactly  *)
(* the pairs deploy() builds.                                              *)
EXTENDS DeployService, TLC

MCKey == Kind \X Project

Symmetry == Permutations(Project) \cup Permutations(Call)
=============================================================================
