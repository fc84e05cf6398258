----------------------------- MODULE MCReleases -----------------------------
(* Model-checking instance of Releases: interchangeable scripts.           *)
EXTENDS Releases, TLC

Symmetry == Permutations(Script)
=============================================================================
