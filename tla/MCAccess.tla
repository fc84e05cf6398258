------------------------------ MODULE MCAccess ------------------------------
(* Model-checking instance of Access: a super admin and people who are     *)
(* interchangeable.                                                        *)
EXTENDS Access, TLC

CONSTANTS p1, p2

Symmetry == Permutations({p1, p2})

(* A bound: super admins have no username, so that the usernames there are *)
(* go to the others.                                                       *)
BossesAreUnnamed == \A b \in Boss : holds[b] = NoName
=============================================================================
