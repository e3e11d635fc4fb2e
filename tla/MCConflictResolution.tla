-------------------------- MODULE MCConflictResolution --------------------------
(* Small instances of ConflictResolution for TLC. *)
EXTENDS ConflictResolution, TLC

UserSymmetry == Permutations(Users)
=============================================================================
