-------------------------- MODULE MCCollaboration --------------------------
(***************************************************************************)
(* Collaboration with three profiles, of which two may be members: see     *)
(* MCCollaboration.cfg.                                                    *)
(***************************************************************************)
EXTENDS Collaboration, TLC

CONSTANTS a, b, c

(* Mixes of the commands on the workspace's own files, by the rules they    *)
(* can break together (the last owner, the capacity, the archive), and one  *)
(* of those that share with them no more than the audit log.                *)
SomeMixes == {{"leave", "role", "archive"},
              {"join", "remove", "policy"},
              {"join", "archive"},
              {"archive", "send", "set", "delete"}}

Symmetry == Permutations(Profiles)
=============================================================================
