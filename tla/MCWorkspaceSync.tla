---------------------------- MODULE MCWorkspaceSync ----------------------------
(* Small instances of WorkspaceSync for TLC. *)
EXTENDS WorkspaceSync, TLC

CONSTANTS d1, d2, s1, s2, r1

DeviceRank == d1 :> 1 @@ d2 :> 2
OneSyncEach == s1 :> d1 @@ s2 :> d2

\* Two writes of a profile, a unit of time apart, and one of an action.
ThreeWrites ==
    {[res |-> r1, type |-> "profile.updated", ts |-> 1],
     [res |-> r1, type |-> "profile.updated", ts |-> 2],
     [res |-> r1, type |-> "action.updated", ts |-> 2]}

OneWrite == {[res |-> r1, type |-> "profile.updated", ts |-> 1]}

Categories ==
    "profile.updated" :> "profile" @@ "action.updated" :> "action"
=============================================================================
