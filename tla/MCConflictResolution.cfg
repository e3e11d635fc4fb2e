\* Commands that overlap, and a process that dies while it saves.
SPECIFICATION Spec
CONSTANTS
    Users = {u1, u2}
    Nobody = Nobody
    MaxCrashes = 1
INVARIANTS
    FirstChoiceStands
SYMMETRY UserSymmetry
