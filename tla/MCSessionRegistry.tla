------------------------ MODULE MCSessionRegistry ------------------------
(* Small instances of SessionRegistry for TLC. *)
EXTENDS SessionRegistry

CONSTANTS p1, p2, t1, t2, r1, s1, s2

\* One process: two callers and the reaper share one mutex.
OneProcOf == [t \in Threads |-> p1]

\* Two processes: t1 in one, t2 and the reaper in the other.
TwoProcOf == [t \in Threads |-> IF t = t1 THEN p1 ELSE p2]
=============================================================================
