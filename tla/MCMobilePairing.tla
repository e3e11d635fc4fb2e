-------------------------- MODULE MCMobilePairing ---------------------------
(* Two pair processes at a time, or one after the other. *)
EXTENDS MobilePairing

CONSTANTS s1, s2

OneServer   == {s1}
TwoServers  == {s1, s2}
MCApprovals == BOOLEAN

\* Without approval the limit counts: three devices, so that two overlapping
\* pairings can exceed it.  With approval, two devices and one command more.
ThreeOrTwo == [a \in BOOLEAN |-> IF a THEN 2 ELSE 3]
OneOrTwo   == [a \in BOOLEAN |-> IF a THEN 2 ELSE 1]
Two        == [a \in BOOLEAN |-> 2]
=============================================================================
