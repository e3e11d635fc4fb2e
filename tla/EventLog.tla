------------------------------- MODULE EventLog -------------------------------
(***************************************************************************)
(* What a workspace's event store promises: a log whose versions are       *)
(* published one after the other and never change, and devices that catch  *)
(* up by asking for everything after the last version they know.           *)
(*                                                                         *)
(* A version usually is one event.  It also holds the events of Store      *)
(* calls that failed after they had written their line, and it is empty    *)
(* when its own line was spoilt by such a call.                            *)
(***************************************************************************)
EXTENDS Naturals, Sequences

CONSTANTS
    Lines,   \* the events that may be stored
    Devices  \* the devices that catch up

VARIABLES
    versions,  \* versions[v]: the events readers see with version v
    known,     \* known[d]: events device d has received
    upTo       \* upTo[d]: the last version device d asked for

vars == <<versions, known, upTo>>

Init ==
    /\ versions = <<>>
    /\ known = [d \in Devices |-> {}]
    /\ upTo = [d \in Devices |-> 0]

\* A version is published; no event is in two versions.
Store(S) ==
    /\ \A v \in 1..Len(versions) : versions[v] \cap S = {}
    /\ versions' = Append(versions, S)
    /\ UNCHANGED <<known, upTo>>

\* A device receives every event after its last version, up to some version
\* that existed when it asked, and nothing else.
CatchUp(d) ==
    \E v \in upTo[d]..Len(versions) :
        /\ known' = [known EXCEPT ![d] = @ \cup UNION {versions[u] : u \in upTo[d] + 1 .. v}]
        /\ upTo' = [upTo EXCEPT ![d] = v]
        /\ UNCHANGED versions

Next == (\E S \in SUBSET Lines : Store(S)) \/ (\E d \in Devices : CatchUp(d))

Spec == Init /\ [][Next]_vars
=============================================================================
