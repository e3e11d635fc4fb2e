-------------------------- MODULE MobilePairingProofs --------------------------
(***************************************************************************)
(* Proofs about MobilePairing, for every number of pairing processes,      *)
(* devices, connections and commands, and every maxAdapters.               *)
(*                                                                         *)
(* The hard part is the limit.  What bounds the devices is not what the    *)
(* registry holds now but what the pair handlers in flight can still add   *)
(* to it, and a revocation may let a handler pass that would have been     *)
(* refused.  So the invariant (Room) speaks of every set of devices that   *)
(* may be the ones never revoked: they, and the handlers that could still  *)
(* pass if just they were left, fit into the limit and the overlap.        *)
(*                                                                         *)
(* The second part is about the children of the adapter manager.           *)
(***************************************************************************)
EXTENDS MobilePairing, FiniteSetTheorems, TLAPS

\* A pair handler belongs to one server, and a server has one at a time.
Hosts ==
    /\ \A d \in Devices : (pair[d] # "none") <=> (host[d] # None)
    /\ \A d \in Devices : d > accepted => pair[d] = "none"
    /\ \A d, e \in Devices : host[d] = host[e] /\ host[d] # None => d = e

\* A code that is fresh has brought no device, nor is it about to.
Codes ==
    \A s \in Servers :
        /\ code[s] = "fresh" => server[s] = "running" /\ fruit[s] = 0 /\ \A d \in Devices : host[d] # s
        /\ server[s] = "off" => fruit[s] = 0 /\ \A d \in Devices : host[d] # s
        /\ \A d \in Devices : host[d] = s => fruit[s] = 0
        /\ fruit[s] <= 1

\* A handler that is not idle has a server and a device; so has a command.
Locals ==
    /\ \A w \in Sockets : ~At(w, "idle") => sock[w].on \in Servers /\ sock[w].dev \in Devices
    /\ \A w \in Sockets : sock[w].got # "none" <=> At(w, "put")
    /\ \A c \in Commands : cmd[c] # NoCommand => cmd[c].write \in Rows /\ cmd[c].dev \in Devices

\* What CountActive has counted and what it has still to read.
Counts ==
    \A d \in Devices :
        /\ pair[d] \in {"none", "list"} => left[d] = {} /\ count[d] = 0
        /\ count[d] + Cardinality(left[d]) <= MaxDevices

\* Where approval is required, active rows, and active rows that are about to
\* be written back, are of approved devices.
Approved ==
    approval =>
        /\ Active \subseteq approved
        /\ \A w \in Sockets : /\ sock[w].got = "active" => sock[w].dev \in approved
                              /\ sock[w].at \notin {"idle", "check"} => sock[w].dev \in approved

\* Where it is not, a row never goes away, and is active unless revoked.
Unapproved ==
    ~approval =>
        /\ \A d \in Devices : /\ row[d] # "pending"
                              /\ row[d] = "revoked" => d \in revoked
        /\ \A w \in Sockets : /\ sock[w].got # "pending"
                              /\ sock[w].got = "revoked" => sock[w].dev \in revoked
        /\ \A w \in Sockets : ~At(w, "idle") => row[sock[w].dev] # "none"
        /\ \A c \in Commands : cmd[c] # NoCommand => cmd[c].write = "revoked" /\ row[cmd[c].dev] # "none"
        /\ \A d, e \in Devices : e \in left[d] => row[e] # "none"

\* The handlers that pass the check of the limit if, of the rows they have
\* still to read, just those of B count.
Passing(B) ==
    {d \in Devices : \/ pair[d] = "register"
                     \/ pair[d] = "scan" /\ count[d] + Cardinality(B \cap left[d]) < MaxAdapters}

Extra  == IF together THEN Cardinality(Servers) - 1 ELSE 0
Paired == Active \ revoked

Fits(B) == Cardinality(B) + Cardinality(Passing(B)) <= MaxAdapters + Extra

Room == ~approval => \A B \in SUBSET Paired : Fits(B)

Alone == ~together => \A d, e \in Devices : pair[d] # "none" /\ pair[e] # "none" => d = e

IInv == TypeOK /\ Hosts /\ Codes /\ Locals /\ Counts /\ Approved /\ Unapproved /\ Room /\ Alone

\* The numbers of devices.
LEMMA DeviceNumbers ==
    /\ Devices \subseteq Nat /\ 0 \notin Devices /\ 0..MaxDevices = Devices \cup {0}
    /\ \A n \in 0..MaxDevices, a \in BOOLEAN : n < MaxPaired[a] => n + 1 \in Devices
    /\ MaxDevices \in Nat /\ MaxAdapters \in Nat /\ None \notin Servers
  BY PairingBounds DEF Devices

\* The types of the records.
SockType == [at : {"idle", "check", "admit", "seen", "put", "loop"},
             on : Servers \cup {None}, dev : 0..MaxDevices,
             got : Rows, link : {"open", "dropped", "closed"}]
CmdType == [write : Rows \cup {"nothing"}, dev : 0..MaxDevices]

LEMMA DevicesFinite == IsFiniteSet(Devices) /\ Cardinality(Devices) = MaxDevices
  BY PairingBounds, FS_Interval DEF Devices

\* The records keep their types when a field is given a new value.
LEMMA Edits ==
    /\ Idle \in SockType /\ NoCommand \in CmdType
    /\ \A k \in SockType :
        /\ \A loc \in {"idle", "check", "admit", "seen", "put", "loop"} : [k EXCEPT !.at = loc] \in SockType
        /\ \A l \in {"open", "dropped", "closed"} : [k EXCEPT !.link = l] \in SockType
        /\ \A g \in Rows : /\ [k EXCEPT !.at = "put", !.got = g] \in SockType
                           /\ [k EXCEPT !.at = "loop", !.got = g] \in SockType
    /\ \A s \in Servers, d \in Devices :
          [Idle EXCEPT !.at = "check", !.on = s, !.dev = d] \in SockType
    /\ \A t \in Rows, d \in Devices : [write |-> t, dev |-> d] \in CmdType
  BY DeviceNumbers DEF SockType, CmdType, Idle, NoCommand, Rows

\* All of the type invariant but the records and the counts.
Plain ==
    /\ approval \in BOOLEAN
    /\ row \in [Devices -> Rows]
    /\ server \in [Servers -> {"off", "running", "stopping", "stopped"}]
    /\ code \in [Servers -> {"none", "fresh", "used"}]
    /\ conns \in [Servers -> [Devices -> Sockets \cup {None}]]
    /\ health \in [Servers -> BOOLEAN]
    /\ accepted \in 0..MaxDevices
    /\ pair \in [Devices -> {"none", "list", "scan", "register"}]
    /\ host \in [Devices -> Servers \cup {None}]
    /\ left \in [Devices -> SUBSET Devices]
    /\ given \in 0..MaxCommands
    /\ fruit \in [Servers -> Nat] /\ approved \subseteq Devices
    /\ revoked \subseteq Devices /\ together \in BOOLEAN

Records == sock \in [Sockets -> SockType] /\ cmd \in [Commands -> CmdType]

LEMMA TypeParts == TypeOK <=> Plain /\ Records /\ count \in [Devices -> 0..MaxDevices]
  BY DEF TypeOK, Plain, Records, SockType, CmdType

LEMMA PlainStep ==
    ASSUME Records, Plain, Locals, Hosts, [Next]_vars
    PROVE  Plain'
<1> USE DEF Plain, process, commands, pairing, history
<1>1. CASE \E s \in Servers : Start(s)
  BY <1>1 DEF Start
<1>2. CASE \E s \in Servers : Stop(s)
  BY <1>2 DEF Stop
<1>3. CASE \E s \in Servers : ShutdownDone(s)
  BY <1>3 DEF ShutdownDone
<1>4. CASE \E s \in Servers : ShutdownTimeout(s)
  BY <1>4 DEF ShutdownTimeout
<1>6. CASE \E s \in Servers : Exit(s)
  BY <1>6 DEF Exit
<1>7. CASE \E s \in Servers : HealthRequest(s)
  BY <1>7 DEF HealthRequest
<1>8. CASE \E s \in Servers : Redeem(s)
  BY <1>8, DeviceNumbers DEF Redeem, Overlaps
<1>9. CASE \E s \in Servers : RedeemExpired(s)
  BY <1>9 DEF RedeemExpired
<1>10. CASE \E d \in Devices : ListKeys(d)
  BY <1>10 DEF ListKeys
<1>11. CASE \E d \in Devices : \E e \in Devices : CountRow(d, e)
  BY <1>11 DEF CountRow
<1>12. CASE \E d \in Devices : CheckLimit(d)
  <2>1. PICK d \in Devices : CheckLimit(d)
    BY <1>12
  <2>2. CASE PairEnds(d)
    BY <2>1, <2>2 DEF CheckLimit, PairEnds
  <2>3. CASE ~PairEnds(d)
    BY <2>1, <2>3 DEF CheckLimit
  <2> QED  BY <2>2, <2>3
<1>13. CASE \E d \in Devices : Register(d)
  BY <1>13 DEF Register, PairEnds, InitialStatus, Hosts, Rows
<1>14. CASE \E d \in Devices : PairFails(d)
  BY <1>14 DEF PairFails, PairEnds
<1>15. CASE \E w \in Sockets : Check(w)
  BY <1>15 DEF Check, Go, IsActive
<1>16. CASE \E w \in Sockets : Admit(w)
  BY <1>16 DEF Admit, Go, Locals, At
<1>17. CASE \E w \in Sockets : SeenRead(w)
  BY <1>17 DEF SeenRead
<1>18. CASE \E w \in Sockets : SeenWrite(w)
  BY <1>18, Records DEF SeenWrite, Records, SockType, Locals, At
<1>19. CASE \E w \in Sockets : Leave(w)
  BY <1>19 DEF Leave, Locals, At
<1>20. CASE \E w \in Sockets : Message(w)
  BY <1>20 DEF Message, Go
<1>21. CASE \E w \in Sockets : Drop(w)
  BY <1>21 DEF Drop
<1>22. CASE \E w \in Sockets, s \in Servers, d \in Devices : Connect(w, s, d)
  BY <1>22 DEF Connect
<1>23. CASE \E c \in Commands : Writes(c)
  BY <1>23 DEF Writes, Locals
<1>24. CASE \E d \in Devices : ApproveAdapter(d) \/ RejectAdapter(d) \/ RevokeAdapter(d)
  BY <1>24, PairingBounds DEF ApproveAdapter, RejectAdapter, RevokeAdapter, Reads
<1>25. CASE UNCHANGED vars
  BY <1>25 DEF vars
<1> QED
  BY <1>1, <1>2, <1>3, <1>4, <1>6, <1>7, <1>8, <1>9, <1>10, <1>11, <1>12, <1>13, <1>14, <1>15, <1>16, <1>17, <1>18, <1>19, <1>20, <1>21, <1>22, <1>23, <1>24, <1>25
     DEF Next, Ending, PairHandler, Handler

LEMMA RecordsStep ==
    ASSUME Plain, Records, Locals, [Next]_vars
    PROVE  Records'
<1> USE DEF Records, process, commands, pairing, history
<1>1. CASE \E s \in Servers : Start(s)
  BY <1>1 DEF Start
<1>2. CASE \E s \in Servers : Stop(s)
  BY <1>2 DEF Stop, SockType
<1>3. CASE \E s \in Servers : ShutdownDone(s)
  BY <1>3 DEF ShutdownDone
<1>4. CASE \E s \in Servers : ShutdownTimeout(s)
  BY <1>4 DEF ShutdownTimeout
<1>6. CASE \E s \in Servers : Exit(s)
  <2>1. Idle \in SockType
    BY Edits
  <2> QED  BY <2>1, <1>6 DEF Exit
<1>7. CASE \E s \in Servers : HealthRequest(s)
  BY <1>7 DEF HealthRequest
<1>8. CASE \E s \in Servers : Redeem(s)
  BY <1>8 DEF Redeem, Overlaps
<1>9. CASE \E s \in Servers : RedeemExpired(s)
  BY <1>9 DEF RedeemExpired
<1>10. CASE \E d \in Devices : ListKeys(d)
  BY <1>10 DEF ListKeys
<1>11. CASE \E d \in Devices : \E e \in Devices : CountRow(d, e)
  BY <1>11 DEF CountRow
<1>12. CASE \E d \in Devices : CheckLimit(d)
  BY <1>12 DEF CheckLimit, PairEnds
<1>13. CASE \E d \in Devices : Register(d)
  BY <1>13 DEF Register, PairEnds, InitialStatus
<1>14. CASE \E d \in Devices : PairFails(d)
  BY <1>14 DEF PairFails, PairEnds
<1>15. CASE \E w \in Sockets : Check(w)
  <2>1. PICK w \in Sockets : Check(w)
    BY <1>15
  <2>2. CASE Go(w, "admit")
    BY <2>1, <2>2 DEF Check, Go, SockType
  <2>3. CASE sock' = [sock EXCEPT ![w] = Idle]
    BY <2>1, <2>3, Edits DEF Check
  <2> QED  BY <2>1, <2>2, <2>3 DEF Check
<1>16. CASE \E w \in Sockets : Admit(w)
  BY <1>16 DEF Admit, Go, SockType
<1>17. CASE \E w \in Sockets : SeenRead(w)
  <2>1. PICK w \in Sockets : SeenRead(w)
    BY <1>17
  <2>2. sock[w].dev \in Devices
    BY <2>1 DEF SeenRead, Locals, At
  <2>3. row[sock[w].dev] \in Rows
    BY <2>2 DEF Plain
  <2> QED  BY <2>1, <2>3 DEF SeenRead, SockType
<1>18. CASE \E w \in Sockets : SeenWrite(w)
  <2>1. PICK w \in Sockets : SeenWrite(w)
    BY <1>18
  <2>2. sock'[w] = [sock[w] EXCEPT !.at = "loop", !.got = "none"]
    BY <2>1 DEF SeenWrite, SockType
  <2>3. sock'[w] \in SockType
    BY <2>2 DEF SockType, Rows
  <2> QED  BY <2>1, <2>3 DEF SeenWrite
<1>19. CASE \E w \in Sockets : Leave(w)
  BY <1>19, Edits DEF Leave
<1>20. CASE \E w \in Sockets : Message(w)
  BY <1>20 DEF Message, Go, SockType
<1>21. CASE \E w \in Sockets : Drop(w)
  BY <1>21 DEF Drop, SockType
<1>22. CASE \E w \in Sockets, s \in Servers, d \in Devices : Connect(w, s, d)
  <2>1. PICK w \in Sockets, s \in Servers, d \in Devices : Connect(w, s, d)
    BY <1>22
  <2>2. [Idle EXCEPT !.at = "check", !.on = s, !.dev = d] \in SockType
    BY Edits
  <2> QED  BY <2>1, <2>2 DEF Connect
<1>23. CASE \E c \in Commands : Writes(c)
  BY <1>23, Edits DEF Writes
<1>24. CASE \E d \in Devices : ApproveAdapter(d) \/ RejectAdapter(d) \/ RevokeAdapter(d)
  <2>1. PICK d \in Devices : ApproveAdapter(d) \/ RejectAdapter(d) \/ RevokeAdapter(d)
    BY <1>24
  <2>2. PICK t \in Rows : Reads(d, t)
    BY <2>1 DEF ApproveAdapter, RejectAdapter, RevokeAdapter, Rows
  <2> QED  BY <2>2, Edits, PairingBounds DEF Reads, Plain, Commands
<1>25. CASE UNCHANGED vars
  BY <1>25 DEF vars
<1> QED
  BY <1>1, <1>2, <1>3, <1>4, <1>6, <1>7, <1>8, <1>9, <1>10, <1>11, <1>12, <1>13, <1>14, <1>15, <1>16, <1>17, <1>18, <1>19, <1>20, <1>21, <1>22, <1>23, <1>24, <1>25
     DEF Next, Ending, PairHandler, Handler

LEMMA HostsStep ==
    ASSUME Plain, Locals, Hosts, Codes, Alone, [Next]_vars
    PROVE  Hosts' /\ Codes' /\ Alone'
<1> USE DEF Plain, Hosts, Codes, Alone, process, commands, pairing, history
<1>1. CASE \E s \in Servers : Start(s)
  BY <1>1 DEF Start
<1>2. CASE \E s \in Servers : Stop(s)
  BY <1>2 DEF Stop
<1>3. CASE \E s \in Servers : ShutdownDone(s)
  BY <1>3 DEF ShutdownDone
<1>4. CASE \E s \in Servers : ShutdownTimeout(s)
  BY <1>4 DEF ShutdownTimeout
<1>6. CASE \E s \in Servers : Exit(s)
  BY <1>6, DeviceNumbers DEF Exit
<1>7. CASE \E s \in Servers : HealthRequest(s)
  BY <1>7 DEF HealthRequest
<1>8. CASE \E s \in Servers : Redeem(s)
  <2>1. PICK s \in Servers : Redeem(s)
    BY <1>8
  <2> DEFINE new == accepted + 1
  <2>2. new \in Devices /\ new > accepted /\ \A d \in Devices : d > new => d > accepted
    BY <2>1, DeviceNumbers DEF Redeem
  <2>3. pair[new] = "none" /\ host[new] = None /\ \A d \in Devices : host[d] # s
    BY <2>1, <2>2 DEF Redeem
  <2>4. /\ accepted' = new /\ pair' = [pair EXCEPT ![new] = "list"] /\ host' = [host EXCEPT ![new] = s]
        /\ code' = [code EXCEPT ![s] = "used"] /\ together' = Overlaps
        /\ UNCHANGED <<server, fruit>> /\ fruit[s] = 0 /\ server[s] = "running"
    BY <2>1 DEF Redeem
  <2> HIDE DEF new
  <2>5. Hosts'
    BY <2>2, <2>3, <2>4, DeviceNumbers
  <2>6. Codes'
    BY <2>2, <2>3, <2>4, DeviceNumbers
  <2>7. Alone'
    <3>1. ~together' => \A d \in Devices : pair[d] = "none"
      BY <2>4 DEF Overlaps
    <3> QED  BY <2>2, <2>4, <3>1
  <2> QED  BY <2>5, <2>6, <2>7
<1>9. CASE \E s \in Servers : RedeemExpired(s)
  BY <1>9 DEF RedeemExpired
<1>10. CASE \E d \in Devices : ListKeys(d)
  BY <1>10 DEF ListKeys
<1>11. CASE \E d \in Devices : \E e \in Devices : CountRow(d, e)
  BY <1>11 DEF CountRow
<1>12. CASE \E d \in Devices : CheckLimit(d)
  <2>1. PICK d \in Devices : CheckLimit(d)
    BY <1>12
  <2>2. CASE PairEnds(d)
    BY <2>1, <2>2, DeviceNumbers DEF CheckLimit, PairEnds
  <2>3. CASE ~PairEnds(d)
    BY <2>1, <2>3 DEF CheckLimit
  <2> QED  BY <2>2, <2>3
<1>13. CASE \E d \in Devices : Register(d)
  BY <1>13, DeviceNumbers DEF Register, PairEnds, InitialStatus
<1>14. CASE \E d \in Devices : PairFails(d)
  BY <1>14, DeviceNumbers DEF PairFails, PairEnds
<1>15. CASE \E w \in Sockets : Check(w)
  BY <1>15 DEF Check, Go, IsActive
<1>16. CASE \E w \in Sockets : Admit(w)
  BY <1>16 DEF Admit, Go
<1>17. CASE \E w \in Sockets : SeenRead(w)
  BY <1>17 DEF SeenRead
<1>18. CASE \E w \in Sockets : SeenWrite(w)
  BY <1>18 DEF SeenWrite
<1>19. CASE \E w \in Sockets : Leave(w)
  BY <1>19 DEF Leave
<1>20. CASE \E w \in Sockets : Message(w)
  BY <1>20 DEF Message, Go
<1>21. CASE \E w \in Sockets : Drop(w)
  BY <1>21 DEF Drop
<1>22. CASE \E w \in Sockets, s \in Servers, d \in Devices : Connect(w, s, d)
  BY <1>22 DEF Connect
<1>23. CASE \E c \in Commands : Writes(c)
  BY <1>23 DEF Writes
<1>24. CASE \E d \in Devices : ApproveAdapter(d) \/ RejectAdapter(d) \/ RevokeAdapter(d)
  BY <1>24 DEF ApproveAdapter, RejectAdapter, RevokeAdapter, Reads
<1>25. CASE UNCHANGED vars
  BY <1>25 DEF vars
<1> QED
  BY <1>1, <1>2, <1>3, <1>4, <1>6, <1>7, <1>8, <1>9, <1>10, <1>11, <1>12, <1>13, <1>14, <1>15, <1>16, <1>17, <1>18, <1>19, <1>20, <1>21, <1>22, <1>23, <1>24, <1>25
     DEF Next, Ending, PairHandler, Handler

LEMMA LocalsStep ==
    ASSUME Plain, Records, Locals, [Next]_vars
    PROVE  Locals'
<1> USE DEF Locals, Records, At, process, commands, pairing, history
<1>1. CASE \E s \in Servers : Start(s)
  BY <1>1 DEF Start
<1>2. CASE \E s \in Servers : Stop(s)
  <2>1. \A w \in Sockets : sock'[w] = sock[w] \/ sock'[w] = [sock[w] EXCEPT !.link = "closed"]
    BY <1>2 DEF Stop
  <2>2. \A w \in Sockets : sock'[w].at = sock[w].at /\ sock'[w].on = sock[w].on
                            /\ sock'[w].dev = sock[w].dev /\ sock'[w].got = sock[w].got
    <3> HIDE DEF Locals, At
    <3> TAKE w \in Sockets
    <3>1. sock[w] \in SockType
      OBVIOUS
    <3> QED  BY <2>1, <3>1 DEF SockType
  <2> QED  BY <1>2, <2>2 DEF Stop
<1>3. CASE \E s \in Servers : ShutdownDone(s)
  BY <1>3 DEF ShutdownDone
<1>4. CASE \E s \in Servers : ShutdownTimeout(s)
  BY <1>4 DEF ShutdownTimeout
<1>6. CASE \E s \in Servers : Exit(s)
  BY <1>6 DEF Exit, SockType, Idle, NoCommand, Rows
<1>7. CASE \E s \in Servers : HealthRequest(s)
  BY <1>7 DEF HealthRequest
<1>8. CASE \E s \in Servers : Redeem(s)
  BY <1>8 DEF Redeem, Overlaps
<1>9. CASE \E s \in Servers : RedeemExpired(s)
  BY <1>9 DEF RedeemExpired
<1>10. CASE \E d \in Devices : ListKeys(d)
  BY <1>10 DEF ListKeys
<1>11. CASE \E d \in Devices : \E e \in Devices : CountRow(d, e)
  BY <1>11 DEF CountRow
<1>12. CASE \E d \in Devices : CheckLimit(d)
  BY <1>12 DEF CheckLimit, PairEnds
<1>13. CASE \E d \in Devices : Register(d)
  BY <1>13 DEF Register, PairEnds, InitialStatus
<1>14. CASE \E d \in Devices : PairFails(d)
  BY <1>14 DEF PairFails, PairEnds
<1>15. CASE \E w \in Sockets : Check(w)
  BY <1>15 DEF Check, Go, IsActive, SockType, Idle, NoCommand, Rows
<1>16. CASE \E w \in Sockets : Admit(w)
  BY <1>16 DEF Admit, Go, SockType, Idle, NoCommand, Rows
<1>17. CASE \E w \in Sockets : SeenRead(w)
  BY <1>17 DEF SeenRead, SockType, Idle, NoCommand, Rows
<1>18. CASE \E w \in Sockets : SeenWrite(w)
  BY <1>18 DEF SeenWrite, SockType, Idle, NoCommand, Rows
<1>19. CASE \E w \in Sockets : Leave(w)
  BY <1>19 DEF Leave, SockType, Idle, NoCommand, Rows
<1>20. CASE \E w \in Sockets : Message(w)
  BY <1>20 DEF Message, Go, SockType, Idle, NoCommand, Rows
<1>21. CASE \E w \in Sockets : Drop(w)
  BY <1>21 DEF Drop, SockType, Idle, NoCommand, Rows
<1>22. CASE \E w \in Sockets, s \in Servers, d \in Devices : Connect(w, s, d)
  BY <1>22 DEF Connect, SockType, Idle, NoCommand, Rows
<1>23. CASE \E c \in Commands : Writes(c)
  BY <1>23 DEF Writes, SockType, Idle, NoCommand, Rows
<1>24. CASE \E d \in Devices : ApproveAdapter(d) \/ RejectAdapter(d) \/ RevokeAdapter(d)
  <2>1. PICK d \in Devices : ApproveAdapter(d) \/ RejectAdapter(d) \/ RevokeAdapter(d)
    BY <1>24
  <2>2. PICK t \in Rows : Reads(d, t)
    BY <2>1 DEF ApproveAdapter, RejectAdapter, RevokeAdapter, Rows
  <2> QED  BY <2>2 DEF Reads
<1>25. CASE UNCHANGED vars
  BY <1>25 DEF vars
<1> QED
  BY <1>1, <1>2, <1>3, <1>4, <1>6, <1>7, <1>8, <1>9, <1>10, <1>11, <1>12, <1>13, <1>14, <1>15, <1>16, <1>17, <1>18, <1>19, <1>20, <1>21, <1>22, <1>23, <1>24, <1>25
     DEF Next, Ending, PairHandler, Handler

\* Active rows stay approved ones, and unrevoked rows stay active.
LEMMA RowsStep ==
    ASSUME Plain, Records, Locals, Approved, Unapproved, [Next]_vars
    PROVE  Approved' /\ Unapproved'
<1> USE DEF Plain, Approved, Unapproved, Active, IsActive, At, process, commands, pairing, history
<1>1. CASE \E s \in Servers : Start(s)
  BY <1>1 DEF Start
<1>2. CASE \E s \in Servers : Stop(s)
  BY <1>2 DEF Stop, Locals, SockType, Records
<1>3. CASE \E s \in Servers : ShutdownDone(s)
  BY <1>3 DEF ShutdownDone
<1>4. CASE \E s \in Servers : ShutdownTimeout(s)
  BY <1>4 DEF ShutdownTimeout
<1>6. CASE \E s \in Servers : Exit(s)
  BY <1>6 DEF Exit, Idle
<1>7. CASE \E s \in Servers : HealthRequest(s)
  BY <1>7 DEF HealthRequest
<1>8. CASE \E s \in Servers : Redeem(s)
  BY <1>8 DEF Redeem, Overlaps
<1>9. CASE \E s \in Servers : RedeemExpired(s)
  BY <1>9 DEF RedeemExpired
<1>10. CASE \E d \in Devices : ListKeys(d)
  BY <1>10 DEF ListKeys
<1>11. CASE \E d \in Devices : \E e \in Devices : CountRow(d, e)
  BY <1>11 DEF CountRow
<1>12. CASE \E d \in Devices : CheckLimit(d)
  BY <1>12 DEF CheckLimit, PairEnds
<1>13. CASE \E d \in Devices : Register(d)
  BY <1>13 DEF Register, PairEnds, InitialStatus, InitialStatus
<1>14. CASE \E d \in Devices : PairFails(d)
  BY <1>14 DEF PairFails, PairEnds
<1>15. CASE \E w \in Sockets : Check(w)
  <2>1. PICK w \in Sockets : Check(w)
    BY <1>15
  <2>2. CASE Go(w, "admit") /\ IsActive(sock[w].dev)
    BY <2>1, <2>2 DEF Check, Go, Locals, Records, SockType
  <2>3. CASE sock' = [sock EXCEPT ![w] = Idle]
    BY <2>1, <2>3 DEF Check, Idle, Records
  <2> QED  BY <2>1, <2>2, <2>3 DEF Check
<1>16. CASE \E w \in Sockets : Admit(w)
  BY <1>16 DEF Admit, Go, Locals, SockType, Records
<1>17. CASE \E w \in Sockets : SeenRead(w)
  BY <1>17 DEF SeenRead, Locals, SockType, Records
<1>18. CASE \E w \in Sockets : SeenWrite(w)
  BY <1>18 DEF SeenWrite, Locals, SockType, Records
<1>19. CASE \E w \in Sockets : Leave(w)
  BY <1>19 DEF Leave, Idle
<1>20. CASE \E w \in Sockets : Message(w)
  BY <1>20 DEF Message, Go, Locals, SockType, Records
<1>21. CASE \E w \in Sockets : Drop(w)
  BY <1>21 DEF Drop, Locals, SockType, Records
<1>22. CASE \E w \in Sockets, s \in Servers, d \in Devices : Connect(w, s, d)
  BY <1>22 DEF Connect, Idle, Records
<1>23. CASE \E c \in Commands : Writes(c)
  BY <1>23 DEF Writes, Locals, NoCommand, Rows
<1>24. CASE \E d \in Devices : ApproveAdapter(d) \/ RejectAdapter(d) \/ RevokeAdapter(d)
  <2>1. PICK d \in Devices : ApproveAdapter(d) \/ RejectAdapter(d) \/ RevokeAdapter(d)
    BY <1>24
  <2>2. PICK t \in Rows : Reads(d, t) /\ (~approval => t = "revoked" /\ row[d] # "none")
    BY <2>1 DEF ApproveAdapter, RejectAdapter, RevokeAdapter, Rows
  <2> QED  BY <2>2 DEF Reads, Records
<1>25. CASE UNCHANGED vars
  BY <1>25 DEF vars
<1> QED
  BY <1>1, <1>2, <1>3, <1>4, <1>6, <1>7, <1>8, <1>9, <1>10, <1>11, <1>12, <1>13, <1>14, <1>15, <1>16, <1>17, <1>18, <1>19, <1>20, <1>21, <1>22, <1>23, <1>24, <1>25
     DEF Next, Ending, PairHandler, Handler

-----------------------------------------------------------------------------
(* Counting. *)

\* Sets of devices have numbers, and smaller sets smaller ones.
LEMMA Sizes ==
    ASSUME NEW P \in SUBSET Devices
    PROVE  /\ IsFiniteSet(P) /\ Cardinality(P) \in Nat
           /\ P = {} <=> Cardinality(P) = 0
           /\ \A Q \in SUBSET P : Cardinality(Q) <= Cardinality(P)
           /\ \A d \in P : Cardinality(P \ {d}) = Cardinality(P) - 1
<1>1. IsFiniteSet(P)
  BY DevicesFinite, FS_Subset
<1>2. \A Q \in SUBSET P : Cardinality(Q) <= Cardinality(P)
  BY <1>1, FS_Subset
<1>3. \A d \in P : Cardinality(P \ {d}) = Cardinality(P) - 1
  BY <1>1, FS_RemoveElement
<1> QED  BY <1>1, <1>2, <1>3, FS_CardinalityType, FS_EmptySet

\* The steps that change what the pair handlers are doing; at any other step
\* no device is added.
LEMMA PairSteps ==
    ASSUME Plain, Records, Locals, Unapproved, [Next]_vars
    PROVE  \/ /\ UNCHANGED <<approval, pair, left, count, together>>
              /\ revoked \subseteq revoked'
              /\ ~approval => \A d \in Devices : row'[d] = "active" => row[d] # "none"
           \/ \E s \in Servers : Exit(s) \/ Redeem(s)
           \/ \E d \in Devices : PairHandler(d)
<1> USE DEF process, commands, pairing, history
<1>1. CASE \E s \in Servers : Start(s)
  BY <1>1 DEF Start
<1>2. CASE \E s \in Servers : Stop(s)
  BY <1>2 DEF Stop
<1>3. CASE \E s \in Servers : ShutdownDone(s)
  BY <1>3 DEF ShutdownDone
<1>4. CASE \E s \in Servers : ShutdownTimeout(s)
  BY <1>4 DEF ShutdownTimeout
<1>6. CASE \E s \in Servers : HealthRequest(s)
  BY <1>6 DEF HealthRequest
<1>7. CASE \E s \in Servers : RedeemExpired(s)
  BY <1>7 DEF RedeemExpired
<1>8. CASE \E w \in Sockets : Check(w)
  BY <1>8 DEF Check, Go, IsActive
<1>9. CASE \E w \in Sockets : Admit(w)
  BY <1>9 DEF Admit, Go
<1>10. CASE \E w \in Sockets : SeenRead(w)
  BY <1>10 DEF SeenRead
<1>11. CASE \E w \in Sockets : SeenWrite(w)
  BY <1>11 DEF SeenWrite, Plain, Unapproved, Locals, At
<1>12. CASE \E w \in Sockets : Leave(w)
  BY <1>12 DEF Leave
<1>13. CASE \E w \in Sockets : Message(w)
  BY <1>13 DEF Message, Go
<1>14. CASE \E w \in Sockets : Drop(w)
  BY <1>14 DEF Drop
<1>15. CASE \E w \in Sockets, s \in Servers, d \in Devices : Connect(w, s, d)
  BY <1>15 DEF Connect
<1>16. CASE \E c \in Commands : Writes(c)
  BY <1>16 DEF Writes, Plain, Unapproved, Locals
<1>17. CASE \E d \in Devices : ApproveAdapter(d) \/ RejectAdapter(d) \/ RevokeAdapter(d)
  BY <1>17 DEF ApproveAdapter, RejectAdapter, RevokeAdapter, Reads
<1>18. CASE UNCHANGED vars
  BY <1>18 DEF vars
<1> QED
  BY <1>1, <1>2, <1>3, <1>4, <1>6, <1>7, <1>8, <1>9, <1>10, <1>11, <1>12, <1>13, <1>14, <1>15, <1>16, <1>17, <1>18
     DEF Next, Ending, Handler

\* What is counted is no more to be read.
LEMMA CountsStep ==
    ASSUME Plain, Records, Locals, Unapproved, Hosts, Counts, count \in [Devices -> 0..MaxDevices], [Next]_vars
    PROVE  Counts' /\ (count \in [Devices -> 0..MaxDevices])'
<1> USE DEF Plain, Counts, process, commands, pairing, history
<1>1. CASE \E s \in Servers : Exit(s)
  BY <1>1, FS_EmptySet, DeviceNumbers DEF Exit
<1>2. CASE \E s \in Servers : Redeem(s)
  <2>1. PICK s \in Servers : Redeem(s)
    BY <1>2
  <2>2. accepted + 1 \in Devices /\ accepted + 1 > accepted
    BY <2>1, DeviceNumbers DEF Redeem
  <2>3. pair[accepted + 1] = "none"
    BY <2>2 DEF Hosts
  <2> QED  BY <2>1, <2>3 DEF Redeem
<1>3. CASE \E d \in Devices : ListKeys(d)
  <2>1. PICK d \in Devices : ListKeys(d)
    BY <1>3
  <2>2. left'[d] \in SUBSET Devices /\ count[d] = 0 /\ count' = count
    BY <2>1 DEF ListKeys
  <2>3. Cardinality(left'[d]) <= MaxDevices /\ Cardinality(left'[d]) \in Nat
    BY <2>2, Sizes, DevicesFinite
  <2>4. count'[d] + Cardinality(left'[d]) <= MaxDevices
    BY <2>2, <2>3, DeviceNumbers
  <2> QED  BY <2>1, <2>4 DEF ListKeys
<1>4. CASE \E d, e \in Devices : CountRow(d, e)
  <2>1. PICK d \in Devices, e \in Devices : CountRow(d, e)
    BY <1>4
  <2>2. left[d] \in SUBSET Devices /\ e \in left[d] /\ left'[d] = left[d] \ {e}
    BY <2>1 DEF CountRow
  <2>3. /\ Cardinality(left'[d]) = Cardinality(left[d]) - 1
        /\ Cardinality(left'[d]) \in Nat /\ Cardinality(left[d]) \in Nat
    BY <2>2, Sizes
  <2>4. count'[d] \in Nat /\ count'[d] <= count[d] + 1
    BY <2>1, DeviceNumbers DEF CountRow
  <2>5. count'[d] + Cardinality(left'[d]) <= MaxDevices /\ count'[d] \in 0..MaxDevices
    BY <2>3, <2>4, DeviceNumbers
  <2> QED  BY <2>1, <2>5 DEF CountRow
<1>5. CASE \E d \in Devices : CheckLimit(d) \/ Register(d) \/ PairFails(d)
  <2>1. PICK d \in Devices : CheckLimit(d) \/ Register(d) \/ PairFails(d)
    BY <1>5
  <2>2. CASE PairEnds(d)
    BY <2>2, FS_EmptySet, DeviceNumbers DEF PairEnds
  <2>3. CASE ~PairEnds(d)
    BY <2>1, <2>3 DEF CheckLimit, Register, PairFails
  <2> QED  BY <2>2, <2>3
<1>6. CASE UNCHANGED <<pair, left, count>>
  BY <1>6
<1> QED  BY <1>1, <1>2, <1>3, <1>4, <1>5, <1>6, PairSteps DEF PairHandler

\* There are no more handlers than servers, and one alone while none overlap.
LEMMA HandlerBound ==
    ASSUME Plain, Hosts, Alone, NEW P \in SUBSET Devices, \A d \in P : pair[d] # "none"
    PROVE  Cardinality(P) <= 1 + Extra
<1>1. CASE together
  <2> DEFINE f == [d \in P |-> host[d]]
  <2>1. f \in Injection(P, Servers)
    BY DEF Injection, IsInjective, Plain, Hosts
  <2>2. Cardinality(P) <= Cardinality(Servers)
    BY <2>1, FS_Injection, PairingBounds
  <2>3. Cardinality(Servers) \in Nat /\ Cardinality(P) \in Nat
    BY Sizes, FS_CardinalityType, PairingBounds
  <2> QED  BY <1>1, <2>2, <2>3 DEF Extra
<1>2. CASE ~together
  <2>1. CASE P = {}
    BY <1>2, <2>1, FS_EmptySet DEF Extra
  <2>2. CASE P # {}
    <3>1. PICK d : d \in P
      BY <2>2
    <3>2. P = {d}
      BY <1>2, <3>1 DEF Alone
    <3>3. Cardinality(P) = 1
      BY <3>2, FS_Singleton
    <3> QED  BY <1>2, <3>3 DEF Extra
  <2> QED  BY <2>1, <2>2
<1> QED  BY <1>1, <1>2

\* Fewer handlers pass, and nothing is added: what fitted still fits.
LEMMA StillFits ==
    ASSUME Plain, NEW B \in SUBSET Devices, Fits(B), Passing(B)' \subseteq Passing(B),
           Extra \in Int, Extra' \in Int, Extra <= Extra'
    PROVE  Fits(B)'
<1>1. Passing(B) \in SUBSET Devices /\ Passing(B)' \in SUBSET Passing(B)
  BY DEF Passing
<1>2. Cardinality(Passing(B)') <= Cardinality(Passing(B))
  BY <1>1, Sizes
<1>3. Cardinality(Passing(B)') \in Nat /\ Cardinality(Passing(B)) \in Nat /\ Cardinality(B) \in Nat
  BY <1>1, Sizes
<1>4. Cardinality(Passing(B)') = Cardinality(Passing(B))' /\ Cardinality(B)' = Cardinality(B) /\ MaxAdapters' = MaxAdapters
  OBVIOUS
<1> QED  BY <1>2, <1>3, <1>4, DeviceNumbers DEF Fits

LEMMA ExtraType == Extra \in Int /\ Extra' \in Int
<1>1. Cardinality(Servers) \in Nat
  BY FS_CardinalityType, PairingBounds
<1>2. Extra \in Int
  BY <1>1 DEF Extra
<1>3. Extra' \in Int
  BY <1>1 DEF Extra
<1> QED  BY <1>2, <1>3

\* The limit is kept: what a handler may add is bounded when it lists the
\* keys, and from then on it can only lose.
LEMMA RoomStep ==
    ASSUME IInv, [Next]_vars, Plain'
    PROVE  Room'
<1> SUFFICES ASSUME ~approval', NEW B \in SUBSET Paired'
             PROVE  Fits(B)'
  BY DEF Room
<1>0. Plain /\ Records /\ count \in [Devices -> 0..MaxDevices]
  BY TypeParts DEF IInv
<1>a. Extra \in Int /\ Extra' \in Int
  BY ExtraType
<1>b. B \in SUBSET Devices
  BY DEF Paired, Active
<1> USE DEF process, commands, pairing, history
<1>1. CASE /\ UNCHANGED <<approval, pair, left, count, together>>
           /\ revoked \subseteq revoked'
           /\ ~approval => \A d \in Devices : row'[d] = "active" => row[d] # "none"
  <2>1. B \subseteq Paired
    BY <1>0, <1>1 DEF IInv, Unapproved, Paired, Active, IsActive, Plain, Rows
  <2>2. Fits(B) /\ Passing(B)' \subseteq Passing(B) /\ Extra' = Extra
    BY <1>1, <2>1 DEF IInv, Room, Passing, Extra
  <2> QED  BY <1>0, <1>a, <1>b, <2>2, StillFits
<1>2. CASE \E s \in Servers : Exit(s)
  <2>1. Fits(B)
    BY <1>2 DEF IInv, Room, Exit, Paired, Active, IsActive
  <2>2. Passing(B)' \subseteq Passing(B) /\ Extra' = Extra
    <3>1. \A x \in Devices : \/ pair'[x] = "none"
                             \/ pair'[x] = pair[x] /\ count'[x] = count[x] /\ left'[x] = left[x]
      BY <1>0, <1>2 DEF Exit, Plain
    <3>2. Extra' = Extra
      BY <1>2 DEF Exit, Extra
    <3> QED  BY <3>1, <3>2 DEF Passing
  <2> QED  BY <1>0, <1>a, <1>b, <2>1, <2>2, StillFits
<1>3. CASE \E s \in Servers : Redeem(s)
  <2>1. Fits(B)
    BY <1>3 DEF IInv, Room, Redeem, Paired, Active, IsActive
  <2>2. Passing(B)' \subseteq Passing(B)
    BY <1>0, <1>3 DEF Redeem, Passing, Plain
  <2>3. Extra <= Extra'
    <3>1. Cardinality(Servers) \in Nat /\ Cardinality(Servers) # 0
      BY <1>3, PairingBounds, FS_CardinalityType, FS_EmptySet
    <3>2. together => together'
      BY <1>3 DEF Redeem, Overlaps
    <3> QED  BY <3>1, <3>2 DEF Extra
  <2> QED  BY <1>0, <1>a, <1>b, <2>1, <2>2, <2>3, StillFits
<1>4. CASE \E d \in Devices : ListKeys(d)
  <2>1. PICK d \in Devices : ListKeys(d)
    BY <1>4
  <2>2. Fits(B) /\ B \subseteq Paired /\ Extra' = Extra
    BY <2>1 DEF IInv, Room, ListKeys, Paired, Active, IsActive, Extra
  <2>3. count'[d] = 0 /\ B \cap left'[d] = B
    BY <1>0, <2>1, <2>2 DEF ListKeys, IInv, Counts, Plain, Paired, Active, IsActive
  <2>4. \A e \in Devices \ {d} : pair'[e] = pair[e] /\ count'[e] = count[e] /\ left'[e] = left[e]
    BY <1>0, <2>1 DEF ListKeys, Plain
  <2>5. Cardinality(B) \in Nat
    BY <1>b, Sizes
  <2>6. CASE Cardinality(B) < MaxAdapters
    <3>1. Passing(B)' \in SUBSET Devices /\ \A e \in Passing(B)' : pair[e] # "none"
      BY <2>1, <2>4 DEF Passing, ListKeys
    <3>2. Cardinality(Passing(B)') <= 1 + Extra /\ Cardinality(Passing(B)') \in Nat
      BY <1>0, <3>1, HandlerBound, Sizes DEF IInv
    <3> QED  BY <1>a, <2>2, <2>5, <2>6, <3>2, DeviceNumbers DEF Fits
  <2>7. CASE ~(Cardinality(B) < MaxAdapters)
    <3>1. d \notin Passing(B)'
      <4>1. pair'[d] = "scan" /\ Cardinality(B \cap left'[d]) = Cardinality(B)
        BY <1>0, <2>1, <2>3 DEF ListKeys, Plain
      <4>2. ~(count'[d] + Cardinality(B \cap left'[d]) < MaxAdapters)
        BY <2>3, <2>5, <2>7, <4>1
      <4> QED  BY <4>1, <4>2 DEF Passing
    <3>2. Passing(B)' \subseteq Passing(B)
      BY <2>4, <3>1 DEF Passing
    <3> QED  BY <1>0, <1>a, <1>b, <2>2, <3>2, StillFits
  <2> QED  BY <2>6, <2>7
<1>5. CASE \E d, e \in Devices : CountRow(d, e)
  <2>1. PICK d \in Devices, e \in Devices : CountRow(d, e)
    BY <1>5
  <2>2. Fits(B) /\ B \subseteq Paired /\ Extra' = Extra
    BY <2>1 DEF IInv, Room, CountRow, Paired, Active, IsActive, Extra
  <2> DEFINE C == B \cap left[d]
  <2>3. C \in SUBSET Devices /\ e \in left[d] /\ B \cap left'[d] = C \ {e}
    BY <1>0, <1>b, <2>1 DEF CountRow, Plain
  <2>4. Cardinality(C) \in Nat /\ Cardinality(C \ {e}) \in Nat
        /\ Cardinality(C \ {e}) = (IF e \in C THEN Cardinality(C) - 1 ELSE Cardinality(C))
    BY <2>3, Sizes, FS_RemoveElement
  <2>5. count[d] \in Nat /\ count'[d] = (IF IsActive(e) THEN count[d] + 1 ELSE count[d])
    BY <1>0, <2>1, DeviceNumbers DEF CountRow
  <2>6. e \in C => IsActive(e)
    BY <2>2 DEF Paired, Active
  <2>7. count[d] + Cardinality(C) <= count'[d] + Cardinality(C \ {e})
    BY <2>4, <2>5, <2>6
  <2>8. d \in Passing(B)' => d \in Passing(B)
    <3> HIDE DEF C
    <3>1. pair[d] = "scan" /\ pair'[d] = "scan" /\ Cardinality(B \cap left[d]) = Cardinality(C)
          /\ Cardinality(B \cap left'[d]) = Cardinality(C \ {e})
      BY <2>1, <2>3 DEF CountRow, C
    <3>2. count'[d] \in Nat /\ MaxAdapters \in Nat
      BY <2>5, DeviceNumbers
    <3> QED  BY <2>4, <2>5, <2>7, <3>1, <3>2 DEF Passing
  <2>9. \A x \in Devices \ {d} : pair'[x] = pair[x] /\ count'[x] = count[x] /\ left'[x] = left[x]
    BY <1>0, <2>1 DEF CountRow, Plain
  <2>10. Passing(B)' \subseteq Passing(B)
    BY <2>8, <2>9 DEF Passing
  <2> QED  BY <1>0, <1>a, <1>b, <2>2, <2>10, StillFits
<1>6. CASE \E d \in Devices : CheckLimit(d) \/ PairFails(d)
  <2>1. PICK d \in Devices : CheckLimit(d) \/ PairFails(d)
    BY <1>6
  <2>2. Fits(B) /\ Extra' = Extra
    BY <2>1 DEF IInv, Room, CheckLimit, PairFails, Paired, Active, IsActive, Extra
  <2>3. CASE PairEnds(d)
    <3>1. Passing(B)' \subseteq Passing(B)
      <4>1. \A x \in Devices : \/ pair'[x] = "none"
                               \/ pair'[x] = pair[x] /\ count'[x] = count[x] /\ left'[x] = left[x]
        BY <1>0, <2>3 DEF PairEnds, Plain
      <4> QED  BY <4>1 DEF Passing
    <3> QED  BY <1>0, <1>a, <1>b, <2>2, <3>1, StillFits
  <2>4. CASE ~PairEnds(d)
    <3>1. /\ pair[d] = "scan" /\ left[d] = {} /\ ~(count[d] >= MaxAdapters)
          /\ pair' = [pair EXCEPT ![d] = "register"] /\ UNCHANGED <<left, count>>
      BY <2>1, <2>4 DEF CheckLimit, PairFails
    <3>2. d \in Passing(B)
      <4>1. Cardinality(B \cap left[d]) = 0
        BY <3>1, FS_EmptySet
      <4>2. count[d] \in Nat
        BY <1>0, DeviceNumbers
      <4>3. count[d] + Cardinality(B \cap left[d]) < MaxAdapters
        BY <3>1, <4>1, <4>2, DeviceNumbers
      <4> QED  BY <3>1, <4>3 DEF Passing
    <3>3. Passing(B)' \subseteq Passing(B)
      BY <1>0, <3>1, <3>2 DEF Passing, Plain
    <3> QED  BY <1>0, <1>a, <1>b, <2>2, <3>3, StillFits
  <2> QED  BY <2>3, <2>4
<1>7. CASE \E d \in Devices : Register(d)
  <2>1. PICK d \in Devices : Register(d)
    BY <1>7
  <2> DEFINE C == B \ {d}
  <2>2. C \subseteq Paired /\ C \in SUBSET Devices /\ Extra' = Extra /\ approval' = approval
    BY <1>0, <1>b, <2>1 DEF Register, Paired, Active, IsActive, Extra, Plain
  <2>3. Fits(C)
    BY <2>2 DEF IInv, Room
  <2>4. \A e \in Devices : B \cap left[e] = C \cap left[e]
    BY <2>1, <2>2 DEF IInv, Unapproved, Register
  <2>5. d \in Passing(C) /\ Passing(C) \in SUBSET Devices
    BY <2>1 DEF Register, Passing
  <2>6. Passing(B)' \subseteq Passing(C) \ {d}
    <3>1. pair'[d] = "none" /\ \A x \in Devices \ {d} : pair'[x] = pair[x] /\ count'[x] = count[x] /\ left'[x] = left[x]
      BY <1>0, <2>1 DEF Register, PairEnds, Plain
    <3>2. \A x \in Devices \ {d} : Cardinality(B \cap left'[x]) = Cardinality(C \cap left[x])
      BY <2>4, <3>1
    <3> HIDE DEF C
    <3> QED  BY <3>1, <3>2 DEF Passing
  <2>7. /\ Cardinality(Passing(B)') <= Cardinality(Passing(C) \ {d})
        /\ Cardinality(Passing(C) \ {d}) = Cardinality(Passing(C)) - 1
        /\ Cardinality(Passing(B)') \in Nat /\ Cardinality(Passing(C)) \in Nat
    <3>1. Passing(B)' \in SUBSET Devices /\ Passing(C) \ {d} \in SUBSET Devices
      BY <2>5, <2>6
    <3> QED  BY <2>5, <2>6, <3>1, Sizes
  <2>8. Cardinality(B) <= Cardinality(C) + 1 /\ Cardinality(B) \in Nat /\ Cardinality(C) \in Nat
    <3>1. CASE d \in B
      BY <1>b, <2>2, <3>1, Sizes
    <3>2. CASE d \notin B
      <4>1. C = B
        BY <3>2
      <4> QED  BY <1>b, <4>1, Sizes
    <3> QED  BY <3>1, <3>2
  <2> HIDE DEF C
  <2> QED  BY <1>a, <2>2, <2>3, <2>7, <2>8, DeviceNumbers DEF Fits
<1> QED  BY <1>0, <1>1, <1>2, <1>3, <1>4, <1>5, <1>6, <1>7, PairSteps DEF PairHandler, IInv

-----------------------------------------------------------------------------
(* The theorems. *)

LEMMA InitIInv == Init => IInv
<1> SUFFICES ASSUME Init PROVE IInv
  OBVIOUS
<1>1. TypeOK
  <2>1. Plain
    <3>1. approval \in BOOLEAN
      BY PairingBounds DEF Init
    <3>2. conns \in [Servers -> [Devices -> Sockets \cup {None}]]
      BY DEF Init
    <3>3. accepted \in 0..MaxDevices /\ given \in 0..MaxCommands
      BY PairingBounds DEF Init
    <3>4. health \in [Servers -> BOOLEAN] /\ together \in BOOLEAN
      BY DEF Init
    <3> QED  BY <3>1, <3>2, <3>3, <3>4 DEF Init, Plain, Rows
  <2>2. Records
    BY Edits DEF Init, Records
  <2>3. count \in [Devices -> 0..MaxDevices]
    BY DeviceNumbers DEF Init
  <2> QED  BY <2>1, <2>2, <2>3, TypeParts
<1>2. Hosts /\ Codes /\ Locals /\ Alone
  BY DeviceNumbers DEF Init, Hosts, Codes, Locals, Alone, At, Idle
<1>3. Counts
  BY FS_EmptySet, DeviceNumbers DEF Init, Counts
<1>4. Approved /\ Unapproved
  BY DEF Init, Approved, Unapproved, Active, IsActive, At, Idle
<1>5. Room
  <2>1. Paired = {} /\ Passing({}) = {} /\ Extra = 0
    BY DEF Init, Paired, Active, IsActive, Passing, Extra
  <2> QED  BY <2>1, FS_EmptySet, DeviceNumbers DEF Room, Fits
<1> QED  BY <1>1, <1>2, <1>3, <1>4, <1>5 DEF IInv

LEMMA NextIInv == IInv /\ [Next]_vars => IInv'
<1> SUFFICES ASSUME IInv, [Next]_vars PROVE IInv'
  OBVIOUS
<1>1. Plain /\ Records /\ count \in [Devices -> 0..MaxDevices]
  BY TypeParts DEF IInv
<1>2. Hosts /\ Codes /\ Locals /\ Counts /\ Approved /\ Unapproved /\ Alone
  BY DEF IInv
<1>3. Plain'
  BY <1>1, <1>2, PlainStep
<1>4. Records'
  BY <1>1, <1>2, RecordsStep
<1>5. Counts' /\ (count \in [Devices -> 0..MaxDevices])'
  BY <1>1, <1>2, CountsStep
<1>6. TypeOK'
  BY <1>3, <1>4, <1>5 DEF TypeOK, Plain, Records, SockType, CmdType
<1>7. Hosts' /\ Codes' /\ Alone'
  BY <1>1, <1>2, HostsStep
<1>8. Locals'
  BY <1>1, <1>2, LocalsStep
<1>9. Approved' /\ Unapproved'
  BY <1>1, <1>2, RowsStep
<1>10. Room'
  BY <1>3, RoomStep
<1> QED  BY <1>5, <1>6, <1>7, <1>8, <1>9, <1>10 DEF IInv

\* The invariant holds, and with it the types of all variables, whatever
\* servers, devices and commands do at the same time.
THEOREM Invariance == Spec => []IInv
  BY InitIInv, NextIInv, PTL DEF Spec

\* A code that handlePair has found fresh is used up at once, so the server
\* registers one device with it at most, whichever pairing fails or is slow.
THEOREM CodePairsOnce == Spec => []PairedOnce
<1>1. IInv => PairedOnce
  BY DEF IInv, Codes, PairedOnce
<1> QED  BY <1>1, Invariance, PTL

\* handlePair counts first and registers later, in as many processes as there
\* are: the devices exceed maxAdapters at most by the other processes, and not
\* at all as long as no two pairings overlap.
THEOREM LimitHolds == Spec => []LimitUpToOverlap
<1>1. IInv => LimitUpToOverlap
  <2> SUFFICES ASSUME IInv, ~approval
               PROVE  Cardinality(Active \ revoked) <= MaxAdapters + Extra
    BY DEF LimitUpToOverlap, Extra
  <2>1. Fits(Paired)
    BY DEF IInv, Room
  <2>2. Paired \in SUBSET Devices /\ Passing(Paired) \in SUBSET Devices
    BY DEF Paired, Active, Passing
  <2>3. Cardinality(Paired) \in Nat /\ Cardinality(Passing(Paired)) \in Nat
    BY <2>2, Sizes
  <2>4. Extra \in Int
    BY ExtraType
  <2> QED  BY <2>1, <2>3, <2>4, DeviceNumbers DEF Fits, Paired
<1> QED  BY <1>1, Invariance, PTL

\* Where approval is required, a connection past the check is of a device whose
\* approval was stored, although UpdateLastSeen and the commands write rows
\* back that they read earlier.
THEOREM ConnectedIsApproved == Spec => []OnlyApprovedConnect
<1>1. IInv => OnlyApprovedConnect
  BY DEF IInv, Approved, OnlyApprovedConnect
<1> QED  BY <1>1, Invariance, PTL

-----------------------------------------------------------------------------
(***************************************************************************)
(* The other half of internal/core/adapter: module AdapterManager, for     *)
(* every number of processes, callers and starts, with children that end   *)
(* by themselves, stops that time out and waiters that come late.          *)
(***************************************************************************)
CONSTANTS Managers, Callers, MaxStarts, MaxCalls
VARIABLES up, ctx, lock, rt, call, child, owner, waiting, calls, stale

Manager == INSTANCE AdapterManager

\* The sets and functions the state is made of.
ManagerShapes ==
    /\ up \subseteq Managers /\ ctx \subseteq Managers /\ stale \subseteq Managers
    /\ lock \in [Managers -> Callers \cup {None}]
    /\ child \in [Manager!Children -> {"none", "alive", "killed", "dead"}]
    /\ owner \in [Manager!Children -> Managers \cup {None}]
    /\ waiting \subseteq {c \in Manager!Children : child[c] # "none"}
    /\ calls \in 0 .. MaxCalls
    /\ rt \in [Managers -> Manager!Runtimes \cup {None}]
    /\ call \in [Managers -> [Callers -> Manager!Pending \cup {None}]]

\* The runtime is of a child that its manager has started.
ManagerOwned ==
    \A m \in Managers : rt[m] # None => owner[rt[m].child] = m /\ child[rt[m].child] # "none"

\* The mutex is kept by the one call that waits or is stuck.
ManagerMutex ==
    \A m \in Managers, t \in Callers :
        (lock[m] = t) <=> (call[m][t] # None /\ call[m][t].pc \in {"wait", "stuck"})

\* A stop that waits has a runtime to mark.
ManagerAwaited == \A m \in Managers, t \in Callers : Manager!Waits(m, t) => rt[m] # None

\* A waiter is of a child that some manager started.
ManagerStarted == \A c \in Manager!Children : child[c] # "none" => owner[c] \in Managers

\* LiveIsKnown is inductive only with these: a waiter marks whatever runtime its
\* manager has, and a start replaces a runtime that is not running.
ManagerInv == ManagerShapes /\ ManagerOwned /\ ManagerMutex /\ ManagerAwaited /\ ManagerStarted /\ Manager!LiveIsKnown

\* What AdapterManager assumes of its constants.
ManagerConstants ==
    /\ MaxStarts \in Nat /\ MaxCalls \in Nat
    /\ None \notin Callers /\ None \notin Manager!Runtimes /\ None \notin Manager!Pending

\* Marks on a runtime and on a call leave it one.
LEMMA ManagerRuntime ==
    ASSUME ManagerConstants, NEW r \in Manager!Runtimes, NEW x \in {"running", "stopped"}
    PROVE  /\ [r EXCEPT !.state = x] \in Manager!Runtimes /\ r # None
           /\ [r EXCEPT !.state = x].child = r.child /\ [r EXCEPT !.state = x].state = x
           /\ [r EXCEPT !.health = "healthy"] \in Manager!Runtimes
           /\ [r EXCEPT !.health = "healthy"].child = r.child
           /\ [r EXCEPT !.health = "healthy"].state = r.state
           /\ r.child \in Manager!Children
  BY DEF ManagerConstants, Manager!Runtimes

LEMMA ManagerPending ==
    ASSUME ManagerConstants, NEW p \in Manager!Pending
    PROVE  /\ p # None
           /\ [p EXCEPT !.pc = "wait"] \in Manager!Pending /\ [p EXCEPT !.pc = "wait"].pc = "wait"
           /\ [p EXCEPT !.pc = "stuck"] \in Manager!Pending /\ [p EXCEPT !.pc = "stuck"].pc = "stuck"
           /\ [p EXCEPT !.op = "force"] \in Manager!Pending /\ [p EXCEPT !.op = "force"].pc = p.pc
  BY DEF ManagerConstants, Manager!Pending, Manager!Ops

\* What a step does to the calls and to the mutex.
LEMMA ManagerMutexStep ==
    ASSUME ManagerConstants, ManagerShapes, ManagerMutex, [Manager!Next]_(Manager!vars)
    PROVE  ManagerMutex' /\ call' \in [Managers -> [Callers -> Manager!Pending \cup {None}]]
           /\ lock' \in [Managers -> Callers \cup {None}]
<1>0. /\ lock \in [Managers -> Callers \cup {None}] /\ None \notin Callers
      /\ call \in [Managers -> [Callers -> Manager!Pending \cup {None}]]
  BY DEF ManagerShapes, ManagerConstants
<1> DEFINE Goal == /\ ManagerMutex' /\ call' \in [Managers -> [Callers -> Manager!Pending \cup {None}]]
                   /\ lock' \in [Managers -> Callers \cup {None}]
<1>1. ASSUME NEW m \in Managers, NEW t \in Callers, NEW x \in Manager!Pending \cup {None},
             NEW l \in Callers \cup {None}, 
             call' = [call EXCEPT ![m][t] = x], lock' = [lock EXCEPT ![m] = l],
             lock[m] \in {t, None}, l \in {t, None},
             l = t <=> x # None /\ x.pc \in {"wait", "stuck"}
      PROVE  Goal
  <2>1. call' \in [Managers -> [Callers -> Manager!Pending \cup {None}]] /\ lock' \in [Managers -> Callers \cup {None}]
    BY <1>0, <1>1
  <2>2. \A n \in Managers, u \in Callers : call'[n][u] = IF n = m /\ u = t THEN x ELSE call[n][u]
    BY <1>0, <1>1
  <2>3. lock'[m] = l /\ \A n \in Managers \ {m} : lock'[n] = lock[n]
    BY <1>0, <1>1
  <2>4. ASSUME NEW n \in Managers, NEW u \in Callers
        PROVE  (lock'[n] = u) <=> (call'[n][u] # None /\ call'[n][u].pc \in {"wait", "stuck"})
    <3>1. CASE n # m
      BY <3>1, <2>2, <2>3 DEF ManagerMutex
    <3>2. CASE n = m /\ u = t
      BY <3>2, <2>2, <2>3, <1>1
    <3>3. CASE n = m /\ u # t
      BY <3>3, <2>2, <2>3, <1>0, <1>1 DEF ManagerMutex
    <3> QED  BY <3>1, <3>2, <3>3
  <2> QED  BY <2>1, <2>4 DEF ManagerMutex
<1>2. ASSUME UNCHANGED <<call, lock>> PROVE Goal
  BY <1>0, <1>2 DEF ManagerMutex
<1> SUFFICES Goal
  OBVIOUS
<1> HIDE DEF Goal
<1>3. ASSUME NEW m \in Managers, NEW t \in Callers, lock[m] = None, lock' = lock,
             Manager!Returns(m, t)
      PROVE  Goal
  <2>1. lock' = [lock EXCEPT ![m] = None] /\ call' = [call EXCEPT ![m][t] = None]
    BY <1>0, <1>3 DEF Manager!Returns
  <2> QED  BY <1>0, <1>1, <1>3, <2>1
<1>4. ASSUME NEW m \in Managers, NEW t \in Callers, NEW op \in Manager!Ops, Manager!Call(m, t, op)
      PROVE  Goal
  <2>1. [op |-> op, pc |-> "lock"] \in Manager!Pending
    BY DEF Manager!Pending
  <2>2. call[m][t] = None /\ call' = [call EXCEPT ![m][t] = [op |-> op, pc |-> "lock"]] /\ lock' = lock
    BY <1>4 DEF Manager!Call
  <2>3. \A n \in Managers, u \in Callers :
          call'[n][u] = IF n = m /\ u = t THEN [op |-> op, pc |-> "lock"] ELSE call[n][u]
    BY <1>0, <2>2
  <2>4. call' \in [Managers -> [Callers -> Manager!Pending \cup {None}]]
    BY <1>0, <2>1, <2>2
  <2>5. ManagerMutex'
    BY <1>0, <2>2, <2>3 DEF ManagerMutex
  <2> QED  BY <1>0, <2>2, <2>4, <2>5 DEF Goal
<1>5. ASSUME NEW m \in Managers, NEW t \in Callers, Manager!Runs(m, t) PROVE Goal
  <2>1. CASE Manager!StartAdapter(m, t)
    BY <2>1, <1>3 DEF Manager!StartAdapter, Manager!HasLock
  <2>2. CASE Manager!StartFails(m, t) \/ Manager!StopAtOnce(m, t) \/ Manager!HealthCheck(m, t)
    BY <2>2, <1>3 DEF Manager!StartFails, Manager!StopAtOnce, Manager!HealthCheck, Manager!HasLock
  <2>3. CASE Manager!Signal(m, t)
    <3>1. call[m][t] \in Manager!Pending /\ lock[m] = None
      BY <1>0, <2>3 DEF Manager!Signal, Manager!HasLock
    <3>2. call' = [call EXCEPT ![m][t] = [call[m][t] EXCEPT !.pc = "wait"]] /\ lock' = [lock EXCEPT ![m] = t]
      BY <1>0, <2>3 DEF Manager!Signal
    <3> DEFINE x == [call[m][t] EXCEPT !.pc = "wait"]
    <3>3. x \in Manager!Pending /\ x # None /\ x.pc = "wait"
      BY <3>1, ManagerPending
    <3> HIDE DEF x
    <3> QED  BY <1>1, <3>1, <3>2, <3>3 DEF x
  <2>4. CASE Manager!StopDone(m, t) \/ Manager!KillTimeout(m, t)
    <3>1. Manager!Waits(m, t) /\ call' = [call EXCEPT ![m][t] = None] /\ lock' = [lock EXCEPT ![m] = None]
      BY <2>4 DEF Manager!StopDone, Manager!KillTimeout, Manager!Returns, Manager!Unlock
    <3>2. lock[m] = t
      BY <3>1 DEF Manager!Waits, ManagerMutex
    <3> QED  BY <1>0, <1>1, <3>1, <3>2
  <2>5. CASE Manager!TermTimeout(m, t)
    <3>1. Manager!Waits(m, t) /\ call' = [call EXCEPT ![m][t] = [call[m][t] EXCEPT !.op = "force"]] /\ lock' = lock
      BY <2>5, <1>0 DEF Manager!TermTimeout
    <3>2. lock[m] = t /\ call[m][t] \in Manager!Pending /\ call[m][t].pc = "wait"
      BY <3>1, <1>0 DEF Manager!Waits, ManagerMutex
    <3> DEFINE x == [call[m][t] EXCEPT !.op = "force"]
    <3>3. x \in Manager!Pending /\ x # None /\ x.pc = "wait"
      BY <3>2, ManagerPending
    <3>4. lock' = [lock EXCEPT ![m] = t]
      BY <3>1, <3>2, <1>0
    <3> HIDE DEF x
    <3> QED  BY <1>1, <3>1, <3>2, <3>3, <3>4 DEF x
  <2>6. CASE Manager!Shutdown(m, t)
    <3>1. call[m][t] \in Manager!Pending /\ lock[m] = None
      BY <1>0, <2>6 DEF Manager!Shutdown, Manager!HasLock
    <3>2. CASE Manager!Running(m)
      <4>2. call' = [call EXCEPT ![m][t] = [call[m][t] EXCEPT !.pc = "stuck"]] /\ lock' = [lock EXCEPT ![m] = t]
        BY <1>0, <2>6, <3>2 DEF Manager!Shutdown
      <4> DEFINE x == [call[m][t] EXCEPT !.pc = "stuck"]
      <4>3. x \in Manager!Pending /\ x # None /\ x.pc = "stuck"
        BY <3>1, ManagerPending
      <4> HIDE DEF x
      <4> QED  BY <1>1, <3>1, <4>2, <4>3 DEF x
    <3>3. CASE ~Manager!Running(m)
      BY <2>6, <3>1, <3>3, <1>3 DEF Manager!Shutdown
    <3> QED  BY <3>2, <3>3
  <2> QED  BY <1>5, <2>1, <2>2, <2>3, <2>4, <2>5, <2>6 DEF Manager!Runs
<1>6. ASSUME NEW c \in Manager!Children, Manager!Waiter(c) \/ Manager!ChildEnds(c) PROVE Goal
  BY <1>6, <1>2 DEF Manager!Waiter, Manager!ChildEnds
<1>7. ASSUME NEW m \in Managers, Manager!Cancel(m) PROVE Goal
  BY <1>7, <1>2 DEF Manager!Cancel
<1>8. ASSUME NEW m \in Managers, Manager!Exit(m) PROVE Goal
  BY <1>0, <1>8 DEF Manager!Exit, ManagerMutex, Goal
<1>9. CASE UNCHANGED Manager!vars
  BY <1>9, <1>2 DEF Manager!vars
<1> QED  BY <1>4, <1>5, <1>6, <1>7, <1>8, <1>9 DEF Manager!Next

\* What a step does to runtimes and children: nothing, a start, a mark on a
\* runtime whose child is over or is another's, a health check, a kill, the end
\* of a child, or the end of a manager.
ManagerKeeps ==
    /\ ManagerShapes' /\ ManagerOwned' /\ ManagerStarted' /\ Manager!LiveIsKnown'
    /\ \A n \in Managers : rt[n] # None => rt'[n] # None \/ Manager!Exit(n)

LEMMA ManagerKeepsStep ==
    ASSUME ManagerConstants, ManagerInv, [Manager!Next]_(Manager!vars)
    PROVE  ManagerKeeps
<1>0. /\ up \subseteq Managers /\ ctx \subseteq Managers /\ stale \subseteq Managers
      /\ child \in [Manager!Children -> {"none", "alive", "killed", "dead"}]
      /\ owner \in [Manager!Children -> Managers \cup {None}]
      /\ waiting \subseteq {c \in Manager!Children : child[c] # "none"}
      /\ rt \in [Managers -> Manager!Runtimes \cup {None}]
      /\ calls \in 0..MaxCalls /\ MaxCalls \in Nat
  BY DEF ManagerInv, ManagerShapes, ManagerConstants
<1>1. /\ call' \in [Managers -> [Callers -> Manager!Pending \cup {None}]]
      /\ lock' \in [Managers -> Callers \cup {None}]
  BY ManagerMutexStep DEF ManagerInv
<1>2. ManagerOwned /\ ManagerStarted /\ ManagerAwaited /\ Manager!LiveIsKnown
  BY DEF ManagerInv
<1>3. \A m \in Managers : rt[m] # None => rt[m] \in Manager!Runtimes /\ rt[m].child \in Manager!Children
  BY <1>0 DEF Manager!Runtimes
<1>4. ASSUME UNCHANGED <<up, stale, child, owner, waiting, rt>>, ctx' = ctx, calls' \in 0..MaxCalls
      PROVE  ManagerKeeps
  BY <1>0, <1>1, <1>2, <1>4 DEF ManagerKeeps, ManagerShapes, ManagerOwned, ManagerStarted, Manager!LiveIsKnown, Manager!Live, Manager!Running
\* Children come nearer to their end.
<1>5. ASSUME UNCHANGED <<up, stale, owner, waiting, rt, calls>>, ctx' \subseteq Managers,
             child' \in [Manager!Children -> {"none", "alive", "killed", "dead"}],
             \A c \in Manager!Children : child'[c] # child[c] =>
                child[c] \in {"alive", "killed"} /\ child'[c] \in {"killed", "dead"}
      PROVE  ManagerKeeps
  <2>1. Manager!Live' \subseteq Manager!Live
    BY <1>5 DEF Manager!Live
  <2>2. \A c \in Manager!Children : child'[c] = "none" <=> child[c] = "none"
    BY <1>5
  <2>3. ManagerShapes'
    BY <1>0, <1>1, <1>5, <2>2 DEF ManagerShapes
  <2>4. ManagerOwned' /\ ManagerStarted'
    BY <1>2, <1>3, <1>5, <2>2 DEF ManagerOwned, ManagerStarted
  <2>5. Manager!LiveIsKnown'
    BY <1>2, <1>5, <2>1 DEF Manager!LiveIsKnown, Manager!Running
  <2> QED  BY <1>5, <2>3, <2>4, <2>5 DEF ManagerKeeps
\* A runtime is marked, and no child of its manager lives unless the manager is stale.
<1>6. ASSUME NEW m \in Managers, rt[m] # None, Manager!Mark(m, "stopped"),
             UNCHANGED <<up, ctx, owner, child, calls>>, waiting' \subseteq waiting,
             stale' \in {stale, stale \cup {m}},
             m \in stale' \/ child[rt[m].child] = "dead"
      PROVE  ManagerKeeps
  <2> DEFINE r == [rt[m] EXCEPT !.state = "stopped"]
  <2>1. r \in Manager!Runtimes /\ r # None /\ r.child = rt[m].child
    BY <1>3, <1>6, ManagerRuntime
  <2>2. rt' = [rt EXCEPT ![m] = r]
    BY <1>6 DEF Manager!Mark
  <2> HIDE DEF r
  <2>3. rt' \in [Managers -> Manager!Runtimes \cup {None}] /\ rt'[m] = r /\ \A n \in Managers \ {m} : rt'[n] = rt[n]
    BY <2>1, <2>2, <1>0
  <2>4. ManagerShapes'
    BY <1>0, <1>1, <1>6, <2>3 DEF ManagerShapes
  <2>5. ManagerOwned' /\ ManagerStarted'
    BY <1>2, <1>6, <2>1, <2>3 DEF ManagerOwned, ManagerStarted
  <2>6. ASSUME NEW c \in Manager!Live', owner'[c] \in up' \ stale'
        PROVE  rt'[owner'[c]] # None /\ rt'[owner'[c]].child = c /\ Manager!Running(owner[c])'
    <3>1. c \in Manager!Live /\ owner[c] \in up \ stale /\ owner[c] \in Managers
      BY <1>0, <1>6, <2>6 DEF Manager!Live
    <3>2. rt[owner[c]] # None /\ rt[owner[c]].child = c /\ Manager!Running(owner[c])
      BY <1>2, <3>1 DEF Manager!LiveIsKnown
    <3>3. owner[c] # m
      BY <1>6, <2>6, <3>1, <3>2 DEF Manager!Live
    <3>4. rt'[owner[c]] = rt[owner[c]]
      BY <2>3, <3>1, <3>3
    <3> QED  BY <3>2, <3>4, <1>6 DEF Manager!Running
  <2>7. Manager!LiveIsKnown'
    BY <2>6, <1>6 DEF Manager!LiveIsKnown, Manager!Running
  <2> QED  BY <2>1, <2>3, <2>4, <2>5, <2>7 DEF ManagerKeeps
<1>7. ASSUME NEW m \in Managers, NEW t \in Callers, Manager!StartAdapter(m, t) PROVE ManagerKeeps
  <2>1. /\ ~Manager!Running(m)
        /\ UNCHANGED <<up, ctx, calls, stale>>
    BY <1>7 DEF Manager!StartAdapter
  <2>2. PICK c \in Manager!Children :
        /\ child[c] = "none"
        /\ child' = [child EXCEPT ![c] = "alive"]
        /\ owner' = [owner EXCEPT ![c] = m]
        /\ rt' = [rt EXCEPT ![m] = [child |-> c, state |-> "running", health |-> "unknown"]]
        /\ waiting' = waiting \cup {c}
    BY <1>7 DEF Manager!StartAdapter, Manager!Spawn
  <2> DEFINE r == [child |-> c, state |-> "running", health |-> "unknown"]
  <2>3. r \in Manager!Runtimes /\ r # None /\ r.child = c /\ r.state = "running"
    BY DEF Manager!Runtimes, ManagerConstants
  <2>4. rt' = [rt EXCEPT ![m] = r]
    BY <2>2
  <2> HIDE DEF r
  <2>5. rt' \in [Managers -> Manager!Runtimes \cup {None}] /\ rt'[m] = r /\ \A n \in Managers \ {m} : rt'[n] = rt[n]
    BY <2>3, <2>4, <1>0
  <2>6. /\ child'[c] = "alive" /\ owner'[c] = m
        /\ \A d \in Manager!Children \ {c} : child'[d] = child[d] /\ owner'[d] = owner[d]
        /\ child' \in [Manager!Children -> {"none", "alive", "killed", "dead"}]
        /\ owner' \in [Manager!Children -> Managers \cup {None}]
    BY <2>2, <1>0
  <2>7. waiting' \subseteq {d \in Manager!Children : child'[d] # "none"}
    BY <2>2, <2>6, <1>0
  <2>8. ManagerShapes'
    BY <1>0, <1>1, <2>1, <2>5, <2>6, <2>7 DEF ManagerShapes
  <2>9. ManagerOwned'
    <3> SUFFICES ASSUME NEW n \in Managers, rt'[n] # None
                 PROVE  owner'[rt'[n].child] = n /\ child'[rt'[n].child] # "none"
      BY DEF ManagerOwned
    <3>1. CASE n = m
      BY <3>1, <2>3, <2>5, <2>6
    <3>2. CASE n # m
      <4>1. rt'[n] = rt[n] /\ rt[n] # None
        BY <3>2, <2>5
      <4>2. rt[n].child \in Manager!Children /\ owner[rt[n].child] = n /\ child[rt[n].child] # "none"
        BY <4>1, <1>2, <1>3 DEF ManagerOwned
      <4>3. rt[n].child # c
        BY <4>2, <2>2
      <4> QED  BY <4>1, <4>2, <4>3, <2>6
    <3> QED  BY <3>1, <3>2
  <2>10. ManagerStarted'
    BY <1>2, <2>6 DEF ManagerStarted
  <2>11. ASSUME NEW d \in Manager!Live', owner'[d] \in up' \ stale'
         PROVE  rt'[owner'[d]] # None /\ rt'[owner'[d]].child = d /\ rt'[owner'[d]].state = "running"
    <3>1. CASE d = c
      BY <3>1, <2>3, <2>5, <2>6
    <3>2. CASE d # c
      <4>1. d \in Manager!Live /\ owner'[d] = owner[d]
        BY <3>2, <2>6 DEF Manager!Live
      <4>2. owner[d] \in up \ stale /\ owner[d] \in Managers
        BY <4>1, <2>11, <2>1, <1>0
      <4>3. rt[owner[d]] # None /\ rt[owner[d]].child = d /\ Manager!Running(owner[d])
        BY <1>2, <4>1, <4>2 DEF Manager!LiveIsKnown
      <4>4. owner[d] # m
        BY <4>3, <2>1
      <4> QED  BY <4>1, <4>2, <4>3, <4>4, <2>5 DEF Manager!Running
    <3> QED  BY <3>1, <3>2
  <2>12. Manager!LiveIsKnown'
    BY <2>11 DEF Manager!LiveIsKnown, Manager!Running
  <2> QED  BY <2>3, <2>5, <2>8, <2>9, <2>10, <2>12 DEF ManagerKeeps
<1>8. ASSUME NEW m \in Managers, NEW t \in Callers, Manager!HealthCheck(m, t) PROVE ManagerKeeps
  <2>1. CASE ~Manager!Running(m)
    BY <1>0, <1>4, <1>8, <2>1 DEF Manager!HealthCheck
  <2>2. CASE Manager!Running(m)
    <3> DEFINE r == [rt[m] EXCEPT !.health = "healthy"]
    <3>1. rt[m] # None /\ rt[m] \in Manager!Runtimes
      BY <2>2, <1>3 DEF Manager!Running
    <3>2. r \in Manager!Runtimes /\ r # None /\ r.child = rt[m].child /\ r.state = rt[m].state
      BY <3>1, ManagerRuntime
    <3>3. rt' = [rt EXCEPT ![m] = r] /\ UNCHANGED <<up, ctx, child, owner, waiting, calls, stale>>
      BY <1>8, <2>2 DEF Manager!HealthCheck
    <3> HIDE DEF r
    <3>4. rt' \in [Managers -> Manager!Runtimes \cup {None}] /\ rt'[m] = r /\ \A n \in Managers \ {m} : rt'[n] = rt[n]
      BY <3>2, <3>3, <1>0
    <3>5. \A n \in Managers : /\ rt'[n] # None <=> rt[n] # None
                              /\ rt'[n] # None => rt'[n].child = rt[n].child /\ rt'[n].state = rt[n].state
      BY <3>1, <3>2, <3>4
    <3>6. ManagerShapes'
      BY <1>0, <1>1, <3>3, <3>4 DEF ManagerShapes
    <3>7. ManagerOwned' /\ ManagerStarted'
      BY <1>2, <3>3, <3>5 DEF ManagerOwned, ManagerStarted
    <3>8. Manager!LiveIsKnown'
      BY <1>0, <1>2, <3>3, <3>5 DEF Manager!LiveIsKnown, Manager!Live, Manager!Running
    <3> QED  BY <3>5, <3>6, <3>7, <3>8 DEF ManagerKeeps
  <2> QED  BY <2>1, <2>2
<1>9. ASSUME NEW m \in Managers, NEW t \in Callers, Manager!StopAtOnce(m, t) PROVE ManagerKeeps
  <2>1. CASE ~Manager!Running(m)
    BY <1>0, <1>4, <1>9, <2>1 DEF Manager!StopAtOnce
  <2>2. CASE Manager!Running(m)
    BY <1>6, <1>9, <2>2 DEF Manager!StopAtOnce, Manager!Running
  <2> QED  BY <2>1, <2>2
<1>10. ASSUME NEW m \in Managers, NEW t \in Callers, Manager!StopDone(m, t) PROVE ManagerKeeps
  <2>1. rt[m] # None
    BY <1>2, <1>10 DEF Manager!StopDone, ManagerAwaited
  <2> QED  BY <2>1, <1>6, <1>10 DEF Manager!StopDone
<1>11. ASSUME NEW m \in Managers, rt[m] # None, Manager!Kill(rt[m].child),
              UNCHANGED <<up, ctx, stale, owner, waiting, rt, calls>>
       PROVE  ManagerKeeps
  <2>1. rt[m].child \in Manager!Children
    BY <1>3, <1>11
  <2>2. /\ child' \in [Manager!Children -> {"none", "alive", "killed", "dead"}]
        /\ \A c \in Manager!Children : child'[c] # child[c] => child[c] = "alive" /\ child'[c] = "killed"
    BY <2>1, <1>0, <1>11 DEF Manager!Kill
  <2> QED  BY <2>2, <1>0, <1>5, <1>11
<1>12. ASSUME NEW m \in Managers, NEW t \in Callers, Manager!Signal(m, t) PROVE ManagerKeeps
  <2>1. rt[m] # None /\ UNCHANGED <<up, ctx, stale, owner, waiting, rt, calls>>
    BY <1>12 DEF Manager!Signal, Manager!Running
  <2>2. Manager!Kill(rt[m].child) \/ child' = child
    BY <1>12 DEF Manager!Signal
  <2> QED  BY <2>1, <2>2, <1>0, <1>4, <1>11
<1>13. ASSUME NEW m \in Managers, NEW t \in Callers, Manager!TermTimeout(m, t) PROVE ManagerKeeps
  <2>1. rt[m] # None
    BY <1>2, <1>13 DEF Manager!TermTimeout, ManagerAwaited
  <2> QED  BY <2>1, <1>11, <1>13 DEF Manager!TermTimeout
<1>14. ASSUME NEW m \in Managers, NEW t \in Callers,
              Manager!StartFails(m, t) \/ Manager!KillTimeout(m, t) \/ Manager!Shutdown(m, t)
       PROVE  ManagerKeeps
  BY <1>0, <1>4, <1>14 DEF Manager!StartFails, Manager!KillTimeout, Manager!Shutdown
<1>15. ASSUME NEW m \in Managers, NEW t \in Callers, NEW op \in Manager!Ops, Manager!Call(m, t, op)
       PROVE  ManagerKeeps
  BY <1>0, <1>4, <1>15 DEF Manager!Call
<1>16. ASSUME NEW c \in Manager!Children, Manager!Waiter(c) PROVE ManagerKeeps
  <2> DEFINE m == owner[c]
  <2>1. m \in Managers
    BY <1>2, <1>16 DEF Manager!Waiter, ManagerStarted
  <2>2. CASE ~Manager!Running(m)
    <3>1. UNCHANGED <<up, ctx, stale, child, owner, rt, calls>> /\ waiting' \subseteq waiting
      BY <1>16, <2>2 DEF Manager!Waiter
    <3>2. ManagerShapes'
      BY <1>0, <1>1, <3>1 DEF ManagerShapes
    <3> QED  BY <1>2, <3>1, <3>2 DEF ManagerKeeps, ManagerOwned, ManagerStarted, Manager!LiveIsKnown, Manager!Live, Manager!Running
  <2>3. CASE Manager!Running(m)
    <3>1. /\ rt[m] # None /\ Manager!Mark(m, "stopped") /\ waiting' \subseteq waiting
          /\ UNCHANGED <<up, ctx, owner, child, calls>> /\ child[c] = "dead"
          /\ stale' = IF rt[m].child # c THEN stale \cup {m} ELSE stale
      BY <1>16, <2>3 DEF Manager!Waiter, Manager!Running
    <3> HIDE DEF m
    <3>2. stale' \in {stale, stale \cup {m}} /\ (m \in stale' \/ child[rt[m].child] = "dead")
      BY <3>1
    <3> QED  BY <1>6, <2>1, <3>1, <3>2
  <2> QED  BY <2>2, <2>3
<1>17. ASSUME NEW c \in Manager!Children, Manager!ChildEnds(c) PROVE ManagerKeeps
  <2>1. child[c] \in {"alive", "killed"} /\ child' = [child EXCEPT ![c] = "dead"]
        /\ UNCHANGED <<up, ctx, stale, owner, waiting, rt, calls>>
    BY <1>17 DEF Manager!ChildEnds, Manager!Live
  <2>2. /\ child' \in [Manager!Children -> {"none", "alive", "killed", "dead"}]
        /\ \A d \in Manager!Children : child'[d] # child[d] => child[d] \in {"alive", "killed"} /\ child'[d] = "dead"
    BY <2>1, <1>0
  <2> QED  BY <2>1, <2>2, <1>0, <1>5
<1>18. ASSUME NEW m \in Managers, Manager!Cancel(m) PROVE ManagerKeeps
  <2>1. /\ child' = [c \in Manager!Children |-> IF c \in waiting /\ owner[c] = m /\ child[c] = "alive"
                                                THEN "killed" ELSE child[c]]
        /\ ctx' \subseteq Managers /\ UNCHANGED <<up, stale, owner, waiting, rt, calls>>
    BY <1>0, <1>18 DEF Manager!Cancel
  <2>2. /\ child' \in [Manager!Children -> {"none", "alive", "killed", "dead"}]
        /\ \A d \in Manager!Children : child'[d] # child[d] => child[d] = "alive" /\ child'[d] = "killed"
    BY <2>1, <1>0
  <2> QED  BY <2>1, <2>2, <1>5
<1>19. ASSUME NEW m \in Managers, Manager!Exit(m) PROVE ManagerKeeps
  <2>1. /\ up' = up \ {m} /\ rt' = [rt EXCEPT ![m] = None] /\ waiting' \subseteq waiting
        /\ UNCHANGED <<ctx, child, owner, calls, stale>>
    BY <1>19 DEF Manager!Exit
  <2>2. rt' \in [Managers -> Manager!Runtimes \cup {None}] /\ rt'[m] = None /\ \A n \in Managers \ {m} : rt'[n] = rt[n]
    BY <2>1, <1>0
  <2>3. ManagerShapes'
    BY <1>0, <1>1, <2>1, <2>2 DEF ManagerShapes
  <2>4. ManagerOwned' /\ ManagerStarted'
    BY <1>2, <2>1, <2>2 DEF ManagerOwned, ManagerStarted
  <2>5. Manager!LiveIsKnown'
    BY <1>0, <1>2, <2>1, <2>2 DEF Manager!LiveIsKnown, Manager!Live, Manager!Running
  <2> QED  BY <1>19, <2>2, <2>3, <2>4, <2>5 DEF ManagerKeeps
<1>20. CASE UNCHANGED Manager!vars
  BY <1>0, <1>4, <1>20 DEF Manager!vars
<1> QED  BY <1>7, <1>8, <1>9, <1>10, <1>12, <1>13, <1>14, <1>15, <1>16, <1>17, <1>18, <1>19, <1>20
        DEF Manager!Next, Manager!Runs

\* A waiting stop was preceded by a Signal, and only Exit takes the runtime away.
LEMMA ManagerAwaitedStep ==
    ASSUME ManagerConstants, ManagerInv, [Manager!Next]_(Manager!vars)
    PROVE  ManagerAwaited'
<1> SUFFICES ASSUME NEW n \in Managers, NEW u \in Callers, Manager!Waits(n, u)'
             PROVE  rt'[n] # None
  BY DEF ManagerAwaited
<1>0. call \in [Managers -> [Callers -> Manager!Pending \cup {None}]] /\ ManagerAwaited
  BY DEF ManagerInv, ManagerShapes
<1>1. ~Manager!Exit(n)
  BY <1>0 DEF Manager!Exit, Manager!Waits
<1>2. rt[n] # None => rt'[n] # None
  BY <1>1, ManagerKeepsStep DEF ManagerKeeps
<1>3. Manager!Waits(n, u) => rt'[n] # None
  BY <1>0, <1>2 DEF ManagerAwaited
<1>4. ASSUME NEW m \in Managers, NEW t \in Callers, NEW x,
             call' = [call EXCEPT ![m][t] = x],
             x = None \/ x.pc # "wait" \/ rt[m] # None
      PROVE  rt'[n] # None
  <2>1. call'[n][u] = IF n = m /\ u = t THEN x ELSE call[n][u]
    BY <1>0, <1>4
  <2>2. call'[n][u] # None /\ call'[n][u].pc = "wait"
    BY DEF Manager!Waits
  <2>3. CASE n = m /\ u = t
    BY <2>1, <2>2, <2>3, <1>2, <1>4
  <2>4. CASE ~(n = m /\ u = t)
    BY <2>1, <2>2, <2>4, <1>3 DEF Manager!Waits
  <2> QED  BY <2>3, <2>4
<1>5. ASSUME call' = call PROVE rt'[n] # None
  BY <1>3, <1>5 DEF Manager!Waits
<1>6. ASSUME NEW m \in Managers, NEW t \in Callers, NEW op \in Manager!Ops, Manager!Call(m, t, op)
      PROVE  rt'[n] # None
  <2>1. call' = [call EXCEPT ![m][t] = [op |-> op, pc |-> "lock"]] /\ [op |-> op, pc |-> "lock"].pc # "wait"
    BY <1>6 DEF Manager!Call
  <2> QED  BY <2>1, <1>4
<1>7. ASSUME NEW m \in Managers, NEW t \in Callers, Manager!Runs(m, t)
      PROVE  rt'[n] # None
  <2>1. ASSUME Manager!Returns(m, t) PROVE rt'[n] # None
    BY <1>4, <2>1 DEF Manager!Returns
  <2>2. ASSUME Manager!Signal(m, t) \/ Manager!TermTimeout(m, t) PROVE rt'[n] # None
    <3>1. rt[m] # None
      BY <2>2, <1>0 DEF Manager!Signal, Manager!Running, Manager!TermTimeout, ManagerAwaited
    <3>2. \E x : call' = [call EXCEPT ![m][t] = x]
      BY <2>2, <1>0 DEF Manager!Signal, Manager!TermTimeout
    <3> QED  BY <3>1, <3>2, <1>4
  <2>3. ASSUME Manager!Shutdown(m, t) PROVE rt'[n] # None
    <3>1. CASE Manager!Running(m)
      <4>1. rt[m] # None /\ \E x : call' = [call EXCEPT ![m][t] = x]
        BY <2>3, <3>1, <1>0 DEF Manager!Shutdown, Manager!Running
      <4> QED  BY <4>1, <1>4
    <3>2. CASE ~Manager!Running(m)
      BY <2>1, <2>3, <3>2 DEF Manager!Shutdown
    <3> QED  BY <3>1, <3>2
  <2> QED  BY <1>7, <2>1, <2>2, <2>3
          DEF Manager!Runs, Manager!StartAdapter, Manager!StartFails, Manager!StopAtOnce, Manager!StopDone,
              Manager!KillTimeout, Manager!HealthCheck
<1>8. ASSUME NEW m \in Managers, Manager!Exit(m) PROVE rt'[n] # None
  <2>1. call' = [call EXCEPT ![m] = [t \in Callers |-> None]]
    BY <1>8 DEF Manager!Exit
  <2>2. n # m
    BY <1>1, <1>8
  <2>3. call'[n] = call[n]
    BY <2>1, <2>2, <1>0
  <2> QED  BY <2>3, <1>3 DEF Manager!Waits
<1>9. ASSUME NEW c \in Manager!Children, Manager!Waiter(c) \/ Manager!ChildEnds(c) PROVE rt'[n] # None
  BY <1>5, <1>9 DEF Manager!Waiter, Manager!ChildEnds
<1>10. ASSUME NEW m \in Managers, Manager!Cancel(m) PROVE rt'[n] # None
  BY <1>5, <1>10 DEF Manager!Cancel
<1>11. CASE UNCHANGED Manager!vars
  BY <1>5, <1>11 DEF Manager!vars
<1> QED  BY <1>6, <1>7, <1>8, <1>9, <1>10, <1>11 DEF Manager!Next

LEMMA ManagerInvariance ==
    ASSUME ManagerConstants
    PROVE  Manager!Spec => []ManagerInv
<1>1. Manager!Init => ManagerInv
  <2>1. ASSUME Manager!Init
        PROVE  ManagerInv
    BY <2>1 DEF ManagerConstants, Manager!Init, ManagerInv, ManagerShapes, ManagerOwned, ManagerMutex,
                ManagerAwaited, ManagerStarted, Manager!Waits, Manager!LiveIsKnown, Manager!Live
  <2> QED  BY <2>1
<1>2. ManagerInv /\ [Manager!Next]_(Manager!vars) => ManagerInv'
  <2> SUFFICES ASSUME ManagerInv, [Manager!Next]_(Manager!vars)
               PROVE  ManagerInv'
    OBVIOUS
  <2> QED  BY ManagerMutexStep, ManagerKeepsStep, ManagerAwaitedStep DEF ManagerInv, ManagerKeeps
<1> QED  BY <1>1, <1>2, PTL DEF Manager!Spec

\* Manager.mu: the runtime is of a child its manager has started, and only a
\* stop that waits for its child, or a Shutdown that waits for itself, keeps the
\* mutex.
THEOREM ManagerMutexKept ==
    ASSUME ManagerConstants
    PROVE  Manager!Spec => []Manager!TypeOK
<1>1. ManagerInv => Manager!TypeOK
  BY DEF ManagerInv, ManagerShapes, ManagerOwned, ManagerMutex, Manager!TypeOK
<1> QED  BY <1>1, ManagerInvariance, PTL

\* startSubprocess, stopSubprocess and the waiting goroutine: through stops that
\* time out and starts that overlap them, a child that lives is the running one
\* of its manager's runtime, until the waiter of an earlier child marks it.
THEOREM ManagerLosesNoChild ==
    ASSUME ManagerConstants
    PROVE  Manager!Spec => []Manager!LiveIsKnown
<1>1. ManagerInv => Manager!LiveIsKnown
  BY DEF ManagerInv
<1> QED  BY <1>1, ManagerInvariance, PTL

\* Calls are made by goroutines of a process that runs.
ManagerBusy == \A m \in Managers, t \in Callers : call[m][t] # None => m \in up

\* A manager's children live one at a time, also after its process has ended.
ManagerOneEach ==
    \A c, d \in Manager!Live : owner[c] = owner[d] /\ owner[c] \notin stale => c = d

LEMMA ManagerBusyStep ==
    ASSUME ManagerConstants, ManagerInv, ManagerBusy, [Manager!Next]_(Manager!vars)
    PROVE  ManagerBusy'
<1>0. call \in [Managers -> [Callers -> Manager!Pending \cup {None}]]
  BY DEF ManagerInv, ManagerShapes
<1>1. ASSUME UNCHANGED <<call, up>> PROVE ManagerBusy'
  BY <1>1 DEF ManagerBusy
<1>2. ASSUME NEW m \in Managers, NEW t \in Callers, NEW x, call' = [call EXCEPT ![m][t] = x],
             up' = up, x = None \/ m \in up
      PROVE  ManagerBusy'
  <2>1. \A n \in Managers, u \in Callers : call'[n][u] = IF n = m /\ u = t THEN x ELSE call[n][u]
    BY <1>0, <1>2
  <2> QED  BY <1>2, <2>1 DEF ManagerBusy
<1>3. ASSUME NEW m \in Managers, NEW t \in Callers, NEW op \in Manager!Ops, Manager!Call(m, t, op)
      PROVE  ManagerBusy'
  BY <1>2, <1>3 DEF Manager!Call
<1>4. ASSUME NEW m \in Managers, NEW t \in Callers, Manager!Runs(m, t)
      PROVE  ManagerBusy'
  <2>1. call[m][t] # None /\ up' = up
    BY <1>4 DEF Manager!Runs, Manager!StartAdapter, Manager!StartFails, Manager!StopAtOnce, Manager!Signal,
                Manager!StopDone, Manager!TermTimeout, Manager!KillTimeout, Manager!HealthCheck, Manager!Shutdown,
                Manager!HasLock, Manager!Waits
  <2>2. m \in up
    BY <2>1 DEF ManagerBusy
  <2>3. \E x : call' = [call EXCEPT ![m][t] = x]
    BY <1>0, <1>4 DEF Manager!Runs, Manager!StartAdapter, Manager!StartFails, Manager!StopAtOnce, Manager!Signal,
                Manager!StopDone, Manager!TermTimeout, Manager!KillTimeout, Manager!HealthCheck, Manager!Shutdown,
                Manager!Returns
  <2> QED  BY <1>2, <2>1, <2>2, <2>3
<1>5. ASSUME NEW c \in Manager!Children, Manager!Waiter(c) \/ Manager!ChildEnds(c)
      PROVE  ManagerBusy'
  BY <1>1, <1>5 DEF Manager!Waiter, Manager!ChildEnds
<1>6. ASSUME NEW m \in Managers, Manager!Cancel(m)
      PROVE  ManagerBusy'
  BY <1>1, <1>6 DEF Manager!Cancel
<1>7. ASSUME NEW m \in Managers, Manager!Exit(m)
      PROVE  ManagerBusy'
  BY <1>0, <1>7 DEF Manager!Exit, ManagerBusy
<1>8. CASE UNCHANGED Manager!vars
  BY <1>1, <1>8 DEF Manager!vars
<1> QED  BY <1>3, <1>4, <1>5, <1>6, <1>7, <1>8 DEF Manager!Next

LEMMA ManagerOneEachStep ==
    ASSUME ManagerConstants, ManagerInv, ManagerBusy, ManagerOneEach, [Manager!Next]_(Manager!vars)
    PROVE  ManagerOneEach'
<1>0. /\ child \in [Manager!Children -> {"none", "alive", "killed", "dead"}]
      /\ owner \in [Manager!Children -> Managers \cup {None}]
      /\ Manager!LiveIsKnown
  BY DEF ManagerInv, ManagerShapes
<1>1. ASSUME Manager!Live' \subseteq Manager!Live, owner' = owner, stale \subseteq stale'
      PROVE  ManagerOneEach'
  BY <1>1 DEF ManagerOneEach
<1>2. ASSUME NEW c, Manager!Kill(c) \/ child' = child
      PROVE  Manager!Live' \subseteq Manager!Live
  BY <1>0, <1>2 DEF Manager!Kill, Manager!Live
<1>3. ASSUME NEW m \in Managers, NEW t \in Callers, Manager!StartAdapter(m, t)
      PROVE  ManagerOneEach'
  <2>1. m \in up /\ ~Manager!Running(m) /\ stale' = stale
    BY <1>3 DEF Manager!StartAdapter, Manager!HasLock, ManagerBusy
  <2>2. PICK c \in Manager!Children :
        child[c] = "none" /\ child' = [child EXCEPT ![c] = "alive"] /\ owner' = [owner EXCEPT ![c] = m]
    BY <1>3 DEF Manager!StartAdapter, Manager!Spawn
  <2>3. owner'[c] = m /\ \A d \in Manager!Children \ {c} : child'[d] = child[d] /\ owner'[d] = owner[d]
    BY <1>0, <2>2
  <2>4. \A d \in Manager!Live' : d = c \/ (d # c /\ d \in Manager!Live /\ owner'[d] = owner[d])
    BY <2>3 DEF Manager!Live
  <2>5. m \notin stale => \A d \in Manager!Live : owner[d] # m
    BY <1>0, <2>1 DEF Manager!LiveIsKnown
  <2> QED  BY <2>1, <2>3, <2>4, <2>5 DEF ManagerOneEach
<1>4. ASSUME NEW m \in Managers, NEW t \in Callers,
             \/ Manager!StartFails(m, t) \/ Manager!StopAtOnce(m, t) \/ Manager!Signal(m, t)
             \/ Manager!StopDone(m, t) \/ Manager!TermTimeout(m, t) \/ Manager!KillTimeout(m, t)
             \/ Manager!HealthCheck(m, t) \/ Manager!Shutdown(m, t) \/ \E op \in Manager!Ops : Manager!Call(m, t, op)
      PROVE  ManagerOneEach'
  <2>1. /\ Manager!Kill(rt[m].child) \/ child' = child
        /\ owner' = owner /\ stale' = stale
    BY <1>4 DEF Manager!StartFails, Manager!StopAtOnce, Manager!Signal, Manager!StopDone, Manager!TermTimeout,
                Manager!KillTimeout, Manager!HealthCheck, Manager!Shutdown, Manager!Call
  <2> QED  BY <1>1, <1>2, <2>1
<1>5. ASSUME NEW c \in Manager!Children, Manager!Waiter(c)
      PROVE  ManagerOneEach'
  <2>1. child' = child /\ owner' = owner /\ stale \subseteq stale'
    BY <1>5 DEF Manager!Waiter
  <2> QED  BY <1>1, <1>2, <2>1
<1>6. ASSUME NEW c \in Manager!Children, Manager!ChildEnds(c)
      PROVE  ManagerOneEach'
  <2>1. Manager!Live' \subseteq Manager!Live /\ owner' = owner /\ stale' = stale
    BY <1>0, <1>6 DEF Manager!ChildEnds, Manager!Live
  <2> QED  BY <1>1, <2>1
<1>7. ASSUME NEW m \in Managers, Manager!Cancel(m)
      PROVE  ManagerOneEach'
  <2>1. Manager!Live' \subseteq Manager!Live /\ owner' = owner /\ stale' = stale
    BY <1>0, <1>7 DEF Manager!Cancel, Manager!Live
  <2> QED  BY <1>1, <2>1
<1>8. ASSUME NEW m \in Managers, Manager!Exit(m)
      PROVE  ManagerOneEach'
  <2>1. child' = child /\ owner' = owner /\ stale' = stale
    BY <1>8 DEF Manager!Exit
  <2> QED  BY <1>1, <1>2, <2>1
<1>9. CASE UNCHANGED Manager!vars
  <2>1. child' = child /\ owner' = owner /\ stale' = stale
    BY <1>9 DEF Manager!vars
  <2> QED  BY <1>1, <1>2, <2>1
<1> QED  BY <1>3, <1>4, <1>5, <1>6, <1>7, <1>8, <1>9 DEF Manager!Next, Manager!Runs

\* StartAdapter refuses while the runtime says running, and in one process that
\* is enough: until the waiter of an earlier child marks a later child's runtime,
\* the adapter has one child at a time.  Across processes it is not enough: each
\* command has a manager, and so a runtime, of its own.
THEOREM OneProcessOneChild ==
    ASSUME ManagerConstants, \A m, n \in Managers : m = n
    PROVE  Manager!Spec => [](stale = {} => Manager!NoDoubleSpawn)
<1>1. Manager!Init => ManagerBusy /\ ManagerOneEach
  BY DEF Manager!Init, ManagerBusy, ManagerOneEach, Manager!Live
<1>2. ManagerInv /\ ManagerBusy /\ ManagerOneEach /\ [Manager!Next]_(Manager!vars)
        => ManagerBusy' /\ ManagerOneEach'
  BY ManagerBusyStep, ManagerOneEachStep
<1>3. ManagerInv /\ ManagerOneEach => (stale = {} => Manager!NoDoubleSpawn)
  <2> SUFFICES ASSUME ManagerInv, ManagerOneEach, stale = {}
               PROVE  Manager!NoDoubleSpawn
    OBVIOUS
  <2>1. \A c \in Manager!Live : owner[c] \in Managers
    BY DEF ManagerInv, ManagerStarted, Manager!Live
  <2>2. \A c, d \in Manager!Live : c = d
    BY <2>1 DEF ManagerOneEach
  <2>3. CASE Manager!Live = {}
    <3>1. Cardinality(Manager!Live) = 0
      BY <2>3, FS_EmptySet
    <3> QED  BY <3>1 DEF Manager!NoDoubleSpawn, Manager!Cardinality, Cardinality
  <2>4. CASE Manager!Live # {}
    <3>1. PICK c \in Manager!Live : TRUE
      BY <2>4
    <3>2. Manager!Live = {c}
      BY <2>2, <3>1
    <3>3. Cardinality({c}) = 1
      BY FS_Singleton
    <3>4. Cardinality(Manager!Live) = 1
      BY <3>2, <3>3
    <3> QED  BY <3>4 DEF Manager!NoDoubleSpawn, Manager!Cardinality, Cardinality
  <2> QED  BY <2>3, <2>4
<1>4. Manager!Spec => []ManagerInv
  BY ManagerInvariance
<1> QED  BY <1>1, <1>2, <1>3, <1>4, PTL DEF Manager!Spec
================================================================================
