--------------------------- MODULE EventStoreProofs ---------------------------
(***************************************************************************)
(* Proofs about EventStore, for every number of writers and devices and    *)
(* every bound on the log and on the faults, when all of them go through   *)
(* one EventStore value.                                                   *)
(***************************************************************************)
EXTENDS EventStore, SequenceTheorems, TLAPS

\* Publishers, syncs and devices share one EventStore value.
OneInstance == \A a, b \in Writers \cup Devices : InstOf[a] = InstOf[b]

\* A writer inside Store holds the mutex.
Locked == \A w \in Writers : pc[w] # "idle" => mu[InstOf[w]] = w

\* Versions in the log are at most one ahead of the index: the line of a Store
\* that has not saved the index, now or ever.
OneAhead == \A i \in 1..Len(log) : log[i].ver \in 1..(latest + 1)

\* What a writer inside Store loaded is still current.
Current ==
    \A w \in Writers :
        pc[w] \in {"loaded", "appended", "saving"} =>
            idx[w].latest = latest + 1 /\ idx[w].count = count + 1

\* A writer that has appended its line is the last one that did.
AtEnd ==
    \A w \in Writers :
        pc[w] \in {"appended", "saving"} =>
            /\ Len(log) > 0 /\ pos[w] = Len(log)
            /\ log[pos[w]].ver = latest + 1
            /\ count + 1 <= Len(log)

\* Acknowledged versions are within the index.
AckedIndexed == \A i \in acked : log[i].ver <= latest

\* Devices ask for and reach versions the index has reached.
Reached == \A d \in Devices : upTo[d] <= latest /\ target[d] <= latest

\* A device has received the readable lines up to its version, and no others.
Received == \A d \in Devices : known[d] = {i \in Readable : log[i].ver <= upTo[d]}

\* The log keeps to its bound.
Bounded == Len(log) <= MaxEvents

\* What the lines of the log and the two numbers of the index satisfy together.
FilesOK == OneAhead /\ AckedIndexed /\ AckedVersionsGrow /\ IndexIsBacked /\ Bounded

IInv == TypeOK /\ Locked /\ Current /\ AtEnd /\ FilesOK /\ Reached /\ Received

Line == [ver : Nat, by : Writers, parses : BOOLEAN]

-----------------------------------------------------------------------------
\* The initial state: nothing is stored, nobody is inside Store.
LEMMA InitIInv == Init => IInv
<1> SUFFICES ASSUME Init PROVE IInv
  OBVIOUS
<1>1. Len(log) = 0 /\ log \in Seq(Line)
  BY DEF Init, Line
<1>2. TypeOK
  <2>1. target \in [Devices -> Nat \cup {-1}]
    BY DEF Init
  <2>2. idx \in [Writers -> [latest : Nat, count : Nat]]
    BY DEF Init, NoIndex
  <2>3. acked \subseteq 1..Len(log)
    BY DEF Init
  <2> QED  BY <1>1, <2>1, <2>2, <2>3 DEF Init, TypeOK, Line
<1>3. Locked /\ Current /\ AtEnd
  BY DEF Init, Locked, Current, AtEnd
<1>4. FilesOK
  BY <1>1, LogBounds DEF Init, FilesOK, OneAhead, AckedIndexed, AckedVersionsGrow, IndexIsBacked, Bounded
<1>5. Reached
  BY DEF Init, Reached
<1>6. Received
  BY <1>1 DEF Init, Received, Readable
<1> QED  BY <1>2, <1>3, <1>4, <1>5, <1>6 DEF IInv

\* The log holds lines, and their versions are numbers.
LEMMA LogLines ==
    ASSUME TypeOK
    PROVE  \A i \in 1..Len(log) : log[i] \in Line /\ log[i].ver \in Nat
<1>1. log \in Seq(Line)
  BY DEF TypeOK, Line
<1>2. \A i \in 1..Len(log) : log[i] \in Line
  BY <1>1
<1> QED  BY <1>2 DEF Line

\* With one mutex, two writers are never inside Store together, and no device
\* reads while one is.
LEMMA Alone ==
    ASSUME OneInstance, TypeOK, Locked, NEW w \in Writers, pc[w] # "idle"
    PROVE  /\ \A v \in Writers : pc[v] # "idle" => v = w
           /\ \A d \in Devices : mu[InstOf[d]] # NoWriter
  BY NoWriterAssumption, InstAssumption DEF OneInstance, TypeOK, Locked

\* When the mutex is free nobody is inside Store.
LEMMA Nobody ==
    ASSUME OneInstance, TypeOK, Locked, NEW a \in Writers \cup Devices, mu[InstOf[a]] = NoWriter
    PROVE  \A v \in Writers : pc[v] = "idle"
  BY NoWriterAssumption, InstAssumption DEF OneInstance, TypeOK, Locked

\* Steps that leave the files and the devices alone and move one writer within
\* Store, ahead of its append, or out of it.
LEMMA WriterMoves ==
    ASSUME OneInstance, IInv, NEW w \in Writers,
           UNCHANGED <<log, acked, latest, count, pos, idx, readers>>,
           partial' \in BOOLEAN, torn' \in BOOLEAN, faults' \in Nat,
           NEW loc \in {"idle", "locked"}, pc' = [pc EXCEPT ![w] = loc],
           \/ mu' = [mu EXCEPT ![InstOf[w]] = NoWriter] /\ loc = "idle" /\ pc[w] # "idle"
           \/ mu' = [mu EXCEPT ![InstOf[w]] = w] /\ mu[InstOf[w]] = NoWriter
    PROVE  IInv'
<1>0. InstOf[w] \in Instances
  BY InstAssumption
<1>1. TypeOK'
  BY <1>0 DEF IInv, TypeOK, readers
<1>2. Locked'
  <2>1. CASE pc[w] # "idle"
    BY <1>0, <2>1, Alone, InstAssumption, NoWriterAssumption DEF IInv, TypeOK, Locked
  <2>2. CASE mu[InstOf[w]] = NoWriter
    BY <1>0, <2>2, Nobody, InstAssumption, NoWriterAssumption DEF IInv, TypeOK, Locked
  <2> QED  BY <2>1, <2>2
<1>3. Current' /\ AtEnd'
  BY DEF IInv, TypeOK, Current, AtEnd
<1>4. FilesOK'
  BY DEF IInv, FilesOK, OneAhead, AckedIndexed, AckedVersionsGrow, IndexIsBacked, Bounded
<1>5. Reached' /\ Received'
  BY DEF IInv, Reached, Received, Readable, readers
<1> QED  BY <1>1, <1>2, <1>3, <1>4, <1>5 DEF IInv

LEMMA LoadIndexIInv ==
    ASSUME OneInstance, IInv, NEW w \in Writers, LoadIndex(w)
    PROVE  IInv'
<1> USE DEF LoadIndex, store, files, readers
<1>0. [latest |-> latest + 1, count |-> count + 1] \in [latest : Nat, count : Nat]
  BY DEF IInv, TypeOK
<1>1. TypeOK'
  BY <1>0 DEF IInv, TypeOK
<1>2. Locked'
  BY DEF IInv, TypeOK, Locked
<1>3. Current'
  BY Alone DEF IInv, TypeOK, Current
<1>4. AtEnd'
  BY DEF IInv, TypeOK, AtEnd
<1>5. FilesOK'
  BY DEF IInv, FilesOK, OneAhead, AckedIndexed, AckedVersionsGrow, IndexIsBacked, Bounded
<1>6. Reached' /\ Received'
  BY DEF IInv, Reached, Received, Readable
<1> QED  BY <1>1, <1>2, <1>3, <1>4, <1>5, <1>6 DEF IInv

\* The line just appended is beyond the index, so no device misses it yet.
LEMMA AppendLineIInv ==
    ASSUME OneInstance, IInv, NEW w \in Writers, AppendLine(w)
    PROVE  IInv'
<1> USE DEF AppendLine, readers
<1> DEFINE n == Len(log)
           new == [ver |-> idx[w].latest, by |-> w, parses |-> ~partial]
<1>1. n \in Nat /\ log \in Seq(Line) /\ new \in Line /\ new.ver = latest + 1 /\ latest \in Nat /\ count \in Nat
  BY DEF IInv, TypeOK, Current, Line
<1>2. /\ log' \in Seq(Line) /\ Len(log') = n + 1
      /\ \A i \in 1..n : log'[i] = log[i]
      /\ log'[n + 1] = new
  BY <1>1
<1> HIDE DEF new
<1>3. TypeOK'
  <2>1. acked' \subseteq 1..Len(log')
    BY <1>1, <1>2 DEF IInv, TypeOK
  <2>2. pos' \in [Writers -> Nat]
    BY <1>1 DEF IInv, TypeOK
  <2> QED  BY <1>2, <2>1, <2>2 DEF IInv, TypeOK, Line
<1>4. Locked'
  BY DEF IInv, TypeOK, Locked
<1>5. Current'
  BY DEF IInv, TypeOK, Current
<1>6. AtEnd'
  <2>1. \A v \in Writers : v # w => pc'[v] = "idle"
    BY Alone DEF IInv, TypeOK
  <2>2. count <= n
    BY DEF IInv, FilesOK, IndexIsBacked
  <2>3. pos'[w] = n + 1
    BY DEF IInv, TypeOK
  <2> QED  BY <1>1, <1>2, <2>1, <2>2, <2>3 DEF AtEnd
<1>7. FilesOK'
  <2>1. OneAhead' /\ Bounded'
    BY <1>1, <1>2, LogBounds DEF IInv, FilesOK, OneAhead, Bounded
  <2>2. AckedIndexed' /\ AckedVersionsGrow'
    BY <1>1, <1>2 DEF IInv, TypeOK, FilesOK, AckedIndexed, AckedVersionsGrow
  <2>3. IndexIsBacked'
    BY <1>1, <1>2 DEF IInv, FilesOK, IndexIsBacked
  <2> QED  BY <2>1, <2>2, <2>3 DEF FilesOK
<1>8. Reached'
  BY DEF IInv, Reached
<1>9. Received'
  <2> SUFFICES ASSUME NEW d \in Devices
               PROVE  known[d] = {i \in Readable' : log'[i].ver <= upTo[d]}
    BY DEF Received
  <2>1. known[d] = {i \in Readable : log[i].ver <= upTo[d]}
    BY DEF IInv, Received
  <2>2. upTo[d] \in Nat /\ upTo[d] <= latest
    BY DEF IInv, TypeOK, Reached
  <2>3. ~(log'[n + 1].ver <= upTo[d])
    BY <1>1, <1>2, <2>2
  <2>4. \A i : i \in Readable' <=> i \in Readable \/ (i = n + 1 /\ log'[i].parses)
    BY <1>1, <1>2 DEF Readable
  <2>5. \A i \in Readable : i \in 1..n
    BY DEF Readable
  <2> QED  BY <1>2, <2>1, <2>3, <2>4, <2>5
<1> QED  BY <1>3, <1>4, <1>5, <1>6, <1>7, <1>8, <1>9 DEF IInv

LEMMA TruncateIndexIInv ==
    ASSUME OneInstance, IInv, NEW w \in Writers, TruncateIndex(w)
    PROVE  IInv'
<1> USE DEF TruncateIndex, readers
<1>1. TypeOK'
  BY DEF IInv, TypeOK
<1>2. Locked' /\ Current' /\ AtEnd'
  BY DEF IInv, TypeOK, Locked, Current, AtEnd
<1>3. FilesOK'
  BY DEF IInv, FilesOK, OneAhead, AckedIndexed, AckedVersionsGrow, IndexIsBacked, Bounded
<1>4. Reached' /\ Received'
  BY DEF IInv, Reached, Received, Readable
<1> QED  BY <1>1, <1>2, <1>3, <1>4 DEF IInv

\* Saving publishes the version of the last line, which no acknowledged line has.
LEMMA SaveIndexIInv ==
    ASSUME OneInstance, IInv, NEW w \in Writers, SaveIndex(w)
    PROVE  IInv'
<1> USE DEF SaveIndex, readers
<1> DEFINE n == Len(log)
<1>1. /\ n \in Nat /\ n > 0 /\ pos[w] = n /\ log[n].ver = latest + 1
      /\ latest \in Nat /\ count \in Nat /\ count + 1 <= n
      /\ latest' = latest + 1 /\ count' = count + 1
  BY DEF IInv, TypeOK, AtEnd, Current
<1>2. acked' = acked \cup {n} /\ acked \subseteq 1..n /\ log' = log
  BY <1>1 DEF IInv, TypeOK
<1>v. \A i \in 1..n : log[i].ver \in Nat
  BY LogLines DEF IInv
<1>3. \A v \in Writers : pc'[v] = "idle"
  BY Alone DEF IInv, TypeOK
<1>4. TypeOK'
  <2>1. InstOf[w] \in Instances
    BY InstAssumption
  <2>2. mu' \in [Instances -> Writers \cup {NoWriter}] /\ pc' \in [Writers -> {"idle", "locked", "loaded", "appended", "saving"}]
    BY <2>1 DEF IInv, TypeOK
  <2>3. acked' \subseteq 1..Len(log') /\ latest' \in Nat /\ count' \in Nat
    BY <1>1, <1>2
  <2> QED  BY <2>2, <2>3 DEF IInv, TypeOK
<1>5. Locked' /\ Current' /\ AtEnd'
  BY <1>3 DEF Locked, Current, AtEnd
<1>6. FilesOK'
  <2>1. OneAhead' /\ Bounded'
    BY <1>1, <1>2, <1>v DEF IInv, FilesOK, OneAhead, Bounded
  <2>2. AckedIndexed'
    BY <1>1, <1>2, <1>v DEF IInv, FilesOK, AckedIndexed
  <2>3. AckedVersionsGrow'
    <3> SUFFICES ASSUME NEW i \in acked', NEW j \in acked', i < j
                 PROVE  log[i].ver < log[j].ver
      BY <1>2 DEF AckedVersionsGrow
    <3>1. i \in acked
      BY <1>1, <1>2
    <3>2. CASE j = n
      BY <1>1, <1>2, <1>v, <3>1, <3>2 DEF IInv, FilesOK, AckedIndexed
    <3>3. CASE j # n
      BY <1>2, <3>1, <3>3 DEF IInv, FilesOK, AckedVersionsGrow
    <3> QED  BY <3>2, <3>3
  <2>4. IndexIsBacked'
    BY <1>1, <1>2 DEF IndexIsBacked
  <2> QED  BY <2>1, <2>2, <2>3, <2>4 DEF FilesOK
<1>7. Reached'
  <2> SUFFICES ASSUME NEW d \in Devices PROVE upTo[d] <= latest + 1 /\ target[d] <= latest + 1
    BY <1>1 DEF Reached
  <2>1. upTo[d] \in Int /\ target[d] \in Int /\ upTo[d] <= latest /\ target[d] <= latest
    BY DEF IInv, TypeOK, Reached
  <2> QED  BY <1>1, <2>1
<1>8. Received'
  BY DEF IInv, Received, Readable
<1> QED  BY <1>4, <1>5, <1>6, <1>7, <1>8 DEF IInv

\* A device's steps change what the device knows and nothing else.
LEMMA DeviceMoves ==
    ASSUME IInv, NEW d \in Devices, UNCHANGED <<store, writers, faults>>,
           target' \in [Devices -> Nat \cup {-1}], known' \in [Devices -> SUBSET Nat],
           upTo' \in [Devices -> Nat], Reached', Received'
    PROVE  IInv'
<1> USE DEF store, files, writers
<1>1. TypeOK'
  BY DEF IInv, TypeOK
<1>2. Locked' /\ Current' /\ AtEnd'
  BY DEF IInv, Locked, Current, AtEnd
<1>3. FilesOK'
  BY DEF IInv, FilesOK, OneAhead, AckedIndexed, AckedVersionsGrow, IndexIsBacked, Bounded
<1> QED  BY <1>1, <1>2, <1>3 DEF IInv

LEMMA AskIInv ==
    ASSUME IInv, NEW d \in Devices, GetLatestVersion(d) \/ UpToDate(d)
    PROVE  IInv'
<1> USE DEF GetLatestVersion, UpToDate, store, files, writers
<1>1. target' \in [Devices -> Nat \cup {-1}] /\ known' = known /\ upTo' = upTo
  BY DEF IInv, TypeOK
<1>2. Reached'
  <2> SUFFICES ASSUME NEW e \in Devices PROVE upTo[e] <= latest /\ target'[e] <= latest
    BY <1>1 DEF Reached
  <2>1. latest \in Nat /\ upTo[e] <= latest /\ target[e] <= latest
    BY DEF IInv, TypeOK, Reached
  <2>2. target'[e] = target[e] \/ target'[e] = latest \/ target'[e] = -1
    BY DEF IInv, TypeOK
  <2> QED  BY <2>1, <2>2
<1>3. Received'
  BY DEF IInv, Received, Readable
<1>4. UNCHANGED <<store, writers, faults>>
  OBVIOUS
<1> QED  BY <1>1, <1>2, <1>3, <1>4, DeviceMoves DEF IInv, TypeOK

\* What the range leaves out, the device has received already.
LEMMA GetRangeIInv ==
    ASSUME IInv, NEW d \in Devices, GetRange(d)
    PROVE  IInv'
<1> USE DEF GetRange
<1>1. /\ target[d] \in Nat /\ upTo[d] \in Nat /\ upTo[d] < target[d]
      /\ target[d] <= latest /\ latest \in Nat
  BY DEF IInv, TypeOK, Reached
<1>2. \A i \in Readable : i \in Nat /\ log[i].ver \in Nat
  BY LogLines DEF IInv, Readable
<1>3. target' \in [Devices -> Nat \cup {-1}] /\ upTo' \in [Devices -> Nat]
  BY <1>1 DEF IInv, TypeOK
<1>4. known' \in [Devices -> SUBSET Nat]
  BY <1>2 DEF IInv, TypeOK
<1>5. Reached'
  BY <1>1 DEF IInv, TypeOK, Reached, store, files
<1>6. Received'
  <2>1. log' = log /\ Readable' = Readable
    BY DEF store, files, Readable
  <2>2. \A e \in Devices : e # d => known'[e] = known[e] /\ upTo'[e] = upTo[e]
    BY DEF IInv, TypeOK
  <2>3. upTo'[d] = target[d]
    BY DEF IInv, TypeOK
  <2>4. known'[d] = {i \in Readable : log[i].ver <= upTo[d]} \cup
                    {i \in Readable : upTo[d] + 1 <= log[i].ver /\ log[i].ver <= target[d]}
    BY DEF IInv, TypeOK, Received
  <2>5. known'[d] = {i \in Readable : log[i].ver <= target[d]}
    BY <1>1, <1>2, <2>4
  <2> QED  BY <2>1, <2>2, <2>3, <2>5 DEF IInv, Received
<1>7. UNCHANGED <<store, writers, faults>>
  OBVIOUS
<1> QED  BY <1>3, <1>4, <1>5, <1>6, <1>7, DeviceMoves

\* Every step preserves the invariant.
LEMMA NextIInv ==
    ASSUME OneInstance, IInv, [Next]_vars
    PROVE  IInv'
<1>1. ASSUME NEW w \in Writers, StoreStep(w) PROVE IInv'
  <2> USE DEF store, files, readers
  <2>1. faults \in Nat /\ partial \in BOOLEAN /\ torn \in BOOLEAN
    BY DEF IInv, TypeOK
  <2>2. CASE Lock(w)
    BY <2>1, <2>2, WriterMoves DEF Lock
  <2>3. CASE LoadIndex(w)
    BY <2>3, LoadIndexIInv
  <2>4. CASE LoadFails(w)
    BY <2>1, <2>4, WriterMoves DEF LoadFails
  <2>5. CASE AppendLine(w)
    BY <2>5, AppendLineIInv
  <2>6. CASE AppendPart(w)
    <3>1. faults' \in Nat /\ partial' \in BOOLEAN /\ torn' \in BOOLEAN
      BY <2>1, <2>6 DEF AppendPart
    <3>2. pc[w] # "idle"
      BY <2>6 DEF AppendPart
    <3> QED  BY <2>6, <3>1, <3>2, WriterMoves DEF AppendPart
  <2>7. CASE TruncateIndex(w)
    BY <2>7, TruncateIndexIInv
  <2>8. CASE SaveIndex(w)
    BY <2>8, SaveIndexIInv
  <2>9. CASE Abort(w)
    <3>1. faults' \in Nat /\ partial' \in BOOLEAN /\ torn' \in BOOLEAN
      BY <2>1, <2>9 DEF Abort
    <3> QED  BY <2>9, <3>1, WriterMoves DEF Abort
  <2> QED  BY <1>1, <2>2, <2>3, <2>4, <2>5, <2>6, <2>7, <2>8, <2>9 DEF StoreStep
<1>2. ASSUME NEW d \in Devices, SyncStep(d) PROVE IInv'
  BY <1>2, AskIInv, GetRangeIInv DEF SyncStep
<1>3. CASE UNCHANGED vars
  <2> USE DEF vars, store, files, writers, readers
  <2>1. TypeOK' /\ Locked' /\ Current' /\ AtEnd'
    BY <1>3 DEF IInv, TypeOK, Locked, Current, AtEnd
  <2>2. FilesOK'
    BY <1>3 DEF IInv, FilesOK, OneAhead, AckedIndexed, AckedVersionsGrow, IndexIsBacked, Bounded
  <2>3. Reached' /\ Received'
    BY <1>3 DEF IInv, Reached, Received, Readable
  <2> QED  BY <2>1, <2>2, <2>3 DEF IInv
<1> QED  BY <1>1, <1>2, <1>3 DEF Next

\* In one instance the strengthened invariant holds: a writer inside Store is
\* alone, what it loaded is current, and a device has received exactly the
\* readable lines up to its version.
THEOREM Invariance ==
    ASSUME OneInstance
    PROVE  Spec => []IInv
<1>1. IInv /\ [Next]_vars => IInv'
  BY NextIInv
<1> QED  BY <1>1, InitIInv, PTL DEF Spec

-----------------------------------------------------------------------------
(* The safety properties. *)

\* GetMissedEvents through one instance: a device that has synced to a version
\* has received every readable event up to it, after any failed or half-done
\* Store calls.
THEOREM NoEventMissed ==
    ASSUME OneInstance
    PROVE  Spec => []NothingMissed
<1>1. IInv => NothingMissed
  BY DEF IInv, Received, NothingMissed
<1> QED  BY <1>1, Invariance, PTL

\* Store calls that returned nil through one instance have distinct versions,
\* growing along events.jsonl.
THEOREM VersionsGrow ==
    ASSUME OneInstance
    PROVE  Spec => []AckedVersionsGrow
<1>1. IInv => AckedVersionsGrow
  BY DEF IInv, FilesOK
<1> QED  BY <1>1, Invariance, PTL

\* index.json never counts an event or names a version that is not in
\* events.jsonl.
THEOREM IndexBacked ==
    ASSUME OneInstance
    PROVE  Spec => []IndexIsBacked
<1>1. IInv => IndexIsBacked
  BY DEF IInv, FilesOK
<1> QED  BY <1>1, Invariance, PTL

-----------------------------------------------------------------------------
(* The store implements EventLog. *)

\* What is published is a sequence of sets of events.
LEMMA PublishedSeq ==
    ASSUME IInv
    PROVE  /\ Published \in Seq(SUBSET Nat)
           /\ Len(Published) = latest
           /\ \A v \in 1..latest : Published[v] = {i \in Readable : log[i].ver = v}
<1>1. latest \in Nat
  BY DEF IInv, TypeOK
<1>2. \A i \in Readable : i \in Nat
  BY DEF Readable
<1>3. Published \in [1..latest -> SUBSET Nat]
  BY <1>2 DEF Published
<1>4. Published \in Seq(SUBSET Nat) /\ Len(Published) = latest
  BY <1>1, <1>3
<1> QED  BY <1>4 DEF Published

LEMMA InitImplements == Init => EventLogView!Init
<1> SUFFICES ASSUME Init PROVE EventLogView!Init
  OBVIOUS
<1>1. Published = <<>>
  <2>1. Published \in Seq(SUBSET Nat) /\ Len(Published) = 0
    BY InitIInv, PublishedSeq DEF Init
  <2> QED  BY <2>1, EmptySeq
<1> QED  BY <1>1 DEF EventLogView!Init, Init

\* Saving the index publishes one version, with the lines the log holds under
\* it: the one just acknowledged and those of Store calls that failed since the
\* last version.
LEMMA SaveIndexImplements ==
    ASSUME IInv, NEW w \in Writers, SaveIndex(w)
    PROVE  EventLogView!Next
<1> DEFINE S == {i \in Readable : log[i].ver = latest + 1}
<1>1. latest \in Nat /\ latest' = latest + 1 /\ log' = log /\ known' = known /\ upTo' = upTo
  BY DEF IInv, TypeOK, Current, SaveIndex, readers
<1>2. S \in SUBSET (1..MaxEvents) /\ S \in SUBSET Nat
  BY LogBounds DEF IInv, TypeOK, FilesOK, Bounded, Readable
<1>3. \A v \in 1..Len(Published) : Published[v] \cap S = {}
  BY <1>1, PublishedSeq
<1>4. Published' = Append(Published, S)
  <2>1. /\ Published' \in Seq(SUBSET Nat) /\ Len(Published') = latest + 1
        /\ \A v \in 1..(latest + 1) : Published'[v] = {i \in Readable : log[i].ver = v}
    <3>1. Published' = [v \in 1..(latest + 1) |-> {i \in Readable : log[i].ver = v}]
      BY <1>1 DEF Published, Readable
    <3>2. \A i \in Readable : i \in Nat
      BY DEF Readable
    <3>3. Published' \in [1..(latest + 1) -> SUBSET Nat]
      BY <3>1, <3>2
    <3>4. Published' \in Seq(SUBSET Nat) /\ Len(Published') = latest + 1
      BY <1>1, <3>3
    <3> QED  BY <3>1, <3>4
  <2>2. /\ Append(Published, S) \in Seq(SUBSET Nat) /\ Len(Append(Published, S)) = latest + 1
        /\ \A v \in 1..latest : Append(Published, S)[v] = Published[v]
        /\ Append(Published, S)[latest + 1] = S
    BY <1>1, <1>2, PublishedSeq, AppendProperties
  <2>3. ASSUME NEW v \in 1..(latest + 1) PROVE Published'[v] = Append(Published, S)[v]
    <3>1. CASE v = latest + 1
      BY <2>1, <2>2, <3>1
    <3>2. CASE v # latest + 1
      <4>1. v \in 1..latest
        BY <1>1, <3>2
      <4>2. Published[v] = {i \in Readable : log[i].ver = v}
        BY <4>1, PublishedSeq
      <4> QED  BY <2>1, <2>2, <4>1, <4>2
    <3> QED  BY <3>1, <3>2
  <2> QED  BY <2>1, <2>2, <2>3, SeqEqual
<1>5. EventLogView!Store(S)
  BY <1>1, <1>3, <1>4 DEF EventLogView!Store
<1> QED  BY <1>2, <1>5 DEF EventLogView!Next

\* A line that is only appended is under no published version.
LEMMA AppendLineImplements ==
    ASSUME IInv, NEW w \in Writers, AppendLine(w)
    PROVE  UNCHANGED EventLogView!vars
<1> DEFINE n == Len(log)
           new == [ver |-> idx[w].latest, by |-> w, parses |-> ~partial]
<1>1. n \in Nat /\ log \in Seq(Line) /\ new \in Line /\ new.ver = latest + 1 /\ latest \in Nat
  BY DEF IInv, TypeOK, Current, Line, AppendLine
<1>2. log' = Append(log, new) /\ latest' = latest /\ known' = known /\ upTo' = upTo
  BY DEF AppendLine, readers
<1> HIDE DEF new
<1>3. Len(log') = n + 1 /\ (\A i \in 1..n : log'[i] = log[i]) /\ log'[n + 1] = new
  BY <1>1, <1>2
<1>4. \A i : i \in Readable' <=> i \in Readable \/ (i = n + 1 /\ log'[i].parses)
  BY <1>1, <1>3 DEF Readable
<1>5. \A i \in Readable : i \in 1..n
  BY DEF Readable
<1>6. ASSUME NEW v \in 1..latest
      PROVE  {i \in Readable' : log'[i].ver = v} = {i \in Readable : log[i].ver = v}
  <2>1. log'[n + 1].ver # v
    BY <1>1, <1>3
  <2> QED  BY <1>3, <1>4, <1>5, <2>1
<1>7. Published' = Published
  BY <1>2, <1>6 DEF Published
<1> QED  BY <1>2, <1>7 DEF EventLogView!vars

\* GetRange hands a device what CatchUp does.
LEMMA GetRangeImplements ==
    ASSUME IInv, NEW d \in Devices, GetRange(d)
    PROVE  EventLogView!Next
<1> DEFINE t == target[d]
           R == {i \in Readable : upTo[d] + 1 <= log[i].ver /\ log[i].ver <= t}
           U == UNION {Published[u] : u \in upTo[d] + 1 .. t}
<1>1. upTo[d] \in Nat /\ latest \in Nat /\ t \in Nat /\ upTo[d] < t /\ t <= latest
  BY DEF IInv, TypeOK, Reached, GetRange
<1>2. t \in upTo[d]..Len(Published)
  BY <1>1, PublishedSeq
<1>3. R = U
  <2>1. \A i \in Readable : log[i].ver \in Nat
    BY LogLines DEF IInv, Readable
  <2>2. \A u \in upTo[d] + 1 .. t : Published[u] = {i \in Readable : log[i].ver = u}
    BY <1>1, PublishedSeq
  <2>3. ASSUME NEW i \in R PROVE i \in U
    <3>1. i \in Readable /\ log[i].ver \in upTo[d] + 1 .. t
      BY <1>1, <2>1
    <3>2. i \in Published[log[i].ver]
      BY <2>2, <3>1
    <3> QED  BY <3>1, <3>2
  <2>4. ASSUME NEW i \in U PROVE i \in R
    <3>1. PICK u \in upTo[d] + 1 .. t : i \in Published[u]
      OBVIOUS
    <3>2. i \in Readable /\ log[i].ver = u
      BY <2>2, <3>1
    <3> QED  BY <1>1, <3>2
  <2> QED  BY <2>3, <2>4
<1>4. /\ known' = [known EXCEPT ![d] = @ \cup R]
      /\ upTo' = [upTo EXCEPT ![d] = t]
  BY DEF GetRange
<1>5. Published' = Published
  BY DEF GetRange, Published, Readable, store, files
<1> HIDE DEF t, R, U
<1>6. known' = [known EXCEPT ![d] = @ \cup U]
  BY <1>3, <1>4
<1>7. EventLogView!CatchUp(d)
  BY <1>2, <1>4, <1>5, <1>6 DEF EventLogView!CatchUp, U
<1> QED  BY <1>7 DEF EventLogView!Next

\* Every step of the store is a step of the log or leaves it alone.
LEMMA StepImplements ==
    ASSUME OneInstance, IInv, [Next]_vars
    PROVE  [EventLogView!Next]_(EventLogView!vars)
<1>1. ASSUME UNCHANGED <<log, latest, known, upTo>> PROVE UNCHANGED EventLogView!vars
  BY <1>1 DEF EventLogView!vars, Published, Readable
<1>2. ASSUME NEW w \in Writers, StoreStep(w) PROVE [EventLogView!Next]_(EventLogView!vars)
  <2> USE DEF store, files, readers
  <2>1. CASE Lock(w) \/ LoadIndex(w) \/ LoadFails(w)
    BY <1>1, <2>1 DEF Lock, LoadIndex, LoadFails
  <2>2. CASE AppendPart(w) \/ TruncateIndex(w) \/ Abort(w)
    BY <1>1, <2>2 DEF AppendPart, TruncateIndex, Abort
  <2>3. CASE AppendLine(w)
    BY <2>3, AppendLineImplements
  <2>4. CASE SaveIndex(w)
    BY <2>4, SaveIndexImplements
  <2> QED  BY <1>2, <2>1, <2>2, <2>3, <2>4 DEF StoreStep
<1>3. ASSUME NEW d \in Devices, SyncStep(d) PROVE [EventLogView!Next]_(EventLogView!vars)
  <2>1. CASE GetLatestVersion(d) \/ UpToDate(d)
    BY <1>1, <2>1 DEF GetLatestVersion, UpToDate, store, files
  <2>2. CASE GetRange(d)
    BY <2>2, GetRangeImplements
  <2> QED  BY <1>3, <2>1, <2>2 DEF SyncStep
<1>4. CASE UNCHANGED vars
  BY <1>1, <1>4 DEF vars, store, files, readers
<1> QED  BY <1>2, <1>3, <1>4 DEF Next

\* The event store and GetMissedEvents, through one instance, implement the
\* append-only log of published versions that EventLog describes, for every
\* interleaving of Store calls, write errors, crashes and device syncs.
THEOREM Refinement ==
    ASSUME OneInstance
    PROVE  Spec => ImplementsEventLog
<1>1. IInv /\ [Next]_vars => [EventLogView!Next]_(EventLogView!vars)
  BY StepImplements
<1> QED
  BY <1>1, InitImplements, Invariance, PTL DEF Spec, ImplementsEventLog, EventLogView!Spec
=============================================================================
