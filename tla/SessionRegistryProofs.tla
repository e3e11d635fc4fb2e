------------------------ MODULE SessionRegistryProofs ------------------------
(***************************************************************************)
(* Proofs about SessionRegistry, for every set of goroutines, sessions and *)
(* environment keys and every bound.  Typing and mutual exclusion hold for *)
(* any number of processes; what the mutex buys (rows read are still       *)
(* current when they are written) only when one process uses the store.    *)
(***************************************************************************)
EXTENDS SessionRegistry, TLAPS

\* The goroutines all belong to one aps process.
OneProcess == \A p, q \in Procs : p = q

\* A goroutine inside a mutator executes a call that belongs there, and a sweep
\* job that is running has an attempt to lose.
OpOK ==
    \A t \in Threads :
        /\ pc[t] # "idle" => op[t] \in Ops
        /\ pc[t] \in {"list", "delete"} => op[t] = SweepOp
        /\ pc[t] = "read" /\ op[t] # SweepOp => todo[t] = {op[t].id}
        /\ t \in Jobs /\ pc[t] # "idle" => tries[t] > 0

\* No row is dated in the future.
SeenPast == \A s \in IDs : store[s] # NoRow => store[s].lastSeen <= now

\* What a goroutine has read is what the store holds until it writes; a call
\* on one session has read that session's row, present or absent.
CopyCurrent ==
    \A t \in Threads :
        pc[t] \in {"list", "read", "write"} =>
            /\ \A s \in IDs : got[t][s] # NoRow => got[t][s] = store[s]
            /\ pc[t] = "write" /\ op[t] # SweepOp => got[t][op[t].id] = store[op[t].id]

\* What a sweep has decided to delete is still there and still stale.
DoomedStale ==
    \A t \in Threads : pc[t] = "delete" => \A s \in todo[t] : Stale(s)

IInv == TypeOK /\ MutexHeld /\ OpOK

OneProcessInv == IInv /\ SeenPast /\ CopyCurrent /\ DoomedStale
-----------------------------------------------------------------------------
(* Facts about the data. *)

\* A call on one session names a session and a kind other than the sweep's;
\* what its status and metadata arguments range over depends on the kind.
LEMMA KeyedOpFields ==
    ASSUME NEW o \in KeyedOps
    PROVE  /\ o.id \in IDs
           /\ o.kind \in {"register", "status", "unregister", "heartbeat", "metadata"}
           /\ o.kind = "register" => o.status \in {"", "active"} /\ o.keys \in SUBSET Keys
           /\ o.kind = "status" => o.status \in Statuses
           /\ o.kind = "metadata" => o.keys \in SUBSET Keys
<1>1. CASE o \in RegisterOps
  BY <1>1 DEF RegisterOps
<1>2. CASE o \in StatusOps
  BY <1>2 DEF StatusOps, Statuses
<1>3. CASE o \in PlainOps
  BY <1>3 DEF PlainOps
<1>4. CASE o \in MetadataOps
  BY <1>4 DEF MetadataOps
<1> QED  BY <1>1, <1>2, <1>3, <1>4 DEF KeyedOps

\* A goroutine whose call has a kind of a one-session mutator is executing one.
LEMMA OpByKind ==
    ASSUME NEW o \in Ops \cup {NoOp}
    PROVE  /\ o \in KeyedOps \/ o = SweepOp \/ o = NoOp
           /\ o.kind \in {"register", "status", "unregister", "heartbeat", "metadata"}
                 => o \in KeyedOps
           /\ o.kind = "sweep" => o = SweepOp
           /\ o.kind = "none" <=> o = NoOp
           /\ o \in KeyedOps => o # SweepOp /\ o # NoOp
           /\ SweepOp # NoOp
<1>1. SweepOp.kind = "sweep" /\ NoOp.kind = "none"
  BY DEF SweepOp, NoOp
<1>2. o \in KeyedOps \/ o = SweepOp \/ o = NoOp
  BY DEF Ops
<1>3. o \in KeyedOps =>
        o.kind \in {"register", "status", "unregister", "heartbeat", "metadata"}
  BY KeyedOpFields
<1> QED  BY <1>1, <1>2, <1>3

\* The rows the mutators write are rows.
LEMMA RowUpdates ==
    ASSUME NEW row \in Rows, row # NoRow, NEW n \in Nat,
           NEW st \in Statuses, NEW ks \in SUBSET Keys
    PROVE  /\ [status |-> st, lastSeen |-> n, env |-> ks] \in SessionInfo
           /\ [row EXCEPT !.lastSeen = n] \in SessionInfo
           /\ [row EXCEPT !.status = st, !.lastSeen = n] \in SessionInfo
           /\ [row EXCEPT !.env = @ \cup ks, !.lastSeen = n] \in SessionInfo
  BY DEF Rows, SessionInfo

-----------------------------------------------------------------------------
(* Typing and the mutex, for any number of processes. *)

LEMMA InitIInv == Init => IInv
  BY ProcAssumption, NoThreadAssumption, BoundAssumption
  DEF Init, IInv, TypeOK, MutexHeld, OpOK, NothingRead, NoEvents, Rows, Ops

\* Leaving a mutator, by whichever return, keeps the goroutines' part of IInv.
LEMMA ReturnIInv ==
    ASSUME IInv, NEW t \in Threads, Return(t), pc[t] # "idle",
           \A r \in Jobs : r # t => tries'[r] = tries[r],
           store' \in [IDs -> Rows], bus' \in [IDs -> {"none", "started", "stopped"}],
           now' \in Nat, faults' \in Nat, tries' \in [Jobs -> 0 .. MaxAttempts]
    PROVE  IInv'
<1>1. TypeOK'
  BY DEF IInv, TypeOK, Return, NothingRead, Rows
<1>2. MutexHeld'
  <2> SUFFICES ASSUME NEW r \in Threads
               PROVE  pc'[r] # "idle" <=> mu'[ProcOf[r]] = r
    BY DEF MutexHeld
  <2>1. ProcOf[r] \in Procs /\ ProcOf[t] \in Procs
    BY ProcAssumption
  <2>2. /\ mu'[ProcOf[t]] = NoThread
        /\ ProcOf[r] # ProcOf[t] => mu'[ProcOf[r]] = mu[ProcOf[r]]
        /\ pc'[t] = "idle" /\ (r # t => pc'[r] = pc[r])
    BY <2>1 DEF IInv, TypeOK, Return
  <2>3. mu[ProcOf[t]] = t /\ (pc[r] # "idle" <=> mu[ProcOf[r]] = r)
    BY DEF IInv, MutexHeld
  <2>4. CASE r = t
    BY <2>2, <2>4, NoThreadAssumption
  <2>5. CASE r # t /\ ProcOf[r] = ProcOf[t]
    BY <2>2, <2>3, <2>5, NoThreadAssumption
  <2>6. CASE r # t /\ ProcOf[r] # ProcOf[t]
    BY <2>2, <2>3, <2>6
  <2> QED  BY <2>4, <2>5, <2>6
<1>3. OpOK'
  BY DEF IInv, TypeOK, OpOK, Return
<1> QED  BY <1>1, <1>2, <1>3 DEF IInv

\* What a publication and the end of a sweep job do to bus and attempts.
LEMMA PublishTypes ==
    ASSUME IInv, NEW t \in Threads
    PROVE  /\ Publish(t) => bus' \in [IDs -> {"none", "started", "stopped"}]
           /\ \A n \in 0 .. MaxAttempts : TriesLeft(t, n) => tries' \in [Jobs -> 0 .. MaxAttempts]
  BY DEF IInv, TypeOK, Publish, TriesLeft

\* Taking the mutex for a call.
LEMMA LockIInv ==
    ASSUME IInv, NEW t \in Threads, NEW o \in Ops, Lock(t, o), t \in Jobs => tries[t] > 0
    PROVE  IInv'
<1>1. o = SweepOp \/ (o \in KeyedOps /\ o # SweepOp /\ o.id \in IDs)
  BY OpByKind, KeyedOpFields DEF Ops
<1>2. TypeOK'
  BY <1>1, ProcAssumption DEF IInv, TypeOK, Lock, NothingRead, NoEvents, Rows
<1>3. MutexHeld'
  BY ProcAssumption, NoThreadAssumption DEF IInv, TypeOK, MutexHeld, Lock
<1>4. OpOK'
  BY <1>1 DEF IInv, TypeOK, OpOK, Lock
<1> QED  BY <1>2, <1>3, <1>4 DEF IInv

\* A read-modify-write mutator's write, whatever row it writes.
LEMMA PutIInv ==
    ASSUME IInv, NEW t \in Threads, pc[t] = "write", NEW row \in Rows, op[t] \in KeyedOps,
           Put(t, row), NEW ids \in SUBSET IDs, ToPublish(t, ids),
           UNCHANGED <<mu, op, todo, got, bus, now, tries, faults>>
    PROVE  IInv'
<1>1. op[t].id \in IDs
  BY KeyedOpFields
<1>2. TypeOK'
  BY <1>1 DEF IInv, TypeOK, Put, ToPublish
<1>3. MutexHeld'
  BY DEF IInv, TypeOK, MutexHeld, ToPublish
<1>4. OpOK'
  BY DEF IInv, TypeOK, OpOK, ToPublish
<1> QED  BY <1>2, <1>3, <1>4 DEF IInv

\* The step of a goroutine inside a mutator.
LEMMA StepIInv ==
    ASSUME IInv, NEW t \in Threads, Step(t)
    PROVE  IInv'
<1> USE DEF IInv
<1>0. op[t] \in Ops \cup {NoOp} /\ got[t] \in [IDs -> Rows]
  BY DEF TypeOK
<1>1. CASE ListKeys(t)
  <2>1. TypeOK'     BY <1>1 DEF TypeOK, ListKeys
  <2>2. MutexHeld'  BY <1>1 DEF TypeOK, MutexHeld, ListKeys
  <2>3. OpOK'       BY <1>1 DEF TypeOK, OpOK, ListKeys
  <2> QED  BY <2>1, <2>2, <2>3
<1>2. ASSUME NEW s \in IDs, GetRow(t, s) PROVE IInv'
  <2>1. TypeOK'     BY <1>2 DEF TypeOK, GetRow
  <2>2. MutexHeld'  BY <1>2 DEF TypeOK, MutexHeld, GetRow
  <2>3. OpOK'       BY <1>2 DEF TypeOK, OpOK, GetRow
  <2> QED  BY <2>1, <2>2, <2>3
<1>3. CASE NothingListed(t)
  <2>1. TypeOK'     BY <1>3 DEF TypeOK, NothingListed
  <2>2. MutexHeld'  BY <1>3 DEF TypeOK, MutexHeld, NothingListed
  <2>3. OpOK'       BY <1>3 DEF TypeOK, OpOK, NothingListed
  <2> QED  BY <2>1, <2>2, <2>3
<1>4. CASE RegisterWithContext(t)
  <2>1. op[t] \in KeyedOps /\ op[t].status \in Statuses /\ op[t].keys \in SUBSET Keys
        /\ op[t].id \in IDs
    BY <1>0, <1>4, OpByKind, KeyedOpFields DEF RegisterWithContext, Writes, Statuses
  <2>2. [status |-> op[t].status, lastSeen |-> now, env |-> op[t].keys] \in Rows
    BY <2>1 DEF TypeOK, Rows, SessionInfo
  <2> QED  BY <1>4, <2>1, <2>2, PutIInv DEF RegisterWithContext, Writes
<1>5. CASE UnregisterWithContext(t)
  <2>1. op[t] \in KeyedOps /\ op[t].id \in IDs
    BY <1>0, <1>5, OpByKind, KeyedOpFields DEF UnregisterWithContext, Writes
  <2>2. NoRow \in Rows
    BY DEF Rows
  <2> QED  BY <1>5, <2>1, <2>2, PutIInv DEF UnregisterWithContext, Writes
<1>6. CASE UpdateStatusWithContext(t)
  <2> DEFINE row == got[t][op[t].id]
  <2>1. op[t] \in KeyedOps /\ op[t].id \in IDs /\ op[t].status \in Statuses
    BY <1>0, <1>6, OpByKind, KeyedOpFields DEF UpdateStatusWithContext, Writes
  <2>2. row \in Rows /\ row # NoRow
    BY <1>0, <1>6, <2>1 DEF UpdateStatusWithContext
  <2>3. [row EXCEPT !.status = op[t].status, !.lastSeen = now] \in Rows
    BY <2>1, <2>2, RowUpdates DEF TypeOK, Rows
  <2> QED  BY <1>6, <2>1, <2>3, PutIInv DEF UpdateStatusWithContext, Writes
<1>7. CASE UpdateHeartbeat(t)
  <2> DEFINE row == got[t][op[t].id]
  <2>1. op[t] \in KeyedOps /\ op[t].id \in IDs
    BY <1>0, <1>7, OpByKind, KeyedOpFields DEF UpdateHeartbeat, Writes
  <2>2. row \in Rows /\ row # NoRow
    BY <1>0, <1>7, <2>1 DEF UpdateHeartbeat
  <2>3. [row EXCEPT !.lastSeen = now] \in Rows
    BY <2>2 DEF TypeOK, Rows, SessionInfo
  <2> QED  BY <1>7, <2>1, <2>3, PutIInv DEF UpdateHeartbeat, Writes
<1>8. CASE UpdateSessionMetadata(t)
  <2> DEFINE row == got[t][op[t].id]
  <2>1. op[t] \in KeyedOps /\ op[t].id \in IDs /\ op[t].keys \in SUBSET Keys
    BY <1>0, <1>8, OpByKind, KeyedOpFields DEF UpdateSessionMetadata, Writes
  <2>2. row \in Rows /\ row # NoRow
    BY <1>0, <1>8, <2>1 DEF UpdateSessionMetadata
  <2>3. [row EXCEPT !.env = @ \cup op[t].keys, !.lastSeen = now] \in Rows
    BY <2>1, <2>2 DEF TypeOK, Rows, SessionInfo
  <2> QED  BY <1>8, <2>1, <2>3, PutIInv DEF UpdateSessionMetadata, Writes
<1>9. CASE Refuse(t)
  BY <1>9, ReturnIInv DEF Refuse, TypeOK
<1>10. CASE SweepDecide(t)
  <2>0. op[t] = SweepOp
    BY <1>0, <1>10, OpByKind DEF SweepDecide, Writes
  <2>1. TypeOK'     BY <1>10 DEF TypeOK, SweepDecide, Writes
  <2>2. MutexHeld'  BY <1>10 DEF TypeOK, MutexHeld, SweepDecide, Writes
  <2>3. OpOK'       BY <1>10, <2>0 DEF TypeOK, OpOK, SweepDecide, Writes
  <2> QED  BY <2>1, <2>2, <2>3
<1>11. ASSUME NEW s \in IDs, SweepDelete(t, s) PROVE IInv'
  <2>1. TypeOK'     BY <1>11 DEF TypeOK, SweepDelete, Rows
  <2>2. MutexHeld'  BY <1>11 DEF TypeOK, MutexHeld, SweepDelete
  <2>3. OpOK'       BY <1>11 DEF TypeOK, OpOK, SweepDelete
  <2> QED  BY <2>1, <2>2, <2>3
<1>12. CASE SweepDone(t)
  <2>1. TypeOK'     BY <1>12 DEF TypeOK, SweepDone
  <2>2. MutexHeld'  BY <1>12 DEF TypeOK, MutexHeld, SweepDone
  <2>3. OpOK'       BY <1>12 DEF TypeOK, OpOK, SweepDone
  <2> QED  BY <2>1, <2>2, <2>3
<1>13. CASE PublishAndReturn(t)
  <2>1. \A r \in Jobs : r # t => tries'[r] = tries[r]
    BY <1>13 DEF PublishAndReturn, TriesLeft
  <2>2. tries' \in [Jobs -> 0 .. MaxAttempts] /\ bus' \in [IDs -> {"none", "started", "stopped"}]
    BY <1>13, PublishTypes, BoundAssumption DEF PublishAndReturn
  <2> QED  BY <1>13, <2>1, <2>2, ReturnIInv DEF PublishAndReturn, TypeOK
<1> QED
  BY <1>1, <1>2, <1>3, <1>4, <1>5, <1>6, <1>7, <1>8, <1>9, <1>10, <1>11, <1>12, <1>13
  DEF Step

\* IInv is inductive: every step of the registry, faults included, keeps it.
LEMMA NextIInv == IInv /\ [Next]_vars => IInv'
<1> SUFFICES ASSUME IInv, [Next]_vars PROVE IInv'
  OBVIOUS
<1>1. ASSUME NEW t \in Threads \ Reapers, Call(t) PROVE IInv'
  BY <1>1, LockIInv DEF Call, Ops, Jobs
<1>2. ASSUME NEW t \in Threads, Sweep(t) PROVE IInv'
  BY <1>2, LockIInv DEF Sweep, Ops, Jobs
<1>3. ASSUME NEW t \in Threads, Step(t) PROVE IInv'
  BY <1>3, StepIInv
<1>4. ASSUME NEW t \in Threads, StoreError(t) \/ ReenqueueError(t) PROVE IInv'
  <2>1. \A r \in Jobs : r # t => tries'[r] = tries[r]
    BY <1>4 DEF StoreError, ReenqueueError, TriesLeft
  <2>2. t \in Jobs => tries[t] - 1 \in 0 .. MaxAttempts
    BY <1>4, BoundAssumption DEF StoreError, ReenqueueError, IInv, TypeOK, OpOK
  <2>3. tries' \in [Jobs -> 0 .. MaxAttempts] /\ bus' \in [IDs -> {"none", "started", "stopped"}]
    <3>1. CASE StoreError(t)
      BY <2>2, <3>1, PublishTypes DEF StoreError, IInv, TypeOK
    <3>2. CASE ReenqueueError(t)
      BY <2>2, <3>2, PublishTypes DEF ReenqueueError
    <3> QED  BY <1>4, <3>1, <3>2
  <2> QED  BY <1>4, <2>1, <2>3, ReturnIInv DEF StoreError, ReenqueueError, IInv, TypeOK
<1>5. ASSUME NEW p \in Procs, Crash(p) PROVE IInv'
  <2>1. TypeOK'
    BY <1>5, BoundAssumption DEF IInv, TypeOK, Crash, NothingRead, Rows
  <2>2. MutexHeld'
    BY <1>5, ProcAssumption, NoThreadAssumption DEF IInv, TypeOK, MutexHeld, Crash
  <2>3. OpOK'
    BY <1>5 DEF IInv, TypeOK, OpOK, Crash
  <2> QED  BY <2>1, <2>2, <2>3 DEF IInv
<1>6. CASE Tick
  BY <1>6 DEF Tick, local, IInv, TypeOK, MutexHeld, OpOK
<1>7. CASE UNCHANGED vars
  BY <1>7 DEF vars, IInv, TypeOK, MutexHeld, OpOK
<1> QED
  BY <1>1, <1>2, <1>3, <1>4, <1>5, <1>6, <1>7, ProcAssumption DEF Next

\* The invariant of any number of processes.
THEOREM Invariance == Spec => []IInv
  BY InitIInv, NextIInv, PTL DEF Spec

\* Every reachable state of the registry, of its callers' local variables and
\* of the bus is well typed: rows written by any mutator are SessionInfo
\* records, and a call is never executed with arguments of another kind.
THEOREM Typing == Spec => []TypeOK
<1>1. IInv => TypeOK
  BY DEF IInv
<1> QED  BY <1>1, Invariance, PTL

\* A goroutine is inside a mutator exactly while it holds its process's
\* SessionRegistry.mu: mutual exclusion per process, and no return path,
\* refusal, store error or crash leaves the mutex taken.
THEOREM MutualExclusion == Spec => []MutexHeld
<1>1. IInv => MutexHeld
  BY DEF IInv
<1> QED  BY <1>1, Invariance, PTL

-----------------------------------------------------------------------------
(* One process: what the mutex buys. *)

\* In one process, a goroutine inside a mutator is the only one.
LEMMA Alone ==
    ASSUME IInv, OneProcess, NEW t \in Threads, pc[t] # "idle",
           NEW u \in Threads, pc[u] # "idle"
    PROVE  u = t
  BY ProcAssumption DEF IInv, MutexHeld, OneProcess

LEMMA InitOneProcessInv == Init => OneProcessInv
  BY InitIInv DEF Init, OneProcessInv, SeenPast, CopyCurrent, DoomedStale, NothingRead

\* A return leaves a state in which the others, all idle, owe nothing.
LEMMA ReturnOneProcess ==
    ASSUME OneProcessInv, OneProcess, NEW t \in Threads, Return(t), pc[t] # "idle"
    PROVE  CopyCurrent' /\ DoomedStale'
<1>1. \A u \in Threads : pc'[u] = "idle"
  BY Alone DEF OneProcessInv, IInv, TypeOK, Return
<1> QED  BY <1>1 DEF CopyCurrent, DoomedStale

\* So does a write, after which the writer only publishes.
LEMMA PutOneProcess ==
    ASSUME OneProcessInv, OneProcess, NEW t \in Threads, pc[t] = "write",
           NEW ids, ToPublish(t, ids)
    PROVE  CopyCurrent' /\ DoomedStale'
<1>1. \A u \in Threads : pc'[u] \in {"idle", "publish"}
  BY Alone DEF OneProcessInv, IInv, TypeOK, ToPublish
<1> QED  BY <1>1 DEF CopyCurrent, DoomedStale

\* Rows written by a mutator are dated now, others are left alone.
LEMMA PutSeenPast ==
    ASSUME OneProcessInv, NEW t \in Threads, NEW row \in Rows, Put(t, row),
           op[t].id \in IDs, row # NoRow => row.lastSeen = now, now' = now
    PROVE  SeenPast'
  BY DEF OneProcessInv, IInv, TypeOK, SeenPast, Put

\* What each mutator writes, with one process: computed from the current row.
LEMMA WriteFacts ==
    ASSUME OneProcessInv, NEW t \in Threads, pc[t] = "write", op[t] \in KeyedOps
    PROVE  /\ op[t].id \in IDs
           /\ got[t][op[t].id] = store[op[t].id]
           /\ store[op[t].id] \in Rows
<1>1. op[t].id \in IDs /\ op[t] # SweepOp
  BY KeyedOpFields, OpByKind DEF Ops
<1> QED  BY <1>1 DEF OneProcessInv, IInv, TypeOK, CopyCurrent

LEMMA StepOneProcessInv ==
    ASSUME OneProcessInv, OneProcess, NEW t \in Threads, Step(t)
    PROVE  SeenPast' /\ CopyCurrent' /\ DoomedStale'
<1>0. op[t] \in Ops \cup {NoOp} /\ got[t] \in [IDs -> Rows] /\ now \in Nat
  BY DEF OneProcessInv, IInv, TypeOK
<1> USE DEF OneProcessInv
<1>1. CASE ListKeys(t)
  <2>1. \A u \in Threads : pc'[u] = IF u = t THEN "read" ELSE "idle"
    BY <1>1, Alone DEF IInv, TypeOK, ListKeys
  <2>2. op[t] = SweepOp
    BY <1>1 DEF IInv, OpOK, ListKeys
  <2> QED  BY <1>1, <2>1, <2>2 DEF SeenPast, CopyCurrent, DoomedStale, ListKeys
<1>2. ASSUME NEW s \in IDs, GetRow(t, s) PROVE SeenPast' /\ CopyCurrent' /\ DoomedStale'
  <2>1. \A u \in Threads : u # t => pc'[u] = "idle"
    BY <1>2, Alone DEF IInv, TypeOK, GetRow
  <2>2. op[t] # SweepOp => s = op[t].id
    BY <1>2 DEF IInv, OpOK, GetRow
  <2>3. pc'[t] \in {"read", "write"} /\ got'[t] = [got[t] EXCEPT ![s] = store[s]]
    BY <1>2 DEF IInv, TypeOK, GetRow
  <2>4. CopyCurrent'
    BY <1>0, <1>2, <2>1, <2>2, <2>3 DEF CopyCurrent, GetRow
  <2>5. DoomedStale'
    BY <2>1, <2>3 DEF DoomedStale
  <2> QED  BY <1>2, <2>4, <2>5 DEF SeenPast, GetRow
<1>3. CASE NothingListed(t)
  <2>1. \A u \in Threads : pc'[u] = IF u = t THEN "write" ELSE "idle"
    BY <1>3, Alone DEF IInv, TypeOK, NothingListed
  <2>2. op[t] = SweepOp
    BY <1>3 DEF IInv, OpOK, NothingListed
  <2> QED  BY <1>3, <2>1, <2>2 DEF SeenPast, CopyCurrent, DoomedStale, NothingListed
<1>4. CASE RegisterWithContext(t)
  <2>1. op[t] \in KeyedOps /\ op[t].status \in Statuses /\ op[t].keys \in SUBSET Keys
        /\ op[t].id \in IDs
    BY <1>0, <1>4, OpByKind, KeyedOpFields DEF RegisterWithContext, Writes, Statuses
  <2>2. [status |-> op[t].status, lastSeen |-> now, env |-> op[t].keys] \in Rows
    BY <1>0, <2>1 DEF Rows, SessionInfo
  <2>3. SeenPast'
    BY <1>4, <2>1, <2>2, PutSeenPast DEF RegisterWithContext
  <2> QED  BY <1>4, <2>3, PutOneProcess DEF RegisterWithContext, Writes
<1>5. CASE UnregisterWithContext(t)
  <2>1. op[t] \in KeyedOps /\ op[t].id \in IDs
    BY <1>0, <1>5, OpByKind, KeyedOpFields DEF UnregisterWithContext, Writes
  <2>2. SeenPast'
    BY <1>5, <2>1, PutSeenPast DEF UnregisterWithContext, Rows
  <2> QED  BY <1>5, <2>2, PutOneProcess DEF UnregisterWithContext, Writes
<1>6. CASE UpdateStatusWithContext(t)
  <2> DEFINE row == got[t][op[t].id]
             new == [row EXCEPT !.status = op[t].status, !.lastSeen = now]
  <2>1. op[t] \in KeyedOps /\ op[t].id \in IDs /\ op[t].status \in Statuses
    BY <1>0, <1>6, OpByKind, KeyedOpFields DEF UpdateStatusWithContext, Writes
  <2>2. row \in SessionInfo
    BY <1>0, <1>6, <2>1 DEF UpdateStatusWithContext, Rows
  <2>3. new \in Rows /\ new.lastSeen = now
    BY <1>0, <2>1, <2>2 DEF Rows, SessionInfo
  <2>4. Put(t, new) /\ now' = now
    BY <1>6 DEF UpdateStatusWithContext
  <2>5. SeenPast'
    BY <2>1, <2>3, <2>4, PutSeenPast
  <2> QED  BY <1>6, <2>5, PutOneProcess DEF UpdateStatusWithContext, Writes
<1>7. CASE UpdateHeartbeat(t)
  <2> DEFINE row == got[t][op[t].id]
             new == [row EXCEPT !.lastSeen = now]
  <2>1. op[t] \in KeyedOps /\ op[t].id \in IDs
    BY <1>0, <1>7, OpByKind, KeyedOpFields DEF UpdateHeartbeat, Writes
  <2>2. row \in SessionInfo
    BY <1>0, <1>7, <2>1 DEF UpdateHeartbeat, Rows
  <2>3. new \in Rows /\ new.lastSeen = now
    BY <1>0, <2>2 DEF Rows, SessionInfo
  <2>4. Put(t, new) /\ now' = now
    BY <1>7 DEF UpdateHeartbeat
  <2>5. SeenPast'
    BY <2>1, <2>3, <2>4, PutSeenPast
  <2> QED  BY <1>7, <2>5, PutOneProcess DEF UpdateHeartbeat, Writes
<1>8. CASE UpdateSessionMetadata(t)
  <2> DEFINE row == got[t][op[t].id]
             new == [row EXCEPT !.env = @ \cup op[t].keys, !.lastSeen = now]
  <2>1. op[t] \in KeyedOps /\ op[t].id \in IDs /\ op[t].keys \in SUBSET Keys
    BY <1>0, <1>8, OpByKind, KeyedOpFields DEF UpdateSessionMetadata, Writes
  <2>2. row \in SessionInfo
    BY <1>0, <1>8, <2>1 DEF UpdateSessionMetadata, Rows
  <2>3. new \in Rows /\ new.lastSeen = now
    BY <1>0, <2>1, <2>2 DEF Rows, SessionInfo
  <2>4. Put(t, new) /\ now' = now
    BY <1>8 DEF UpdateSessionMetadata
  <2>5. SeenPast'
    BY <2>1, <2>3, <2>4, PutSeenPast
  <2> QED  BY <1>8, <2>5, PutOneProcess DEF UpdateSessionMetadata, Writes
<1>9. CASE Refuse(t)
  BY <1>9, ReturnOneProcess DEF Refuse, SeenPast
<1>10. CASE SweepDecide(t)
  <2>1. \A u \in Threads : pc'[u] = IF u = t THEN "delete" ELSE "idle"
    BY <1>10, Alone DEF IInv, TypeOK, SweepDecide, Writes
  <2>2. todo'[t] = {s \in IDs : Expired(got[t][s])}
    BY <1>10 DEF IInv, TypeOK, SweepDecide
  <2>3. \A s \in todo'[t] : Stale(s)
    BY <1>10, <2>2 DEF CopyCurrent, Expired, Stale, SweepDecide, Writes
  <2>4. \A s \in todo'[t] : Stale(s)'
    BY <1>10, <2>3 DEF Stale, SweepDecide
  <2> QED  BY <1>10, <2>1, <2>4 DEF SeenPast, CopyCurrent, DoomedStale, SweepDecide
<1>11. ASSUME NEW s \in IDs, SweepDelete(t, s) PROVE SeenPast' /\ CopyCurrent' /\ DoomedStale'
  <2>1. \A u \in Threads : pc'[u] = IF u = t THEN "delete" ELSE "idle"
    BY <1>11, Alone DEF IInv, TypeOK, SweepDelete
  <2>2. store' = [store EXCEPT ![s] = NoRow] /\ todo'[t] = todo[t] \ {s} /\ now' = now
    BY <1>11 DEF IInv, TypeOK, SweepDelete
  <2>3. \A r \in todo[t] : Stale(r)
    BY <1>11 DEF DoomedStale, SweepDelete
  <2>4. \A r \in todo'[t] : Stale(r)'
    BY <2>2, <2>3 DEF Stale, IInv, TypeOK
  <2>5. SeenPast'
    BY <2>2 DEF SeenPast, IInv, TypeOK
  <2> QED  BY <2>1, <2>4, <2>5 DEF CopyCurrent, DoomedStale
<1>12. CASE SweepDone(t)
  <2>1. \A u \in Threads : pc'[u] = IF u = t THEN "publish" ELSE "idle"
    BY <1>12, Alone DEF IInv, TypeOK, SweepDone
  <2> QED  BY <1>12, <2>1 DEF SeenPast, CopyCurrent, DoomedStale, SweepDone
<1>13. CASE PublishAndReturn(t)
  BY <1>13, ReturnOneProcess DEF PublishAndReturn, SeenPast
<1> QED
  BY <1>1, <1>2, <1>3, <1>4, <1>5, <1>6, <1>7, <1>8, <1>9, <1>10, <1>11, <1>12, <1>13
  DEF Step

\* Taking the mutex, when everybody else is then idle.
LEMMA LockOneProcessInv ==
    ASSUME OneProcessInv, OneProcess, NEW t \in Threads, NEW o \in Ops, Lock(t, o)
    PROVE  SeenPast' /\ CopyCurrent' /\ DoomedStale'
<1>0. \A u \in Threads : ProcOf[u] = ProcOf[t]
  BY ProcAssumption DEF OneProcess
<1>1. \A u \in Threads : pc[u] = "idle"
  BY <1>0, NoThreadAssumption DEF OneProcessInv, IInv, MutexHeld, Lock
<1>2. \A u \in Threads : u # t => pc'[u] = "idle"
  BY <1>1 DEF OneProcessInv, IInv, TypeOK, Lock
<1>3. pc'[t] \in {"list", "read"} /\ got'[t] = NothingRead /\ store' = store /\ now' = now
  BY DEF OneProcessInv, IInv, TypeOK, Lock
<1> QED  BY <1>2, <1>3 DEF OneProcessInv, SeenPast, CopyCurrent, DoomedStale, NothingRead

LEMMA NextOneProcessInv == OneProcess /\ OneProcessInv /\ [Next]_vars => OneProcessInv'
<1> SUFFICES ASSUME OneProcess, OneProcessInv, [Next]_vars
             PROVE  SeenPast' /\ CopyCurrent' /\ DoomedStale'
  BY NextIInv DEF OneProcessInv
<1>1. ASSUME NEW t \in Threads, Call(t) PROVE SeenPast' /\ CopyCurrent' /\ DoomedStale'
  BY <1>1, LockOneProcessInv DEF Call, Ops
<1>2. ASSUME NEW t \in Threads, Sweep(t) PROVE SeenPast' /\ CopyCurrent' /\ DoomedStale'
  BY <1>2, LockOneProcessInv DEF Sweep, Ops
<1>3. ASSUME NEW t \in Threads, Step(t) PROVE SeenPast' /\ CopyCurrent' /\ DoomedStale'
  BY <1>3, StepOneProcessInv
<1>4. ASSUME NEW t \in Threads, StoreError(t) \/ ReenqueueError(t)
      PROVE  SeenPast' /\ CopyCurrent' /\ DoomedStale'
  BY <1>4, ReturnOneProcess DEF StoreError, ReenqueueError, OneProcessInv, SeenPast
<1>5. ASSUME NEW p \in Procs, Crash(p) PROVE SeenPast' /\ CopyCurrent' /\ DoomedStale'
  <2>1. \A t \in Threads : pc'[t] = "idle"
    BY <1>5, ProcAssumption DEF OneProcess, Crash
  <2> QED  BY <1>5, <2>1 DEF OneProcessInv, SeenPast, CopyCurrent, DoomedStale, Crash
<1>6. CASE Tick
  <2>1. UNCHANGED <<store, pc, op, todo, got>> /\ now' = now + 1
    BY <1>6 DEF Tick, local
  <2>2. SeenPast'
    BY <2>1 DEF OneProcessInv, IInv, TypeOK, SeenPast, Rows, SessionInfo
  <2>3. CopyCurrent'
    BY <2>1 DEF OneProcessInv, CopyCurrent
  <2>4. \A s \in IDs : Stale(s) => Stale(s)'
    <3> SUFFICES ASSUME NEW s \in IDs, Stale(s) PROVE Stale(s)'
      OBVIOUS
    <3>1. store[s] \in SessionInfo /\ now \in Nat
      BY DEF OneProcessInv, IInv, TypeOK, Stale, Rows
    <3>2. store[s].lastSeen \in Nat
      BY <3>1 DEF SessionInfo
    <3> QED  BY <2>1, <3>1, <3>2, BoundAssumption DEF Stale
  <2>5. DoomedStale'
    BY <2>1, <2>4 DEF OneProcessInv, IInv, TypeOK, DoomedStale
  <2> QED  BY <2>2, <2>3, <2>5
<1>7. CASE UNCHANGED vars
  BY <1>7 DEF vars, OneProcessInv, SeenPast, CopyCurrent, DoomedStale, Stale
<1> QED
  BY <1>1, <1>2, <1>3, <1>4, <1>5, <1>6, <1>7, ProcAssumption DEF Next

\* With one process, every row a goroutine has read is current until it
\* writes, and every row a sweep has doomed is still stale.
THEOREM OneProcessInvariance ==
    ASSUME OneProcess
    PROVE  Spec => []OneProcessInv
<1>1. OneProcessInv /\ [Next]_vars => OneProcessInv'
  BY NextOneProcessInv
<1> QED  BY <1>1, InitOneProcessInv, PTL DEF Spec

-----------------------------------------------------------------------------
(* The action properties, with one process. *)

\* The mutators that write one row.
Writer(t) ==
    \/ RegisterWithContext(t)
    \/ UnregisterWithContext(t)
    \/ UpdateStatusWithContext(t)
    \/ UpdateHeartbeat(t)
    \/ UpdateSessionMetadata(t)

\* Only writers and deletions touch the store.
LEMMA StoreSteps ==
    ASSUME IInv, [Next]_vars
    PROVE  \/ \E t \in Threads : Writer(t)
           \/ \E t \in Threads, s \in IDs : SweepDelete(t, s)
           \/ /\ store' = store
              /\ \A t \in Threads : ~(pc[t] = "write" /\ pc'[t] = "publish")
              /\ \A t \in Threads : pc[t] = "delete" /\ pc'[t] = "delete" => todo'[t] = todo[t]
<1> DEFINE Quiet == /\ store' = store
                    /\ \A t \in Threads : ~(pc[t] = "write" /\ pc'[t] = "publish")
                    /\ \A t \in Threads : pc[t] = "delete" /\ pc'[t] = "delete" => todo'[t] = todo[t]
<1> USE DEF IInv
<1>1. ASSUME NEW t \in Threads, NEW o, Lock(t, o) PROVE Quiet
  BY <1>1 DEF TypeOK, Lock
<1>2. ASSUME NEW t \in Threads, Return(t), store' = store PROVE Quiet
  BY <1>2 DEF TypeOK, Return
<1>3. ASSUME NEW t \in Threads, Step(t)
      PROVE  Quiet \/ Writer(t) \/ \E s \in IDs : SweepDelete(t, s)
  <2>1. CASE ListKeys(t)          BY <2>1 DEF TypeOK, ListKeys
  <2>2. ASSUME NEW s \in IDs, GetRow(t, s) PROVE Quiet
    BY <2>2 DEF TypeOK, GetRow
  <2>3. CASE NothingListed(t)     BY <2>3 DEF TypeOK, NothingListed
  <2>4. CASE Refuse(t)            BY <2>4, <1>2 DEF Refuse
  <2>5. CASE SweepDecide(t)       BY <2>5 DEF TypeOK, SweepDecide, Writes
  <2>6. CASE SweepDone(t)         BY <2>6 DEF TypeOK, SweepDone
  <2>7. CASE PublishAndReturn(t)  BY <2>7, <1>2 DEF PublishAndReturn
  <2> QED  BY <1>3, <2>1, <2>2, <2>3, <2>4, <2>5, <2>6, <2>7 DEF Step, Writer
<1>4. ASSUME NEW t \in Threads, StoreError(t) \/ ReenqueueError(t) PROVE Quiet
  BY <1>4, <1>2 DEF StoreError, ReenqueueError
<1>5. ASSUME NEW p \in Procs, Crash(p) PROVE Quiet
  BY <1>5 DEF TypeOK, Crash
<1>6. CASE Tick \/ UNCHANGED vars
  BY <1>6 DEF Tick, vars, local
<1> QED
  BY <1>1, <1>3, <1>4, <1>5, <1>6, ProcAssumption DEF Next, Call, Sweep

\* What a writer does: it replaces the current row of the session it was
\* called for, alone in the critical section.
LEMMA WriterFacts ==
    ASSUME OneProcessInv, OneProcess, NEW t \in Threads, Writer(t)
    PROVE  /\ op[t].id \in IDs
           /\ pc[t] = "write" /\ pc'[t] = "publish"
           /\ got[t][op[t].id] = store[op[t].id]
           /\ store[op[t].id] \in Rows
           /\ \A s \in IDs : s # op[t].id => store'[s] = store[s]
           /\ \A u \in Threads : pc[u] = "write" => u = t
           /\ \A u \in Threads : pc[u] # "delete"
<1>1. op[t] \in Ops \cup {NoOp}
  BY DEF OneProcessInv, IInv, TypeOK
<1>2. op[t] \in KeyedOps
  BY <1>1, OpByKind DEF Writer, RegisterWithContext, UnregisterWithContext,
     UpdateStatusWithContext, UpdateHeartbeat, UpdateSessionMetadata, Writes
<1>3. pc[t] = "write" /\ \E ids : ToPublish(t, ids)
  BY DEF Writer, RegisterWithContext, UnregisterWithContext,
     UpdateStatusWithContext, UpdateHeartbeat, UpdateSessionMetadata, Writes
<1>4. pc'[t] = "publish"
  BY <1>3 DEF ToPublish, OneProcessInv, IInv, TypeOK
<1>5. op[t].id \in IDs /\ got[t][op[t].id] = store[op[t].id] /\ store[op[t].id] \in Rows
  BY <1>2, <1>3, WriteFacts
<1>6. \E row : Put(t, row)
  BY DEF Writer, RegisterWithContext, UnregisterWithContext,
     UpdateStatusWithContext, UpdateHeartbeat, UpdateSessionMetadata
<1>7. \A s \in IDs : s # op[t].id => store'[s] = store[s]
  BY <1>6 DEF Put, OneProcessInv, IInv, TypeOK
<1>8. \A u \in Threads : pc[u] # "idle" => u = t
  BY <1>3, Alone DEF OneProcessInv
<1> QED  BY <1>3, <1>4, <1>5, <1>7, <1>8

\* The row a writer leaves, by the kind of its call.
LEMMA WriterRow ==
    ASSUME OneProcessInv, OneProcess, NEW t \in Threads, Writer(t),
           NEW old, old = store[op[t].id], NEW new, new = store'[op[t].id]
    PROVE  \/ /\ op[t].kind = "register" /\ old = NoRow /\ new # NoRow
           \/ /\ op[t].kind = "unregister" /\ new = NoRow
           \/ /\ op[t].kind \in {"status", "heartbeat", "metadata"}
              /\ old \in SessionInfo /\ new \in SessionInfo
              /\ old.env \subseteq new.env
              /\ new.lastSeen = now
              /\ checkTransition(old.status, new.status)
<1>0. op[t].id \in IDs /\ got[t][op[t].id] = old /\ old \in Rows /\ op[t] \in Ops \cup {NoOp}
      /\ now \in Nat /\ \A row : Put(t, row) => new = row
  BY WriterFacts DEF OneProcessInv, IInv, TypeOK, Put
<1>1. CASE RegisterWithContext(t)
  <2>1. op[t] \in KeyedOps /\ op[t].kind = "register"
    BY <1>0, <1>1, OpByKind DEF RegisterWithContext, Writes
  <2>2. new = [status |-> op[t].status, lastSeen |-> now, env |-> op[t].keys]
    BY <1>0, <1>1 DEF RegisterWithContext
  <2>3. op[t].status \in {"", "active"} /\ op[t].keys \in SUBSET Keys
    BY <2>1, KeyedOpFields
  <2>4. op[t].status \in Statuses
    BY <2>3 DEF Statuses
  <2>5. now \in Nat
    BY <1>0
  <2>6. [status |-> op[t].status, lastSeen |-> now, env |-> op[t].keys] \in SessionInfo
    BY <2>3, <2>4, <2>5 DEF SessionInfo
  <2>7. new \in SessionInfo
    BY <2>2, <2>6
  <2> QED  BY <1>0, <1>1, <2>1, <2>7, NoRowAssumption DEF RegisterWithContext
<1>2. CASE UnregisterWithContext(t)
  BY <1>0, <1>2 DEF UnregisterWithContext, Writes
<1>3. CASE UpdateStatusWithContext(t)
  <2>1. op[t].kind = "status" /\ op[t].status \in Statuses
    BY <1>0, <1>3, OpByKind, KeyedOpFields DEF UpdateStatusWithContext, Writes
  <2>2. old \in SessionInfo
    BY <1>0, <1>3 DEF UpdateStatusWithContext, Rows
  <2>3. new = [old EXCEPT !.status = op[t].status, !.lastSeen = now]
    BY <1>0, <1>3 DEF UpdateStatusWithContext
  <2>4. checkTransition(old.status, op[t].status)
    BY <1>0, <1>3 DEF UpdateStatusWithContext
  <2>5. new \in SessionInfo /\ new.status = op[t].status /\ new.lastSeen = now /\ new.env = old.env
    BY <1>0, <2>1, <2>2, <2>3 DEF SessionInfo
  <2> QED  BY <2>1, <2>2, <2>4, <2>5
<1>4. CASE UpdateHeartbeat(t)
  <2>1. op[t].kind = "heartbeat"
    BY <1>4 DEF UpdateHeartbeat, Writes
  <2>2. old \in SessionInfo
    BY <1>0, <1>4 DEF UpdateHeartbeat, Rows
  <2>3. new = [old EXCEPT !.lastSeen = now]
    BY <1>0, <1>4 DEF UpdateHeartbeat
  <2>4. new \in SessionInfo /\ new.status = old.status /\ new.lastSeen = now /\ new.env = old.env
    BY <1>0, <2>2, <2>3 DEF SessionInfo
  <2> QED  BY <2>1, <2>2, <2>4 DEF checkTransition
<1>5. CASE UpdateSessionMetadata(t)
  <2>1. op[t].kind = "metadata" /\ op[t].keys \in SUBSET Keys
    BY <1>0, <1>5, OpByKind, KeyedOpFields DEF UpdateSessionMetadata, Writes
  <2>2. old \in SessionInfo
    BY <1>0, <1>5 DEF UpdateSessionMetadata, Rows
  <2>3. new = [old EXCEPT !.env = @ \cup op[t].keys, !.lastSeen = now]
    BY <1>0, <1>5 DEF UpdateSessionMetadata
  <2>4. new \in SessionInfo /\ new.status = old.status /\ new.lastSeen = now
        /\ new.env = old.env \cup op[t].keys
    BY <1>0, <2>1, <2>2, <2>3 DEF SessionInfo
  <2> QED  BY <2>1, <2>2, <2>4 DEF checkTransition
<1> QED  BY <1>1, <1>2, <1>3, <1>4, <1>5 DEF Writer

\* The sweep deletes only what DoomedStale says is still stale.
LEMMA DeleteFacts ==
    ASSUME OneProcessInv, OneProcess, NEW t \in Threads, NEW s \in IDs, SweepDelete(t, s)
    PROVE  /\ Stale(s) /\ store' = [store EXCEPT ![s] = NoRow]
           /\ \A u \in Threads : pc[u] # "write"
           /\ \A u \in Threads, r \in IDs :
                 pc[u] = "delete" /\ r \in todo[u] /\ r \notin todo'[u] => r = s
<1>1. \A u \in Threads : pc[u] # "idle" => u = t
  BY Alone DEF OneProcessInv, SweepDelete
<1> QED  BY <1>1 DEF OneProcessInv, DoomedStale, SweepDelete, IInv, TypeOK

\* The transitions out of errored and into the unset status.
LEMMA Transitions ==
    ASSUME NEW from \in Statuses, NEW to \in Statuses, checkTransition(from, to)
    PROVE  (from = "errored" => to = "errored") /\ (to = "" => from = "")
  BY DEF checkTransition, statusRules, Statuses

\* With one process every step keeps the four action properties.
LEMMA StepProperties ==
    ASSUME OneProcess, OneProcessInv, [Next]_vars
    PROVE  ErroredStep /\ SweepStep /\ UpdateStep /\ CreationStep
<1>0. store \in [IDs -> Rows] /\ now \in Nat /\ SeenPast /\ IInv
  BY DEF OneProcessInv, IInv, TypeOK
<1>1. ASSUME NEW t \in Threads, Writer(t)
      PROVE  ErroredStep /\ SweepStep /\ UpdateStep /\ CreationStep
  <2> DEFINE id == op[t].id
  <2>1. /\ id \in IDs /\ pc[t] = "write" /\ pc'[t] = "publish"
        /\ \A s \in IDs : s # id => store'[s] = store[s]
        /\ \A u \in Threads : pc[u] = "write" => u = t
        /\ \A u \in Threads : pc[u] # "delete"
    BY <1>1, WriterFacts
  <2>2. \/ /\ op[t].kind = "register" /\ store[id] = NoRow /\ store'[id] # NoRow
        \/ /\ op[t].kind = "unregister" /\ store'[id] = NoRow
        \/ /\ op[t].kind \in {"status", "heartbeat", "metadata"}
           /\ store[id] \in SessionInfo /\ store'[id] \in SessionInfo
           /\ store[id].env \subseteq store'[id].env
           /\ store'[id].lastSeen = now
           /\ checkTransition(store[id].status, store'[id].status)
    BY <1>1, WriterRow
  <2>3. store[id] \in SessionInfo /\ store'[id] \in SessionInfo =>
          store[id].status \in Statuses /\ store'[id].status \in Statuses
    BY DEF SessionInfo
  <2>4. \A s \in IDs : store[s] # NoRow => store[s].lastSeen <= now /\ store[s].lastSeen \in Nat
    BY <1>0 DEF SeenPast, Rows, SessionInfo
  <2>5. ErroredStep
    BY <2>1, <2>2, <2>3, Transitions, NoRowAssumption DEF ErroredStep, Puts
  <2>6. SweepStep
    BY <2>1 DEF SweepStep
  <2>7. UpdateStep
    <3> SUFFICES ASSUME NEW s \in IDs, store[s] # NoRow, store'[s] # NoRow
                 PROVE  /\ store[s].env \subseteq store'[s].env
                        /\ store[s].lastSeen <= store'[s].lastSeen
                        /\ store'[s].status = "" => store[s].status = ""
      BY DEF UpdateStep
    <3>1. CASE s # id
      <4>1. store'[s] = store[s]
        BY <2>1, <3>1
      <4>2. store[s].lastSeen <= store'[s].lastSeen
        BY <2>4, <4>1
      <4> QED  BY <4>1, <4>2, Zenon
    <3>2. CASE s = id
      <4>1. /\ store[id].env \subseteq store'[id].env
            /\ store'[id].lastSeen = now
            /\ store[id].status \in Statuses /\ store'[id].status \in Statuses
            /\ checkTransition(store[id].status, store'[id].status)
        BY <2>2, <2>3, <3>2
      <4> QED  BY <2>4, <3>2, <4>1, Transitions
    <3> QED  BY <3>1, <3>2
  <2>8. CreationStep
    <3>1. ASSUME NEW s \in IDs, store[s] = NoRow, store'[s] # NoRow
          PROVE  Puts(t, "register", s)
      BY <2>1, <2>2, <3>1, NoRowAssumption DEF Puts
    <3>2. ASSUME NEW s \in IDs, NEW u \in Threads, Puts(u, "register", s)
          PROVE  store[s] = NoRow /\ store'[s] # NoRow
      BY <2>1, <2>2, <3>2 DEF Puts
    <3> QED  BY <3>1, <3>2 DEF CreationStep
  <2> QED  BY <2>5, <2>6, <2>7, <2>8
<1>2. ASSUME NEW t \in Threads, NEW s \in IDs, SweepDelete(t, s)
      PROVE  ErroredStep /\ SweepStep /\ UpdateStep /\ CreationStep
  <2>1. /\ Stale(s) /\ store' = [store EXCEPT ![s] = NoRow]
        /\ \A u \in Threads : pc[u] # "write"
        /\ \A u \in Threads, r \in IDs :
              pc[u] = "delete" /\ r \in todo[u] /\ r \notin todo'[u] => r = s
    BY <1>2, DeleteFacts
  <2>2. \A r \in IDs : store[r] # NoRow => store[r].lastSeen \in Nat
    BY <1>0 DEF Rows, SessionInfo
  <2>3. ErroredStep   BY <1>0, <2>1 DEF ErroredStep, Stale
  <2>4. SweepStep     BY <2>1 DEF SweepStep, Stale
  <2>5. UpdateStep
    <3> SUFFICES ASSUME NEW r \in IDs, store[r] # NoRow, store'[r] # NoRow
                 PROVE  /\ store[r].env \subseteq store'[r].env
                        /\ store[r].lastSeen <= store'[r].lastSeen
                        /\ store'[r].status = "" => store[r].status = ""
      BY DEF UpdateStep
    <3>1. store'[r] = store[r]
      BY <1>0, <2>1
    <3>2. store[r].lastSeen <= store'[r].lastSeen
      BY <2>2, <3>1
    <3> QED  BY <3>1, <3>2, Zenon
  <2>6. \A u \in Threads, r \in IDs : ~Puts(u, "register", r)
    BY <2>1 DEF Puts
  <2>7. \A r \in IDs : ~(store[r] = NoRow /\ store'[r] # NoRow)
    BY <1>0, <2>1
  <2>8. CreationStep
    BY <2>6, <2>7 DEF CreationStep
  <2> QED  BY <2>3, <2>4, <2>5, <2>8
<1>3. CASE /\ store' = store
           /\ \A t \in Threads : ~(pc[t] = "write" /\ pc'[t] = "publish")
           /\ \A t \in Threads : pc[t] = "delete" /\ pc'[t] = "delete" => todo'[t] = todo[t]
  <2>1. \A r \in IDs : store[r] # NoRow => store[r].lastSeen \in Nat
    BY <1>0 DEF Rows, SessionInfo
  <2>2. ErroredStep   BY <1>3 DEF ErroredStep
  <2>3. SweepStep     BY <1>3 DEF SweepStep
  <2>4. UpdateStep
    <3> SUFFICES ASSUME NEW r \in IDs, store[r] # NoRow
                 PROVE  /\ store[r].env \subseteq store[r].env
                        /\ store[r].lastSeen <= store[r].lastSeen
      BY <1>3 DEF UpdateStep
    <3> QED  BY <2>1
  <2>5. \A u \in Threads, r \in IDs : ~Puts(u, "register", r)
    BY <1>3 DEF Puts
  <2>6. CreationStep
    BY <1>3, <2>5 DEF CreationStep
  <2> QED  BY <2>2, <2>3, <2>4, <2>6
<1> QED  BY <1>0, <1>1, <1>2, <1>3, StoreSteps

\* registry.go's "errored is terminal", for any number of goroutines and
\* sessions of one process, store errors and crashes included.
THEOREM ErroredTerminal ==
    ASSUME OneProcess
    PROVE  Spec => ErroredIsTerminal
<1>1. OneProcessInv /\ [Next]_vars => ErroredStep
  BY StepProperties
<1> QED  BY <1>1, OneProcessInvariance, PTL DEF Spec, ErroredIsTerminal

\* CleanupInactive of one process deletes only rows that are stale and not
\* errored at the moment of deletion.
THEOREM SweepSafe ==
    ASSUME OneProcess
    PROVE  Spec => SweepTakesOnlyStale
<1>1. OneProcessInv /\ [Next]_vars => SweepStep
  BY StepProperties
<1> QED  BY <1>1, OneProcessInvariance, PTL DEF Spec, SweepTakesOnlyStale

\* The read-modify-write mutators of one process lose no update.
THEOREM UpdatesKept ==
    ASSUME OneProcess
    PROVE  Spec => NoLostUpdate
<1>1. OneProcessInv /\ [Next]_vars => UpdateStep
  BY StepProperties
<1> QED  BY <1>1, OneProcessInvariance, PTL DEF Spec, NoLostUpdate

\* In one process a row is created by a Register of an absent session, and by
\* nothing else.
THEOREM CreatedByRegister ==
    ASSUME OneProcess
    PROVE  Spec => OnlyRegisterCreates
<1>1. OneProcessInv /\ [Next]_vars => CreationStep
  BY StepProperties
<1> QED  BY <1>1, OneProcessInvariance, PTL DEF Spec, OnlyRegisterCreates

-----------------------------------------------------------------------------
(* The events on the bus, with one process. *)

\* What a goroutine has still to publish is true of the store.
Owed ==
    \A t \in Threads :
        pc[t] \in {"delete", "publish"} =>
            \A s \in pub[t] : op[t].kind = "register" <=> ~Gone(s)

\* Nothing is to be published before the store has been changed.
Unsaid == \A t \in Threads : pc[t] \in {"list", "read", "write"} => pub[t] = {}

BusInv == OneProcessInv /\ Owed /\ Unsaid

\* A mutator's write of one row, and the event it decides to publish.
LEMMA WriteOwed ==
    ASSUME OneProcess, BusInv, NEW t \in Threads, Writer(t)
    PROVE  Owed'
<1>0. /\ op[t].id \in IDs /\ pc[t] = "write" /\ pc'[t] = "publish"
      /\ got[t][op[t].id] = store[op[t].id] /\ store[op[t].id] \in Rows
  BY WriterFacts DEF BusInv
<1>1. \A u \in Threads : u # t => pc[u] = "idle"
  BY <1>0, Alone DEF BusInv, OneProcessInv
<1>2. op' = op /\ \A u \in Threads : u # t => pc'[u] = "idle"
  <2>1. op' = op /\ \E ids : ToPublish(t, ids)
    BY DEF Writer, RegisterWithContext, UnregisterWithContext,
       UpdateStatusWithContext, UpdateHeartbeat, UpdateSessionMetadata
  <2> QED  BY <1>1, <2>1 DEF ToPublish, BusInv, OneProcessInv, IInv, TypeOK
<1>3. \A ids : ToPublish(t, ids) => pub'[t] = ids
  BY DEF ToPublish, BusInv, OneProcessInv, IInv, TypeOK
<1>4. \A row : Put(t, row) => store'[op[t].id] = row
  BY <1>0 DEF Put, BusInv, OneProcessInv, IInv, TypeOK
<1> DEFINE id == op[t].id
<1> SUFFICES pub'[t] = {} \/ (pub'[t] = {id} /\ (op[t].kind = "register" <=> ~Gone(id)'))
  BY <1>2 DEF Owed
<1>5. CASE RegisterWithContext(t)
  <2>1. op[t] \in Ops \cup {NoOp} /\ op[t].kind = "register"
    BY <1>5 DEF RegisterWithContext, Writes, BusInv, OneProcessInv, IInv, TypeOK
  <2>2. op[t].status \in {"", "active"}
    BY <2>1, OpByKind, KeyedOpFields
  <2>3. store'[id] = [status |-> op[t].status, lastSeen |-> now, env |-> op[t].keys] /\ pub'[t] = {id}
    BY <1>3, <1>4, <1>5 DEF RegisterWithContext
  <2>4. store'[id] # NoRow
    <3>1. op[t].keys \in SUBSET Keys /\ now \in Nat /\ op[t].status \in Statuses
      BY <2>1, <2>2, OpByKind, KeyedOpFields DEF BusInv, OneProcessInv, IInv, TypeOK, Statuses
    <3>2. store'[id] \in SessionInfo
      BY <2>3, <3>1 DEF SessionInfo
    <3> QED  BY <3>2, NoRowAssumption
  <2>5. store'[id].status \notin {"inactive", "errored"}
    <3>1. store'[id].status = op[t].status
      BY <2>3
    <3> QED  BY <2>2, <3>1
  <2>6. ~Gone(id)'
    BY <1>2, <2>4, <2>5 DEF Gone
  <2> QED  BY <2>1, <2>3, <2>6
<1>6. CASE UnregisterWithContext(t)
  <2>1. op[t].kind = "unregister" /\ store'[id] = NoRow /\ pub'[t] \in {{}, {id}}
    BY <1>3, <1>4, <1>6 DEF UnregisterWithContext, Writes
  <2>2. Gone(id)'
    BY <1>2, <2>1 DEF Gone
  <2> QED  BY <2>1, <2>2
<1>7. CASE UpdateStatusWithContext(t)
  <2>0. op[t].kind = "status" /\ store[id] # NoRow
    BY <1>0, <1>7 DEF UpdateStatusWithContext, Writes
  <2>1. store[id] \in SessionInfo
    BY <1>0, <2>0 DEF Rows
  <2>2. store'[id] = [store[id] EXCEPT !.status = op[t].status, !.lastSeen = now]
    BY <1>0, <1>4, <1>7 DEF UpdateStatusWithContext
  <2>3. store'[id].status = op[t].status
    BY <2>1, <2>2 DEF SessionInfo
  <2>4. pub'[t] = {} \/ (pub'[t] = {id} /\ op[t].status \in {"inactive", "errored"})
    BY <1>0, <1>3, <1>7 DEF UpdateStatusWithContext
  <2>5. op[t].status \in {"inactive", "errored"} => Gone(id)'
    BY <1>2, <2>3 DEF Gone
  <2> QED  BY <2>0, <2>4, <2>5
<1>8. CASE UpdateHeartbeat(t) \/ UpdateSessionMetadata(t)
  BY <1>3, <1>8 DEF UpdateHeartbeat, UpdateSessionMetadata
<1> QED  BY <1>5, <1>6, <1>7, <1>8 DEF Writer

LEMMA NextUnsaid ==
    ASSUME BusInv, [Next]_vars
    PROVE  Unsaid'
<1>0. /\ pub \in [Threads -> SUBSET IDs]
      /\ pc \in [Threads -> {"idle", "list", "read", "write", "delete", "publish"}]
  BY DEF BusInv, OneProcessInv, IInv, TypeOK
<1>1. ASSUME NEW t \in Threads, Step(t) PROVE Unsaid'
  <2>1. ASSUME NEW ids, ToPublish(t, ids) PROVE Unsaid'
    BY <1>0, <2>1 DEF BusInv, Unsaid, ToPublish
  <2>2. ASSUME Return(t) PROVE Unsaid'
    BY <1>0, <2>2 DEF BusInv, Unsaid, Return
  <2>3. CASE ListKeys(t) \/ (\E s \in IDs : GetRow(t, s)) \/ NothingListed(t)
    BY <1>0, <2>3 DEF BusInv, Unsaid, ListKeys, GetRow, NothingListed
  <2>4. CASE SweepDecide(t) \/ (\E s \in IDs : SweepDelete(t, s)) \/ SweepDone(t)
    BY <1>0, <2>4 DEF BusInv, Unsaid, SweepDecide, SweepDelete, SweepDone, Writes
  <2> QED
    BY <1>1, <2>1, <2>2, <2>3, <2>4
    DEF Step, RegisterWithContext, UnregisterWithContext, UpdateStatusWithContext, UpdateHeartbeat,
        UpdateSessionMetadata, Refuse, PublishAndReturn
<1>2. ASSUME NEW t \in Threads, StoreError(t) \/ ReenqueueError(t) PROVE Unsaid'
  BY <1>0, <1>2 DEF BusInv, Unsaid, StoreError, ReenqueueError, Return
<1>3. ASSUME NEW t \in Threads, NEW o, Lock(t, o) PROVE Unsaid'
  BY <1>0, <1>3 DEF BusInv, Unsaid, Lock
<1>4. ASSUME NEW p \in Procs, Crash(p) PROVE Unsaid'
  BY <1>4 DEF BusInv, Unsaid, Crash
<1>5. CASE Tick \/ UNCHANGED vars
  BY <1>5 DEF BusInv, Unsaid, Tick, local, vars
<1> QED  BY <1>1, <1>2, <1>3, <1>4, <1>5, ProcAssumption DEF Next, Call, Sweep

LEMMA NextOwed ==
    ASSUME OneProcess, BusInv, [Next]_vars
    PROVE  Owed'
<1>0. /\ pub \in [Threads -> SUBSET IDs] /\ op \in [Threads -> Ops \cup {NoOp}] /\ store \in [IDs -> Rows]
      /\ pc \in [Threads -> {"idle", "list", "read", "write", "delete", "publish"}]
  BY DEF BusInv, OneProcessInv, IInv, TypeOK
<1>1. ASSUME NEW t \in Threads, pc[t] # "idle"
      PROVE  \A u \in Threads : u # t => pc[u] = "idle"
  BY <1>1, Alone DEF BusInv, OneProcessInv
<1>2. ASSUME NEW t \in Threads, NEW o \in Ops, Lock(t, o)
      PROVE  Owed'
  <2>1. \A u \in Threads : pc[u] = "idle"
    BY <1>2, ProcAssumption, NoThreadAssumption DEF OneProcess, BusInv, OneProcessInv, IInv, MutexHeld, Lock
  <2> QED  BY <1>0, <1>2, <2>1 DEF Lock, Owed
<1>3. ASSUME NEW t \in Threads, ListKeys(t) \/ (\E s \in IDs : GetRow(t, s)) \/ NothingListed(t)
      PROVE  Owed'
  <2>1. pc[t] \in {"list", "read"} /\ \A u \in Threads : u # t => pc[u] = "idle"
    BY <1>1, <1>3 DEF ListKeys, GetRow, NothingListed
  <2> QED  BY <1>0, <1>3, <2>1 DEF ListKeys, GetRow, NothingListed, Owed
<1>4. ASSUME NEW t \in Threads, SweepDecide(t)
      PROVE  Owed'
  <2>1. pc[t] = "write" /\ \A u \in Threads : u # t => pc[u] = "idle"
    BY <1>1, <1>4 DEF SweepDecide, Writes
  <2>2. pub[t] = {}
    BY <2>1 DEF BusInv, Unsaid
  <2> QED  BY <1>0, <1>4, <2>1, <2>2 DEF SweepDecide, Owed
<1>5. ASSUME NEW t \in Threads, NEW s \in IDs, SweepDelete(t, s)
      PROVE  Owed'
  <2>1. /\ pc[t] = "delete" /\ op[t] = SweepOp /\ UNCHANGED <<pc, op>>
        /\ store' = [store EXCEPT ![s] = NoRow] /\ pub'[t] = pub[t] \cup {s}
        /\ \A u \in Threads : u # t => pc[u] = "idle"
    BY <1>0, <1>1, <1>5 DEF SweepDelete, BusInv, OneProcessInv, IInv, OpOK
  <2>2. op[t].kind # "register"
    BY <2>1 DEF SweepOp
  <2>3. \A r \in pub'[t] : Gone(r)'
    BY <1>0, <2>1, <2>2 DEF BusInv, Owed, Gone
  <2> QED  BY <2>1, <2>2, <2>3 DEF Owed
<1>6. ASSUME NEW t \in Threads, SweepDone(t)
      PROVE  Owed'
  BY <1>0, <1>6 DEF SweepDone, BusInv, Owed, Gone
<1>7. ASSUME NEW t \in Threads, pc[t] # "idle", Return(t)
      PROVE  Owed'
  <2>1. \A u \in Threads : pc'[u] = "idle"
    BY <1>0, <1>1, <1>7 DEF Return
  <2> QED  BY <2>1 DEF Owed
<1>8. ASSUME NEW t \in Threads, Refuse(t) \/ PublishAndReturn(t) \/ StoreError(t) \/ ReenqueueError(t)
      PROVE  Owed'
  BY <1>7, <1>8 DEF Refuse, PublishAndReturn, StoreError, ReenqueueError
<1>9. ASSUME NEW p \in Procs, Crash(p)
      PROVE  Owed'
  <2>1. \A t \in Threads : pc'[t] = "idle"
    BY <1>9, ProcAssumption DEF OneProcess, Crash
  <2> QED  BY <2>1 DEF Owed
<1>10. CASE Tick \/ UNCHANGED vars
  <2>1. UNCHANGED <<store, pc, op, pub>>
    BY <1>10 DEF Tick, local, vars
  <2> QED  BY <2>1 DEF BusInv, Owed, Gone
<1>11. \A t \in Threads : Step(t) => Owed'
  BY <1>3, <1>4, <1>5, <1>6, <1>8, WriteOwed DEF Step, Writer
<1> QED  BY <1>2, <1>8, <1>9, <1>10, <1>11, ProcAssumption DEF Next, Call, Sweep, Ops

\* The lifecycle events of one process: whatever was lost, failed or died before,
\* an event that reaches the bus is true of its session when it does.
THEOREM AnnouncedTruly ==
    ASSUME OneProcess
    PROVE  Spec => EventsAreTrue
<1>1. Init => BusInv
  <2>1. Init => Owed /\ Unsaid
    BY DEF Init, Owed, Unsaid
  <2> QED  BY <2>1, InitOneProcessInv DEF BusInv
<1>2. BusInv /\ [Next]_vars => BusInv'
  BY NextOwed, NextUnsaid, NextOneProcessInv DEF BusInv
<1>3. BusInv /\ [Next]_vars => EventStep
  <2> SUFFICES ASSUME BusInv, [Next]_vars, NEW s \in IDs, bus'[s] \notin {bus[s], "none"}
               PROVE  bus'[s] = "stopped" <=> Gone(s)
    BY DEF EventStep
  <2>1. \E t \in Threads : PublishAndReturn(t) \/ ReenqueueError(t)
    <3>1. \A t \in Threads : \A o : Lock(t, o) => bus'[s] = "none"
      BY DEF Lock, NoEvents
    <3>2. \A t \in Threads : Step(t) => bus' = bus \/ PublishAndReturn(t)
      BY Zenon DEF Step, ListKeys, GetRow, NothingListed, RegisterWithContext,
         UnregisterWithContext, UpdateStatusWithContext, UpdateHeartbeat, UpdateSessionMetadata, Refuse,
         SweepDecide, SweepDelete, SweepDone
    <3>3. (\E t \in Threads : StoreError(t)) \/ (\E p \in Procs : Crash(p)) \/ Tick \/ UNCHANGED vars => bus' = bus
      BY DEF StoreError, Crash, Tick, vars
    <3> QED  BY <3>1, <3>2, <3>3, ProcAssumption DEF Next, Call, Sweep
  <2>2. PICK t \in Threads : PublishAndReturn(t) \/ ReenqueueError(t)
    BY <2>1
  <2>3. pc[t] = "publish" /\ Publish(t)
    BY <2>2 DEF PublishAndReturn, ReenqueueError
  <2>4. s \in pub[t] /\ bus'[s] = IF op[t].kind = "register" THEN "started" ELSE "stopped"
    BY <2>3 DEF Publish
  <2> QED  BY <2>3, <2>4 DEF BusInv, Owed
<1> QED  BY <1>1, <1>2, <1>3, PTL DEF Spec, EventsAreTrue
=============================================================================
