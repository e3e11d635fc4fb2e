-------------------------- MODULE RunLifecycleProofs --------------------------
(***************************************************************************)
(* Proofs about RunLifecycle, for every set of runs, every amount of       *)
(* output, every size of the pipe, with and without descendants that keep  *)
(* the child's standard output.                                            *)
(*                                                                         *)
(* The invariant follows ExecuteRun: what status, process and stream can   *)
(* be at each of its positions.  The part that carries the output property *)
(* is a balance (Flow): what a streaming child has written is either       *)
(* counted or still in the pipe, and a reader that stopped without a       *)
(* failed write has seen the end of the file (Eof).                        *)
(***************************************************************************)
EXTENDS RunLifecycle, TLAPS

\* The status while ExecuteRun is at each position: a CancelRun can only have
\* come before the outcome.
StatusAt(r) ==
    /\ pc[r] = "idle" => status[r] = "none"
    /\ pc[r] \in {"preparing", "prepared"} => status[r] \in {"pending", "cancelled"}
    /\ pc[r] \in {"starting", "waiting"} => status[r] \in {"running", "cancelled"}
    /\ pc[r] = "waited" => status[r] \in {"completed", "failed"}
    /\ pc[r] \in {"draining", "returned"} => status[r] \in Final
    /\ pc[r] = "error" => status[r] \in {"none", "pending", "cancelled"}

\* The process while ExecuteRun is at each position.
ChildAt(r) ==
    /\ pc[r] \in {"idle", "preparing", "prepared", "starting", "error"} => proc[r] = "none"
    /\ pc[r] = "waiting" => proc[r] \in {"alive", "ok", "fail"}
    /\ pc[r] = "waited" => proc[r] \in {"ok", "fail"}
    /\ pc[r] \in {"draining", "returned"} => proc[r] # "alive"
    /\ proc[r] = "none" => ~orphan[r] /\ produced[r] = 0

\* What the record says of the process.
RecordOf(r) ==
    /\ exitCode[r] # "unset" => pc[r] \in {"waited", "draining", "returned"}
    /\ exitCode[r] = "zero" => proc[r] = "ok"
    /\ exitCode[r] = "nonzero" => proc[r] = "fail"
    /\ status[r] = "completed" => exitCode[r] = "zero"
    /\ status[r] = "failed" => proc[r] \in {"none", "fail"}
    /\ proc[r] = "killed" => exitCode[r] = "unset" /\ status[r] = "cancelled"

\* Where the output is.
Flow(r) ==
    /\ streaming[r] => /\ produced[r] = outSize[r] + pipe[r]
                       /\ streamed[r] <= outSize[r]
    /\ ~streaming[r] =>
        /\ pipe[r] = 0 /\ streamed[r] = 0
        /\ pc[r] \notin {"draining", "returned"} => outSize[r] = 0
        /\ pc[r] = "waited" => ~orphan[r]
        /\ pc[r] = "returned" /\ status[r] \in {"completed", "failed"} =>
              ~orphan[r] /\ outSize[r] = produced[r]

\* The reader of a streaming run, and who can still write to the pipe.
Eof(r) ==
    /\ reader[r] # "none" => streaming[r] /\ pc[r] \notin {"idle", "preparing", "error"}
    /\ pc[r] = "draining" => streaming[r]
    /\ pc[r] = "idle" => ~streaming[r]
    /\ pc[r] \in {"prepared", "starting"} /\ streaming[r] => parentW[r]
    /\ pc[r] = "returned" /\ streaming[r] => reader[r] = "done"
    /\ reader[r] = "done" /\ streamed[r] = outSize[r] =>
          /\ pipe[r] = 0 /\ ~Writers(r)
          /\ pc[r] \notin {"prepared", "starting"}

RunOK(r) == StatusAt(r) /\ ChildAt(r) /\ RecordOf(r) /\ Flow(r) /\ Eof(r)

IInv == TypeOK /\ \A r \in Runs : RunOK(r)

-----------------------------------------------------------------------------
(* The invariant. *)

LEMMA InitIInv == Init => IInv
  BY DEF Init, IInv, TypeOK, RunOK, StatusAt, ChildAt, RecordOf, Flow, Eof, Final

\* Every action types its variables.
LEMMA TypeStep ==
    ASSUME TypeOK, NEW r \in Runs, Code(r) \/ StreamOutput(r) \/ Environment(r)
    PROVE  TypeOK'
<1> USE DEF TypeOK, Final, child, stream, record
<1>1. CASE \E s \in BOOLEAN : Register(r, s) \/ Reject(r, s)
  BY <1>1 DEF Register, Reject, Go
<1>2. CASE Prepare(r)
  BY <1>2 DEF Prepare, Go
<1>3. CASE PrepareFails(r)
  BY <1>3 DEF PrepareFails, Go
<1>4. CASE MarkRunning(r)
  BY <1>4 DEF MarkRunning, Go
<1>5. CASE StartFails(r)
  BY <1>5 DEF StartFails, Go, Leave
<1>6. CASE Start(r)
  BY <1>6 DEF Start, Go
<1>7. CASE Waited(r)
  BY <1>7 DEF Waited, Go
<1>8. CASE ContextDone(r)
  BY <1>8 DEF ContextDone, Go, Leave
<1>9. CASE Finish(r)
  BY <1>9 DEF Finish, Go, Leave
<1>10. CASE Drained(r)
  BY <1>10 DEF Drained, Go
<1>11. CASE WriteEvent(r)
  BY <1>11 DEF WriteEvent
<1>12. CASE ReadChunk(r)
  BY <1>12 DEF ReadChunk
<1>13. CASE WriteFails(r)
  BY <1>13 DEF WriteFails
<1>14. CASE ReadEOF(r)
  BY <1>14 DEF ReadEOF
<1>15. CASE CancelRun(r)
  BY <1>15 DEF CancelRun
<1>16. CASE Produce(r)
  BY <1>16 DEF Produce
<1>17. CASE Exit(r)
  BY <1>17 DEF Exit
<1>18. CASE Fork(r)
  BY <1>18 DEF Fork
<1>19. CASE OrphanExits(r)
  BY <1>19 DEF OrphanExits
<1>20. CASE Disconnect(r)
  BY <1>20 DEF Disconnect
<1> QED  BY <1>1, <1>2, <1>3, <1>4, <1>5, <1>6, <1>7, <1>8, <1>9, <1>10, <1>11, <1>12, <1>13, <1>14, <1>15, <1>16, <1>17, <1>18, <1>19, <1>20 DEF Code, StreamOutput, Environment

\* A run whose variables do not change keeps its invariant.
LEMMA Frame ==
    ASSUME NEW q \in Runs, RunOK(q),
           pc'[q] = pc[q], streaming'[q] = streaming[q], status'[q] = status[q],
           exitCode'[q] = exitCode[q], ended'[q] = ended[q], outSize'[q] = outSize[q],
           proc'[q] = proc[q], orphan'[q] = orphan[q], produced'[q] = produced[q],
           pipe'[q] = pipe[q], parentW'[q] = parentW[q], reader'[q] = reader[q],
           streamed'[q] = streamed[q], closed'[q] = closed[q], ctxDone'[q] = ctxDone[q],
           cancelled'[q] = cancelled[q], final'[q] = final[q]
    PROVE  RunOK(q)'
  BY DEF RunOK, StatusAt, ChildAt, RecordOf, Flow, Eof, Writers

\* A step of run r keeps the invariant of r.
LEMMA OwnStep ==
    ASSUME TypeOK, NEW r \in Runs, RunOK(r), Code(r) \/ StreamOutput(r) \/ Environment(r)
    PROVE  RunOK(r)'
<1> USE DEF TypeOK, RunOK, StatusAt, ChildAt, RecordOf, Flow, Eof, Writers, Final, child, stream, record
<1>1. CASE \E s \in BOOLEAN : Register(r, s) \/ Reject(r, s)
  BY <1>1 DEF Register, Reject, Go
<1>2. CASE Prepare(r)
  BY <1>2 DEF Prepare, Go
<1>3. CASE PrepareFails(r)
  BY <1>3 DEF PrepareFails, Go
<1>4. CASE MarkRunning(r)
  BY <1>4 DEF MarkRunning, Go
<1>5. CASE StartFails(r)
  BY <1>5 DEF StartFails, Go, Leave
<1>6. CASE Start(r)
  BY <1>6 DEF Start, Go
<1>7. CASE Waited(r)
  BY <1>7 DEF Waited, Go
<1>8. CASE ContextDone(r)
  BY <1>8 DEF ContextDone, Go, Leave
<1>9. CASE Finish(r)
  BY <1>9 DEF Finish, Go, Leave
<1>10. CASE Drained(r)
  BY <1>10 DEF Drained, Go
<1>11. CASE WriteEvent(r)
  BY <1>11 DEF WriteEvent
<1>12. CASE ReadChunk(r)
  <2>1. /\ streaming[r] /\ pipe[r] > 0 /\ produced'[r] = produced[r]
        /\ pipe'[r] = pipe[r] - 1 /\ outSize'[r] = outSize[r] + 1
        /\ streamed'[r] = streamed[r] + 1 /\ reader'[r] = reader[r]
        /\ UNCHANGED <<pc, streaming, record, proc, orphan, parentW>>
    BY <1>12 DEF ReadChunk
  <2>2. produced[r] \in Nat /\ outSize[r] \in Nat /\ pipe[r] \in Nat /\ streamed[r] \in Nat
    OBVIOUS
  <2>3. Flow(r)'
    BY <2>1, <2>2, SMTT(30)
  <2>4. Eof(r)'
    BY <2>1, <2>2, <1>12 DEF ReadChunk
  <2>5. StatusAt(r)' /\ ChildAt(r)' /\ RecordOf(r)'
    BY <2>1
  <2> QED  BY <2>3, <2>4, <2>5
<1>13. CASE WriteFails(r)
  <2>1. /\ streaming[r] /\ pipe[r] > 0 /\ produced'[r] = produced[r]
        /\ pipe'[r] = pipe[r] - 1 /\ outSize'[r] = outSize[r] + 1
        /\ streamed'[r] = streamed[r] /\ reader'[r] = "done"
        /\ UNCHANGED <<pc, streaming, record, proc, orphan, parentW>>
    BY <1>13 DEF WriteFails
  <2>2. produced[r] \in Nat /\ outSize[r] \in Nat /\ pipe[r] \in Nat /\ streamed[r] \in Nat
    OBVIOUS
  <2>3. Flow(r)'
    <3>1. produced[r] = outSize[r] + pipe[r] /\ streamed[r] <= outSize[r]
      BY <2>1
    <3>2. produced'[r] = outSize'[r] + pipe'[r] /\ streamed'[r] <= outSize'[r]
      <4> HIDE DEF TypeOK, RunOK, StatusAt, ChildAt, RecordOf, Flow, Eof, Writers, Final, child, stream, record
      <4> QED  BY <2>1, <2>2, <3>1
    <3> QED  BY <2>1, <3>2
  <2>4. Eof(r)'
    BY <2>1, <2>2, <1>13 DEF WriteFails
  <2>5. StatusAt(r)' /\ ChildAt(r)' /\ RecordOf(r)'
    BY <2>1
  <2> QED  BY <2>3, <2>4, <2>5
<1>14. CASE ReadEOF(r)
  BY <1>14 DEF ReadEOF
<1>15. CASE CancelRun(r)
  BY <1>15 DEF CancelRun
<1>16. CASE Produce(r)
  BY <1>16 DEF Produce
<1>17. CASE Exit(r)
  BY <1>17 DEF Exit
<1>18. CASE Fork(r)
  BY <1>18 DEF Fork
<1>19. CASE OrphanExits(r)
  BY <1>19 DEF OrphanExits
<1>20. CASE Disconnect(r)
  BY <1>20 DEF Disconnect
<1> QED  BY <1>1, <1>2, <1>3, <1>4, <1>5, <1>6, <1>7, <1>8, <1>9, <1>10, <1>11, <1>12, <1>13, <1>14, <1>15, <1>16, <1>17, <1>18, <1>19, <1>20 DEF Code, StreamOutput, Environment
\* ... and leaves every other run alone.
LEMMA OtherStep ==
    ASSUME TypeOK, NEW r \in Runs, Code(r) \/ StreamOutput(r) \/ Environment(r),
           NEW q \in Runs, q # r, RunOK(q)
    PROVE  RunOK(q)'
<1>1. /\ pc'[q] = pc[q] /\ streaming'[q] = streaming[q] /\ status'[q] = status[q]
      /\ exitCode'[q] = exitCode[q] /\ ended'[q] = ended[q] /\ outSize'[q] = outSize[q]
      /\ proc'[q] = proc[q] /\ orphan'[q] = orphan[q] /\ produced'[q] = produced[q]
      /\ pipe'[q] = pipe[q] /\ parentW'[q] = parentW[q] /\ reader'[q] = reader[q]
      /\ streamed'[q] = streamed[q] /\ closed'[q] = closed[q] /\ ctxDone'[q] = ctxDone[q]
      /\ cancelled'[q] = cancelled[q] /\ final'[q] = final[q]
  <2> USE DEF TypeOK, child, stream, record
  <2>1. CASE Code(r)
    BY <2>1 DEF Code, Prepare, PrepareFails, MarkRunning, StartFails, Start, Waited, ContextDone,
                Finish, Drained, WriteEvent, Go, Leave
  <2>2. CASE StreamOutput(r)
    BY <2>2 DEF StreamOutput, ReadChunk, WriteFails, ReadEOF
  <2>3. CASE Environment(r)
    BY <2>3 DEF Environment, Register, Reject, CancelRun, Produce, Exit, Fork, OrphanExits,
                Disconnect, Go
  <2> QED  BY <2>1, <2>2, <2>3
<1> QED  BY <1>1, Frame

LEMMA NextIInv == IInv /\ [Next]_vars => IInv'
<1> SUFFICES ASSUME IInv, [Next]_vars PROVE IInv'
  OBVIOUS
<1>1. CASE Next
  <2>1. PICK r \in Runs : Code(r) \/ StreamOutput(r) \/ Environment(r)
    BY <1>1 DEF Next
  <2>2. TypeOK'
    BY <2>1, TypeStep DEF IInv
  <2>3. ASSUME NEW q \in Runs PROVE RunOK(q)'
    BY <2>1, OwnStep, OtherStep DEF IInv
  <2> QED  BY <2>2, <2>3 DEF IInv
<1>2. CASE UNCHANGED vars
  <2>1. TypeOK'
    BY <1>2 DEF IInv, TypeOK, vars, child, stream, record
  <2>2. ASSUME NEW q \in Runs PROVE RunOK(q)'
    BY <1>2, Frame DEF IInv, vars, child, stream, record
  <2> QED  BY <2>1, <2>2 DEF IInv
<1> QED  BY <1>1, <1>2

\* IInv holds in every state of every behaviour of the runs.
THEOREM Invariance == Spec => []IInv
  BY InitIInv, NextIInv, PTL DEF Spec

-----------------------------------------------------------------------------
(* What follows from it. *)

\* Whatever ends a run (the child, its client, a cancel request), the record
\* in runRegistry says what the process did.
THEOREM RecordTrue == Spec => []RecordMatchesProcess
<1>1. IInv => RecordMatchesProcess
  BY DEF IInv, TypeOK, RunOK, StatusAt, ChildAt, RecordOf, RecordMatchesProcess, Final
<1> QED  BY <1>1, Invariance, PTL

\* ExecuteRun returns no completed or failed run whose output is not all
\* counted, and streamed if the client took it.
THEOREM NoOutputLost == Spec => []OutputIsComplete
<1>1. IInv => OutputIsComplete
  <2> SUFFICES ASSUME IInv, NEW r \in Runs, pc[r] = "returned",
                      status[r] \in {"completed", "failed"}, AllSent(r)
               PROVE  outSize[r] = produced[r] /\ pipe[r] = 0
    BY DEF OutputIsComplete
  <2>1. CASE streaming[r]
    <3>1. reader[r] = "done" /\ streamed[r] = outSize[r] /\ pipe[r] = 0
      BY <2>1 DEF IInv, RunOK, Eof, AllSent
    <3>2. produced[r] = outSize[r] + pipe[r] /\ outSize[r] \in Nat
      BY <2>1 DEF IInv, TypeOK, RunOK, Flow
    <3> QED  BY <3>1, <3>2
  <2>2. CASE ~streaming[r]
    BY <2>2 DEF IInv, RunOK, Flow
  <2> QED  BY <2>1, <2>2
<1> QED  BY <1>1, Invariance, PTL

\* No step of ExecuteRun, of its goroutine or of another request rewrites the
\* outcome of a run that completed or failed.
THEOREM OutcomeFinal == Spec => OutcomeIsFinal
<1>1. IInv /\ [Next]_vars => [OutcomeStep]_vars
  <2> SUFFICES ASSUME IInv, NEW r \in Runs, Code(r) \/ StreamOutput(r) \/ Environment(r)
               PROVE  OutcomeStep
    BY DEF Next
  <2> USE DEF IInv, TypeOK, RunOK, StatusAt, OutcomeStep, child, stream, record
  <2>1. CASE Code(r)
    BY <2>1 DEF Code, Prepare, PrepareFails, MarkRunning, StartFails, Start, Waited, ContextDone,
                Finish, Drained, WriteEvent
  <2>2. CASE StreamOutput(r)
    BY <2>2 DEF StreamOutput, ReadChunk, WriteFails, ReadEOF
  <2>3. CASE Environment(r)
    BY <2>3 DEF Environment, Register, Reject, CancelRun, Produce, Exit, Fork, OrphanExits, Disconnect
  <2> QED  BY <2>1, <2>2, <2>3
<1> QED  BY <1>1, Invariance, PTL DEF Spec, OutcomeIsFinal

\* The RunState that ExecuteRun has returned, and that handlers read without
\* runMutex, is final and never written again.
THEOREM ReturnedFrozen == Spec => ReturnedStateIsFrozen
<1>1. IInv /\ [Next]_vars => [FrozenStep]_vars
  <2> SUFFICES ASSUME IInv, NEW r \in Runs, Code(r) \/ StreamOutput(r) \/ Environment(r)
               PROVE  FrozenStep
    BY DEF Next
  <2> USE DEF IInv, TypeOK, RunOK, StatusAt, Eof, Final, FrozenStep, child, stream, record
  <2>1. CASE Code(r)
    BY <2>1 DEF Code, Prepare, PrepareFails, MarkRunning, StartFails, Start, Waited, ContextDone,
                Finish, Drained, WriteEvent
  <2>2. CASE StreamOutput(r)
    BY <2>2 DEF StreamOutput, ReadChunk, WriteFails, ReadEOF
  <2>3. CASE Environment(r)
    BY <2>3 DEF Environment, Register, Reject, CancelRun, Produce, Exit, Fork, OrphanExits, Disconnect
  <2> QED  BY <2>1, <2>2, <2>3
<1> QED  BY <1>1, Invariance, PTL DEF Spec, ReturnedStateIsFrozen
=============================================================================
