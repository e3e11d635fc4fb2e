----------------------------- MODULE RunLifecycle -----------------------------
(***************************************************************************)
(* The runs of the protocol-agnostic core (internal/core/protocol):        *)
(* ExecuteRun with its child process, its waiting goroutine and, for a     *)
(* streaming run, the goroutine that copies the child's standard output    *)
(* from a pipe to the client; CancelRun from other requests; and the       *)
(* Agent Protocol handler that ends a stream with a "done" event.          *)
(*                                                                         *)
(* runRegistry entries are changed under runMutex, one closure at a time,  *)
(* so every change of a run's state is one step here.                      *)
(***************************************************************************)
EXTENDS Integers

CONSTANTS
    Runs,           \* run identifiers
    MaxChunks,      \* bound on the output a child writes, in pipe chunks
    PipeCap,        \* chunks an OS pipe holds before a writer blocks
    Orphans         \* may the child leave a descendant that holds its stdout?

ASSUME RunBounds == MaxChunks \in Nat /\ PipeCap \in Nat \ {0}
ASSUME RunFlags  == Orphans \in BOOLEAN

VARIABLES
    pc,        \* where ExecuteRun is, for each run
    streaming, \* a StreamWriter was passed
    status,    \* RunState.Status ("none": not in runRegistry)
    exitCode,  \* RunState.ExitCode
    ended,     \* RunState.EndTime is set
    outSize,   \* RunState.OutputSize, in chunks
    proc,      \* the child process
    orphan,    \* a descendant of the child holds its stdout
    produced,  \* chunks the child has written
    pipe,      \* chunks in the pipe
    parentW,   \* ExecuteRun still holds the pipe's write end
    reader,    \* the streamOutput goroutine
    streamed,  \* chunks handed to the StreamWriter
    closed,    \* the StreamWriter has been closed
    ctxDone,   \* the request's context is cancelled
    cancelled, \* a CancelRun that found this run running returned nil
    final      \* the handler's last event: "none", "sent" or "dropped"

child  == <<proc, orphan, produced, pipe, parentW>>
stream == <<reader, streamed, closed>>
record == <<status, exitCode, ended>>
vars   == <<pc, streaming, record, outSize, child, stream, ctxDone, cancelled, final>>

Final == {"completed", "failed", "cancelled"}

Init ==
    /\ pc        = [r \in Runs |-> "idle"]
    /\ streaming = [r \in Runs |-> FALSE]
    /\ status    = [r \in Runs |-> "none"]
    /\ exitCode  = [r \in Runs |-> "unset"]
    /\ ended     = [r \in Runs |-> FALSE]
    /\ outSize   = [r \in Runs |-> 0]
    /\ proc      = [r \in Runs |-> "none"]
    /\ orphan    = [r \in Runs |-> FALSE]
    /\ produced  = [r \in Runs |-> 0]
    /\ pipe      = [r \in Runs |-> 0]
    /\ parentW   = [r \in Runs |-> FALSE]
    /\ reader    = [r \in Runs |-> "none"]
    /\ streamed  = [r \in Runs |-> 0]
    /\ closed    = [r \in Runs |-> FALSE]
    /\ ctxDone   = [r \in Runs |-> FALSE]
    /\ cancelled = [r \in Runs |-> FALSE]
    /\ final     = [r \in Runs |-> "none"]

Go(r, loc) == pc' = [pc EXCEPT ![r] = loc]

\* Mutant: ExecuteRun returns without waiting for the goroutine.
MutLeaveAtOnce(r) ==
    /\ parentW' = [parentW EXCEPT ![r] = FALSE]
    /\ Go(r, "returned")

\* Mutant: the deferred wait is there, the deferred close is not.
MutLeaveKeepsPipe(r) ==
    /\ parentW' = parentW
    /\ Go(r, IF streaming[r] THEN "draining" ELSE "returned")

\* The return of ExecuteRun once the streaming goroutine runs: the deferred
\* function closes the write end and waits for streamDone.
Leave(r) ==
    /\ parentW' = [parentW EXCEPT ![r] = FALSE]
    /\ Go(r, IF streaming[r] THEN "draining" ELSE "returned")

-----------------------------------------------------------------------------
(* ExecuteRun. *)

\* The input is valid and names a profile and an action: the run enters
\* runRegistry as pending.
Register(r, s) ==
    /\ pc[r] = "idle"
    /\ streaming' = [streaming EXCEPT ![r] = s]
    /\ status' = [status EXCEPT ![r] = "pending"]
    /\ Go(r, "preparing")
    /\ UNCHANGED <<exitCode, ended, outSize, child, stream, ctxDone, cancelled, final>>

\* The input is refused before a run exists.
Reject(r, s) ==
    /\ pc[r] = "idle"
    /\ streaming' = [streaming EXCEPT ![r] = s]
    /\ Go(r, "error")
    /\ UNCHANGED <<record, outSize, child, stream, ctxDone, cancelled, final>>

\* The command is built; a streaming run also has its pipe and its goroutine.
Prepare(r) ==
    /\ pc[r] = "preparing"
    /\ parentW' = [parentW EXCEPT ![r] = streaming[r]]
    /\ reader' = [reader EXCEPT ![r] = IF streaming[r] THEN "reading" ELSE "none"]
    /\ Go(r, "prepared")
    /\ UNCHANGED <<streaming, record, outSize, proc, orphan, produced, pipe, streamed, closed,
                   ctxDone, cancelled, final>>

\* No pipe, or no command: ExecuteRun returns an error and the entry stays.
PrepareFails(r) ==
    /\ pc[r] = "preparing"
    /\ Go(r, "error")
    /\ UNCHANGED <<streaming, record, outSize, child, stream, ctxDone, cancelled, final>>

MarkRunning(r) ==
    /\ pc[r] = "prepared"
    /\ status' = [status EXCEPT ![r] = "running"]
    /\ Go(r, "starting")
    /\ UNCHANGED <<streaming, exitCode, ended, outSize, child, stream, ctxDone, cancelled, final>>

StartFails(r) ==
    /\ pc[r] = "starting"
    /\ status' = [status EXCEPT ![r] = "failed"]
    /\ Leave(r)
    /\ UNCHANGED <<streaming, exitCode, ended, outSize, proc, orphan, produced, pipe, stream,
                   ctxDone, cancelled, final>>

Start(r) ==
    /\ pc[r] = "starting"
    /\ proc' = [proc EXCEPT ![r] = "alive"]
    /\ parentW' = [parentW EXCEPT ![r] = FALSE]
    /\ Go(r, "waiting")
    /\ UNCHANGED <<streaming, record, outSize, orphan, produced, pipe, stream,
                   ctxDone, cancelled, final>>

\* The select takes done: cmd.Wait has returned.  Without a stream, Wait also
\* waits until every holder of stdout has closed it.
Waited(r) ==
    /\ pc[r] = "waiting"
    /\ proc[r] \in {"ok", "fail"}
    /\ streaming[r] \/ ~orphan[r]
    /\ status' = [status EXCEPT ![r] = IF proc[r] = "ok" THEN "completed" ELSE "failed"]
    /\ exitCode' = [exitCode EXCEPT ![r] = IF proc[r] = "ok" THEN "zero" ELSE "nonzero"]
    /\ Go(r, "waited")
    /\ UNCHANGED <<streaming, ended, outSize, child, stream, ctxDone, cancelled, final>>

\* Mutant: the run is marked cancelled and its child left alone.
MutContextDoneNoKill(r) ==
    /\ pc[r] = "waiting"
    /\ ctxDone[r]
    /\ status' = [status EXCEPT ![r] = "cancelled"]
    /\ Leave(r)
    /\ UNCHANGED <<streaming, exitCode, ended, outSize, proc, orphan, produced, pipe, stream,
                   ctxDone, cancelled, final>>

\* The select takes ctx.Done(): the child is killed if it still lives.
ContextDone(r) ==
    /\ pc[r] = "waiting"
    /\ ctxDone[r]
    /\ proc' = [proc EXCEPT ![r] = IF @ = "alive" THEN "killed" ELSE @]
    /\ status' = [status EXCEPT ![r] = "cancelled"]
    /\ Leave(r)
    /\ UNCHANGED <<streaming, exitCode, ended, outSize, orphan, produced, pipe, stream,
                   ctxDone, cancelled, final>>

\* EndTime, and the buffered output of a run without a stream.
Finish(r) ==
    /\ pc[r] = "waited"
    /\ ended' = [ended EXCEPT ![r] = TRUE]
    /\ outSize' = [outSize EXCEPT ![r] = IF streaming[r] THEN @ ELSE produced[r]]
    /\ Leave(r)
    /\ UNCHANGED <<streaming, status, exitCode, proc, orphan, produced, pipe, stream,
                   ctxDone, cancelled, final>>

\* <-streamDone
Drained(r) ==
    /\ pc[r] = "draining"
    /\ reader[r] = "done"
    /\ Go(r, "returned")
    /\ UNCHANGED <<streaming, record, outSize, child, stream, ctxDone, cancelled, final>>

-----------------------------------------------------------------------------
(* streamOutput. *)

Writers(r) == parentW[r] \/ proc[r] = "alive" \/ orphan[r]

\* One read of the pipe: OutputSize is updated, then the chunk is written.
ReadChunk(r) ==
    /\ reader[r] = "reading"
    /\ pipe[r] > 0
    /\ pipe' = [pipe EXCEPT ![r] = @ - 1]
    /\ outSize' = [outSize EXCEPT ![r] = @ + 1]
    /\ streamed' = [streamed EXCEPT ![r] = @ + 1]
    /\ UNCHANGED <<pc, streaming, record, proc, orphan, produced, parentW, reader, closed,
                   ctxDone, cancelled, final>>

\* The write fails: the goroutine closes the stream and reads no more.
WriteFails(r) ==
    /\ reader[r] = "reading"
    /\ pipe[r] > 0
    /\ pipe' = [pipe EXCEPT ![r] = @ - 1]
    /\ outSize' = [outSize EXCEPT ![r] = @ + 1]
    /\ reader' = [reader EXCEPT ![r] = "done"]
    /\ closed' = [closed EXCEPT ![r] = TRUE]
    /\ UNCHANGED <<pc, streaming, record, proc, orphan, produced, parentW, streamed,
                   ctxDone, cancelled, final>>

\* Mutant: the goroutine stops as soon as the child is gone.
MutStopOnExit(r) ==
    /\ reader[r] = "reading"
    /\ ~Writers(r)
    /\ reader' = [reader EXCEPT ![r] = "done"]
    /\ closed' = [closed EXCEPT ![r] = TRUE]
    /\ UNCHANGED <<pc, streaming, record, outSize, child, streamed, ctxDone, cancelled, final>>

\* End of file: nobody holds the write end and the pipe is empty.
ReadEOF(r) ==
    /\ reader[r] = "reading"
    /\ pipe[r] = 0
    /\ ~Writers(r)
    /\ reader' = [reader EXCEPT ![r] = "done"]
    /\ closed' = [closed EXCEPT ![r] = TRUE]
    /\ UNCHANGED <<pc, streaming, record, outSize, child, streamed, ctxDone, cancelled, final>>

-----------------------------------------------------------------------------
(* Other requests, and the handler after ExecuteRun. *)

\* Mutant: a run may be cancelled whatever its status.
MutCancelAny(r) ==
    /\ status[r] # "none"
    /\ status' = [status EXCEPT ![r] = "cancelled"]
    /\ cancelled' = [cancelled EXCEPT ![r] = @ \/ status[r] = "running"]
    /\ UNCHANGED <<pc, streaming, exitCode, ended, outSize, child, stream, ctxDone, final>>

CancelRun(r) ==
    /\ status[r] \in {"running", "pending"}
    /\ status' = [status EXCEPT ![r] = "cancelled"]
    /\ cancelled' = [cancelled EXCEPT ![r] = @ \/ status[r] = "running"]
    /\ UNCHANGED <<pc, streaming, exitCode, ended, outSize, child, stream, ctxDone, final>>

\* handleRunStream: the "done" (or "error") event goes out unless the writer
\* has been closed.
WriteEvent(r) ==
    /\ pc[r] \in {"returned", "error"}
    /\ streaming[r]
    /\ final[r] = "none"
    /\ final' = [final EXCEPT ![r] = IF closed[r] THEN "dropped" ELSE "sent"]
    /\ closed' = [closed EXCEPT ![r] = TRUE]
    /\ UNCHANGED <<pc, streaming, record, outSize, child, reader, streamed, ctxDone, cancelled>>

-----------------------------------------------------------------------------
(* The child and the client: nothing is assumed of them. *)

Produce(r) ==
    /\ proc[r] = "alive" \/ orphan[r]
    /\ produced[r] < MaxChunks
    /\ streaming[r] => pipe[r] < PipeCap
    /\ produced' = [produced EXCEPT ![r] = @ + 1]
    /\ pipe' = [pipe EXCEPT ![r] = IF streaming[r] THEN @ + 1 ELSE @]
    /\ UNCHANGED <<pc, streaming, record, outSize, proc, orphan, parentW, stream,
                   ctxDone, cancelled, final>>

Exit(r) ==
    /\ proc[r] = "alive"
    /\ \E how \in {"ok", "fail"} : proc' = [proc EXCEPT ![r] = how]
    /\ UNCHANGED <<pc, streaming, record, outSize, orphan, produced, pipe, parentW, stream,
                   ctxDone, cancelled, final>>

Fork(r) ==
    /\ Orphans
    /\ proc[r] = "alive"
    /\ orphan' = [orphan EXCEPT ![r] = TRUE]
    /\ UNCHANGED <<pc, streaming, record, outSize, proc, produced, pipe, parentW, stream,
                   ctxDone, cancelled, final>>

OrphanExits(r) ==
    /\ orphan[r]
    /\ orphan' = [orphan EXCEPT ![r] = FALSE]
    /\ UNCHANGED <<pc, streaming, record, outSize, proc, produced, pipe, parentW, stream,
                   ctxDone, cancelled, final>>

\* The client goes away, or its deadline passes.
Disconnect(r) ==
    /\ pc[r] \notin {"idle", "returned", "error"}
    /\ ~ctxDone[r]
    /\ ctxDone' = [ctxDone EXCEPT ![r] = TRUE]
    /\ UNCHANGED <<pc, streaming, record, outSize, child, stream, cancelled, final>>

-----------------------------------------------------------------------------
\* The steps the Go runtime owes a run: ExecuteRun and its goroutine.
Code(r) ==
    \/ Prepare(r)
    \/ PrepareFails(r)
    \/ MarkRunning(r)
    \/ StartFails(r)
    \/ Start(r)
    \/ Waited(r)
    \/ ContextDone(r)
    \/ Finish(r)
    \/ Drained(r)
    \/ WriteEvent(r)

StreamOutput(r) ==
    \/ ReadChunk(r)
    \/ WriteFails(r)
    \/ ReadEOF(r)

Environment(r) ==
    \/ \E s \in BOOLEAN : Register(r, s) \/ Reject(r, s)
    \/ CancelRun(r)
    \/ Produce(r)
    \/ Exit(r)
    \/ Fork(r)
    \/ OrphanExits(r)
    \/ Disconnect(r)

Next == \E r \in Runs : Code(r) \/ StreamOutput(r) \/ Environment(r)

Spec == Init /\ [][Next]_vars

\* Goroutines are scheduled; children and clients owe nothing: an action may
\* run for ever.
FairSpec == Spec /\ \A r \in Runs : WF_vars(Code(r)) /\ WF_vars(StreamOutput(r))

-----------------------------------------------------------------------------
(* Properties. *)

TypeOK ==
    /\ pc \in [Runs -> {"idle", "preparing", "prepared", "starting", "waiting", "waited",
                        "draining", "returned", "error"}]
    /\ streaming \in [Runs -> BOOLEAN]
    /\ status \in [Runs -> {"none", "pending", "running"} \cup Final]
    /\ exitCode \in [Runs -> {"unset", "zero", "nonzero"}]
    /\ ended \in [Runs -> BOOLEAN]
    /\ outSize \in [Runs -> Nat]
    /\ proc \in [Runs -> {"none", "alive", "ok", "fail", "killed"}]
    /\ orphan \in [Runs -> BOOLEAN]
    /\ produced \in [Runs -> Nat]
    /\ pipe \in [Runs -> Nat]
    /\ parentW \in [Runs -> BOOLEAN]
    /\ reader \in [Runs -> {"none", "reading", "done"}]
    /\ streamed \in [Runs -> Nat]
    /\ closed \in [Runs -> BOOLEAN]
    /\ ctxDone \in [Runs -> BOOLEAN]
    /\ cancelled \in [Runs -> BOOLEAN]
    /\ final \in [Runs -> {"none", "sent", "dropped"}]

\* A run that completed or failed stays so: neither a late CancelRun nor the
\* other branch of ExecuteRun's select rewrites the outcome.
OutcomeStep ==
    \A r \in Runs : status[r] \in {"completed", "failed"} => status'[r] = status[r]
OutcomeIsFinal == [][OutcomeStep]_vars

\* ExecuteRun returns the registry's own *RunState and the handlers read it
\* without runMutex: once it has returned the run is in a final status and no
\* goroutine or request changes any field any more.
FrozenStep ==
    \A r \in Runs :
        pc[r] = "returned" =>
            /\ status[r] \in Final
            /\ status'[r] = status[r] /\ exitCode'[r] = exitCode[r]
            /\ ended'[r] = ended[r] /\ outSize'[r] = outSize[r]
ReturnedStateIsFrozen == [][FrozenStep]_vars

\* What the record says is what the process did: completed only with exit code
\* zero of a child that exited by itself, no exit code for a killed child, and
\* no child still running once ExecuteRun has returned.
RecordMatchesProcess ==
    \A r \in Runs :
        /\ status[r] = "completed" => proc[r] = "ok" /\ exitCode[r] = "zero"
        /\ exitCode[r] = "nonzero" => proc[r] = "fail"
        /\ proc[r] = "killed" => exitCode[r] = "unset" /\ status[r] = "cancelled"
        /\ pc[r] = "returned" => proc[r] # "alive"

\* No write to the client failed: every chunk that was read was also sent.
AllSent(r) == streaming[r] => streamed[r] = outSize[r]

\* Nothing the action wrote is lost: when a completed or failed run returns,
\* OutputSize counts every chunk, and a streaming client whose writer never
\* failed has been sent every one, whatever was still in the pipe when the
\* child exited.
OutputIsComplete ==
    \A r \in Runs :
        pc[r] = "returned" /\ status[r] \in {"completed", "failed"} /\ AllSent(r) =>
            outSize[r] = produced[r] /\ pipe[r] = 0

\* A client that goes away frees its run: the child is killed and ExecuteRun
\* returns, even if the action would never end and the stream no longer
\* accepts output, unless a descendant of the child keeps stdout open.
DisconnectReleases ==
    \A r \in Runs : pc[r] = "waiting" /\ ctxDone[r] ~> pc[r] = "returned" \/ orphan[r]

\* A run whose child has exited, or could not be started, returns, unless a
\* descendant of the child keeps stdout open.
EndedRunReturns ==
    \A r \in Runs :
        \/ pc[r] \in {"waited", "draining"}
        \/ pc[r] = "waiting" /\ proc[r] \in {"ok", "fail"}
        ~> pc[r] = "returned" \/ orphan[r]

\* docs/stories/023-run-cancellation.md: after the cancel request "the process
\* is terminated and status becomes `cancelled`".
CancelSticks == \A r \in Runs : cancelled[r] => status[r] = "cancelled"

\* docs/stories/022-streaming-run.md: "Given a streaming run, When the action
\* completes, Then I receive a final event with `status: completed`".
FinalEventArrives ==
    \A r \in Runs : streaming[r] /\ status[r] = "completed" => final[r] # "dropped"
=============================================================================
