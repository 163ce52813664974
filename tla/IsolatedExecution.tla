-------------------------- MODULE IsolatedExecution --------------------------
(***************************************************************************)
(* run_isolated_python (src/src/acr/execution.py): one submission runs in  *)
(* a sandbox process while its launcher drains two pipes, keeps a bounded  *)
(* prefix of each, and enforces a deadline.  The submission may write at   *)
(* any time, never exit, close its pipes or not, or leave a descendant     *)
(* that keeps them open; the clock may pass the deadline between any two   *)
(* steps.  Bytes are counted, and the ready line is the first unit of      *)
(* stderr.                                                                 *)
(***************************************************************************)
EXTENDS Integers

CONSTANTS
  Limit,      \* output_limit: units kept of each stream
  Chunk,      \* the most one os.read returns
  PipeSize,   \* capacity of a pipe
  StdinSize,  \* what the launcher feeds to the submission
  MaxWrites   \* units the submission writes to one stream

ASSUME SizesAssumption ==
  /\ Limit \in Nat \ {0} /\ Chunk \in Nat \ {0} /\ PipeSize \in Nat \ {0}
  /\ StdinSize \in Nat /\ MaxWrites \in Nat

Streams == {"stdout", "stderr"}

VARIABLES
  pc,           \* where the launcher is
  registered,   \* streams the selector still watches
  ready,        \* streams the last select reported
  retained,     \* units kept, per stream
  truncated,    \* per stream
  timedOut,
  status,       \* what the caller gets: "none" until then
  late,         \* the clock has passed the deadline
  cleanupLate,  \* ... and the cleanup deadline
  child,        \* "none", "running", "exited" (not reaped), "reaped"
  signalled,    \* SIGKILL was sent to the child
  writers,      \* who of "child" and "descendant" holds the write end, per stream
  fed,          \* the child has read its stdin
  boundary,     \* what stderr begins with: "none", "ready" or "failed"
  pipe,         \* units in each pipe
  written,      \* units written so far, per stream
  got           \* units the launcher has read so far, per stream

launcherVars == <<registered, ready, retained, truncated, timedOut, status, got>>
clockVars == <<late, cleanupLate>>
sandboxVars == <<child, signalled, writers, fed, boundary, pipe, written>>
vars == <<pc, launcherVars, clockVars, sandboxVars>>

Zero == [s \in Streams |-> 0]
Least(a, b) == IF a <= b THEN a ELSE b

Init ==
  /\ pc = "launch" /\ registered = {} /\ ready = {}
  /\ retained = Zero /\ truncated = [s \in Streams |-> FALSE]
  /\ timedOut = FALSE /\ status = "none"
  /\ late = FALSE /\ cleanupLate = FALSE
  /\ child = "none" /\ signalled = FALSE /\ writers = [s \in Streams |-> {}] /\ fed = FALSE
  /\ boundary = "none" /\ pipe = Zero /\ written = Zero /\ got = Zero

-----------------------------------------------------------------------------
(* The launcher *)

\* The namespace tools are missing or Popen fails; or the child starts.
Launch ==
  /\ pc = "launch"
  /\ \/ /\ pc' = "ended" /\ status' = "unavailable"
        /\ UNCHANGED <<child, writers, registered>>
     \/ /\ pc' = "stdin" /\ child' = "running" /\ registered' = Streams
        /\ writers' = [s \in Streams |-> {"child"}]
        /\ UNCHANGED status
  /\ UNCHANGED <<ready, retained, truncated, timedOut, got, clockVars,
                 signalled, fed, boundary, pipe, written>>

\* At end of file no writer is left and the pipe is empty.
WriterLeft(s) == writers[s] # {}
Readable(s) == pipe[s] > 0 \/ ~WriterLeft(s)

\* stdin is written before the loop and before the deadline is set; it blocks
\* unless it fits the pipe, is read, or the child is gone (BrokenPipeError).
FeedStdin ==
  /\ pc = "stdin"
  /\ StdinSize <= PipeSize \/ fed \/ (child # "running" /\ \A s \in Streams : ~WriterLeft(s))
  /\ pc' = "loop"
  /\ UNCHANGED <<launcherVars, clockVars, sandboxVars>>

\* Variant: the loop ends with the child, whatever is left in the pipes.
PollChildOnly ==
  /\ pc = "loop"
  /\ child' = IF child = "exited" THEN "reaped" ELSE child
  /\ pc' = IF child = "running" THEN "clock" ELSE "wait"
  /\ UNCHANGED <<launcherVars, clockVars, signalled, writers, fed, boundary, pipe, written>>

\* process.poll() reaps an exited child; the loop goes on while the child runs
\* or a stream is registered.
Poll ==
  /\ pc = "loop"
  /\ child' = IF child = "exited" THEN "reaped" ELSE child
  /\ pc' = IF child = "running" \/ registered # {} THEN "clock" ELSE "wait"
  /\ UNCHANGED <<launcherVars, clockVars, signalled, writers, fed, boundary, pipe, written>>

\* killpg at the deadline, once; a child that is reaped already is not there to be
\* signalled (ProcessLookupError, passed over).
KillsGroup == late /\ ~timedOut /\ child # "reaped"

\* Variant: a timeout kills the group but waits for the pipes to close.
CheckClockNoCleanup ==
  /\ pc = "clock"
  /\ timedOut' = (timedOut \/ late)
  /\ signalled' = (signalled \/ KillsGroup)
  /\ pc' = "select"
  /\ UNCHANGED <<registered, ready, retained, truncated, status, got, clockVars,
                 child, writers, fed, boundary, pipe, written>>

\* The deadline passed: kill the group.  The cleanup deadline passed too:
\* close what is still open and leave the loop.
CheckClock ==
  /\ pc = "clock"
  /\ timedOut' = (timedOut \/ late)
  /\ signalled' = (signalled \/ KillsGroup)
  /\ \/ /\ timedOut /\ cleanupLate
        /\ registered' = {} /\ pc' = "wait"
     \/ /\ ~(timedOut /\ cleanupLate)
        /\ pc' = "select" /\ UNCHANGED registered
  /\ UNCHANGED <<ready, retained, truncated, status, got, clockVars,
                 child, writers, fed, boundary, pipe, written>>

\* select returns what is readable, or nothing after at most 50 ms.
Select ==
  /\ pc = "select"
  /\ ready' = {s \in registered : Readable(s)}
  /\ pc' = "read"
  /\ UNCHANGED <<registered, retained, truncated, timedOut, status, got, clockVars, sandboxVars>>

\* Variant: the flag compares with the limit instead of the room left.
AppendBoundedByLimit(s, n) ==
  /\ retained' = [retained EXCEPT ![s] = @ + Least(n, Limit - @)]
  /\ truncated' = [truncated EXCEPT ![s] = @ \/ n > Limit]

\* _append_bounded and the flag the caller accumulates.
AppendBounded(s, n) ==
  LET remaining == Limit - retained[s]
  IN /\ retained' = [retained EXCEPT ![s] = @ + Least(n, remaining)]
     /\ truncated' = [truncated EXCEPT ![s] = @ \/ n > remaining]

\* One stream of the ready set: nothing there after all, end of file, or a chunk.
Read(s) ==
  /\ pc = "read" /\ s \in ready
  /\ ready' = ready \ {s}
  /\ \/ /\ pipe[s] = 0 /\ WriterLeft(s)
        /\ UNCHANGED <<registered, retained, truncated, got, pipe>>
     \/ /\ pipe[s] = 0 /\ ~WriterLeft(s)
        /\ registered' = registered \ {s}
        /\ UNCHANGED <<retained, truncated, got, pipe>>
     \/ /\ pipe[s] > 0
        /\ LET n == Least(Chunk, pipe[s])
           IN /\ AppendBounded(s, n)
              /\ got' = [got EXCEPT ![s] = @ + n]
              /\ pipe' = [pipe EXCEPT ![s] = @ - n]
        /\ UNCHANGED registered
  /\ UNCHANGED <<pc, timedOut, status, clockVars, child, signalled, writers, fed, boundary, written>>

ReadDone ==
  /\ pc = "read" /\ ready = {}
  /\ pc' = "loop"
  /\ UNCHANGED <<launcherVars, clockVars, sandboxVars>>

\* Variant: a child that outlives the wait is left behind.
WaitOnce ==
  /\ pc = "wait"
  /\ child' = IF child = "exited" THEN "reaped" ELSE child
  /\ pc' = "result"
  /\ UNCHANGED <<launcherVars, clockVars, signalled, writers, fed, boundary, pipe, written>>

\* After the loop: poll, else wait 0.2 s, kill, and wait 0.2 s again.
Wait ==
  /\ pc \in {"wait", "wait_again"}
  /\ \/ /\ child \in {"exited", "reaped"}
        /\ child' = "reaped" /\ pc' = "result"
        /\ UNCHANGED <<signalled, status>>
     \/ /\ child = "running" /\ pc = "wait"
        /\ signalled' = TRUE /\ pc' = "wait_again"
        /\ UNCHANGED <<child, status>>
     \/ /\ child = "running" /\ pc = "wait_again"
        /\ pc' = "ended" /\ status' = "unavailable"
        /\ UNCHANGED <<child, signalled>>
  /\ UNCHANGED <<registered, ready, retained, truncated, timedOut, got, clockVars,
                 writers, fed, boundary, pipe, written>>

\* The retained stderr must begin with the ready line.
Result ==
  /\ pc = "result"
  /\ pc' = "ended"
  /\ status' = IF boundary # "ready" \/ retained["stderr"] = 0 THEN "unavailable"
               ELSE IF timedOut THEN "timeout" ELSE "completed"
  /\ UNCHANGED <<registered, ready, retained, truncated, timedOut, got, clockVars, sandboxVars>>

-----------------------------------------------------------------------------
(* The sandbox and the clock (external: bwrap, the submission, the kernel) *)

\* Anybody who holds the pipe writes one unit; stderr begins with the ready line
\* or, when the boundary could not be set up, with the tool's complaint.
Write(s) ==
  /\ WriterLeft(s) /\ pipe[s] < PipeSize /\ written[s] < MaxWrites
  /\ IF s = "stderr" /\ boundary = "none"
     THEN boundary' \in {"ready", "failed"}
     ELSE UNCHANGED boundary
  /\ pipe' = [pipe EXCEPT ![s] = @ + 1]
  /\ written' = [written EXCEPT ![s] = @ + 1]
  /\ UNCHANGED <<pc, launcherVars, clockVars, child, signalled, writers, fed>>

ReadStdin ==
  /\ child = "running" /\ ~fed /\ pc # "launch"
  /\ fed' = TRUE
  /\ UNCHANGED <<pc, launcherVars, clockVars, child, signalled, writers, boundary, pipe, written>>

\* A descendant inherits what the child has open.
Fork ==
  /\ child = "running"
  /\ writers' = [s \in Streams |->
                  IF "child" \in writers[s] THEN {"child", "descendant"} ELSE writers[s]]
  /\ UNCHANGED <<pc, launcherVars, clockVars, child, signalled, fed, boundary, pipe, written>>

\* Either closes a stream whenever it likes; a descendant that ends closes both.
Close(who, s) ==
  /\ who \in writers[s]
  /\ writers' = [writers EXCEPT ![s] = @ \ {who}]
  /\ UNCHANGED <<pc, launcherVars, clockVars, child, signalled, fed, boundary, pipe, written>>

\* The child ends by itself or by the signal.
ChildExits ==
  /\ child = "running"
  /\ child' = "exited"
  /\ writers' = [s \in Streams |-> writers[s] \ {"child"}]
  /\ UNCHANGED <<pc, launcherVars, clockVars, signalled, fed, boundary, pipe, written>>

\* The deadline runs from the end of FeedStdin, the cleanup deadline from the kill.
Tick ==
  /\ pc \notin {"launch", "stdin"}
  /\ \/ ~late /\ late' = TRUE /\ UNCHANGED cleanupLate
     \/ timedOut /\ ~cleanupLate /\ cleanupLate' = TRUE /\ UNCHANGED late
  /\ UNCHANGED <<pc, launcherVars, sandboxVars>>

Launcher ==
  \/ Launch \/ FeedStdin \/ Poll \/ CheckClock \/ Select
  \/ (\E s \in Streams : Read(s)) \/ ReadDone \/ Wait \/ Result
Sandbox ==
  \/ \E s \in Streams : Write(s) \/ \E who \in {"child", "descendant"} : Close(who, s)
  \/ ReadStdin \/ Fork \/ ChildExits

Next == Launcher \/ Sandbox \/ Tick

Spec == Init /\ [][Next]_vars

\* The launcher is scheduled and time passes; nothing is assumed of the submission.
FairSpec == Spec /\ WF_vars(Launcher) /\ WF_vars(Tick)

-----------------------------------------------------------------------------
(* Properties *)

\* Type invariant.
TypeOK ==
  /\ pc \in {"launch", "stdin", "loop", "clock", "select", "read", "wait", "wait_again",
             "result", "ended"}
  /\ registered \subseteq Streams /\ ready \subseteq Streams
  /\ retained \in [Streams -> Nat] /\ got \in [Streams -> Nat]
  /\ truncated \in [Streams -> BOOLEAN]
  /\ writers \in [Streams -> SUBSET {"child", "descendant"}]
  /\ pipe \in [Streams -> Nat] /\ written \in [Streams -> Nat]
  /\ timedOut \in BOOLEAN /\ signalled \in BOOLEAN /\ fed \in BOOLEAN
  /\ late \in BOOLEAN /\ cleanupLate \in BOOLEAN
  /\ status \in {"none", "completed", "timeout", "unavailable"}
  /\ child \in {"none", "running", "exited", "reaped"}
  /\ boundary \in {"none", "ready", "failed"}

\* At every moment each stream keeps exactly the first Limit units read so far and
\* says so exactly when a unit was dropped, however reads and writes fell together
\* (_append_bounded).
RetainedIsPrefix ==
  \A s \in Streams :
    /\ got[s] + pipe[s] = written[s]
    /\ retained[s] = Least(Limit, got[s])
    /\ (truncated[s] <=> got[s] > Limit)

\* "completed" is the whole truth: nobody can write any more, and what is returned is
\* the first Limit units of all that was ever written, flagged exactly when it was
\* more.  A deadline that passes meanwhile makes it a timeout, never a short result
\* (run_isolated_python).
CompletedIsExact ==
  status = "completed" =>
    /\ ~timedOut
    /\ \A s \in Streams : /\ ~WriterLeft(s)
                          /\ retained[s] = Least(Limit, written[s])
                          /\ (truncated[s] <=> written[s] > Limit)

\* Whoever gets an execution back shares the machine with no live sandbox launcher:
\* the child is reaped.  And the call is never left, by its exception for a child that
\* could not be terminated either, with a child that was not signalled.
ReturnedIsReaped ==
  /\ status \in {"completed", "timeout"} => child = "reaped"
  /\ pc = "ended" => child \in {"none", "reaped"} \/ signalled

\* The call always returns, even if the submission ignores everything, floods its
\* pipes, or leaves a descendant that keeps them open for ever (the two deadlines).
AlwaysReturns == <>(pc = "ended")
=============================================================================
