----------------------------- MODULE SessionLock -----------------------------
(***************************************************************************)
(* The steps of bind_external_session and reserve_sequence under the       *)
(* session's flock (src/acr/forensics/store.py, locked and its users).     *)
(* A process dies anywhere; the kernel then drops its flock, and nothing   *)
(* repairs the file it was writing.                                        *)
(***************************************************************************)
EXTENDS Integers

CONSTANTS
  Procs,     \* hook processes
  Exts,      \* Claude session identities
  None,
  MaxCalls   \* calls of one process

ASSUME LockAssumption ==
  /\ MaxCalls \in Nat
  /\ None \notin Procs /\ None \notin Exts

VARIABLES
  lock,      \* holder of the flock, or None
  binding,   \* external_session.json
  seqFile,   \* .sequence (0: no file)
  pc,        \* [Procs -> next step]
  want,      \* [Procs -> external hash to bind, None for reserve_sequence]
  current,   \* [Procs -> the number read from .sequence]
  result,    \* [Procs -> last number returned]
  calls      \* [Procs -> calls made]

fileVars == <<binding, seqFile>>
vars == <<lock, fileVars, pc, want, current, result, calls>>

Torn == -1
InBind == {"open", "fill", "sync"}
InReserve == {"read", "truncate", "write"}
Critical == InBind \cup InReserve \cup {"release"}

Init ==
  /\ lock = None
  /\ binding = [file |-> "absent", ext |-> None]
  /\ seqFile = 0
  /\ pc = [p \in Procs |-> "idle"]
  /\ want = [p \in Procs |-> None]
  /\ current = [p \in Procs |-> 0]
  /\ result = [p \in Procs |-> 0]
  /\ calls = [p \in Procs |-> 0]

Goto(p, l) == pc' = [pc EXCEPT ![p] = l]

\* A hook process enters bind_external_session or reserve_sequence.
Call(p, e) ==
  /\ pc[p] = "idle" /\ calls[p] < MaxCalls
  /\ calls' = [calls EXCEPT ![p] = @ + 1]
  /\ want' = [want EXCEPT ![p] = e]
  /\ Goto(p, "acquire")
  /\ UNCHANGED <<lock, fileVars, current, result>>

\* Variant: the lock is not exclusive.
AcquireShared(p) ==
  /\ pc[p] = "acquire"
  /\ lock' = p
  /\ Goto(p, IF want[p] = None THEN "read" ELSE "open")
  /\ UNCHANGED <<fileVars, want, current, result, calls>>

\* fcntl.flock(LOCK_EX) returns.
Acquire(p) ==
  /\ pc[p] = "acquire"
  /\ lock = None
  /\ lock' = p
  /\ Goto(p, IF want[p] = None THEN "read" ELSE "open")
  /\ UNCHANGED <<fileVars, want, current, result, calls>>

-----------------------------------------------------------------------------
(* bind_external_session: _write_once of external_session.json.            *)

\* The O_EXCL create, or the comparison with the bytes found: equal bytes
\* return, different ones raise; either way the lock is released next.
OpenBinding(p) ==
  /\ pc[p] = "open"
  /\ IF binding.file = "absent"
     THEN binding' = [file |-> "partial", ext |-> None] /\ Goto(p, "fill")
     ELSE UNCHANGED binding /\ Goto(p, "release")
  /\ UNCHANGED <<lock, seqFile, want, current, result, calls>>

FillBinding(p) ==
  /\ pc[p] = "fill"
  /\ binding' = [file |-> "whole", ext |-> want[p]]
  /\ Goto(p, "sync")
  /\ UNCHANGED <<lock, seqFile, want, current, result, calls>>

SyncBinding(p) ==
  /\ pc[p] = "sync"
  /\ Goto(p, "release")
  /\ UNCHANGED <<lock, fileVars, want, current, result, calls>>

\* The write or the fsync fails: the file is unlinked, the error propagates.
UnlinkBinding(p) ==
  /\ pc[p] \in {"fill", "sync"}
  /\ binding' = [file |-> "absent", ext |-> None]
  /\ Goto(p, "release")
  /\ UNCHANGED <<lock, seqFile, want, current, result, calls>>

-----------------------------------------------------------------------------
(* reserve_sequence.                                                       *)

\* int(path.read_text()); no file counts as 0, anything else raises.
ReadSequence(p) ==
  /\ pc[p] = "read"
  /\ IF seqFile = Torn
     THEN UNCHANGED current /\ Goto(p, "release")
     ELSE current' = [current EXCEPT ![p] = seqFile] /\ Goto(p, "truncate")
  /\ UNCHANGED <<lock, fileVars, want, result, calls>>

\* write_text opens the file for writing: it is empty ...
TruncateSequence(p) ==
  /\ pc[p] = "truncate"
  /\ seqFile' = Torn
  /\ Goto(p, "write")
  /\ UNCHANGED <<lock, binding, want, current, result, calls>>

\* Variant: the number that was read is written back.
WriteSequenceStale(p) ==
  /\ pc[p] = "write"
  /\ seqFile' = current[p]
  /\ result' = [result EXCEPT ![p] = current[p] + 1]
  /\ Goto(p, "release")
  /\ UNCHANGED <<lock, binding, want, current, calls>>

\* ... until the new number is in it.
WriteSequence(p) ==
  /\ pc[p] = "write"
  /\ seqFile' = current[p] + 1
  /\ result' = [result EXCEPT ![p] = current[p] + 1]
  /\ Goto(p, "release")
  /\ UNCHANGED <<lock, binding, want, current, calls>>

\* The open or the write fails with OSError.
SequenceError(p) ==
  /\ pc[p] \in {"truncate", "write"}
  /\ Goto(p, "release")
  /\ UNCHANGED <<lock, fileVars, want, current, result, calls>>

-----------------------------------------------------------------------------

\* The call is over: its local values are gone.
Leave(p, l) ==
  /\ Goto(p, l)
  /\ want' = [want EXCEPT ![p] = None]
  /\ current' = [current EXCEPT ![p] = 0]
  /\ UNCHANGED <<fileVars, result, calls>>

\* Variant: a path that leaves the lock held.
ReleaseNever(p) ==
  /\ pc[p] = "release"
  /\ Leave(p, "idle")
  /\ UNCHANGED lock

\* The finally clause of locked(): LOCK_UN after a return and after a raise.
Release(p) ==
  /\ pc[p] = "release"
  /\ lock' = None
  /\ Leave(p, "idle")

\* The process dies; the kernel closes its descriptors.
Kill(p) ==
  /\ pc[p] # "killed"
  /\ lock' = IF lock = p THEN None ELSE lock
  /\ Leave(p, "killed")

Step(p) ==
  \/ Acquire(p)
  \/ OpenBinding(p)  \/ FillBinding(p)      \/ SyncBinding(p)   \/ UnlinkBinding(p)
  \/ ReadSequence(p) \/ TruncateSequence(p) \/ WriteSequence(p) \/ SequenceError(p)
  \/ Release(p)

Next == \E p \in Procs : Step(p) \/ Kill(p) \/ \E e \in Exts \cup {None} : Call(p, e)

Spec == Init /\ [][Next]_vars

\* A process that holds or waits for the lock is scheduled until it is killed;
\* flock wakes a waiter up.
FairSpec == Spec /\ \A p \in Procs : WF_vars(Step(p))

-----------------------------------------------------------------------------
(* Properties.                                                             *)

\* Every variable keeps its shape: in particular reserve_sequence never goes on
\* with a number read from a malformed .sequence.
TypeOK ==
  /\ lock \in Procs \cup {None}
  /\ binding \in [file : {"absent", "partial", "whole"}, ext : Exts \cup {None}]
  /\ seqFile \in Nat \cup {Torn}
  /\ pc \in [Procs -> Critical \cup {"idle", "acquire", "killed"}]
  /\ want \in [Procs -> Exts \cup {None}]
  /\ current \in [Procs -> Nat]
  /\ result \in [Procs -> Nat]
  /\ calls \in [Procs -> Nat]

\* What a process outside the critical section can see of the two files: the
\* writer's intermediate contents are hidden by the lock.
Hiding(l) == \E p \in Procs : lock = p /\ pc[p] \in l

AbsBinding == IF Hiding({"fill", "sync"}) THEN [file |-> "absent", ext |-> None] ELSE binding
AbsSeqFile == IF Hiding({"write"}) THEN current[lock] ELSE seqFile

State == INSTANCE SessionState WITH binding <- AbsBinding, seqFile <- AbsSeqFile, seq <- result

\* The lock makes both operations atomic: whatever the processes' steps, failed
\* writes and deaths, they implement SessionState (and so HookCapture may treat
\* bind_external_session and reserve_sequence as single steps).
Atomic == State!Spec

\* reserve_sequence never returns a number that is not above all the numbers
\* returned before, to whomever.
NumbersAreFresh == State!NumbersAreFresh

\* A call returns: nobody waits for a flock for ever, whoever dies holding it
\* (locked() releases in a finally clause, the kernel on a kill).
CallReturns == \A p \in Procs : pc[p] = "acquire" ~> pc[p] \in {"idle", "killed"}
=============================================================================
