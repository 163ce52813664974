----------------------------- MODULE SessionState -----------------------------
(***************************************************************************)
(* What the session lock promises to the hook processes                    *)
(* (src/acr/forensics/store.py, bind_external_session and reserve_sequence *)
(* under locked()): both are atomic, a number is handed out once, the      *)
(* binding is written once.  A process that dies or fails in the middle    *)
(* may leave a file nobody can use any more.  SessionLock and HookCapture  *)
(* implement this specification.                                           *)
(***************************************************************************)
EXTENDS Integers

CONSTANTS Procs, Exts, None

VARIABLES
  binding,   \* external_session.json
  seqFile,   \* .sequence
  seq        \* [Procs -> the last number the process was given]

vars == <<binding, seqFile, seq>>

Torn == -1     \* a .sequence that is not a number

Init ==
  /\ binding = [file |-> "absent", ext |-> None]
  /\ seqFile = 0
  /\ seq = [p \in Procs |-> 0]

Bind(e) ==
  /\ binding.file = "absent"
  /\ binding' = [file |-> "whole", ext |-> e]
  /\ UNCHANGED <<seqFile, seq>>

LoseBinding ==
  /\ binding.file = "absent"
  /\ binding' = [file |-> "partial", ext |-> None]
  /\ UNCHANGED <<seqFile, seq>>

Reserve(p) ==
  /\ seqFile # Torn
  /\ seqFile' = seqFile + 1
  /\ seq' = [seq EXCEPT ![p] = seqFile + 1]
  /\ UNCHANGED binding

LoseSequence ==
  /\ seqFile # Torn
  /\ seqFile' = Torn
  /\ UNCHANGED <<binding, seq>>

Next ==
  \/ \E e \in Exts : Bind(e)
  \/ LoseBinding
  \/ \E p \in Procs : Reserve(p)
  \/ LoseSequence

Spec == Init /\ [][Next]_vars

\* A number that is handed out exceeds every number handed out before: records
\* of one session are ordered by it (OrderingEvidence).
FreshNumber ==
  \A p \in Procs : seq'[p] # seq[p] => \A q \in Procs : seq[q] < seq'[p]

NumbersAreFresh == [][FreshNumber]_vars
=============================================================================
