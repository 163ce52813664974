------------------------------- MODULE LockProofs -------------------------------
(***************************************************************************)
(* Proofs about the two flocks.  The session lock makes                    *)
(* bind_external_session and reserve_sequence atomic: SessionLock          *)
(* implements SessionState for any number of processes and calls,          *)
(* whichever of them die or fail to write.  The worktree lock of           *)
(* SessionLaunch keeps the Claude processes of live launchers apart, for   *)
(* any number of launches.                                                 *)
(***************************************************************************)
EXTENDS SessionLock, SessionLaunch, TLAPS

USE DEF Torn

\* The holder of the flock is the one process in the critical section, and the
\* files are what its position there says.
LockInv ==
  /\ TypeOK
  /\ binding.file = "absent" => binding = [file |-> "absent", ext |-> None]
  /\ \A p \in Procs :
       /\ lock = p <=> pc[p] \in Critical
       /\ pc[p] \in InBind => want[p] \in Exts
       /\ pc[p] = "fill" => binding = [file |-> "partial", ext |-> None]
       /\ pc[p] = "sync" => binding = [file |-> "whole", ext |-> want[p]]
       /\ pc[p] = "truncate" => seqFile = current[p]
       /\ pc[p] = "write" => seqFile = Torn

\* LockInv is inductive: one step per step of locked() and its users.
THEOREM LockInvariance == Spec => []LockInv
<1> USE DEF Critical, InBind, InReserve
<1>1. Init => LockInv
  BY LockAssumption DEF Init, LockInv, TypeOK
<1>2. LockInv /\ [Next]_vars => LockInv'
  <2> SUFFICES ASSUME LockInv, [Next]_vars PROVE LockInv'
    OBVIOUS
  <2> USE LockAssumption DEF LockInv, TypeOK, Goto, fileVars
  <2>1. ASSUME NEW p \in Procs, NEW e \in Exts \cup {None}, Call(p, e) PROVE LockInv'
    BY <2>1 DEF Call
  <2>2. ASSUME NEW p \in Procs, Acquire(p) PROVE LockInv'
    BY <2>2 DEF Acquire
  <2>3. ASSUME NEW p \in Procs, OpenBinding(p) PROVE LockInv'
    BY <2>3 DEF OpenBinding
  <2>4. ASSUME NEW p \in Procs, FillBinding(p) PROVE LockInv'
    BY <2>4 DEF FillBinding
  <2>5. ASSUME NEW p \in Procs, SyncBinding(p) PROVE LockInv'
    BY <2>5 DEF SyncBinding
  <2>6. ASSUME NEW p \in Procs, UnlinkBinding(p) PROVE LockInv'
    BY <2>6 DEF UnlinkBinding
  <2>7. ASSUME NEW p \in Procs, ReadSequence(p) PROVE LockInv'
    BY <2>7 DEF ReadSequence
  <2>8. ASSUME NEW p \in Procs, TruncateSequence(p) PROVE LockInv'
    BY <2>8 DEF TruncateSequence
  <2>9. ASSUME NEW p \in Procs, WriteSequence(p) PROVE LockInv'
    BY <2>9 DEF WriteSequence
  <2>10. ASSUME NEW p \in Procs, SequenceError(p) PROVE LockInv'
    BY <2>10 DEF SequenceError
  <2>11. ASSUME NEW p \in Procs, Release(p) PROVE LockInv'
    BY <2>11 DEF Release, Leave
  <2>12. ASSUME NEW p \in Procs, Kill(p) PROVE LockInv'
    BY <2>12 DEF Kill, Leave
  <2>13. CASE UNCHANGED vars
    BY <2>13 DEF vars
  <2> QED
    BY <2>1, <2>2, <2>3, <2>4, <2>5, <2>6, <2>7, <2>8, <2>9, <2>10, <2>11, <2>12, <2>13
       DEF Next, Step
<1> QED
  BY <1>1, <1>2, PTL DEF Spec

-----------------------------------------------------------------------------

\* Every variable keeps its shape: reserve_sequence never goes on with a number read
\* from a malformed .sequence.
THEOREM LockTyped == Spec => []TypeOK
  BY LockInvariance, PTL DEF LockInv

\* Each step is a step of SessionState or changes nothing a process outside the
\* critical section can see.
THEOREM LockIsAtomic == Spec => Atomic
<1> USE DEF Critical, InBind, InReserve
<1>1. Init => State!Init
  BY LockAssumption DEF Init, State!Init, AbsBinding, AbsSeqFile, Hiding
<1>2. LockInv /\ LockInv' /\ [Next]_vars => [State!Next]_(State!vars)
  <2> SUFFICES ASSUME LockInv, LockInv', [Next]_vars PROVE State!Next \/ UNCHANGED State!vars
    OBVIOUS
  <2> USE LockAssumption DEF Goto, fileVars
  <2>1. ASSUME NEW p \in Procs, NEW e \in Exts \cup {None}, Call(p, e)
        PROVE  UNCHANGED State!vars
    BY <2>1 DEF Call, State!vars, AbsBinding, AbsSeqFile, Hiding, LockInv, TypeOK
  <2>2. ASSUME NEW p \in Procs, Acquire(p) PROVE UNCHANGED State!vars
    BY <2>2 DEF Acquire, State!vars, AbsBinding, AbsSeqFile, Hiding, LockInv, TypeOK
  <2>3. ASSUME NEW p \in Procs, OpenBinding(p) PROVE UNCHANGED State!vars
    <3>1. lock = p /\ lock' = p /\ pc[p] = "open" /\ UNCHANGED <<seqFile, result>>
      BY <2>3 DEF OpenBinding, LockInv
    <3>2. AbsBinding = binding /\ AbsSeqFile = seqFile
      BY <3>1 DEF AbsBinding, AbsSeqFile, Hiding
    <3>3. pc'[p] \in {"fill", "release"} /\ pc'[p] # "write"
      BY <2>3 DEF OpenBinding, LockInv, TypeOK
    <3>4. AbsSeqFile' = seqFile
      BY <3>1, <3>3 DEF AbsSeqFile, Hiding
    <3>5. AbsBinding' = binding
      BY <2>3, <3>1 DEF OpenBinding, AbsBinding, Hiding, LockInv, TypeOK
    <3> QED
      BY <3>1, <3>2, <3>4, <3>5 DEF State!vars
  <2>4. ASSUME NEW p \in Procs, FillBinding(p) PROVE UNCHANGED State!vars
    BY <2>4 DEF FillBinding, State!vars, AbsBinding, AbsSeqFile, Hiding, LockInv, TypeOK
  <2>5. ASSUME NEW p \in Procs, SyncBinding(p) PROVE State!Bind(want[p])
    BY <2>5 DEF SyncBinding, State!Bind, AbsBinding, AbsSeqFile, Hiding, LockInv, TypeOK
  <2>6. ASSUME NEW p \in Procs, UnlinkBinding(p) PROVE UNCHANGED State!vars
    BY <2>6 DEF UnlinkBinding, State!vars, AbsBinding, AbsSeqFile, Hiding, LockInv, TypeOK
  <2>7. ASSUME NEW p \in Procs, ReadSequence(p) PROVE UNCHANGED State!vars
    BY <2>7 DEF ReadSequence, State!vars, AbsBinding, AbsSeqFile, Hiding, LockInv, TypeOK
  <2>8. ASSUME NEW p \in Procs, TruncateSequence(p) PROVE UNCHANGED State!vars
    BY <2>8 DEF TruncateSequence, State!vars, AbsBinding, AbsSeqFile, Hiding, LockInv,
       TypeOK
  <2>9. ASSUME NEW p \in Procs, WriteSequence(p) PROVE State!Reserve(p)
    <3>1. lock = p /\ lock' = p /\ pc[p] = "write" /\ pc'[p] = "release"
      BY <2>9 DEF WriteSequence, LockInv, TypeOK
    <3>2. AbsBinding = binding /\ AbsBinding' = binding
      BY <2>9, <3>1 DEF WriteSequence, AbsBinding, Hiding
    <3>3. AbsSeqFile = current[p] /\ AbsSeqFile' = current[p] + 1
      BY <2>9, <3>1 DEF WriteSequence, AbsSeqFile, Hiding
    <3>4. current[p] \in Nat /\ result' = [result EXCEPT ![p] = current[p] + 1]
      BY <2>9 DEF WriteSequence, LockInv, TypeOK
    <3> QED
      BY <3>2, <3>3, <3>4 DEF State!Reserve, State!Torn
  <2>10. ASSUME NEW p \in Procs, SequenceError(p)
         PROVE  State!LoseSequence \/ UNCHANGED State!vars
    BY <2>10 DEF SequenceError, State!LoseSequence, State!Torn, State!vars, AbsBinding,
       AbsSeqFile, Hiding, LockInv, TypeOK
  <2>11. ASSUME NEW p \in Procs, Release(p) PROVE UNCHANGED State!vars
    BY <2>11 DEF Release, Leave, State!vars, AbsBinding, AbsSeqFile, Hiding, LockInv, TypeOK
  <2>12. ASSUME NEW p \in Procs, Kill(p)
         PROVE  State!Next \/ UNCHANGED State!vars
    <3>1. CASE pc[p] = "fill"
      BY <2>12, <3>1 DEF Kill, Leave, State!LoseBinding, State!Next, AbsBinding, AbsSeqFile,
         Hiding, LockInv, TypeOK
    <3>2. CASE pc[p] = "sync"
      BY <2>12, <3>2 DEF Kill, Leave, State!Bind, State!Next, AbsBinding, AbsSeqFile,
         Hiding, LockInv, TypeOK
    <3>3. CASE pc[p] = "write"
      BY <2>12, <3>3 DEF Kill, Leave, State!LoseSequence, State!Torn, State!Next,
         AbsBinding, AbsSeqFile, Hiding, LockInv, TypeOK
    <3>4. CASE pc[p] \notin {"fill", "sync", "write"}
      BY <2>12, <3>4 DEF Kill, Leave, State!vars, AbsBinding, AbsSeqFile, Hiding, LockInv,
         TypeOK
    <3> QED
      BY <3>1, <3>2, <3>3, <3>4
  <2>13. CASE UNCHANGED vars
    BY <2>13 DEF vars, State!vars, AbsBinding, AbsSeqFile, Hiding
  <2>14. \A p \in Procs : pc[p] = "sync" => want[p] \in Exts
    BY DEF LockInv
  <2> QED
    BY <2>1, <2>2, <2>3, <2>4, <2>5, <2>6, <2>7, <2>8, <2>9, <2>10, <2>11, <2>12, <2>13,
       <2>14
       DEF Next, Step, State!Next, SyncBinding
<1> QED
  BY <1>1, <1>2, LockInvariance, PTL DEF Spec, Atomic, State!Spec

-----------------------------------------------------------------------------

\* While the numbering goes on, no process holds a number above it.
FreshInv ==
  /\ AbsSeqFile \in Nat \cup {Torn}
  /\ result \in [Procs -> Nat]
  /\ AbsSeqFile # Torn => \A p \in Procs : result[p] <= AbsSeqFile

\* reserve_sequence hands out increasing numbers, across processes, deaths and
\* failed writes.
THEOREM LockNumbersAreFresh == Spec => NumbersAreFresh
<1>1. State!Init => FreshInv
  BY DEF State!Init, FreshInv
<1>2. FreshInv /\ [State!Next]_(State!vars) => FreshInv' /\ [State!FreshNumber]_(State!vars)
  <2> SUFFICES ASSUME FreshInv, [State!Next]_(State!vars)
               PROVE  FreshInv' /\ (State!FreshNumber \/ UNCHANGED State!vars)
    OBVIOUS
  <2> USE DEF FreshInv, State!FreshNumber
  <2>1. ASSUME NEW p \in Procs, State!Reserve(p) PROVE FreshInv' /\ State!FreshNumber
    BY <2>1 DEF State!Reserve, State!Torn
  <2>2. CASE State!LoseSequence
    BY <2>2 DEF State!LoseSequence, State!Torn
  <2>3. CASE State!LoseBinding \/ \E e \in Exts : State!Bind(e)
    BY <2>3 DEF State!LoseBinding, State!Bind
  <2>4. CASE UNCHANGED State!vars
    BY <2>4 DEF State!vars
  <2> QED
    BY <2>1, <2>2, <2>3, <2>4 DEF State!Next
<1> QED
  BY <1>1, <1>2, LockIsAtomic, PTL DEF Atomic, State!Spec, NumbersAreFresh,
     State!NumbersAreFresh

(* The worktree lock *)

\* A launcher holds the lock exactly while it may have a child, and has a child
\* only behind the lock.
LaunchInv ==
  /\ launch \in [Launchers -> {"start", "lock", "launch", "wait", "audit",
                               "passed", "raised", "killed"}]
  /\ claude \in [Launchers -> {"none", "running", "exited"}]
  /\ \A l \in Launchers :
       /\ worktreeLock = l <=> launch[l] \in {"launch", "wait"}
       /\ claude[l] = "running" => launch[l] \in {"wait", "killed"}

\* LaunchInv is inductive: one step per operation of run_claude_session.
THEOREM LaunchInvariance == LaunchSpec => []LaunchInv
<1> USE LaunchAssumption
<1>1. LaunchInit => LaunchInv
  BY DEF LaunchInit, LaunchInv
<1>2. LaunchInv /\ [LaunchNext]_launchVars => LaunchInv'
  <2> SUFFICES ASSUME LaunchInv, [LaunchNext]_launchVars PROVE LaunchInv'
    OBVIOUS
  <2> USE DEF LaunchInv, Proceed
  <2>1. ASSUME NEW l \in Launchers, InitializeSession(l) \/ RefuseLaunch(l)
        PROVE  LaunchInv'
    BY <2>1 DEF InitializeSession, RefuseLaunch
  <2>2. ASSUME NEW l \in Launchers, AcquireLock(l) PROVE LaunchInv'
    BY <2>2 DEF AcquireLock, LockFree
  <2>3. ASSUME NEW l \in Launchers, LockBusy(l) PROVE LaunchInv'
    BY <2>3 DEF LockBusy
  <2>4. ASSUME NEW l \in Launchers, StartClaude(l) PROVE LaunchInv'
    BY <2>4 DEF StartClaude
  <2>5. ASSUME NEW l \in Launchers, FailLaunch(l) PROVE LaunchInv'
    BY <2>5 DEF FailLaunch
  <2>6. ASSUME NEW l \in Launchers, ClaudeExits(l) PROVE LaunchInv'
    BY <2>6 DEF ClaudeExits
  <2>7. ASSUME NEW l \in Launchers, CloseLock(l) PROVE LaunchInv'
    BY <2>7 DEF CloseLock
  <2>8. ASSUME NEW l \in Launchers, Interrupt(l) PROVE LaunchInv'
    BY <2>8 DEF Interrupt
  <2>9. ASSUME NEW l \in Launchers, Audit(l) PROVE LaunchInv'
    BY <2>9 DEF Audit
  <2>10. ASSUME NEW l \in Launchers, KillLauncher(l) PROVE LaunchInv'
    BY <2>10 DEF KillLauncher
  <2>11. CASE UNCHANGED launchVars
    BY <2>11 DEF launchVars
  <2> QED
    BY <2>1, <2>2, <2>3, <2>4, <2>5, <2>6, <2>7, <2>8, <2>9, <2>10, <2>11
       DEF LaunchNext, Launch
<1> QED
  BY <1>1, <1>2, PTL DEF LaunchSpec

\* Two launched Claude processes share the worktree only after a launcher died
\* (_active_session_lock).
THEOREM OrphansOnly == LaunchSpec => []OverlapNeedsOrphan
<1>1. LaunchInv => OverlapNeedsOrphan
  BY DEF LaunchInv, OverlapNeedsOrphan
<1> QED
  BY <1>1, LaunchInvariance, PTL

\* Killed launchers or not, the lock covers the whole life of a child whose
\* launcher is alive.
THEOREM LockCovers == LaunchSpec => []LockCoversClaude
<1>1. LaunchInv => LockCoversClaude
  BY DEF LaunchInv, LockCoversClaude
<1> QED
  BY <1>1, LaunchInvariance, PTL
================================================================================
