---------------------------- MODULE SessionLaunch ----------------------------
(***************************************************************************)
(* run_claude_session of src/acr/forensics/session.py: several launches    *)
(* (acr claude) in one worktree.  Each prepares its own session            *)
(* directory, then tries for the worktree's flock without waiting, runs    *)
(* Claude Code as a child process, closes the lock file and audits.  The   *)
(* lock file's descriptor is not inherited by the child.                   *)
(***************************************************************************)
CONSTANTS
  Launchers,       \* launches of the same worktree
  NoLauncher

ASSUME LaunchAssumption == NoLauncher \notin Launchers

VARIABLES
  launch,         \* [Launchers -> next step or outcome]
  worktreeLock,   \* holder of <repo identity>.lock
  session,        \* [Launchers -> is session.json written?]
  claude          \* [Launchers -> state of its Claude Code process]

launchVars == <<launch, worktreeLock, session, claude>>

LaunchInit ==
  /\ launch = [l \in Launchers |-> "start"]
  /\ worktreeLock = NoLauncher
  /\ session = [l \in Launchers |-> FALSE]
  /\ claude = [l \in Launchers |-> "none"]

Proceed(l, s) == launch' = [launch EXCEPT ![l] = s]

\* Configuration, executable, version and runtime profile are in order: the
\* session directory is initialized, before the lock is tried.
InitializeSession(l) ==
  /\ launch[l] = "start"
  /\ session' = [session EXCEPT ![l] = TRUE]
  /\ Proceed(l, "lock")
  /\ UNCHANGED <<worktreeLock, claude>>

\* SessionIntegrityError of one of the checks; nothing was written.
RefuseLaunch(l) ==
  /\ launch[l] = "start"
  /\ Proceed(l, "raised")
  /\ UNCHANGED <<worktreeLock, session, claude>>

\* Variant: the lock is shared.
LockFreeAlways == TRUE

LockFree == worktreeLock = NoLauncher

\* _active_session_lock: flock(LOCK_EX | LOCK_NB).
AcquireLock(l) ==
  /\ launch[l] = "lock"
  /\ LockFree
  /\ worktreeLock' = l
  /\ Proceed(l, "launch")
  /\ UNCHANGED <<session, claude>>

\* BlockingIOError: "another Agent Forensics session is active".
LockBusy(l) ==
  /\ launch[l] = "lock"
  /\ ~LockFree
  /\ Proceed(l, "raised")
  /\ UNCHANGED <<worktreeLock, session, claude>>

\* The settings file is written and subprocess.run starts the child.
StartClaude(l) ==
  /\ launch[l] = "launch"
  /\ claude' = [claude EXCEPT ![l] = "running"]
  /\ Proceed(l, "wait")
  /\ UNCHANGED <<worktreeLock, session>>

\* Writing the settings or starting the child fails: finally closes the lock.
FailLaunch(l) ==
  /\ launch[l] = "launch"
  /\ worktreeLock' = NoLauncher
  /\ Proceed(l, "raised")
  /\ UNCHANGED <<session, claude>>

\* The child ends (external).
ClaudeExits(l) ==
  /\ claude[l] = "running"
  /\ claude' = [claude EXCEPT ![l] = "exited"]
  /\ UNCHANGED <<launch, worktreeLock, session>>

\* subprocess.run returns, finally closes the lock.
CloseLock(l) ==
  /\ launch[l] = "wait"
  /\ claude[l] = "exited"
  /\ worktreeLock' = NoLauncher
  /\ Proceed(l, "audit")
  /\ UNCHANGED <<session, claude>>

\* KeyboardInterrupt while waiting: subprocess.run kills the child and raises,
\* so there is no audit.
Interrupt(l) ==
  /\ launch[l] = "wait"
  /\ claude' = [claude EXCEPT ![l] = "exited"]
  /\ worktreeLock' = NoLauncher
  /\ Proceed(l, "raised")
  /\ UNCHANGED session

\* Variant: the audit never comes to an end.
AuditNothing(l) ==
  /\ launch[l] = "audit"
  /\ UNCHANGED launchVars

\* audit_session (module SessionAudit): PASS, or SessionIntegrityError BLOCK.
Audit(l) ==
  /\ launch[l] = "audit"
  /\ \E outcome \in {"passed", "raised"} : Proceed(l, outcome)
  /\ UNCHANGED <<worktreeLock, session, claude>>

\* SIGKILL of the launcher: the kernel closes the lock file; the child, if
\* started, is not told.
KillLauncher(l) ==
  /\ launch[l] \in {"start", "lock", "launch", "wait", "audit"}
  /\ worktreeLock' = IF worktreeLock = l THEN NoLauncher ELSE worktreeLock
  /\ Proceed(l, "killed")
  /\ UNCHANGED <<session, claude>>

Launch(l) ==
  \/ InitializeSession(l) \/ RefuseLaunch(l)
  \/ AcquireLock(l) \/ LockBusy(l)
  \/ StartClaude(l) \/ FailLaunch(l) \/ CloseLock(l) \/ Audit(l)

LaunchNext == \E l \in Launchers : Launch(l) \/ Interrupt(l) \/ ClaudeExits(l) \/ KillLauncher(l)

LaunchSpec == LaunchInit /\ [][LaunchNext]_launchVars

\* A launcher runs until it ends or is killed, and Claude Code ends some time.
FairLaunchSpec ==
  LaunchSpec /\ \A l \in Launchers : WF_launchVars(Launch(l)) /\ WF_launchVars(ClaudeExits(l))

-----------------------------------------------------------------------------
(* Properties.                                                             *)

\* As far as the lock goes: two launched Claude processes run at the same time
\* only if the launcher of one of them has died (_active_session_lock).
OverlapNeedsOrphan ==
  \A l, m \in Launchers : claude[l] = "running" /\ claude[m] = "running" /\ l # m =>
    "killed" \in {launch[l], launch[m]}

\* The lock is held from before the child starts until after it has ended, and
\* by a launcher that is still there to close it.
LockCoversClaude ==
  \A l \in Launchers :
    /\ claude[l] = "running" /\ launch[l] # "killed" => worktreeLock = l
    /\ worktreeLock = l => launch[l] \in {"launch", "wait"}

\* A launch comes to an end: after Claude ran the audit answers, unless the
\* launcher was interrupted or died, and the worktree becomes free again.
LaunchEnds ==
  \A l \in Launchers :
    claude[l] = "running" ~> launch[l] \in {"passed", "raised", "killed"} /\ worktreeLock # l
=============================================================================
