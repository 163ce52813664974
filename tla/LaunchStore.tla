----------------------------- MODULE LaunchStore -----------------------------
(***************************************************************************)
(* Launches of one worktree (SessionLaunch) that share the blob directory  *)
(* of their data root (WriteOnce): before its session.json is written,     *)
(* initialize_session of src/acr/forensics/store.py stores the producer    *)
(* manifest under its hash, the same bytes at the same path in every       *)
(* launch.  The writers of that path are the launches.                     *)
(***************************************************************************)
EXTENDS SessionLaunch, WriteOnce

ASSUME StoreAssumption == Writers = Launchers

storeVars == <<launchVars, vars>>

StoreInit == LaunchInit /\ Init

\* ref_for_bytes(producer_bytes), the first of the writes of initialize_session.
ProducerRef(l) ==
  /\ launch[l] = "start"
  /\ WriteStep(l)
  /\ UNCHANGED launchVars

\* The references are built and session.json names them.
SessionWithRef(l) ==
  /\ Told(l)
  /\ InitializeSession(l)
  /\ UNCHANGED vars

\* A check refuses before anything is written, the blob's write raises, or a
\* later write of initialize_session does.
RefusedStart(l) ==
  /\ pc[l] = "open" \/ Told(l) \/ pc[l] \in {"refused", "withdrawn"}
  /\ RefuseLaunch(l)
  /\ UNCHANGED vars

\* The rest of run_claude_session does not touch the blob.
LaunchOnly(l) ==
  /\ \/ AcquireLock(l) \/ LockBusy(l)
     \/ StartClaude(l) \/ FailLaunch(l) \/ CloseLock(l) \/ Audit(l)
  /\ UNCHANGED vars

\* Claude Code ends, or the user interrupts the launcher that waits for it.
Outside(l) == (Interrupt(l) \/ ClaudeExits(l)) /\ UNCHANGED vars

\* A launcher that is killed inside _write_once leaves the file as it is.
KillStart(l) ==
  /\ KillLauncher(l)
  /\ IF pc[l] \in {"open", "compare", "write", "sync"} THEN Kill(l) ELSE UNCHANGED vars

StoreStep(l) == ProducerRef(l) \/ SessionWithRef(l) \/ RefusedStart(l) \/ LaunchOnly(l)

StoreNext == \E l \in Launchers : StoreStep(l) \/ Outside(l) \/ KillStart(l)

StoreSpec == StoreInit /\ [][StoreNext]_storeVars

\* A launcher runs until it ends or is killed, and Claude Code ends some time.
FairStoreSpec ==
  /\ StoreSpec
  /\ \A l \in Launchers :
       /\ WF_storeVars(StoreStep(l))
       /\ WF_storeVars(ClaudeExits(l) /\ UNCHANGED vars)
=============================================================================
