----------------------------- MODULE SessionAudit -----------------------------
(***************************************************************************)
(* One launcher run around the hook processes of HookCapture: Claude Code  *)
(* ends, run_claude_session drops the worktree lock and audits what the    *)
(* hooks left (src/acr/forensics/session.py, audit_session and the end of  *)
(* run_claude_session).                                                    *)
(***************************************************************************)
EXTENDS HookCapture

\* A session has finitely many hook processes.
ASSUME FiniteHooks == IsFiniteSet(Hooks)

VARIABLE
  launcher   \* "claude", "audit", then the verdict "PASS" or "BLOCK"

auditVars == <<vars, launcher>>

-----------------------------------------------------------------------------
(* audit_session.  Each conjunct is one group of its checks; an event is   *)
(* exact when its command was the verifier and it carries an occurrence.   *)

Recorded(o, kind) ==
  {h \in Hooks : /\ events[h].file = "whole"
                 /\ call[h].kind = kind /\ call[h].op = o
                 /\ OpScope[o] # "unidentified"}

\* Variant for validating the properties: unreadable event files are skipped.
EventsValidSkipsMalformed ==
  /\ \A h \in Hooks : events[h].file = "whole" => call[h].ext = binding.ext
  /\ \A o \in Ops, kind \in {"pre", "post"} : Cardinality(Recorded(o, kind)) <= 1

EventsValid ==
  /\ \A h \in Hooks : /\ events[h].file \in {"absent", "whole"}
                      /\ events[h].file = "whole" => call[h].ext = binding.ext
  /\ \A o \in Ops, kind \in {"pre", "post"} : Cardinality(Recorded(o, kind)) <= 1

CheckpointsValid ==
  \A h \in Hooks :
    /\ checkpoints[h].file \in {"absent", "whole"}
    /\ checkpoints[h].file = "whole" => manifests[checkpoints[h].manifest] = "whole"

\* One receipt against its marker, checkpoint, pre-event p and result event q.
ReceiptBinds(o, p, q) ==
  LET r == receipts[o]
      m == pending[o]
  IN  /\ m.file = "whole" /\ m.owner = p /\ m.preSeq = events[p].seq
      /\ m.ext = binding.ext
      /\ r.owner = m.owner
      /\ checkpoints[r.owner].file = "whole"
      /\ checkpoints[r.owner].manifest = r.manifest /\ m.manifest = r.manifest
      /\ r.post = q /\ r.seq > events[q].seq
      /\ Eligible(o)
      /\ r.verdict = TrustedTerminalResult(run[o].result)

ReceiptsValid ==
  \A o \in Ops :
    /\ receipts[o].file \in {"absent", "whole"}
    /\ receipts[o].file = "whole" =>
         \E p \in Recorded(o, "pre"), q \in Recorded(o, "post") : ReceiptBinds(o, p, q)

\* Variant: missing receipts are not noticed.
CorrelationCompleteNoReceipts ==
  \A o \in Ops :
    /\ Recorded(o, "pre") # {} => pending[o].file = "whole"
    /\ (Recorded(o, "pre") = {}) = (Recorded(o, "post") = {})

\* Variant: interrupted and unclassified results are expected to have a receipt.
CorrelationCompleteAnyResult ==
  \A o \in Ops :
    /\ Recorded(o, "pre") # {} => pending[o].file = "whole"
    /\ (Recorded(o, "pre") = {}) = (Recorded(o, "post") = {})
    /\ (Recorded(o, "post") # {}) = (receipts[o].file = "whole")

\* Every pre-event has its marker, pre and result events pair up, and the
\* receipt-eligible results are exactly the ones with a receipt.
CorrelationComplete ==
  \A o \in Ops :
    /\ Recorded(o, "pre") # {} => pending[o].file = "whole"
    /\ (Recorded(o, "pre") = {}) = (Recorded(o, "post") = {})
    /\ (Recorded(o, "post") # {} /\ Eligible(o)) = (receipts[o].file = "whole")

AuditPasses ==
  /\ binding.file = "whole"
  /\ EventsValid
  /\ CheckpointsValid
  /\ ReceiptsValid
  /\ CorrelationComplete

-----------------------------------------------------------------------------

\* subprocess.run returns.  Claude Code waits for its hooks; one it gave up on
\* may go on.
ClaudeExits ==
  /\ launcher = "claude"
  /\ \A h \in Hooks : pc[h] \notin Live \/ HooksOutliveTimeout
  /\ launcher' = "audit"
  /\ UNCHANGED vars

AuditSession ==
  /\ launcher = "audit"
  /\ launcher' = IF AuditPasses THEN "PASS" ELSE "BLOCK"
  /\ UNCHANGED vars

AuditInit == Init /\ launcher = "claude"

AuditNext ==
  \/ launcher = "claude" /\ Claude /\ UNCHANGED launcher
  \/ (\E h \in Hooks : HookStep(h) \/ HookFailure(h)) /\ UNCHANGED launcher
  \/ ClaudeExits
  \/ AuditSession

AuditSpec == AuditInit /\ [][AuditNext]_auditVars

-----------------------------------------------------------------------------
(* Properties.                                                             *)

\* What a PASS of the launcher means: every recorded receipt-eligible result
\* has a complete receipt with the verdict the verifier gave, and unless the
\* worktree was written in between, the manifest of the worktree it ran on.
PassIsTrustworthy ==
  launcher = "PASS" =>
    \A o \in Ops : Recorded(o, "post") # {} /\ Eligible(o) =>
      /\ receipts[o].file = "whole"
      /\ receipts[o].verdict = (IF run[o].result = "ok" THEN "pass" ELSE "fail")
      /\ run[o].quiet => receipts[o].manifest = ManifestOf[run[o].version]

\* A PASS hides no broken evidence: no partial record, no checkpoint without
\* its manifest, no result on record without its pre-state.  A result without
\* an occurrence identity (line 256: operation is None) takes no part in the
\* correlation, and the audit cannot tell what it belongs to.
PassHidesNothing ==
  launcher = "PASS" =>
    /\ \A h \in Hooks : events[h].file # "partial" /\ checkpoints[h].file # "partial"
    /\ \A o \in Ops : receipts[o].file # "partial"
    /\ \A h \in Hooks : checkpoints[h].file = "whole" =>
         manifests[checkpoints[h].manifest] = "whole"
    /\ \A o \in Ops : OpScope[o] # "unidentified"
                        /\ (\E h \in PostHooks(o) : events[h].file = "whole")
                        => \E h \in PreHooks(o) : checkpoints[h].file = "whole"

\* A session in which nothing went wrong: every hook process returned 0
\* without an anomaly, and each occurrence was delivered once before and once
\* after a run that finished, or not at all.
CleanSession ==
  /\ \A h \in Hooks : pc[h] \in {"idle", "exit0"}
  /\ anomalies = {}
  /\ \E h \in Hooks : pc[h] = "exit0"
  /\ \A o \in Ops :
       /\ run[o].phase \in {"idle", "finished"}
       /\ run[o].phase = "finished" =>
            Cardinality(PreHooks(o)) = 1 /\ Cardinality(PostHooks(o)) = 1

\* No false alarm: the launcher never reports BLOCK for a clean session.
CleanSessionPasses == launcher = "BLOCK" => ~CleanSession
=============================================================================
