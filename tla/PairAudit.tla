----------------------------- MODULE PairAudit -----------------------------
(***************************************************************************)
(* audit_pair, audit_evaluation and their parts (src/src/acr/audit.py):    *)
(* the verdict over a persisted pair, asked at any time, with the private  *)
(* specification as it is then.                                            *)
(***************************************************************************)
EXTENDS NoopPair

IsWhole(file) == file.state = "whole"

\* _audit_evaluation_producer: the three files come from one invocation, which used
\* the specification the auditor holds.
AuditEvaluationProducer(a) ==
  /\ \A f \in EvalFiles : evals[a][f] = evals[a]["result"]
  /\ evals[a]["result"].body.spec = spec

AuditEvaluation(a) ==
  /\ runs[a].state = "sealed"
  /\ \A f \in EvalFiles : IsWhole(evals[a][f])
  /\ evals[a]["result"].body.arm = a
  /\ AuditEvaluationProducer(a)

\* Variant: the evaluations are not ordered after the runs.
PhaseOrderIgnored(frozen) == \A a \in Arms : evals[a]["manifest"].body.spec = frozen.spec

\* _authoritative_run_stop and the end of _audit_pair_manifest: both evaluations used
\* the frozen specification and began no earlier than the last run_stop.
PhaseOrder(frozen) ==
  \A a \in Arms :
    /\ evals[a]["manifest"].body.spec = frozen.spec
    /\ \A b \in Arms : evals[a]["manifest"].body.started >= runs[b].stop

\* Both arms ran from the frozen source, in workspaces of their own.
AuditPairManifest ==
  LET frozen == pairDir["plan"].body
  IN /\ pairDir["pair"].body = frozen
     /\ \A a \in Arms : runs[a].initial = frozen.source
     /\ PhaseOrder(frozen)

\* audit_pair.
AuditPairPasses ==
  /\ \A f \in PairFiles : IsWhole(pairDir[f])
  /\ \A a \in Arms : runs[a].state = "sealed" /\ AuditEvaluation(a)
  /\ AuditPairManifest

-----------------------------------------------------------------------------
(* Properties *)

\* PASS can be trusted after any races, kills and edits: each arm was run once, by the
\* process whose plan is on disk, in the recorded order, and both evaluations on
\* record are single invocations that began after both arms had stopped and used the
\* specification frozen before the first arm.
PairPassIsTrustworthy ==
  AuditPairPasses =>
    /\ \A a \in Arms : runs[a].count = 1
    /\ \E p \in PairProcs :
         /\ plan[p] = pairDir["plan"].body
         /\ runs[plan[p].order[1]].stop < runs[plan[p].order[2]].stop
    /\ \A a, b \in Arms : evals[a]["result"].body.started > runs[b].stop
    /\ \A a \in Arms : evals[a]["result"].body.spec = pairDir["plan"].body.spec

\* A pair that one process completes while nobody edits, evaluates or kills passes
\* its audit (RunAudit: its runs do): the phase order check blocks no honest pair.
CleanPairPasses ==
  \A p \in PairProcs :
    /\ pc[p] = "done" /\ faults = 0
    /\ \A q \in Procs \ {p} : pc[q] = "off"
    => AuditPairPasses
=============================================================================
