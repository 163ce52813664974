------------------------------ MODULE RunAudit ------------------------------
(***************************************************************************)
(* audit_run (src/src/acr/audit.py): the fail-closed verdict over what a   *)
(* captured run left on disk.  It reads only the data root, and may be     *)
(* asked at any moment, also while a process is running or after kills and *)
(* restarts; it is a predicate on the state, in the order of its parts.    *)
(***************************************************************************)
EXTENDS CapturedRun

IsWhole(a) == disk[a].state = "whole"
Events == disk["events"].body
Snapshots == disk["requests"].body
EventsOf(kinds) == {e \in Range(Events) : e.kind \in kinds}
SnapshotIds == {s.attempt : s \in Range(Snapshots)}
PhysicalIds == {n \in Attempts : \E p \in {"entered", "terminal"} : physical[n][p] # Absent}

\* run.json, both states, the producer, the configuration and the four ledgers
\* must parse; one torn record of an attempt or view is enough to block.
AuditReadable ==
  /\ \A a \in Artifacts \ {"sealed_artifact"} : IsWhole(a)
  /\ \A n \in Attempts : physical[n].entered # Torn /\ physical[n].terminal # Torn
  /\ \A w \in views : w.state = "whole"

AuditRepositoryStates ==
  LET run == disk["run"].body
  IN /\ disk["final_state"].body = run.final
     /\ run.sealed.listed = run.final.tree
     /\ run.sealed.bodies = run.sealed.listed

AuditEvents ==
  /\ disk["run"].body.events = Events
  /\ Events # <<>> /\ Last(Events).kind = "run_stop"
  /\ \A i \in DOMAIN Events : Events[i].seq = i - 1

\* Variant: the physical inventory is not compared with the ledgers.
AuditAttemptsOfLedgers ==
  LET Ids(kinds) == {e.data.attempt : e \in EventsOf(kinds)}
  IN SnapshotIds = Ids({"request"}) /\ SnapshotIds = Ids({"response", "provider_failure"})

\* _audit_requests with _physical_attempt_index: one request event, one terminal
\* event and one complete physical record for every snapshot, and no others.
AuditAttempts ==
  LET requests == EventsOf({"request"})
      terminals == EventsOf({"response", "provider_failure"})
      Ids(es) == {e.data.attempt : e \in es}
  IN /\ Cardinality(SnapshotIds) = Len(Snapshots)
     /\ Cardinality(Ids(requests)) = Cardinality(requests)
     /\ Cardinality(Ids(terminals)) = Cardinality(terminals)
     /\ SnapshotIds = Ids(requests) /\ SnapshotIds = Ids(terminals) /\ SnapshotIds = PhysicalIds
     /\ \A n \in PhysicalIds : physical[n].entered # Absent /\ physical[n].terminal # Absent

\* _audit_terminal_attempt and _audit_usage: the terminal event agrees with the
\* physical record on how the attempt ended and on the usage in its response.
AuditTerminals ==
  \A e \in EventsOf({"response", "provider_failure"}) :
    LET r == e.data.reply
    IN /\ (e.kind = "provider_failure") = r.failed
       /\ physical[e.data.attempt].terminal = Whole(<<r>>)

\* _audit_context_block: every block names a completed event of its own kind.
AuditContext ==
  \A s \in Range(Snapshots) : BuildView(s.blocks, {}, Events, s.cutoff)

AuditFileBindings ==
  LET calls(kind) == {e.call : e \in EventsOf({kind})}
      bindings == disk["file_bindings"].body
  IN /\ calls("tool_start") = calls("tool_finish")
     /\ \A kind \in {"tool_start", "tool_finish"} :
          Cardinality(calls(kind)) = Cardinality(EventsOf({kind}))
     /\ \A b \in Range(bindings) : \E e \in EventsOf({"tool_finish"}) :
          e.seq = b.event /\ e.data.complete /\ e.data.body = b.body
     /\ disk["final_state"].body.files = bindings

AuditViews ==
  \A w \in views :
    /\ Cardinality({i \in DOMAIN Snapshots : /\ Snapshots[i].cutoff = w.view.cutoff
                                             /\ Snapshots[i].blocks = w.view.blocks}) = 1
    /\ BuildView(w.view.blocks, w.view.comparisons, Events, w.view.cutoff)
    /\ \A c \in w.view.comparisons : \E e \in EventsOf({"state_check"}) :
         /\ e.seq = c.seq /\ e.data = c
         /\ c.status # "unknown" => (c.status = "same") = (c.current = c.binding.body)

\* _audit_usage_ledger: the totals are rebuilt from the terminal events.
AuditUsageLedger ==
  LET aggregate == disk["usage_aggregate"].body
  IN /\ aggregate.count = Cardinality(SnapshotIds)
     /\ Range(disk["usage_ledger"].body) = SnapshotIds
     /\ aggregate.complete =
          \A e \in EventsOf({"response", "provider_failure"}) : e.data.reply.usage = "all"

\* audit_run.
AuditPasses ==
  /\ AuditReadable /\ AuditRepositoryStates /\ AuditEvents /\ AuditAttempts
  /\ AuditTerminals /\ AuditContext /\ AuditFileBindings /\ AuditViews /\ AuditUsageLedger

-----------------------------------------------------------------------------
(* Properties *)

\* PASS can be trusted after any history of kills, restarts, caught exceptions and
\* foreign writes: nothing on disk is torn, the attempts of the sealed ledger are
\* exactly what the provider received, with its answers, the sealed bodies are the
\* listed tree, and complete usage means every answer reported it (audit_run).
PassTellsTheTruth ==
  AuditPasses =>
    /\ \A a \in Artifacts : IsWhole(a)
    /\ SnapshotIds = {n \in Attempts : sent[n] # <<>>}
    /\ \A e \in EventsOf({"response", "provider_failure"}) : sent[e.data.attempt] = <<e.data.reply>>
    /\ disk["sealed_artifact"].body.bodies = disk["final_state"].body.tree
    /\ disk["usage_aggregate"].body.complete => \A n \in SnapshotIds : sent[n][1].usage = "all"

\* A run sealed by its only process, without a caught exception or a foreign write,
\* passes its audit: the audit blocks nothing the runtime does in good order (seal).
SealedRunPasses ==
  pc = "sealed" /\ starts = 1 /\ foreign = 0 /\ ~rt.caught => AuditPasses

\* Once a run passes, starting its identity again cannot change the sealed record:
\* the verdict can only be lost to a new record of an attempt or of a view
\* (_write_once, RunSealedError).
VerdictIsStable ==
  [][AuditPasses => AuditPasses' \/ physical' # physical \/ views' # views]_vars
=============================================================================
