----------------------------- MODULE HookCapture -----------------------------
(***************************************************************************)
(* The hook endpoint of one Agent Forensics session                        *)
(* (src/acr/forensics/session.py, handle_claude_hook and what it calls).   *)
(*                                                                         *)
(* Claude Code starts one operating-system process per hook event.  The    *)
(* processes share nothing but the evidence directory, so the unit of      *)
(* interleaving is one store operation: every pc below is the point just   *)
(* before a call that reads or writes a file other processes can see.      *)
(* bind_external_session and reserve_sequence run under the session flock  *)
(* and are one step here; module SessionLock shows that their real steps   *)
(* implement that, and module WriteOnce treats the steps of _write_once.   *)
(*                                                                         *)
(* Blobs and provenance records with a fresh identity, written before the  *)
(* record that refers to them, are part of the step of that record: nobody *)
(* reads them without it.                                                  *)
(***************************************************************************)
EXTENDS Integers, FiniteSets

CONSTANTS
  Hooks,               \* hook processes, each handling one hook event
  Ops,                 \* tool-use occurrences of the exact verifier command
  Exts,                \* Claude session identities (hashed)
  Versions,            \* contents of the worktree
  Manifests,           \* captured_workspace_manifest_hash values
  ManifestOf,          \* the manifest of each worktree content
  OpScope,             \* "root", "elsewhere" or "unidentified" for each Op
  HooksOutliveTimeout, \* does a hook process survive Claude's hook timeout?
  None                 \* JSON null

ASSUME ConstantsAssumption ==
  /\ ManifestOf \in [Versions -> Manifests]
  /\ OpScope \in [Ops -> {"root", "elsewhere", "unidentified"}]
  /\ HooksOutliveTimeout \in BOOLEAN
  /\ None \notin Hooks /\ None \notin Ops /\ None \notin Exts
  /\ None \notin Manifests /\ None \notin Versions

VARIABLES
  ws,          \* current content of the worktree
  run,         \* [Ops -> what Claude Code did with the occurrence]
  pc,          \* [Hooks -> next store operation of the process]
  call,        \* [Hooks -> the event the process was started for]
  seq,         \* [Hooks -> last sequence number the process reserved]
  seen,        \* [Hooks -> worktree contents that existed during its capture]
  captured,    \* [Hooks -> manifest hash its capture produced]
  loaded,      \* [Hooks -> checkpoint owner named by the marker it loaded]
  binding,     \* external_session.json
  seqFile,     \* .sequence
  events,      \* [Hooks -> the event record of the process]
  manifests,   \* [Manifests -> manifest artifact and blob]
  checkpoints, \* [Hooks -> the checkpoint record of the process]
  pending,     \* [Ops -> pending_verifiers marker]
  receipts,    \* [Ops -> receipt record; its id is a hash of the occurrence]
  anomalies    \* hooks that left an anomaly record

claudeVars == <<ws, run, call>>
localVars  == <<seq, seen, captured, loaded>>
sessionVars == <<binding, seqFile, anomalies>>
recordVars == <<events, manifests, checkpoints, pending, receipts>>
storeVars  == <<sessionVars, recordVars>>
vars == <<claudeVars, pc, localVars, storeVars>>

-----------------------------------------------------------------------------
(* What a verifier run reports, and what the hook makes of it.             *)

\* PostToolUse; PostToolUseFailure with first line "Exit code N" (N # 0),
\* "Exit code 0", any other text, or is_interrupt.
Results == {"ok", "exit_nonzero", "exit_zero", "other_error", "interrupt"}

\* termination_kind and exit_code as sanitize_claude_hook_payload derives them.
Termination(r) ==
  CASE r = "ok"           -> [kind |-> "success",     exit_code |-> "zero"]
    [] r = "exit_nonzero" -> [kind |-> "exited",      exit_code |-> "nonzero"]
    [] r = "exit_zero"    -> [kind |-> "exited",      exit_code |-> "zero"]
    [] r = "interrupt"    -> [kind |-> "interrupted", exit_code |-> "none"]
    [] OTHER              -> [kind |-> "unclassified_failure", exit_code |-> "none"]

\* Variant for validating the properties: exit code 0 of a failure event counts.
TrustedTerminalResultAnyExit(r) ==
  LET t == Termination(r)
  IN  CASE t.kind = "success" -> "pass" [] t.kind = "exited" -> "fail" [] OTHER -> "none"

TrustedTerminalResult(r) ==
  LET t == Termination(r)
  IN  CASE t.kind = "success" /\ t.exit_code = "zero"   -> "pass"
        [] t.kind = "exited" /\ t.exit_code = "nonzero" -> "fail"
        [] OTHER -> "none"

Eligible(o) == TrustedTerminalResult(run[o].result) # "none"

-----------------------------------------------------------------------------
(* Files.  A record is "partial" from the O_EXCL create to the end of the  *)
(* write, "file" when its JSON file is complete, "whole" when the blob     *)
(* persist_record writes after it exists too.                              *)

FileStates == {"absent", "partial", "file", "whole"}
Complete(r) == r.file \in {"file", "whole"}

Torn == -1        \* .sequence after truncation and before the write

NoCall == [kind |-> "none", op |-> None, ext |-> None]
NoEvent == [file |-> "absent", seq |-> 0]
NoCheckpoint == [file |-> "absent", seq |-> 0, manifest |-> None]
NoPending == [file |-> "absent", owner |-> None, manifest |-> None, ext |-> None, preSeq |-> 0]
NoReceipt == [file |-> "absent", owner |-> None, post |-> None, manifest |-> None,
              verdict |-> "none", seq |-> 0]
NotRun == [phase |-> "idle", version |-> None, result |-> "none", quiet |-> TRUE]

Exited == {"exit0", "exit1", "exit2"}
Over   == Exited \cup {"killed"}
Reserving == {"reserve_event", "reserve_checkpoint", "reserve_receipt"}
\* the pcs at which the process is about to touch the evidence directory
Storing == Reserving \cup
  {"bind", "event", "event_blob", "manifest", "checkpoint", "checkpoint_blob",
   "pending", "receipt", "receipt_write", "receipt_blob", "anomaly", "reject"}
Live == Storing \cup {"load", "capture", "correlate"}

Init ==
  /\ ws \in Versions
  /\ run = [o \in Ops |-> NotRun]
  /\ pc = [h \in Hooks |-> "idle"]
  /\ call = [h \in Hooks |-> NoCall]
  /\ seq = [h \in Hooks |-> 0]
  /\ seen = [h \in Hooks |-> {}]
  /\ captured = [h \in Hooks |-> None]
  /\ loaded = [h \in Hooks |-> None]
  /\ binding = [file |-> "absent", ext |-> None]
  /\ seqFile = 0                                   \* no .sequence file yet
  /\ events = [h \in Hooks |-> NoEvent]
  /\ manifests = [m \in Manifests |-> "absent"]
  /\ checkpoints = [h \in Hooks |-> NoCheckpoint]
  /\ pending = [o \in Ops |-> NoPending]
  /\ receipts = [o \in Ops |-> NoReceipt]
  /\ anomalies = {}

Goto(h, p) == pc' = [pc EXCEPT ![h] = p]

-----------------------------------------------------------------------------
(* Claude Code and the agent (external).                                   *)

PreHooks(o)  == {h \in Hooks : call[h].kind = "pre" /\ call[h].op = o}
PostHooks(o) == {h \in Hooks : call[h].kind = "post" /\ call[h].op = o}

Deliver(h, kind, o, e) ==
  /\ pc[h] = "idle"
  /\ call' = [call EXCEPT ![h] = [kind |-> kind, op |-> o, ext |-> e]]
  /\ Goto(h, "load")

\* PreToolUse of an exact verifier occurrence; a second delivery is allowed.
DeliverPre(h, o, e) ==
  /\ run[o].phase \in {"idle", "pre"}
  /\ Deliver(h, "pre", o, e)
  /\ run' = [run EXCEPT ![o].phase = "pre"]
  /\ UNCHANGED <<ws, localVars, storeVars>>

\* PostToolUse or PostToolUseFailure of an occurrence that ran.
DeliverPost(h, o, e) ==
  /\ run[o].phase = "finished"
  /\ Deliver(h, "post", o, e)
  /\ UNCHANGED <<ws, run, localVars, storeVars>>

\* Any other hook event, a background or non-exact command included.
DeliverOther(h, e) ==
  /\ Deliver(h, "other", None, e)
  /\ UNCHANGED <<ws, run, localVars, storeVars>>

\* The tool runs unless a PreToolUse hook it waited for exited with 2.  From
\* "idle" the hook call was lost.
StartVerifier(o) ==
  /\ run[o].phase \in {"idle", "pre"}
  /\ \A h \in PreHooks(o) : pc[h] \in Over \/ HooksOutliveTimeout
  /\ \A h \in PreHooks(o) : pc[h] # "exit2"
  /\ run' = [run EXCEPT ![o].phase = "running", ![o].version = ws]
  /\ UNCHANGED <<ws, call, pc, localVars, storeVars>>

BlockVerifier(o) ==
  /\ run[o].phase = "pre"
  /\ \E h \in PreHooks(o) : pc[h] = "exit2"
  /\ run' = [run EXCEPT ![o].phase = "blocked"]
  /\ UNCHANGED <<ws, call, pc, localVars, storeVars>>

FinishVerifier(o, r) ==
  /\ run[o].phase = "running"
  /\ run' = [run EXCEPT ![o].phase = "finished", ![o].result = r]
  /\ UNCHANGED <<ws, call, pc, localVars, storeVars>>

\* An edit by a tool, a background process, a human or the verifier itself.
\* quiet remembers whether an occurrence saw one before it started to run.
WriteWorkspace(v) ==
  /\ v # ws
  /\ ws' = v
  /\ run' = [o \in Ops |-> IF run[o].phase = "pre"
                           THEN [run[o] EXCEPT !.quiet = FALSE] ELSE run[o]]
  /\ seen' = [h \in Hooks |-> IF pc[h] = "manifest" THEN seen[h] \cup {v} ELSE seen[h]]
  /\ UNCHANGED <<pc, call, seq, captured, loaded, storeVars>>

-----------------------------------------------------------------------------
(* handle_claude_hook.                                                     *)

\* The input parses, the session metadata loads, the profile and the
\* repository match, the payload is sanitized.
LoadSession(h) ==
  /\ pc[h] = "load"
  /\ Goto(h, "bind")
  /\ UNCHANGED <<claudeVars, localVars, storeVars>>

\* Empty, oversized or malformed input, or unreadable metadata: exact_pre is
\* still False, so whatever the event was the exit status will be 0.
RejectInput(h) ==
  /\ pc[h] = "load"
  /\ Goto(h, "reject")
  /\ UNCHANGED <<claudeVars, localVars, storeVars>>

\* Variant: the binding is overwritten instead of written once.
MayBindAlways(h) == TRUE

\* _write_once accepts a new file, or one with the same bytes.
MayBind(h) ==
  binding.file = "absent" \/ binding = [file |-> "whole", ext |-> call[h].ext]

BindExternalSession(h) ==
  /\ pc[h] = "bind"
  /\ MayBind(h)
  /\ binding' = [file |-> "whole", ext |-> call[h].ext]
  /\ Goto(h, "reserve_event")
  /\ UNCHANGED <<claudeVars, localVars, seqFile, recordVars, anomalies>>

AfterReserve(p) ==
  CASE p = "reserve_event"      -> "event"
    [] p = "reserve_checkpoint" -> "checkpoint"
    [] OTHER                    -> "receipt"

\* Variant: a malformed .sequence restarts the numbering.
ReserveSequenceRestart(h) ==
  LET next == IF seqFile = Torn THEN 1 ELSE seqFile + 1
  IN  /\ pc[h] \in Reserving
      /\ seqFile' = next
      /\ seq' = [seq EXCEPT ![h] = next]
      /\ Goto(h, AfterReserve(pc[h]))
      /\ UNCHANGED <<claudeVars, seen, captured, loaded, binding, recordVars, anomalies>>

ReserveSequence(h) ==
  /\ pc[h] \in Reserving
  /\ seqFile # Torn
  /\ seqFile' = seqFile + 1
  /\ seq' = [seq EXCEPT ![h] = seqFile + 1]
  /\ Goto(h, AfterReserve(pc[h]))
  /\ UNCHANGED <<claudeVars, seen, captured, loaded, binding, recordVars, anomalies>>

\* _event_from_observation: source blob, provenance, then the event record...
PersistEvent(h) ==
  /\ pc[h] = "event"
  /\ events' = [events EXCEPT ![h] = [file |-> "file", seq |-> seq[h]]]
  /\ Goto(h, "event_blob")
  /\ UNCHANGED <<claudeVars, localVars, sessionVars, manifests, checkpoints, pending, receipts>>

\* Variant: only a successful result reaches the receipt branch.
AfterEventPassOnly(h) ==
  CASE call[h].kind = "pre" -> "capture"
    [] call[h].kind = "post" /\ run[call[h].op].result = "ok" -> "correlate"
    [] OTHER -> "exit0"

\* The branch of handle_claude_hook after the event is on record.
AfterEvent(h) ==
  CASE call[h].kind = "pre" -> "capture"
    [] call[h].kind = "post" /\ Eligible(call[h].op) -> "correlate"
    [] OTHER -> "exit0"

\* ... and its blob, after which the exact verifier events take their branch.
PersistEventBlob(h) ==
  /\ pc[h] = "event_blob"
  /\ events' = [events EXCEPT ![h].file = "whole"]
  /\ Goto(h, AfterEvent(h))
  /\ UNCHANGED <<claudeVars, localVars, sessionVars, manifests, checkpoints, pending, receipts>>

-----------------------------------------------------------------------------
(* _persist_verifier_pre_state and capture_workspace_checkpoint.           *)

\* Root scope and an identified occurrence are required before the capture.
BeginCapture(h) ==
  /\ pc[h] = "capture"
  /\ OpScope[call[h].op] = "root"
  /\ seen' = [seen EXCEPT ![h] = {ws}]
  /\ Goto(h, "manifest")
  /\ UNCHANGED <<claudeVars, seq, captured, loaded, storeVars>>

\* The paths are read one after the other: a worktree that changed meanwhile
\* may yield a mixture, hence any manifest (module CheckpointCapture).
CaptureOutcomes(h) ==
  {m \in Manifests : \A v \in Versions : seen[h] = {v} => m = ManifestOf[v]}

PersistManifest(h) ==
  /\ pc[h] = "manifest"
  /\ \E m \in CaptureOutcomes(h) :
       /\ manifests[m] # "partial"
       /\ manifests' = [manifests EXCEPT ![m] = "whole"]
       /\ captured' = [captured EXCEPT ![h] = m]
  /\ seen' = [seen EXCEPT ![h] = {}]
  /\ Goto(h, "reserve_checkpoint")
  /\ UNCHANGED <<claudeVars, seq, loaded, sessionVars, events, checkpoints, pending, receipts>>

\* Variant: the marker is written before the checkpoint's own blob.
PersistCheckpointNoBlob(h) ==
  /\ pc[h] = "checkpoint"
  /\ checkpoints' = [checkpoints EXCEPT ![h] =
                       [file |-> "file", seq |-> seq[h], manifest |-> captured[h]]]
  /\ Goto(h, "pending")
  /\ UNCHANGED <<claudeVars, localVars, sessionVars, events, manifests, pending, receipts>>

PersistCheckpoint(h) ==
  /\ pc[h] = "checkpoint"
  /\ checkpoints' = [checkpoints EXCEPT ![h] =
                       [file |-> "file", seq |-> seq[h], manifest |-> captured[h]]]
  /\ Goto(h, "checkpoint_blob")
  /\ UNCHANGED <<claudeVars, localVars, sessionVars, events, manifests, pending, receipts>>

PersistCheckpointBlob(h) ==
  /\ pc[h] = "checkpoint_blob"
  /\ checkpoints' = [checkpoints EXCEPT ![h].file = "whole"]
  /\ Goto(h, "pending")
  /\ UNCHANGED <<claudeVars, localVars, sessionVars, events, manifests, pending, receipts>>

\* Variant: the marker carries the last number the process reserved.
PendingMarkerLastSeq(h) ==
  [file |-> "whole", owner |-> h, manifest |-> checkpoints[h].manifest,
   ext |-> call[h].ext, preSeq |-> seq[h]]

PendingMarker(h) ==
  [file |-> "whole", owner |-> h, manifest |-> checkpoints[h].manifest,
   ext |-> call[h].ext, preSeq |-> events[h].seq]

PersistPending(h) ==
  /\ pc[h] = "pending"
  /\ pending[call[h].op].file = "absent"
  /\ pending' = [pending EXCEPT ![call[h].op] = PendingMarker(h)]
  /\ Goto(h, "exit0")
  /\ UNCHANGED <<claudeVars, localVars, sessionVars, events, manifests, checkpoints, receipts>>

-----------------------------------------------------------------------------
(* _persist_verifier_result.                                               *)

\* The marker matches this result and its checkpoint record resolves.
Correlated(h, o) ==
  LET cp == checkpoints[pending[o].owner]
  IN  /\ pending[o].file = "whole"
      /\ pending[o].ext = call[h].ext
      /\ Complete(cp)
      /\ cp.manifest = pending[o].manifest

CorrelateResult(h) ==
  LET o == call[h].op
  IN  /\ pc[h] = "correlate"
      /\ OpScope[o] = "root"
      /\ Correlated(h, o)
      /\ receipts[o].file # "partial"
      /\ IF receipts[o].file = "absent"
         THEN /\ loaded' = [loaded EXCEPT ![h] = pending[o].owner]
              /\ Goto(h, "reserve_receipt")
         ELSE /\ Goto(h, "exit0")              \* the existing receipt is returned
              /\ UNCHANGED loaded
      /\ UNCHANGED <<claudeVars, seq, seen, captured, storeVars>>

\* Variant: the receipt file is opened without O_EXCL.
MayCreateReceiptAlways(h) == TRUE

MayCreateReceipt(h) == receipts[call[h].op].file = "absent"

\* O_EXCL create of the receipt file.
CreateReceipt(h) ==
  /\ pc[h] = "receipt"
  /\ MayCreateReceipt(h)
  /\ receipts' = [receipts EXCEPT ![call[h].op].file = "partial"]
  /\ Goto(h, "receipt_write")
  /\ UNCHANGED <<claudeVars, localVars, sessionVars, events, manifests, checkpoints, pending>>

\* Variant: the receipt carries the state found after the run.
ReceiptRecordPostState(h) ==
  [file |-> "file", owner |-> loaded[h], post |-> h, manifest |-> ManifestOf[ws],
   verdict |-> TrustedTerminalResult(run[call[h].op].result), seq |-> seq[h]]

ReceiptRecord(h) ==
  [file |-> "file", owner |-> loaded[h], post |-> h,
   manifest |-> checkpoints[loaded[h]].manifest,
   verdict |-> TrustedTerminalResult(run[call[h].op].result),
   seq |-> seq[h]]

\* write, flush and fsync are one step: an fsync that fails after another process
\* could read the receipt is left to WriteOnce.
WriteReceipt(h) ==
  /\ pc[h] = "receipt_write"
  /\ receipts' = [receipts EXCEPT ![call[h].op] = ReceiptRecord(h)]
  /\ Goto(h, "receipt_blob")
  /\ UNCHANGED <<claudeVars, localVars, sessionVars, events, manifests, checkpoints, pending>>

PersistReceiptBlob(h) ==
  /\ pc[h] = "receipt_blob"
  /\ receipts' = [receipts EXCEPT ![call[h].op].file = "whole"]
  /\ Goto(h, "exit0")
  /\ UNCHANGED <<claudeVars, localVars, sessionVars, events, manifests, checkpoints, pending>>

-----------------------------------------------------------------------------
(* The except clause of handle_claude_hook.                                *)

\* Where an exception of the except list is raised: profile, repository or
\* payload refused; another Claude session or a partial binding; a torn
\* .sequence; no root scope or occurrence; a failed capture or a partial
\* manifest; a second marker or receipt (two never have equal bytes); a result
\* without matching pre-state, or an unreadable receipt.
Raises(h) ==
  LET o == call[h].op
  IN  \/ pc[h] \in {"load", "manifest"}
      \/ pc[h] = "bind" /\ ~MayBind(h)
      \/ pc[h] \in Reserving /\ seqFile = Torn
      \/ pc[h] \in {"capture", "correlate"} /\ OpScope[o] # "root"
      \/ pc[h] = "pending" /\ pending[o].file # "absent"
      \/ pc[h] = "correlate" /\ (~Correlated(h, o) \/ receipts[o].file = "partial")
      \/ pc[h] = "receipt" /\ ~MayCreateReceipt(h)

CatchError(h) ==
  /\ Raises(h)
  /\ Goto(h, "anomaly")
  /\ UNCHANGED <<claudeVars, localVars, storeVars>>

PersistAnomaly(h) ==
  /\ pc[h] \in {"anomaly", "reject"}
  /\ anomalies' = anomalies \cup {h}
  /\ Goto(h, IF pc[h] = "anomaly" /\ call[h].kind = "pre" THEN "exit2" ELSE "exit0")
  /\ UNCHANGED <<claudeVars, localVars, binding, seqFile, recordVars>>

-----------------------------------------------------------------------------
(* Failures of a hook process.                                             *)

\* SIGKILL, a crash or Claude's timeout between two store operations.
Kill(h) ==
  /\ pc[h] \in Live
  /\ Goto(h, "killed")
  /\ UNCHANGED <<claudeVars, localVars, storeVars>>

\* The process dies inside the write it was about to do: a truncated .sequence,
\* or a created and not yet written file.  (A receipt is created by a step of
\* its own.)  The manifest is two files, so one of them may be complete.
KillInWrite(h) ==
  /\ Goto(h, "killed")
  /\ \/ /\ pc[h] = "bind" /\ binding.file = "absent"
        /\ binding' = [file |-> "partial", ext |-> None]
        /\ UNCHANGED <<seqFile, recordVars>>
     \/ /\ pc[h] \in Reserving /\ seqFile # Torn
        /\ seqFile' = Torn
        /\ UNCHANGED <<binding, recordVars>>
     \/ /\ pc[h] = "event"
        /\ events' = [events EXCEPT ![h].file = "partial"]
        /\ UNCHANGED <<sessionVars, manifests, checkpoints, pending, receipts>>
     \/ /\ pc[h] = "manifest"
        /\ \E m \in CaptureOutcomes(h), s \in {"partial", "file"} :
             /\ manifests[m] \in {"absent", "file"} \ {s}
             /\ manifests' = [manifests EXCEPT ![m] = s]
        /\ UNCHANGED <<sessionVars, events, checkpoints, pending, receipts>>
     \/ /\ pc[h] = "checkpoint"
        /\ checkpoints' = [checkpoints EXCEPT ![h].file = "partial"]
        /\ UNCHANGED <<sessionVars, events, manifests, pending, receipts>>
     \/ /\ pc[h] = "pending" /\ pending[call[h].op].file = "absent"
        /\ pending' = [pending EXCEPT ![call[h].op].file = "partial"]
        /\ UNCHANGED <<sessionVars, events, manifests, checkpoints, receipts>>
  /\ UNCHANGED <<claudeVars, localVars, anomalies>>

\* OSError (disk full, permission, I/O), of the loads and reads too, is not in
\* the except list: the interpreter exits with 1.  _write_once unlinks what it
\* had created; write_text may leave .sequence truncated.
OSErrorExits(h) ==
  /\ pc[h] \in Live
  /\ Goto(h, "exit1")
  /\ receipts' = IF pc[h] = "receipt_write"
                 THEN [receipts EXCEPT ![call[h].op] = NoReceipt] ELSE receipts
  /\ seqFile' \in {seqFile} \cup (IF pc[h] \in Reserving THEN {Torn} ELSE {})
  /\ UNCHANGED <<claudeVars, localVars, binding, events, manifests, checkpoints, pending, anomalies>>

-----------------------------------------------------------------------------

HookStep(h) ==
  \/ LoadSession(h)       \/ RejectInput(h)      \/ BindExternalSession(h)
  \/ ReserveSequence(h)   \/ PersistEvent(h)     \/ PersistEventBlob(h)
  \/ BeginCapture(h)      \/ PersistManifest(h)
  \/ PersistCheckpoint(h) \/ PersistCheckpointBlob(h) \/ PersistPending(h)
  \/ CorrelateResult(h)   \/ CreateReceipt(h)    \/ WriteReceipt(h)
  \/ PersistReceiptBlob(h)
  \/ CatchError(h)        \/ PersistAnomaly(h)

HookFailure(h) == Kill(h) \/ KillInWrite(h) \/ OSErrorExits(h)

Claude ==
  \/ \E h \in Hooks, e \in Exts :
       \/ \E o \in Ops : DeliverPre(h, o, e) \/ DeliverPost(h, o, e)
       \/ DeliverOther(h, e)
  \/ \E o \in Ops : \/ StartVerifier(o) \/ BlockVerifier(o)
                    \/ \E r \in Results : FinishVerifier(o, r)
  \/ \E v \in Versions : WriteWorkspace(v)

Next == Claude \/ \E h \in Hooks : HookStep(h) \/ HookFailure(h)

Spec == Init /\ [][Next]_vars

\* A started process is scheduled until it ends, unless it is killed.
FairSpec == Spec /\ \A h \in Hooks : WF_vars(HookStep(h))

-----------------------------------------------------------------------------
(* Properties.                                                             *)

Calls == [kind : {"pre", "post"}, op : Ops, ext : Exts]
           \cup [kind : {"other"}, op : {None}, ext : Exts] \cup {NoCall}
Runs == [phase : {"idle", "pre", "running", "finished", "blocked"},
         version : Versions \cup {None}, result : Results \cup {"none"}, quiet : BOOLEAN]

PCs == {"idle"} \cup Live \cup Over
EventRecords == [file : FileStates, seq : Nat]
CheckpointRecords == [file : FileStates, seq : Nat, manifest : Manifests \cup {None}]
Markers == [file : FileStates, owner : Hooks \cup {None}, manifest : Manifests \cup {None},
            ext : Exts \cup {None}, preSeq : Nat]
ReceiptRecords == [file : FileStates, owner : Hooks \cup {None}, post : Hooks \cup {None},
                   manifest : Manifests \cup {None}, verdict : {"pass", "fail", "none"}, seq : Nat]

\* Every variable keeps its shape: the fields the store's JSON documents have,
\* sequence numbers that are naturals, and a .sequence that is a natural or torn.
TypeOK ==
  /\ ws \in Versions
  /\ run \in [Ops -> Runs]
  /\ pc \in [Hooks -> PCs]
  /\ call \in [Hooks -> Calls]
  /\ seq \in [Hooks -> Nat]
  /\ seen \in [Hooks -> SUBSET Versions]
  /\ captured \in [Hooks -> Manifests \cup {None}]
  /\ loaded \in [Hooks -> Hooks \cup {None}]
  /\ binding \in [file : FileStates, ext : Exts \cup {None}]
  /\ seqFile \in Nat \cup {Torn}
  /\ events \in [Hooks -> EventRecords]
  /\ manifests \in [Manifests -> FileStates]
  /\ checkpoints \in [Hooks -> CheckpointRecords]
  /\ pending \in [Ops -> Markers]
  /\ receipts \in [Ops -> ReceiptRecords]
  /\ anomalies \subseteq Hooks

\* docs/architecture.md: "without a trusted pre-verifier captured state, no
\* trusted receipt is emitted", "the same hashed Claude session and tool-use
\* occurrence".  A readable receipt names a complete marker of its occurrence,
\* the checkpoint and pre-event of the marker's owner and a complete result
\* event of the bound Claude session, and carries the checkpoint's manifest
\* (the check of session.py lines 327-350).
ReceiptHasPreState ==
  \A o \in Ops : Complete(receipts[o]) =>
    LET r == receipts[o]
        p == pending[o]
    IN  /\ p.file = "whole" /\ p.owner = r.owner
        /\ p.owner \in PreHooks(o) /\ r.post \in PostHooks(o)
        /\ events[p.owner].file = "whole" /\ events[r.post].file = "whole"
        /\ checkpoints[p.owner].file = "whole"
        /\ checkpoints[p.owner].manifest = r.manifest
        /\ p.ext = binding.ext /\ call[r.post].ext = binding.ext

\* The verdict of a receipt is the verifier's own: PASS only for a run that
\* succeeded, FAIL only for a parsed non-zero exit code
\* (_trusted_terminal_result and the branch of handle_claude_hook).
VerdictIsObserved ==
  \A o \in Ops : Complete(receipts[o]) =>
    /\ run[o].phase = "finished"
    /\ run[o].result = (IF receipts[o].verdict = "pass" THEN "ok" ELSE "exit_nonzero")
    /\ receipts[o].verdict # "none"

\* docs/architecture.md: "captured pre-state A -> verifier execution/result",
\* "B cannot be substituted for the tested state A".  The receipt's manifest is
\* the one of the worktree the verifier started on, whenever nobody wrote the
\* worktree between the PreToolUse event and that start.
ReceiptIsPreVerifierState ==
  \A o \in Ops : Complete(receipts[o]) /\ run[o].quiet =>
    receipts[o].manifest = ManifestOf[run[o].version]

\* The numbers of the durable records: reserve_sequence never hands one out
\* twice, whatever dies in between, so the journal has one order.
Stamps ==
  {[kind |-> "event", id |-> h, seq |-> events[h].seq] :
      h \in {g \in Hooks : Complete(events[g])}}
  \cup {[kind |-> "checkpoint", id |-> h, seq |-> checkpoints[h].seq] :
      h \in {g \in Hooks : Complete(checkpoints[g])}}
  \cup {[kind |-> "receipt", id |-> o, seq |-> receipts[o].seq] :
      o \in {q \in Ops : Complete(receipts[q])}}

\* No two durable records of the session carry the same sequence number
\* (OrderingEvidence basis "locked_session_sequence_v1").
SequencesUnique == \A s, t \in Stamps : s.seq = t.seq => s = t

\* The journal order of a receipt's evidence is the causal one: pre-event,
\* checkpoint, result event, receipt (audit_session lines 687-694 checks half
\* of it).  The checkpoint precedes the result event only when a timed-out
\* hook process does not go on.
ReceiptFollowsItsEvidence ==
  \A o \in Ops : Complete(receipts[o]) =>
    LET r == receipts[o]
        p == pending[o].owner
    IN  /\ pending[o].preSeq = events[p].seq
        /\ events[p].seq < checkpoints[p].seq
        /\ events[r.post].seq < r.seq
        /\ HooksOutliveTimeout \/ checkpoints[p].seq < events[r.post].seq

\* bind_external_session: once an event is on record the session is bound, and
\* every event on record is of that one Claude session.
OneClaudeSession ==
  \A h \in Hooks : Complete(events[h]) =>
    binding = [file |-> "whole", ext |-> call[h].ext]

\* What one step may do to durable evidence.
EvidenceKept ==
  /\ binding.file = "whole" => binding' = binding
  /\ \A h \in Hooks :
       /\ Complete(events[h]) =>
            Complete(events'[h]) /\ events'[h].seq = events[h].seq
       /\ Complete(checkpoints[h]) =>
            checkpoints'[h] \in {checkpoints[h], [checkpoints[h] EXCEPT !.file = "whole"]}
  /\ \A o \in Ops :
       /\ pending[o].file = "whole" => pending'[o] = pending[o]
       /\ Complete(receipts[o]) =>
            receipts'[o] \in {receipts[o], [receipts[o] EXCEPT !.file = "whole"]}

\* "Filesystem store with immutable objects" (store.py line 56): no step of
\* any process changes or removes a complete record, a marker, the session
\* binding; completing the blob of a record is the one change left.
EvidenceIsImmutable == [][EvidenceKept]_vars

State == INSTANCE SessionState WITH Procs <- Hooks

\* Seen through the binding and the numbers, the hook processes do nothing but
\* what the session lock promises them (bind_external_session and
\* reserve_sequence, their failures and deaths included).
UsesSessionState == State!Spec

\* handle_claude_hook, line 413: "block exact verification when pre-capture
\* fails".  A PreToolUse hook of the exact verifier that recorded its event and
\* then ended by itself without leaving its marker told Claude Code to block the
\* tool.
FailedPreCaptureBlocks ==
  \A h \in Hooks :
    /\ call[h].kind = "pre" /\ pc[h] \in Exited
    /\ events[h].file = "whole" /\ pending[call[h].op].owner # h
    => pc[h] = "exit2"

\* Something went wrong with a hook process of the session.
Trouble == anomalies # {} \/ \E h \in Hooks : pc[h] \in {"killed", "exit1"}

\* A result event of a receipt-eligible run whose pre-state is on record leads
\* to a complete receipt, unless some hook process failed.
EligibleResultGetsReceipt ==
  \A o \in Ops :
    (\E h \in PostHooks(o) : pc[h] = "load" /\ Eligible(o) /\ pending[o].file = "whole")
      ~> (receipts[o].file = "whole" \/ Trouble)

=============================================================================
