# Agent Forensics: specifications and proofs

TLA+ specifications of `agent-context-runtime`: the Agent Forensics capture
(`src/acr/forensics`, `src/acr/adapters/claude_hooks.py`, `src/acr/demo_raw.py`)
and the captured runtime with its provider boundary, isolated execution, A/A
pair harness and audits (`src/acr/runtime`, `execution.py`, `experiment.py`,
`evaluation.py`, `audit.py`), the TLC runs that check them and TLAPS proofs of
their main properties. Paths below are relative
to the repository root.

## 1. The system

`acr claude` starts one Claude Code session in a Git worktree with
temporary hook settings. For every hook event Claude Code starts an
operating-system process (`acr _forensics-hook`) that records what it is told.
When the event is a `PreToolUse` of the one configured verifier command the
process captures the worktree before the verifier runs; when it is the result
of that command the process binds result and captured state in a
*verification receipt*. When Claude Code ends, the launcher audits the session
directory. The processes share nothing but files, and one flock per session.
With the opt-in raw capture each hook process also refreshes a copy of Claude's
transcript and what is derived from it, without any lock.

The older captured runtime is a program of its own: `CapturedRuntime` executes
one run (`acr smoke-deepseek`, or a script), writes each provider call, tool and
event to a write-once store as it happens, and seals the run at the end.
`acr pair-noop-deepseek` runs two such arms and evaluates both in the isolated
execution; `acr evaluate-add` evaluates one sealed run. `audit_run`,
`audit_evaluation` and `audit_pair` judge what is on disk, fail-closed.

### Components

| Component | State it keeps | Operations | Interacts with | Hard behaviours | What makes it correct |
|---|---|---|---|---|---|
| Hook endpoint (`session.py` `handle_claude_hook`) | events, checkpoints, markers (`pending_verifiers`), receipts, anomalies | one invocation per hook event: load, bind, record event, then capture or correlate | store, capture, Claude Code (exit status 0/2 decides whether the tool runs) | concurrent processes, duplicate or lost events, kill between or inside writes, OSError, hook timeout | a receipt names the state captured before its own run, and the verdict of that run |
| Binding and sequence allocator (`store.py` `locked`, `bind_external_session`, `reserve_sequence`) | `external_session.json`, `.sequence`, `.lock` | bind, reserve | every hook process | death inside the critical section, truncated counter | atomic; a number is given out once; nobody waits for ever |
| Write-once store (`store.py` `_write_once` and its callers) | blobs, manifests, records | create, compare, write, sync, unlink | all sessions with one data root share blobs and manifests | concurrent writers of equal bytes, failing writes, deaths | immutable objects: what was stored stays |
| Checkpoint capture (`checkpoint.py`) | none of its own; entries, gaps and blobs of one capture | HEAD, index, ignore rules, one secure read per path, manifest | Git, worktree writers, store | the worktree changes while it is read | untorn contents, no secrets, nothing silently missing |
| Launcher (`session.py` `run_claude_session`) | worktree lock in the temporary directory, session directory | initialize, lock, run child, unlock, audit | Claude Code, audit | several launches, killed launcher | one session at a time; lock always freed |
| Audit (`session.py` `audit_session`) | none (reads) | one pass over the session directory | everything the hooks left | partial files, missing counterparts | PASS can be trusted; a clean session is not blocked |
| Payload adapter (`adapters/claude_hooks.py`) | none | sanitize one payload | hook endpoint | — | a verdict only from success or a parsed non-zero exit |
| Demo raw capture (`demo_raw.py`) | `metadata.json`, transcript copy, steps, hits | observe, finalize, without a lock, in each hook process | hook command in `cli.py`, Claude's transcript | lost updates, half-written last line, kills | a hook that runs alone leaves all files consistent; marks are not taken back |
| Captured runtime (`runtime/`, `state.py`, `accounting.py`) | event list, journals, snapshots, bindings, seal flag | construct, record_event, tools, send_request, compare_bound_file, seal | provider, isolated execution, legacy store | kill or exception between or inside artifact writes, the same run started again, foreign writes | journals are in evidence order; a sealed run passes, a mixture does not |
| Provider adapter (`adapters/provider.py`) | attempt records `entered`, `terminal` | prepare, send | transport, legacy store | death around the send | a call the provider received is on record once |
| Legacy store (`store.py`) | run, evaluation, pair artifacts; journals; views | `_write_once` (test, then write in place), append | all of the above | two writers, torn files | an artifact is never replaced |
| Isolated execution (`execution.py`) | child process, two bounded buffers, two deadlines | start, feed, drain, time out, clean up, wait | tools, evaluator | timeout against exit, output limit, surviving descendants | exact bounded output, always returns, no child left |
| Pair harness, evaluator (`experiment.py`, `evaluation.py`) | pair and evaluation artifacts, two workspaces | prepare, copy, two arms, evaluate, complete | captured runtime, isolated execution, `evaluate-add` | concurrent commands, kills, edits of source or specification | arms run once; evaluation only after both seals; `pair.json` last |
| Visibility (`visibility.py`) | decision views | build a view at a cutoff | event list | stale or unfinished events | only the completed prefix is visible |
| Run and pair audit (`audit.py`) | none (reads) | audit_run, audit_evaluation, audit_pair | everything the runtime and the harness leave | mixtures of two executions, torn files | PASS can be trusted; honest runs and pairs pass |
| Coverage scan, candidates, format adapters, import audit | none | read-only recomputation | archives | — | pure functions |
| Contracts, CLI, demo site, scripts, F0.5 probe | — | schemas, argument parsing, static generators | — | — | — |

`PROJECT.json` lists every component with its status, and the hazards each at
the line where it bites.

## 2. Modules

| Module | Models | Role |
|---|---|---|
| `HookCapture` | `handle_claude_hook` and all it calls, Claude Code as environment | core |
| `SessionAudit` | `audit_session` at the end of `run_claude_session`, around `HookCapture` (EXTENDS) | composition |
| `SessionState` | what binding and allocator promise | abstract specification |
| `SessionLock` | their real steps under the flock | implements `SessionState` |
| `ImmutableObject` | what one path of the store keeps of "immutable objects" | abstract specification |
| `WriteOnce` | `_write_once` with concurrent writers, any of which may fail or die | implements `ImmutableObject` |
| `CheckpointCapture` | `capture_workspace_checkpoint`, `_secure_read` | detail of one `HookCapture` step |
| `SessionLaunch` | `run_claude_session`, `_active_session_lock` | several launches of one worktree |
| `LaunchStore` | `initialize_session`: launches that store the same blob, over `SessionLaunch` and `WriteOnce` (EXTENDS) | composition |
| `DemoRaw` | the raw capture in overlapping hook processes, the normaliser and the diagnostics | |
| `CapturedRun` | `CapturedRuntime`, its tools, `CapturedProvider.send`, `build_view`, the legacy store | core of the runtime |
| `RunAudit` | `audit_run`, over `CapturedRun` (EXTENDS) | composition |
| `IsolatedExecution` | `run_isolated_python` | |
| `NoopPair` | `prepare_noop_pair`, `run_noop_pair`, `LocalAddEvaluator`, `evaluate-add` | arms are runs of `CapturedRun`, reduced |
| `PairAudit` | `audit_pair`, `audit_evaluation`, over `NoopPair` (EXTENDS) | composition |
| `MC*` | finite instances for TLC | |
| `HookCaptureProofs` (with `SessionAudit`), `LockProofs` (`SessionLock`, `SessionLaunch`), `WriteOnceProofs` (with `LaunchStore`), `CaptureProofs`, `DemoRawProofs`, `IsolatedExecutionProofs`, `CapturedRunProofs` (with `RunAudit`), `NoopPairProofs` (with `PairAudit`) | theorems | proofs |

`HookCapture` and `SessionLock` both implement `SessionState`: that is what
allows `HookCapture` to take `bind_external_session` and `reserve_sequence` as
one step each.

### HookCapture

The unit of interleaving is one store operation; `pc[h]` is the point of
process `h` just before it. The state is the content of the session directory
(`events`, `checkpoints`, `pending`, `receipts`, `manifests`, `binding`,
`seqFile`, `anomalies`) and the locals of each process (`seq`, `seen`,
`captured`, `loaded`). A record is `partial` between its O_EXCL create and the
end of its write, `file` when the JSON is complete, `whole` when the blob
`persist_record` writes next is there too. Actions follow the calls of the
handler in order: `LoadSession`, `BindExternalSession`, `ReserveSequence`,
`PersistEvent`, `PersistEventBlob`, then `BeginCapture` … `PersistPending` for
the exact PreToolUse, or `CorrelateResult` … `PersistReceiptBlob` for a
receipt-eligible result. `CatchError`/`PersistAnomaly` are the except clause
(exit 2 only if `exact_pre`), `RejectInput` the early return. Failures are
`Kill` (between two writes), `KillInWrite` (inside one) and `OSErrorExits`
(an exception no clause catches: exit 1).

Claude Code is external: it delivers events, twice or not at all, blocks the
tool when a PreToolUse hook exits with 2, and otherwise starts it once its
hooks are over. `HooksOutliveTimeout` says whether the process of a hook that
Claude Code gave up on goes on. Anybody may write the worktree at any time;
`quiet` remembers whether that happened between the PreToolUse event and the
start of the verifier.

Abstractions: a payload is its kind (exact pre, exact result, other), its
occurrence and its session; a worktree is a version with a manifest; a capture
during which the worktree changed may yield any manifest. Provenance records
and source blobs with fresh identities are part of the step of the record that
refers to them, since nobody reads them without it.

### The other modules of the forensics core

`SessionLock` splits the bind into open, fill, sync (or unlink) and the
reservation into read, truncate, write; a death frees the flock and repairs
nothing. `WriteOnce` is the code of `_write_once` step by step for any number
of processes on one path, each with the bytes it wants there; every step of
every writer may fail. Its outcomes tell apart who *stored* the bytes, who
*found* them, who was *refused* and who took visible bytes back (*withdrawn*).
`ImmutableObject` has an `owner` for content whose writer is still inside
`_write_once`: until it settles, it and nobody else can take the content back,
also from under a writer that was told "ok". `LaunchStore` lets the launches be
the writers of the producer manifest, which `initialize_session` stores under its
hash in every session before it writes `session.json`; the verifier configuration
is stored in the same way and left out. `CheckpointCapture` reads a file as an fstat, two halves and an
fstat; `stamp` stands for the identity tuple the code compares, and the paths
are visited in any order (the code sorts them). `SessionLaunch` has one action
per step of the launcher and the kernel's release of the flock on death; the
child does not inherit the descriptor. In `SessionAudit` the checks of
`audit_session` are grouped by the record they are about.

### DemoRaw

Files are replaced atomically, so a file is represented by the snapshot of the
transcript it was derived from (`lines` complete lines, `torn` when one more is
half written); `metadata` adds whether the end of the session was observed.
Each slot is one hook process at a time: `Observe`, `UpdateMetadata`, then
`CopyTranscript` … `WriteMetadata` in the order of the code, with both reads of
`metadata.json` where the code has them. A torn snapshot is the
`DemoRawCaptureError` of `normalize_claude_jsonl`. The two loops are recursive
functions over the number of rounds: `StepsAfter` with the body `AddLine`, and
`ScanAfter` with the body `ScanStep`, whose `prior` is both dictionaries of
`detect_demo_diagnostics` in one (the tool is part of the key). `RepeatOf` says,
without a dictionary, what the hits are to be. `lone`, `healed` and `endAlone`
are history variables for the properties.

### CapturedRun and RunAudit

One run identity. `pc` is the next store operation, or the artifact that is
written next; the constructor's and seal's artifacts come in the order of
`After`. `rt` is the `CapturedRuntime` object, `disk`, `physical`, `journal`,
`requestsJournal` and `views` are the run directory, `sent` is what the provider
received. A write is in place: a kill inside it leaves the file `Torn`, and
`Persist` raises on any existing file that differs. `Exit` loses the memory of
the process, `Start` begins the same identity again. The script driver calls
the operations in any order and may catch what they raise (`Raise`); the add
loop follows the commands in the answers.

Abstractions: the workspace has one file; an answer is its command and how much
of the usage it reports (`UsageComplete` is all the accounting tells apart; its
`evidence_level` is constant); a blob is part of the artifact that names it;
public context blocks need no event and are left out; a view is its cutoff,
blocks and comparisons. `RunAudit` is a predicate over the run directory, with
one definition per function of `audit.py`, and may be asked in every state.

### IsolatedExecution

Bytes are counted, the ready line is the first unit of stderr. The loop of the
launcher is `Poll`, `CheckClock`, `Select`, one `Read` per ready stream; after
it `Wait` and `Result`. `late` and `cleanupLate` are set by the clock at any
moment. `writers` says who holds the write end of each stream. The child writes,
closes either stream, forks a descendant that inherits what is open, exits or
does not, as it likes, a signal notwithstanding; with both streams closed and the
child running the loop goes on with nothing to select.

### NoopPair and PairAudit

Each command is a process. `CheckExisting` and `WriteFile` are the two halves of
the legacy `_write_once`. Sources and specifications are version numbers that
`Edit` increments. `RunArm` stops an arm at its `run_stop` (with the wall clock)
or raises, `SealArm` is the rest of seal and `SealRaises` its exceptions. All
commands of a pair are given the same `--workspace-root` (`cli.py:87`): only then
are the directories `copytree` creates the same ones, and `ArmsRunOnce` rests on
that. `clock` advances between any two
timestamps: the audit compares wall-clock times, so a clock that is set back is
outside the model. The producer files of the pair count as one file.

Definitions called *Variant* are alternatives a plausible slip in the code would
give; they are used only to see that each property can fail.

## 3. Runs

| Run | Instance | Checks | Shows |
|---|---|---|---|
| `session_audit` | 3 processes, 1 occurrence, 2 worktree contents, 1 failure, launcher and audit | `ReceiptHasPreState`, `VerdictIsObserved`, `ReceiptIsPreVerifierState`, `SequencesUnique`, `ReceiptFollowsItsEvidence`, `EvidenceIsImmutable`, `PassIsTrustworthy`, `PassHidesNothing`, `CleanSessionPasses` | what a receipt may say, with duplicates and one failure anywhere; the audit is neither too weak nor too strict |
| `hook_sessions` | 2 processes, 2 Claude sessions, occurrences inside and outside the root, 1 worktree write, 1 failure, fair | `OneClaudeSession`, `UsesSessionState`, `EligibleResultGetsReceipt` | sessions are not mixed; an eligible result ends in a receipt |
| `hook_unblocked` | 1 process | `FailedPreCaptureBlocks` — violated | see findings |
| `hook_late_capture` | 2 processes, timed-out hooks go on | `ReceiptIsPreVerifierState` — violated | see findings |
| `session_lock` | 3 processes, 2 calls each, 2 sessions, fair | `Atomic`, `NumbersAreFresh`, `CallReturns` | the flock does its job |
| `shared_blob` | 2 launches that store the same blob | `OkMeansStored` — violated | see findings |
| `checkpoint_capture` | 3 paths (plain; sensitive, selected and ignored; unmerged and selected), 4 contents, 2 writes | `EveryPathAccounted`, `ContentsAreUntorn`, `SecretsStayOut`, `SnapshotWhenQuiet` | capture against concurrent writers |
| `session_launch` | 3 launches that store the same blob, failures and deaths anywhere, fair | `OverlapNeedsOrphan`, `LostOnlyByFailure`, `LaunchEnds`, `Immutable` | the worktree lock, and what is left of immutable objects without a lock |
| `captured_run` | 2 attempts, 5 journal lines of a script, 1 view, 1 restart or foreign change, kills anywhere | `SentIsRecorded`, `JournalIsBacked`, `ContextIsPast`, `PassTellsTheTruth`, `SealedRunPasses`, `VerdictIsStable` | no provider call is invisible; a PASS is true of what happened |
| `isolated_execution` | limit and chunk 2, pipe 3, 4 units per stream, fair | `CompletedIsExact`, `ReturnedIsReaped`, `AlwaysReturns` | exact bounded output, and an end |
| `noop_pair` | 2 pair commands, 1 `evaluate-add`, 1 kill or edit | `ArmsRunOnce`, `CompletedPairIsWhole`, `PairPassIsTrustworthy`, `CleanPairPasses` | races for one pair identity |
| `demo_raw` | 2 hooks at a time, 3 in all, on 2 transcripts, 1 kill; without hooks every transcript of 6 lines over three occurrences of a command and their results, and of 4 lines over two reads, the verifier, texts and results of all kinds | `LoneHookHeals`, `EndIsKept`, `HitsAreRepeats`, `MarksOnlyGrow` | the raw capture repairs itself; the diagnostics are exact and are not taken back |

### Bounds

Three hook processes are the fewest that give a receipt and a competitor (pre,
result, and a duplicate of either or an unrelated event). `MaxTroubles`
(constraint `FewTroubles`) bounds how many processes die, exit with 1 or report
an anomaly: with one failing process each failure point meets each point of the
others. Two worktree contents with different manifests are enough for "the wrong
one". In `hook_sessions` the constraint does not weaken the liveness property:
`EligibleResultGetsReceipt` is met as soon as `Trouble` holds, and `Trouble`
stays true, so nothing behind a state the constraint cuts off can violate it.
Processes are interchangeable, hence the symmetry of the safety runs. The
liveness runs have none; in `hook_sessions` the action constraint
`FirstDelivery` instead fixes which process, session and worktree content come
first, a renaming of every behaviour, and lets the worktree be written once, in
the middle of a capture; in `session_audit` it is written at any time. `MaxCalls` and `MaxWrites` bound calls per process and
foreign writes per capture: two writes are enough to change a file between its
two reads and change something else. Three launches let a third come in while a
second waits to be refused, and let a blob be written, found and withdrawn while
another launch creates it anew. A blob has one content; writers of different bytes
for one path are covered by the theorems, which hold for any `ContentOf`.

`captured_run`: two attempts let a second request carry the first one's answer
and a tool's result; five journal lines (`MaxJournal`) a script that reads,
compares and sends, with `run_stop` to spare; `MaxFaults` counts restarts and
foreign changes, and one of either meets every point, inside a write too.
`isolated_execution`: with a limit below the pipe size and below `MaxWrites` a
chunk can fit, fill and overflow the room left. `noop_pair`: two commands race
for the workspaces and the plan, and an operator for the evaluation files, with
one kill or edit anywhere. `demo_raw`: three hooks are two that overlap and one
that comes alone; the files do not depend on what the lines say, so two short
transcripts do for the hooks (action constraint `HooksOnFewScripts`). On the
other transcripts only Claude moves: three occurrences are the fewest for which
"latest earlier" and "first" differ, six lines let all their results arrive in
any order, and `AllScripts` has late, failed, repeated and unknown results in
every position. Runs stop when every process is over, so deadlock is not
checked; the liveness properties say who may not stop.

### Fairness

`HookCapture`: each started process is scheduled until it ends (weak fairness
of `HookStep`); nothing is assumed of Claude Code, of failures or of writers.
`SessionLock`: a process that waits for or holds the flock is scheduled, and a
free flock is given to a waiter; with the bounded number of calls weak fairness
of the steps is enough. `LaunchStore`: launchers are scheduled and Claude Code
ends some time; neither interrupts nor kills are fair. `IsolatedExecution`: the
launcher is scheduled and the clock advances; nothing is assumed of the
submission. `AlwaysReturns` needs `StdinSize <= PipeSize`: `execution.py:144`
writes stdin before the deadline is set, so larger input can block there; the
inputs the code sends are one small JSON case each.

## 4. Findings

1. `hook_unblocked`: `session.py:459` does not catch OSError, so a disk or
   permission error during the pre-capture ends the hook with status 1, which
   Claude Code does not treat as blocking. The
   docstring at `session.py:413` says exact verification is blocked. (No
   receipt results, so the narrower invariant of `docs/architecture.md` holds.)
2. `hook_late_capture`: `session.py:327-350` accepts a marker written after the
   verifier started. If the process of a timed-out hook survives, a receipt
   carries a state the verifier never saw. Under the assumption that it does not
   survive the property is proved (`ReceiptsArePreVerifierState`).

3. `shared_blob`: `forensics/store.py:51` unlinks the path of a writer whose fsync
   fails, also when another writer of the same bytes has read them there and
   returned. Blobs and manifests are named by their content, so all writers of
   such a path want the same bytes; the `EvidenceRef` of the second one is left
   without its file, against the "immutable objects" of `forensics/store.py:56`.
   What does hold, without an assumption, is `LostOnlyByFailure` and the weaker
   object of `ImmutableObject`.

Limits the models show, which the properties above state as their assumptions:

- The worktree lock is the launcher's descriptor (`session.py:211-221`) and ends
  with it, Claude Code does not: two sessions overlap in one worktree exactly
  when a launcher was killed (`OverlapNeedsOrphan`), and the message at
  `session.py:120` ("another Agent Forensics session is active") is then not given.
- Overlapping hooks of the raw capture can lose the end of the session and leave
  steps, hits and metadata of different snapshots until one hook runs alone.
- A later result of an occurrence replaces its earlier one (`demo_raw.py:211`), so
  a transcript in which a success is followed by a failure, or by other output,
  of the same occurrence can take a mark back. `MarksOnlyGrow` is checked and
  proved for transcripts without that (`SuccessIsFinal`).
- A run identity that is started again after a kill never passes its audit once
  an attempt was entered and not sealed, and a pair command is refused once a
  workspace of its pair exists: the fail-closed reading of write-once files. A
  torn blob refuses all later bytes of the same hash.
- `cli.py:331` hashes the private specification before the first arm, while the
  comment at `evaluation.py:50` says it is "first opened only after the sealed
  check"; the comment is about the evaluator, which does so.

## 5. Proofs

All theorems hold for every value of the constants under the named
assumptions of the modules (`ConstantsAssumption`, `FiniteHooks`,
`LockAssumption`, `WriteOnceAssumption`, `CaptureAssumption`,
`LaunchAssumption`, `StoreAssumption`, `SizesAssumption`, `BoundsAssumption`, `PairAssumption`,
`DemoAssumption`:
shapes of the constants, `None` is none of the other values, and a session has
finitely many hooks). Where a theorem has a hypothesis of its own it is named
below.

- **HookCaptureProofs.** `Invariance` proves the inductive `IInv`, a
  conjunction of named parts. The stated properties are not inductive: that a
  receipt has its pre-state when it is *written* follows from what the process
  found when it *correlated*, several steps earlier, so `IInv` carries what each
  process knows at each `pc` (its event is whole and of the bound session; the
  checkpoint it loaded is whole and the marker's; the run is finished and
  eligible) and that the records it relies on can no longer change. From it
  `TypeCorrect`, `ReceiptsHavePreState`, `VerdictsAreObserved`,
  `BoundToOneSession`, the action property `EvidenceStaysImmutable` and the
  refinement `HooksUseSessionState`.
  - *Order.* `NumberInv` says which numbers a process has `Claims` on at its
    `pc` (the one just reserved, not yet in a record, too) and that claims of
    two processes, and of a process and a record, never meet, and are at most
    the counter unless its file is torn; hence `SequenceNumbersUnique`.
    `OrderInv` (a process numbers what it writes in the order it writes it) and
    `LateInv` (a result is numbered after the checkpoints of its occurrence)
    give `ReceiptsFollowTheirEvidence`.
  - *Timeouts.* `ReceiptsArePreVerifierState`, assuming `~HooksOutliveTimeout`:
    until an undisturbed occurrence starts, every capture for it has seen only
    the current worktree; once it has started no hook of it is capturing, so its
    marker's manifest is the one of the version it runs on.
  - *Audit.* `SessionInv` adds that a hook that returned 0 without an anomaly did
    all its event asks for (`ReturnedInv`), that a manifest is stored before its
    checkpoint (`StoredInv`) and that a receipt which is not whole is the work of
    an unfinished hook (`UnfinishedInv`); `AuditInv` says that nothing moves once
    Claude Code has exited, so the verdict is about what is still there. From
    them `PassTrustworthy`, `PassHidesNoEvidence` and `CleanSessionsPass`, also
    under `~HooksOutliveTimeout`: the audit reads the store once, and a surviving
    hook could still write behind it.
- **LockProofs.** `LockInv`: who is in the critical section holds the
  lock, and what the files contain at each of its steps. `LockIsAtomic` is the
  refinement (the writer's intermediate contents are hidden while it holds the
  lock, and exposed by its death as `LoseBinding` or `LoseSequence`);
  `LockNumbersAreFresh` needs in addition that every returned number is at most
  the visible counter. For the worktree lock, `LaunchInv` (a launcher holds the lock
  exactly while it may have a child) gives `OrphansOnly` and `LockCovers`.
- **WriteOnceProofs.** For any writers and bytes, with failures and deaths
  anywhere and no hypothesis. `WriteInv`: between its create and the end of its
  call a file has one creator, who knows what is in it (`OneCreatorHolds`); this
  is what makes the unlink take back the writer's own bytes only.
  `LossNeedsFailure` adds it to `LostOnlyByFailure`, which is then inductive.
  `ImplementsImmutable` is the refinement: a writer owns the object between its
  flush and its fsync, `Sync` and a death there settle it, `Unlink` there
  withdraws it. `LaunchesCompose`: each step of `LaunchStore` is a step or a
  stutter of `SessionLaunch` and of `WriteOnce`, so what is proved of either
  holds of the composition.
- **CaptureProofs.** `ReadInv` (a file under read whose stamp is unchanged still
  has the content of the first half) and `StoreInv` give `Untorn` and `Secrets`;
  `LoopInv` (each path is still to do, an entry, or a gap) gives
  `PathsAreAccounted`; `QuietInv` (while nobody else has written, the index, the base and
  each path dealt with are as the worktree says) gives `QuietCaptureIsSnapshot`.
- **IsolatedExecutionProofs.** The inductive invariant is `TypeOK`,
  `RetainedIsPrefix` (what was read and what is in the pipe add up to what was
  written), `DrainedInv` (a stream the launcher stopped watching without a
  timeout is empty, and nobody can write it again) and `ReturnInv` (what is known
  of the child behind the loop). The middle one is what carries "the pipe was
  empty at end of file" from the read of one stream to the return many steps
  later. Theorems `ExecutionTyped`, `RetainsPrefix`, `CompletedExactly`,
  `ReturnsReaped`, for every limit, chunk, pipe and input size
  (`SizesAssumption`).
- **CapturedRunProofs.** `SentRecorded`: `SendInv` says that at `transport` the
  entered record of the current attempt is whole and nothing was sent under it,
  that at `terminal` exactly the answer in memory was, and that a terminal record
  is absent until then. Most actions touch none of this, so one lemma
  (`QuietKeeps`) covers every step that leaves `physical` and `sent` alone; only
  `Enter`, `Transport` and `Terminal` have proofs of their own.
  - *Journals.* `BackedInv` says of each line what backs it and of each `pc` what
    the next line may rely on; the steps are first sorted into those that record
    nothing, one event or one snapshot. Theorem `JournalBacked`.
  - *Visibility.* `PastInv`: memory holds only what the present process has
    journalled (`MemoryInv`), no line is of a later process and the request in
    progress is not yet a line (`AgeInv`), and each snapshot and view of the
    journals is past. Theorem `ContextPast`.
  - *Audit.* `SealInv`: the sealed artifact is stored before `run.json`, which
    repeats it. With `SendInv` it gives `PassIsTrue`; that no stored artifact is
    written again gives the action property `VerdictsAreStable`.
  - *Completeness of the audit.* `SealedRunsPass` needs to know everything the
    audit compares. `CleanNext` first says what a step of an undisturbed run
    (`CleanRun`: one process, nothing caught) can be; `CleanInv` then has one part
    per ledger: events are numbered without gaps (`NumberInv`), each kind of event
    has exactly one entry per call, less one while the call is in progress
    (`LedgerInv`, with `Behind` the `pc`), usages and records agree with them
    (`AnswerInv`, `RecordsInv`), messages stem from completed events (`BlockInv`),
    cutoffs rise strictly, so a view belongs to one request (`CutoffInv`),
    comparisons and bindings are events (`CheckInv`), views are whole (`ViewInv`).
    `StoredInv` and `StopInv` carry that to the sealed files; `LedgerCounts` turns a
    ledger into the cardinalities the audit compares.
- **NoopPairProofs.** `PairInvariance` proves `PairInv`: the first copy decides
  which command owns the pair (`OwnerInv`), how far the owner is tells what the
  arms have done (`ArmInv`), timestamps are distinct (`TimeInv`), and a process
  that is past a file has left it on disk (`FileInv`). Theorems `ArmsOnce`,
  `PairFileIsLast` and `PairPassTrusted`; `CleanPairs` needs in addition what a
  command that nobody disturbs finds in the files it wrote (`AloneInv`).

- **DemoRawProofs.** *The files.* `FilesInv`: a hook counts as alone only while it
  is the one that runs (`AloneInv`), what a lone hook has already replaced is its
  own snapshot (`ProgressInv`), and once the end was seen by a lone hook nobody
  holds metadata from before it (`EndInv`). Theorems `LoneHooksHeal`, `EndStays`.
  - *Induction over data.* The library's induction theorems take an operator, which
    the provers cannot instantiate. `LeastNumber` is obtained instead from
    `FS_StrictSubsetOrderingWellFounded` and `WFMin`, which speak of sets (the
    number n is the set `0..n`), and `PositionInduction` from it, with the set of
    positions a fact holds of in place of the fact. `LoopExists` shows that a loop
    has a result after each round, which is what makes the recursive functions
    well defined: `StepsLoop` and `ScanLoop`.
  - *The detector.* After n steps the dictionary has the latest step of each key
    (`Latest`) and the hits are the repeats so far (`ScanKeeps`):
    `DetectorFindsRepeats`, for every list of steps, and with it the invariant
    `HitsStayRepeats` for every transcript.
  - *Marks.* A successful step says what an earlier result of its occurrence said
    (`StepsSettled`), so under `SuccessIsFinal` a line leaves it as it is
    (`SuccessStays`), and a step with an earlier one under its key is a hit
    (`EarlierIsEnough`). Theorem `MarksGrow`, assuming `SuccessIsFinal` of every
    transcript.

The type invariants of `HookCapture`, `SessionLock` and `IsolatedExecution`,
`OneCreator`, `LockCoversClaude` and `RetainedIsPrefix` are proved and have no run of their own.

Three attempts at a proof corrected the project. `MarksOnlyGrow` is false of a
transcript that takes a success back, which no transcript of the first instance
did; the hypothesis is now explicit, and the instance has every transcript over
its lines that meets it. `PassHidesNothing` did not exempt hooks whose payload names no
operation, which `session.py:256` only counts; no small instance had one that
the audit passes, but the statement was false for others. And the guards of some
`CASE` expressions overlapped: TLC takes the first that is true, TLA+ any of
them; they are now exclusive, as the early returns of the code are.

Only model-checked: liveness (`EligibleResultGetsReceipt`, `CallReturns`,
`LaunchEnds`, `AlwaysReturns`), which needs fairness and ENABLED and is outside
the prover. Every safety and action property of a passing run is proved.

## 6. What is not modelled

- The granularity of file timestamps: every write is taken to change the stamp
  `_secure_read` compares.
- Power loss (fsync ordering) and a damaged filesystem; only processes die.
- Field validation of the contracts, hashing (taken as injective), formatting.
- Who may write the session directory besides this code.
- Coverage scan, duplicate-read candidates, dataset adapters and the audit of
  imports: sequential functions of one archive; the demo site, its scripts and
  the F0.5 probe, which are not part of the product.
- Process number reuse between the reaping of a child and `killpg`
  (`execution.py:164`), and the sandbox itself (`bwrap`, namespaces).
- A wall clock that is set back between a run and its evaluation.
- Two pair commands for one pair identity with different workspace roots.

Simplifications inside the models that their properties do not depend on, or that
make them say less:

- `HookCapture` takes write, flush and fsync of a record as one step. A receipt, or
  another record, that a second process can read and that is then unlinked because
  its fsync fails is not reached there; `WriteOnce` has these steps.
- `CheckpointCapture` asks Git for the index and the ignore rules in one step, and
  the rules (`Ignored`) do not change.
- `DemoRaw`: `Key` takes commands as already normalised (`_normalized_command`), and
  `Comparable` leaves out `complete_request`: the requests of the transcripts are
  complete.
- `CapturedRun`: a journal line is appended whole. A kill can leave a torn last line,
  and an append can fail after the event is in memory (`runner.py:223-224`); neither
  is reached. `audit_run` reads the sealed ledgers, not the journals. The blocks of a
  script's request are the messages of the runtime, although `send_request` accepts
  any.
- `PairAudit` leaves out the scan for private data and the comparison of the semantic
  configuration, which look at contents the model does not have.

## 7. Plan

Done: the forensics core (`HookCapture`, `SessionAudit`, `SessionState` and
`SessionLock`, `ImmutableObject` and `WriteOnce`, `CheckpointCapture`,
`SessionLaunch`), then `DemoRaw`, `CapturedRun` with `RunAudit`,
`IsolatedExecution`, `NoopPair` with `PairAudit`, and a theorem for every safety
and action property of the passing runs.

Left: the duplicate-read rule of `candidates.py` (frozen with the older plan, see
`agent-forensics-mvp-plan.md:14`) as an operator against a reference definition,
with the induction of `DemoRawProofs`.
