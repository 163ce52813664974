----------------------------- MODULE CapturedRun -----------------------------
(***************************************************************************)
(* The synchronous M2 capture runtime (src/src/acr/runtime/runner.py and   *)
(* tools.py) with the provider boundary it sends through and the legacy    *)
(* evidence store it writes to; RunAudit is the audit of what it leaves.   *)
(*                                                                         *)
(* One run identity is executed by a process that may be killed at any     *)
(* step, also in the middle of a file (the legacy store writes in place),  *)
(* or end with an exception; somebody may then start the same run identity *)
(* again.  Two drivers exist: the bounded add loop, which follows the      *)
(* commands in the model's answers, and a script, which calls the runtime  *)
(* in any order and may catch what a call raises.  The workspace holds one *)
(* file, which a foreign process may also change.                          *)
(***************************************************************************)
EXTENDS Integers, Sequences, FiniteSets, SequencesExt

CONSTANTS
  MaxAttempts,  \* provider calls of one process (5 in run_deepseek_add_smoke)
  MaxJournal,   \* journal lines a script may grow to before run_stop
  MaxViews,     \* decision views of the run
  MaxFaults     \* restarts of the run and foreign changes of the workspace

ASSUME BoundsAssumption ==
  {MaxAttempts, MaxJournal, MaxViews, MaxFaults} \subseteq Nat

VARIABLES
  pc,               \* where the process is; the name of the artifact it writes
  driver,           \* "add_loop" or "script"
  rt,               \* the CapturedRuntime object
  call,             \* the locals of the operation in progress
  disk,             \* runs/<run_id>/<artifact>
  physical,         \* runs/<run_id>/physical_attempts
  journal,          \* events.journal.jsonl
  requestsJournal,  \* requests.journal.jsonl
  views,            \* runs/<run_id>/decision_views
  file,             \* workspace/target.py
  foreign,          \* foreign changes so far
  starts,           \* processes started so far
  sent              \* what the provider received and answered, per attempt

storeVars == <<disk, physical, journal, requestsJournal, views>>
worldVars == <<file, foreign, starts, sent>>
vars == <<pc, driver, rt, call, storeVars, worldVars>>

Missing == "missing"
Bodies == {"v0", "v1"}
Attempts == 0..(MaxAttempts - 1)
Ended == {"off", "dead", "raised", "sealed"}

\* What the transport may come back with: an exception, a body without message
\* content, or a command (FINAL stands for every text that is no tool command);
\* usage is reported in full, in part or not.
Failure == [failed |-> TRUE, text |-> "none", usage |-> "none"]
Answer(text, usage) == [failed |-> FALSE, text |-> text, usage |-> usage]
Replies == {Failure, Answer("none", "none")} \cup
  {Answer(text, "all") : text \in {"READ", "WRITE", "TEST", "FINAL"}} \cup
  {Answer("FINAL", usage) : usage \in {"none", "part"}}

Absent == [state |-> "absent", body |-> <<>>]
Whole(body) == [state |-> "whole", body |-> body]
Torn == [state |-> "torn", body |-> <<>>]

\* The order of the artifacts: the constructor's, then those of seal.
After == [producer_blob |-> "producer_manifest", producer_manifest |-> "producer_ref",
          producer_ref |-> "config_blob", config_blob |-> "initial_state",
          initial_state |-> "loop",
          events |-> "requests", requests |-> "file_bindings",
          file_bindings |-> "usage_ledger", usage_ledger |-> "usage_aggregate",
          usage_aggregate |-> "tree", sealed_artifact |-> "final_state",
          final_state |-> "run", run |-> "sealed"]
Artifacts == DOMAIN After

NewRuntime ==
  [seq |-> 0, events |-> <<>>, attempts |-> 0, tools |-> 0, snapshots |-> <<>>,
   usages |-> <<>>, bindings |-> <<>>, checks |-> <<>>, messages |-> <<>>,
   changed |-> FALSE, caught |-> FALSE]
NoCall == [tool |-> "none", reply |-> Failure, body |-> Missing, tree |-> Missing]

Init ==
  /\ pc = "off" /\ driver = "script" /\ rt = NewRuntime /\ call = NoCall
  /\ disk = [a \in Artifacts |-> Absent]
  /\ physical = [n \in Attempts |-> [entered |-> Absent, terminal |-> Absent]]
  /\ journal = <<>> /\ requestsJournal = <<>> /\ views = {}
  /\ file = "v0" /\ foreign = 0 /\ starts = 0
  /\ sent = [n \in Attempts |-> <<>>]

-----------------------------------------------------------------------------
(* The legacy store *)

\* The process ends and its memory is gone; or it goes on to the next step.
Exit(how) == pc' = how /\ rt' = NewRuntime /\ call' = NoCall /\ driver' = "script"
Goto(next) == pc' = next /\ UNCHANGED <<driver, rt, call>>

\* Variant: an existing artifact is overwritten instead of compared.
PersistOverwriting(a, body, next) ==
  /\ disk' = [disk EXCEPT ![a] = Whole(body)]
  /\ Goto(next)
  /\ UNCHANGED <<physical, journal, requestsJournal, views, worldVars>>

\* _write_once: absent is written, identical bytes are left alone, anything
\* else (a torn file too) is a conflict and raises.  The write is in place, so
\* a kill can leave the file torn.
Persist(a, body, next) ==
  /\ \/ /\ disk[a] \in {Absent, Whole(body)}
        /\ disk' = [disk EXCEPT ![a] = Whole(body)]
        /\ Goto(next)
     \/ /\ disk[a] \notin {Absent, Whole(body)}
        /\ UNCHANGED disk
        /\ Exit("raised")
     \/ /\ disk[a] = Absent
        /\ disk' = [disk EXCEPT ![a] = Torn]
        /\ Exit("dead")
  /\ UNCHANGED <<physical, journal, requestsJournal, views, worldVars>>

\* What a call raised ends the run, unless the script catches it.
Raise(r) ==
  \/ Exit("raised")
  \/ /\ driver = "script" /\ pc' = "loop"
     /\ rt' = [r EXCEPT !.caught = TRUE]
     /\ UNCHANGED <<driver, call>>

\* Variant: a record of the same attempt is silently written again.
PersistAttemptAgain(n, phase, body, r, next) ==
  /\ physical' = [physical EXCEPT ![n][phase] = Whole(body)]
  /\ next
  /\ UNCHANGED <<disk, journal, requestsJournal, views, worldVars>>

\* persist_physical_attempt: an attempt's record may not exist at all.  r is the
\* runtime a caught exception leaves.
PersistAttempt(n, phase, body, r, next) ==
  /\ \/ /\ physical[n][phase] = Absent
        /\ \/ physical' = [physical EXCEPT ![n][phase] = Whole(body)] /\ next
           \/ physical' = [physical EXCEPT ![n][phase] = Torn] /\ Exit("dead")
     \/ /\ physical[n][phase] # Absent
        /\ UNCHANGED physical
        /\ Raise(r)
  /\ UNCHANGED <<disk, journal, requestsJournal, views, worldVars>>

-----------------------------------------------------------------------------
(* The runtime *)

\* One process starts: CapturedRuntime.__init__ begins.
Start ==
  /\ pc \in Ended /\ starts + foreign <= MaxFaults
  /\ starts' = starts + 1
  /\ driver' \in {"add_loop", "script"}
  /\ rt' = NewRuntime /\ call' = NoCall
  /\ pc' = "producer_blob"
  /\ UNCHANGED <<storeVars, file, foreign, sent>>

\* __init__ and _persist_producer: the producer, the configuration and the
\* initial tree are made durable before the runtime is usable.
Construct ==
  \/ /\ pc \in {"producer_blob", "producer_manifest", "producer_ref", "config_blob"}
     /\ Persist(pc, <<>>, After[pc])
  \/ /\ pc = "initial_state"
     /\ Persist(pc, <<file>>, After[pc])

\* record_event: the number is taken first, the event then goes to memory and
\* to the journal.  available_seq is the number itself once completed.
EventAt(seq, kind, id, done, data) ==
  [seq |-> seq, kind |-> kind, call |-> id, done |-> done, data |-> data, start |-> starts]
Recorded(e) == [rt EXCEPT !.seq = e.seq + 1, !.events = Append(@, e)]
Journalled(e) ==
  /\ journal' = Append(journal, e)
  /\ UNCHANGED <<disk, physical, requestsJournal, views>>

CutoffSeq ==
  LET available == {e.seq : e \in {x \in Range(rt.events) : x.done}}
  IN CHOOSE m \in available \cup {0} : \A x \in available : x <= m

CallsLeft(lines) == Len(journal) + lines <= MaxJournal

\* send_request and CapturedProvider.send up to the transport: the identity is
\* consumed and the "entered" record is durable before a byte leaves.
Enter ==
  /\ pc = "loop" /\ rt.attempts < MaxAttempts /\ (driver = "script" => CallsLeft(2))
  /\ LET consumed == [rt EXCEPT !.attempts = @ + 1]
     IN PersistAttempt(rt.attempts, "entered", <<>>, consumed,
                       rt' = consumed /\ pc' = "transport" /\ UNCHANGED <<driver, call>>)

Current == rt.attempts - 1

\* The provider receives the body and answers, or the transport raises.
Transport ==
  /\ pc = "transport"
  /\ \E r \in Replies :
       /\ driver = "script" => r.text \in {"none", "FINAL"}  \* no command is read
       /\ sent' = [sent EXCEPT ![Current] = Append(@, r)]
       /\ call' = [call EXCEPT !.reply = r]
  /\ pc' = "terminal"
  /\ UNCHANGED <<driver, rt, storeVars, file, foreign, starts>>

\* Variant: the terminal record is left to a later step.
TerminalDeferred ==
  /\ pc = "terminal"
  /\ Goto("snapshot")
  /\ UNCHANGED <<storeVars, worldVars>>

\* CapturedProvider.send after the transport: the "terminal" record.
Terminal ==
  /\ pc = "terminal"
  /\ PersistAttempt(Current, "terminal", <<call.reply>>, rt, Goto("snapshot"))

\* send_request: usage, the snapshot with its cutoff, and its journal line.
SnapshotRequest ==
  /\ pc = "snapshot"
  /\ LET s == [attempt |-> Current, cutoff |-> CutoffSeq, blocks |-> rt.messages,
               start |-> starts]
     IN /\ rt' = [rt EXCEPT !.usages = Append(@, call.reply.usage),
                            !.snapshots = Append(@, s)]
        /\ requestsJournal' = Append(requestsJournal, s)
  /\ pc' = "request_event"
  /\ UNCHANGED <<driver, call, disk, physical, journal, views, worldVars>>

RequestEvent ==
  /\ pc = "request_event"
  /\ LET e == EventAt(rt.seq, "request", Current, TRUE, [attempt |-> Current])
     IN rt' = Recorded(e) /\ Journalled(e)
  /\ pc' = "terminal_event"
  /\ UNCHANGED <<driver, call, worldVars>>

\* The add loop keeps a textual answer as a message of its terminal event ...
AssistantMessage(e) ==
  [type |-> "assistant_response", origin |-> e.seq, call |-> Current, label |-> e.seq,
   bound |-> FALSE]

\* ... and stops unless it is a tool command.
CommandTool(text) ==
  CASE text = "READ" -> "read_file" [] text = "WRITE" -> "write_file"
    [] text = "TEST" -> "run_test" [] OTHER -> "none"

\* The terminal event, and what the driver makes of the answer.
TerminalEvent ==
  /\ pc = "terminal_event"
  /\ LET r == call.reply
         e == EventAt(rt.seq, IF r.failed THEN "provider_failure" ELSE "response",
                      Current, TRUE, [attempt |-> Current, reply |-> r])
     IN /\ rt' = IF r.text = "none" THEN Recorded(e)
                 ELSE [Recorded(e) EXCEPT !.messages = Append(@, AssistantMessage(e))]
        /\ Journalled(e)
        /\ call' = [call EXCEPT !.tool = CommandTool(r.text)]
        /\ pc' = CASE driver = "script" -> "loop"
                   [] driver # "script" /\ CommandTool(r.text) # "none" -> "tool_start"
                   [] OTHER -> "run_stop"
  /\ UNCHANGED <<driver, worldVars>>

ToolStart ==
  /\ \/ pc = "tool_start" /\ UNCHANGED call
     \/ /\ pc = "loop" /\ driver = "script" /\ CallsLeft(2)
        /\ \E t \in {"read_file", "write_file", "run_test"} :
             call' = [call EXCEPT !.tool = t]
  /\ LET e == EventAt(rt.seq, "tool_start", rt.tools, FALSE, [tool |-> call'.tool])
     IN rt' = [Recorded(e) EXCEPT !.tools = @ + 1] /\ Journalled(e)
  /\ pc' = "tool_run"
  /\ UNCHANGED <<driver, worldVars>>

CurrentTool == rt.tools - 1

\* The except branch of read_file and write_file: an incomplete finish, and the
\* exception goes on.  skipped numbers were taken by a record that failed.
ErrorFinish(skipped) ==
  LET e == EventAt(rt.seq + skipped, "tool_finish", CurrentTool, TRUE,
                   [tool |-> call.tool, complete |-> FALSE])
  IN Journalled(e) /\ Raise(Recorded(e))

\* The effect of a file tool; read_workspace_file guards both.
ReadFile ==
  /\ call.tool = "read_file"
  /\ call' = [call EXCEPT !.body = file]
  /\ UNCHANGED file
WriteFile ==
  /\ call.tool = "write_file"
  /\ file' = "v1"
  /\ call' = [call EXCEPT !.body = "v1"]

FileTool ==
  /\ pc = "tool_run" /\ call.tool \in {"read_file", "write_file"}
  /\ \/ file = Missing /\ ErrorFinish(0) /\ UNCHANGED file
     \/ /\ file # Missing
        /\ ReadFile \/ WriteFile
        /\ pc' = "tool_finish"
        /\ UNCHANGED <<driver, rt, storeVars>>
  /\ UNCHANGED <<foreign, starts, sent>>

\* run_test turns an unavailable sandbox into a result, but lets other errors escape.
RunTest ==
  /\ pc = "tool_run" /\ call.tool = "run_test"
  /\ \/ /\ call' = [call EXCEPT !.body = "result"]
        /\ pc' = "tool_finish"
        /\ UNCHANGED <<driver, rt>>
     \/ Raise(rt)
  /\ UNCHANGED <<storeVars, worldVars>>

\* Variant: the binding names the start event of the read.
ToolFinishBindsStart ==
  /\ pc = "tool_finish"
  /\ LET e == EventAt(rt.seq, "tool_finish", CurrentTool, TRUE,
                      [tool |-> call.tool, complete |-> TRUE, body |-> call.body])
         binding == [event |-> e.seq - 1, body |-> call.body]
     IN /\ rt' = [Recorded(e) EXCEPT
                    !.bindings = IF call.tool = "read_file" THEN Append(@, binding) ELSE @]
        /\ Journalled(e)
  /\ pc' = "loop"
  /\ UNCHANGED <<driver, call, worldVars>>

\* The message that carries a result into the next request.
ToolMessage(e) ==
  [type |-> "tool_result", origin |-> e.seq, call |-> CurrentTool, label |-> e.seq,
   bound |-> call.tool = "read_file"]

\* The finish event of a completed tool, and the binding of a read.
ToolFinish ==
  /\ pc = "tool_finish"
  /\ LET e == EventAt(rt.seq, "tool_finish", CurrentTool, TRUE,
                      [tool |-> call.tool, complete |-> TRUE, body |-> call.body])
         binding == [event |-> e.seq, body |-> call.body]
     IN /\ rt' = [Recorded(e) EXCEPT
                    !.messages = Append(@, ToolMessage(e)),
                    !.bindings = IF call.tool = "read_file" THEN Append(@, binding) ELSE @,
                    !.changed = @ \/ call.tool = "write_file"]
        /\ Journalled(e)
  /\ pc' = "loop"
  /\ UNCHANGED <<driver, call, worldVars>>

\* The body or the finish event cannot be stored: after a file tool's effect,
\* with or without a number taken, the except branch still records the failure.
ToolFinishFails ==
  /\ pc = "tool_finish"
  /\ \/ call.tool # "run_test" /\ \E skipped \in {0, 1} : ErrorFinish(skipped)
     \/ call.tool = "run_test" /\ Raise(rt) /\ UNCHANGED storeVars
  /\ UNCHANGED worldVars

\* _compare_file_at_seq.
ComparedWith(b) ==
  [binding |-> b, seq |-> rt.seq, current |-> file,
   status |-> IF file = Missing THEN "unknown" ELSE IF file = b.body THEN "same" ELSE "changed"]

\* compare_bound_file: the bound file is read again under the next number.
CompareBoundFile ==
  /\ pc = "loop" /\ driver = "script" /\ CallsLeft(1)
  /\ \E b \in Range(rt.bindings) :
       LET c == ComparedWith(b)
           e == EventAt(rt.seq, "state_check", b.event, TRUE, c)
       IN rt' = [Recorded(e) EXCEPT !.checks = Append(@, c)] /\ Journalled(e)
  /\ UNCHANGED <<pc, driver, call, worldVars>>

-----------------------------------------------------------------------------
(* Decision views *)

\* _authorize_ref: the evidence was available by the cutoff.
AuthorizeRef(available, cutoff) == available <= cutoff

\* _completed_event for one block that is not public.
CompletedEvent(block, events, cutoff) ==
  LET matches == {e \in Range(events) : e.seq = block.origin}
  IN /\ Cardinality(matches) = 1
     /\ \A e \in matches :
          /\ e.done /\ e.seq <= cutoff
          /\ e.kind = IF block.type = "tool_result" THEN "tool_finish" ELSE "response"
          /\ block.type = "tool_result" => e.call = block.call
          /\ block.label = e.seq

\* Variant: a comparison made after the cutoff is let through.
ComparisonAnytime(c, blocks, events, cutoff) ==
  \E i \in DOMAIN blocks : blocks[i].bound /\ blocks[i].origin = c.binding.event

\* The checks of build_view on one file comparison.
ComparisonAuthorized(c, blocks, events, cutoff) ==
  /\ c.seq <= cutoff /\ AuthorizeRef(c.binding.event, cutoff)
  /\ Cardinality({i \in DOMAIN blocks : blocks[i].bound /\ blocks[i].origin = c.binding.event}) = 1
  /\ Cardinality({i \in DOMAIN events : /\ events[i].kind = "state_check"
                                        /\ events[i].done /\ events[i].seq = c.seq
                                        /\ events[i].call = c.binding.event}) = 1

\* build_view raises a VisibilityViolation unless this holds.
BuildView(blocks, comparisons, events, cutoff) ==
  /\ \A i \in DOMAIN blocks : /\ AuthorizeRef(blocks[i].label, cutoff)
                              /\ CompletedEvent(blocks[i], events, cutoff)
  /\ \A c \in comparisons : ComparisonAuthorized(c, blocks, events, cutoff)

\* A script builds the view of its latest request and persists it once; the
\* identity of a view is its cutoff and the request body.
PersistView ==
  /\ pc = "loop" /\ driver = "script"
  /\ rt.snapshots # <<>> /\ Cardinality(views) < MaxViews
  /\ \E cs \in SUBSET Range(rt.checks) :
       LET s == Last(rt.snapshots)
           v == [cutoff |-> s.cutoff, blocks |-> s.blocks, comparisons |-> cs]
           same == {w \in views : w.view.cutoff = v.cutoff /\ w.view.blocks = v.blocks}
           Stored(state) == views \cup {[state |-> state, view |-> v, start |-> starts]}
       IN \/ /\ BuildView(s.blocks, cs, rt.events, s.cutoff) /\ same = {}
             /\ \/ views' = Stored("whole") /\ Goto("loop")
                \/ views' = Stored("torn") /\ Exit("dead")
          \/ /\ \/ ~BuildView(s.blocks, cs, rt.events, s.cutoff)
                \/ \E w \in same : w.state = "torn" \/ w.view # v
             /\ Raise(rt) /\ UNCHANGED views
  /\ UNCHANGED <<disk, physical, journal, requestsJournal, worldVars>>

-----------------------------------------------------------------------------
(* Sealing *)

StopStatus == IF driver = "script" \/ rt.changed THEN "completed" ELSE "task_failed"

\* The add loop seals when its budget is spent or an answer ended it; a script
\* whenever it returns.
RunStop ==
  /\ \/ pc = "run_stop"
     \/ pc = "loop" /\ (driver = "script" \/ rt.attempts = MaxAttempts)
  /\ LET e == EventAt(rt.seq, "run_stop", 0, TRUE, [status |-> StopStatus])
     IN rt' = Recorded(e) /\ Journalled(e)
  /\ pc' = "events"
  /\ UNCHANGED <<driver, call, worldVars>>

\* usage_entries: complete only if every attempt reported every field.
UsageComplete(usages) == \A i \in DOMAIN usages : usages[i] = "all"

FinalState == [tree |-> call.tree, files |-> rt.bindings, seq |-> Last(rt.events).seq]
SealedArtifact == [listed |-> call.tree, bodies |-> call.body]

SealContent(a) ==
  CASE a = "events" -> rt.events
    [] a = "requests" -> rt.snapshots
    [] a = "file_bindings" -> rt.bindings
    [] a = "usage_ledger" -> [i \in DOMAIN rt.usages |-> rt.snapshots[i].attempt]
    [] a = "usage_aggregate" -> [count |-> Len(rt.usages), complete |-> UsageComplete(rt.usages)]
    [] a = "sealed_artifact" -> SealedArtifact
    [] a = "final_state" -> FinalState
    [] a = "run" -> [events |-> rt.events, sealed |-> SealedArtifact, final |-> FinalState,
                     start |-> starts]

SealArtifact ==
  /\ pc \in {"events", "requests", "file_bindings", "usage_ledger", "usage_aggregate",
             "sealed_artifact", "final_state", "run"}
  /\ Persist(pc, SealContent(pc), After[pc])

\* The final tree is hashed first ...
SealTree ==
  /\ pc = "tree"
  /\ call' = [call EXCEPT !.tree = file]
  /\ pc' = "bodies"
  /\ UNCHANGED <<driver, rt, storeVars, worldVars>>

\* ... and its files are read again; one that is gone raises.
SealBodies ==
  /\ pc = "bodies"
  /\ \/ /\ call.tree # Missing /\ file = Missing
        /\ Exit("raised")
     \/ /\ call.tree = Missing \/ file # Missing
        /\ call' = [call EXCEPT !.body = IF call.tree = Missing THEN Missing ELSE file]
        /\ pc' = "sealed_artifact"
        /\ UNCHANGED <<driver, rt>>
  /\ UNCHANGED <<storeVars, worldVars>>

-----------------------------------------------------------------------------
(* The environment *)

Kill ==
  /\ pc \notin Ended
  /\ Exit("dead")
  /\ UNCHANGED <<storeVars, worldVars>>

Foreign ==
  /\ starts > 0 /\ (starts - 1) + foreign < MaxFaults
  /\ foreign' = foreign + 1
  /\ file' \in (Bodies \cup {Missing}) \ {file}
  /\ UNCHANGED <<pc, driver, rt, call, storeVars, starts, sent>>

Send == Enter \/ Transport \/ Terminal \/ SnapshotRequest \/ RequestEvent \/ TerminalEvent
Tool == ToolStart \/ FileTool \/ RunTest \/ ToolFinish \/ ToolFinishFails
Seal == RunStop \/ SealArtifact \/ SealTree \/ SealBodies

Next ==
  \/ Start \/ Construct \/ Send \/ Tool \/ CompareBoundFile \/ PersistView
  \/ Seal \/ Kill \/ Foreign

Spec == Init /\ [][Next]_vars

-----------------------------------------------------------------------------
(* Properties *)

\* A body reaches the provider at most once under one attempt identity, and only
\* when its "entered" record is already whole on disk: whatever kills or restarts
\* the run, no call to the provider is invisible afterwards (CapturedProvider.send,
\* persist_physical_attempt).
SentIsRecorded ==
  \A n \in Attempts :
    /\ Len(sent[n]) <= 1
    /\ sent[n] # <<>> => physical[n].entered.state = "whole"
    /\ physical[n].terminal.state = "whole" => physical[n].terminal.body = sent[n]

\* Journals survive the process in evidence order: a journalled event of an attempt
\* implies its journalled snapshot and its whole terminal record with the same
\* answer, and a tool finish implies its start (append_run_jsonl, send_request).
JournalIsBacked ==
  \A i \in DOMAIN journal :
    LET e == journal[i]
    IN /\ e.kind \in {"request", "response", "provider_failure"} =>
            /\ \E j \in DOMAIN requestsJournal :
                 /\ requestsJournal[j].attempt = e.data.attempt
                 /\ requestsJournal[j].start = e.start
            /\ physical[e.data.attempt].terminal.state = "whole"
       /\ e.kind \in {"response", "provider_failure"} => sent[e.data.attempt] = <<e.data.reply>>
       /\ e.kind = "tool_finish" =>
            \E j \in 1..(i - 1) : /\ journal[j].kind = "tool_start"
                                  /\ journal[j].call = e.call /\ journal[j].start = e.start

\* No request and no decision view carries evidence from its own future: every
\* block stems from a completed event numbered at or below the cutoff, every
\* comparison was made by then, and the attempt's own request event comes later
\* (context_blocks, send_request, build_view).
ContextIsPast ==
  /\ \A i \in DOMAIN requestsJournal :
       LET s == requestsJournal[i]
       IN /\ \A k \in DOMAIN s.blocks : \E j \in DOMAIN journal :
               /\ journal[j].start = s.start /\ journal[j].seq = s.blocks[k].origin
               /\ journal[j].done /\ journal[j].seq <= s.cutoff
          /\ \A j \in DOMAIN journal :
               journal[j].start = s.start /\ journal[j].kind = "request"
                 /\ journal[j].data.attempt = s.attempt
               => \A k \in DOMAIN s.blocks : s.blocks[k].origin < journal[j].seq
  /\ \A w \in views : \A c \in w.view.comparisons :
       /\ c.seq <= w.view.cutoff
       /\ \E j \in DOMAIN requestsJournal : requestsJournal[j].start = w.start
            /\ requestsJournal[j].cutoff = w.view.cutoff
=============================================================================
