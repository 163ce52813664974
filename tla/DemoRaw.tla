------------------------------ MODULE DemoRaw ------------------------------
(***************************************************************************)
(* The opt-in raw capture of the demo (src/src/acr/demo_raw.py).  Every    *)
(* hook process, before it handles its event, remembers the transcript     *)
(* Claude is writing and refreshes a materialised copy of it: the source,  *)
(* the normalised steps, the diagnostic hits and a metadata file that is   *)
(* read, changed and replaced without a lock.  Hooks overlap, are killed   *)
(* at their timeout, and may copy a transcript whose last line is only     *)
(* partly written.  Files are replaced atomically, so what a file holds is *)
(* the snapshot of the transcript it was derived from.                     *)
(***************************************************************************)
EXTENDS Integers, Sequences, FiniteSets

CONSTANTS
  Slots,     \* hook processes that may run at one time
  Scripts,   \* transcripts Claude may write, line by line
  Verifier,  \* the configured verifier command
  MaxHooks, MaxKills

\* A line of a transcript: a text, a tool_use or a tool_result of an occurrence.
Line == [kind : {"text", "use", "result"}, id : Nat, tool : STRING, arg : STRING,
         ok : BOOLEAN, out : STRING]

ASSUME DemoAssumption ==
  /\ IsFiniteSet(Slots) /\ MaxHooks \in Nat /\ MaxKills \in Nat
  /\ Scripts \subseteq Seq(Line)

VARIABLES
  script, written, tail,   \* the transcript: lines written, and is one more half written
  pc, copy, meta,          \* per hook process: its copy of the transcript, of the metadata
  source, steps, hits, metadata,   \* the files, metadata as [ended, snap]
  started, kills,
  lone,      \* history: per hook process, no other ran since it began
  healed,    \* history: what the last hook to finish captured, if it ran alone
  endAlone   \* history: the session-end hook finished and ran alone

claudeVars == <<script, written, tail>>
hookVars == <<pc, copy, meta>>
fileVars == <<source, steps, hits, metadata>>
ghostVars == <<lone, healed, endAlone>>
vars == <<claudeVars, hookVars, fileVars, started, kills, ghostVars>>

-----------------------------------------------------------------------------
(* Lines, steps and hits *)

Text == [kind |-> "text", id |-> 0, tool |-> "none", arg |-> "none", ok |-> FALSE, out |-> "none"]
Use(id, tool, arg) == [Text EXCEPT !.kind = "use", !.id = id, !.tool = tool, !.arg = arg]
Result(id, ok, out) == [Text EXCEPT !.kind = "result", !.id = id, !.ok = ok, !.out = out]

\* The step of a line: a tool has no result yet.
Step(line) == [kind |-> IF line.kind = "use" THEN "tool" ELSE "text", id |-> line.id,
               tool |-> line.tool, arg |-> line.arg, success |-> FALSE, output |-> "none"]
\* The step of a tool once its result is there.
Completed(step, line) ==
  [kind |-> step.kind, id |-> step.id, tool |-> step.tool, arg |-> step.arg,
   success |-> line.ok, output |-> line.out]
Known(acc, id) == \E i \in DOMAIN acc : acc[i].kind = "tool" /\ acc[i].id = id

\* Variant: a repeated tool_use starts its step again.
AddLineAgain(acc, line) ==
  CASE line.kind = "use" /\ Known(acc, line.id) ->
         [i \in DOMAIN acc |-> IF acc[i].id = line.id THEN Step(line) ELSE acc[i]]
    [] line.kind = "text" \/ (line.kind = "use" /\ ~Known(acc, line.id)) -> Append(acc, Step(line))
    [] OTHER -> [i \in DOMAIN acc |->
         IF acc[i].kind = "tool" /\ acc[i].id = line.id
         THEN Completed(acc[i], line) ELSE acc[i]]

\* The body of the loop over records: a text or a first tool_use is a step, a result
\* completes the step of its occurrence, a repeated tool_use and a result of an
\* unknown occurrence are skipped.
AddLine(acc, line) ==
  CASE line.kind = "text" -> Append(acc, Step(line))
    [] line.kind = "use" -> IF Known(acc, line.id) THEN acc ELSE Append(acc, Step(line))
    [] line.kind = "result" -> [i \in DOMAIN acc |->
         IF acc[i].kind = "tool" /\ acc[i].id = line.id
         THEN Completed(acc[i], line) ELSE acc[i]]

\* The steps after each number of lines.
StepsAfter(lines) ==
  LET after[n \in 0..Len(lines)] == IF n = 0 THEN <<>> ELSE AddLine(after[n - 1], lines[n])
  IN after

normalize_claude_jsonl(lines) == StepsAfter(lines)[Len(lines)]

\* What a successful step is compared by: a complete Read by path and result, a command
\* other than the verifier by its text.
Comparable(step) ==
  /\ step.kind = "tool" /\ step.success
  /\ step.tool = "Read" \/ (step.tool = "Bash" /\ step.arg # Verifier)
Key(step) == <<step.tool, step.arg, IF step.tool = "Read" THEN step.output ELSE "any">>

\* Variant: the dictionary keeps the first step of a key.
ScanFirst(acc, s, i) ==
  LET k == Key(s[i])
  IN IF ~Comparable(s[i]) THEN acc
     ELSE [prior |-> [x \in DOMAIN acc.prior \cup {k} |->
                        IF x \in DOMAIN acc.prior THEN acc.prior[x] ELSE i],
           hits |-> acc.hits \cup {<<i, acc.prior[x]>> : x \in DOMAIN acc.prior \cap {k}}]

\* The body of the detector's loop: a step that is compared is a hit with the one its
\* dictionary (prior_reads, prior_commands) has under the same key, and takes its place.
ScanStep(acc, s, i) ==
  LET k == Key(s[i])
  IN IF ~Comparable(s[i]) THEN acc
     ELSE [prior |-> [x \in DOMAIN acc.prior \cup {k} |-> IF x = k THEN i ELSE acc.prior[x]],
           hits |-> acc.hits \cup {<<i, acc.prior[x]>> : x \in DOMAIN acc.prior \cap {k}}]

ScanAfter(s) ==
  LET after[n \in 0..Len(s)] ==
        IF n = 0 THEN [prior |-> <<>>, hits |-> {}] ELSE ScanStep(after[n - 1], s, n)
  IN after

detect_demo_diagnostics(s) == ScanAfter(s)[Len(s)].hits

\* The occurrences marked when the first n lines are the transcript.
Marked(n) ==
  LET s == normalize_claude_jsonl(SubSeq(script, 1, n))
  IN {s[h[1]].id : h \in detect_demo_diagnostics(s)}

-----------------------------------------------------------------------------
NoSnap == [lines |-> 0, torn |-> FALSE]
NoMeta == [ended |-> FALSE, snap |-> NoSnap]
Transcript == [lines |-> written, torn |-> tail]

\* initialize_demo_raw_session has created the directory and the metadata.
Init ==
  /\ script \in Scripts /\ written = 0 /\ tail = FALSE
  /\ pc = [s \in Slots |-> "off"]
  /\ copy = [s \in Slots |-> NoSnap] /\ meta = [s \in Slots |-> NoMeta]
  /\ source = NoSnap /\ steps = NoSnap /\ hits = NoSnap /\ metadata = NoMeta
  /\ started = 0 /\ kills = 0
  /\ lone = [s \in Slots |-> FALSE] /\ healed = NoSnap /\ endAlone = FALSE

\* Claude appends the next line, in one write or two.
ClaudeWrites ==
  /\ written < Len(script)
  /\ \/ tail' = TRUE /\ ~tail /\ UNCHANGED written
     \/ tail' = FALSE /\ written' = written + 1
  /\ UNCHANGED <<script, hookVars, fileVars, started, kills, ghostVars>>

Active == {s \in Slots : pc[s] # "off"}
Goto(s, where) == pc' = [pc EXCEPT ![s] = where]

\* The process of the raw capture ends, by an exception (cli.py reports a warning) or an
\* early return; its memory is gone.
Leave(s) ==
  /\ Goto(s, "off")
  /\ copy' = [copy EXCEPT ![s] = NoSnap] /\ meta' = [meta EXCEPT ![s] = NoMeta]
  /\ lone' = [lone EXCEPT ![s] = FALSE]
  /\ UNCHANGED <<healed, endAlone>>

\* observe_demo_raw_hook up to its read of the metadata, which it changes in memory.
Observe(s) ==
  /\ pc[s] = "off" /\ started < MaxHooks
  /\ started' = started + 1
  /\ Goto(s, "update")
  /\ \E ended \in BOOLEAN :
       meta' = [meta EXCEPT ![s] = [ended |-> metadata.ended \/ ended, snap |-> metadata.snap]]
  /\ lone' = [t \in Slots |-> t = s /\ Active = {}]
  /\ healed' = NoSnap
  /\ UNCHANGED <<claudeVars, copy, fileVars, kills, endAlone>>

\* The metadata is replaced, then the binding, which always names the transcript.
UpdateMetadata(s) ==
  /\ pc[s] = "update"
  /\ metadata' = meta[s]
  /\ Goto(s, "copy")
  /\ UNCHANGED <<claudeVars, copy, meta, source, steps, hits, started, kills, ghostVars>>

\* finalize_demo_raw_session: nothing to do before the transcript exists; else copy it ...
CopyTranscript(s) ==
  /\ pc[s] = "copy"
  /\ \/ /\ Transcript = NoSnap /\ Leave(s)
     \/ /\ Transcript # NoSnap
        /\ copy' = [copy EXCEPT ![s] = Transcript]
        /\ Goto(s, "replace")
        /\ UNCHANGED <<meta, ghostVars>>
  /\ UNCHANGED <<claudeVars, fileVars, started, kills>>

ReplaceSource(s) ==
  /\ pc[s] = "replace"
  /\ source' = copy[s]
  /\ Goto(s, "read")
  /\ UNCHANGED <<claudeVars, copy, meta, steps, hits, metadata, started, kills, ghostVars>>

\* ... and read the source file back, which another hook may have replaced.
ReadSource(s) ==
  /\ pc[s] = "read"
  /\ copy' = [copy EXCEPT ![s] = source]
  /\ Goto(s, "normalize")
  /\ UNCHANGED <<claudeVars, meta, fileVars, started, kills, ghostVars>>

\* The metadata is read again; a half-written line is a DemoRawCaptureError.
Normalize(s) ==
  /\ pc[s] = "normalize"
  /\ \/ copy[s].torn /\ Leave(s)
     \/ /\ ~copy[s].torn
        /\ meta' = [meta EXCEPT ![s] = metadata]
        /\ Goto(s, "steps")
        /\ UNCHANGED <<copy, ghostVars>>
  /\ UNCHANGED <<claudeVars, fileVars, started, kills>>

WriteSteps(s) ==
  /\ pc[s] = "steps"
  /\ steps' = copy[s]
  /\ Goto(s, "hits")
  /\ UNCHANGED <<claudeVars, copy, meta, source, hits, metadata, started, kills, ghostVars>>

\* Variant: existing hits are kept.
WriteHitsOnce(s) ==
  /\ pc[s] = "hits"
  /\ hits' = IF hits = NoSnap THEN copy[s] ELSE hits
  /\ Goto(s, "finish")
  /\ UNCHANGED <<claudeVars, copy, meta, source, steps, metadata, started, kills, ghostVars>>

WriteHits(s) ==
  /\ pc[s] = "hits"
  /\ hits' = copy[s]
  /\ Goto(s, "finish")
  /\ UNCHANGED <<claudeVars, copy, meta, source, steps, metadata, started, kills, ghostVars>>

Finished(s) ==
  /\ Goto(s, "off")
  /\ copy' = [copy EXCEPT ![s] = NoSnap] /\ meta' = [meta EXCEPT ![s] = NoMeta]
  /\ healed' = IF lone[s] THEN copy[s] ELSE NoSnap
  /\ endAlone' = (endAlone \/ (lone[s] /\ meta[s].ended))
  /\ lone' = [lone EXCEPT ![s] = FALSE]
  /\ UNCHANGED <<claudeVars, source, steps, hits, started, kills>>

\* Variant: the metadata is written anew, without what hooks have added to it.
WriteMetadataAnew(s) ==
  /\ pc[s] = "finish"
  /\ metadata' = [ended |-> FALSE, snap |-> copy[s]]
  /\ Finished(s)

\* Counts and hash go into the metadata read before the normalisation.
WriteMetadata(s) ==
  /\ pc[s] = "finish"
  /\ metadata' = [ended |-> meta[s].ended, snap |-> copy[s]]
  /\ Finished(s)

\* Claude Code kills a hook at its timeout.
Kill(s) ==
  /\ pc[s] # "off" /\ kills < MaxKills
  /\ kills' = kills + 1
  /\ Leave(s)
  /\ UNCHANGED <<claudeVars, fileVars, started>>

Next ==
  \/ ClaudeWrites
  \/ \E s \in Slots :
       \/ Observe(s) \/ UpdateMetadata(s) \/ CopyTranscript(s) \/ ReplaceSource(s)
       \/ ReadSource(s) \/ Normalize(s) \/ WriteSteps(s) \/ WriteHits(s) \/ WriteMetadata(s)
       \/ Kill(s)

Spec == Init /\ [][Next]_vars

-----------------------------------------------------------------------------
(* Properties *)

\* A hook that runs alone repairs the capture: when it has finished and until the next
\* one begins, the source, the steps, the hits and the metadata all describe the
\* snapshot it took, whatever earlier hooks overlapped, were killed or met a
\* half-written line.
LoneHookHeals ==
  healed # NoSnap =>
    /\ source = healed /\ steps = healed /\ hits = healed /\ metadata.snap = healed

\* Only an overlap can lose the end of the session: once a hook that knows of it has
\* finished alone, every later state of the metadata keeps ended_at, although each
\* hook replaces the whole file from its own copy.
EndIsKept == endAlone => metadata.ended

\* What the hits are to say: a step is a repeat of an earlier one of the same key when no
\* third lies between them.
RepeatOf(s, i, j) ==
  /\ j < i /\ Comparable(s[i]) /\ Comparable(s[j]) /\ Key(s[j]) = Key(s[i])
  /\ \A k \in DOMAIN s : j < k /\ k < i => ~(Comparable(s[k]) /\ Key(s[k]) = Key(s[i]))

\* The diagnostics of whatever is written so far: the detector, in one pass with a
\* dictionary, pairs exactly each repeat with the latest earlier step it repeats.
HitsAreRepeats ==
  LET s == normalize_claude_jsonl(SubSeq(script, 1, written))
  IN detect_demo_diagnostics(s) = {h \in (DOMAIN s) \X (DOMAIN s) : RepeatOf(s, h[1], h[2])}

\* Once an occurrence has a successful result, a later result of it says the same.
SuccessIsFinal(lines) ==
  \A a, b \in DOMAIN lines :
    /\ a < b /\ lines[a].kind = "result" /\ lines[b].kind = "result"
    /\ lines[a].id = lines[b].id /\ lines[a].ok
    => lines[b].ok /\ lines[b].out = lines[a].out

\* Growing the transcript never clears a mark: an occurrence that was a repeat is still
\* one when more lines, late results of earlier tools among them, have arrived (of
\* transcripts with SuccessIsFinal).
MarksOnlyGrow == [][written' # written => Marked(written) \subseteq Marked(written')]_vars
=============================================================================
