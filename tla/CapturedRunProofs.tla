-------------------------- MODULE CapturedRunProofs --------------------------
(***************************************************************************)
(* No call to the provider is invisible: for any number of attempts,       *)
(* journal lines, views, kills and restarts, a body leaves at most once    *)
(* under one attempt identity, after its "entered" record is durable, and  *)
(* a readable "terminal" record holds the provider's own answer.  What the *)
(* journals say is backed by durable records, no request or view carries   *)
(* its own future, a PASS of the audit is true and stays, and a run that   *)
(* was sealed undisturbed passes.                                          *)
(***************************************************************************)
EXTENDS RunAudit, FiniteSetTheorems, TLAPS

\* The objects keep their fields.
RuntimeFields == {"seq", "events", "attempts", "tools", "snapshots", "usages", "bindings",
                  "checks", "messages", "changed", "caught"}
CallFields == {"tool", "reply", "body", "tree"}
IsRuntime(r) == r = [x \in RuntimeFields |-> r[x]]
IsCall(c) == c = [x \in CallFields |-> c[x]]

\* What a record of an attempt may hold, and what was sent under one.
RecordFiles == {Absent, Torn, Whole(<<>>)} \cup {Whole(<<r>>) : r \in Replies}
Exchanges == {<<>>} \cup {<<r>> : r \in Replies}

SendTyped ==
  /\ physical \in [Attempts -> [entered : RecordFiles, terminal : RecordFiles]]
  /\ sent \in [Attempts -> Exchanges]
  /\ IsRuntime(rt) /\ rt.attempts \in Nat
  /\ IsCall(call)

\* A terminal record exists only for what was sent.
ExchangeInv ==
  \A n \in Attempts :
    /\ sent[n] # <<>> => physical[n].entered.state = "whole"
    /\ physical[n].terminal # Absent => sent[n] # <<>>
    /\ physical[n].terminal.state = "whole" => physical[n].terminal.body = sent[n]

\* The attempt in progress: nothing has left before the transport, one body after it.
PositionInv ==
  /\ pc = "transport" => /\ Current \in Attempts /\ sent[Current] = <<>>
                         /\ physical[Current].entered.state = "whole"
  /\ pc = "terminal" => Current \in Attempts /\ sent[Current] = <<call.reply>>
                        /\ call.reply \in Replies

SendInv == SendTyped /\ ExchangeInv /\ PositionInv

-----------------------------------------------------------------------------

\* A step that neither writes an attempt's record nor sends, and does not lead to the
\* two positions in between, preserves the invariant.
QuietStep ==
  /\ UNCHANGED <<physical, sent>>
  /\ pc' \notin {"transport", "terminal"}
  /\ IsRuntime(rt') /\ rt'.attempts \in Nat
  /\ IsCall(call')

LEMMA QuietKeeps == ASSUME SendInv, QuietStep PROVE SendInv'
  BY DEF SendInv, QuietStep, SendTyped, ExchangeInv, PositionInv

LEMMA NewObjects == IsRuntime(NewRuntime) /\ NewRuntime.attempts = 0 /\ IsCall(NoCall)
  BY DEF IsRuntime, NewRuntime, IsCall, NoCall, RuntimeFields, CallFields

\* record_event keeps the attempts.
LEMMA RecordedKeeps ==
  ASSUME NEW e, IsRuntime(rt)
  PROVE  IsRuntime(Recorded(e)) /\ Recorded(e).attempts = rt.attempts
  BY DEF IsRuntime, Recorded, RuntimeFields

\* A process that ends leaves nothing in memory.
LEMMA ExitIsQuiet ==
  ASSUME NEW how \in {"raised", "dead"}, Exit(how), UNCHANGED <<physical, sent>>
  PROVE  QuietStep
  BY NewObjects DEF Exit, QuietStep

\* A raised exception ends the process or is caught by the script.
LEMMA RaiseIsQuiet ==
  ASSUME NEW r, Raise(r), UNCHANGED <<physical, sent>>,
         IsRuntime(r), r.attempts \in Nat, IsCall(call)
  PROVE  QuietStep
<1>1. CASE Exit("raised")
  BY <1>1, ExitIsQuiet
<1>2. CASE pc' = "loop" /\ rt' = [r EXCEPT !.caught = TRUE] /\ UNCHANGED <<driver, call>>
  <2>1. IsRuntime(rt') /\ rt'.attempts = r.attempts
    BY <1>2 DEF IsRuntime, RuntimeFields
  <2> QED BY <1>2, <2>1 DEF QuietStep
<1> QED BY <1>1, <1>2 DEF Raise

\* _write_once of an artifact touches no attempt.
LEMMA PersistIsQuiet ==
  ASSUME SendTyped, NEW a, NEW body, NEW next, Persist(a, body, next),
         next \notin {"transport", "terminal"}
  PROVE  QuietStep
<1>0. UNCHANGED <<physical, sent>>
  BY DEF Persist, worldVars
<1>1. CASE Goto(next)
  BY <1>0, <1>1 DEF Goto, QuietStep, SendTyped
<1>2. CASE Exit("raised") \/ Exit("dead")
  BY <1>0, <1>2, ExitIsQuiet
<1> QED BY <1>1, <1>2 DEF Persist

-----------------------------------------------------------------------------
(* The three steps of CapturedProvider.send *)

\* The record is durable before the transport is entered.
LEMMA EnterKeeps == ASSUME SendInv, Enter PROVE SendInv'
<1> DEFINE n == rt.attempts
<1>1. n \in Attempts /\ UNCHANGED sent
  BY BoundsAssumption DEF SendInv, SendTyped, Enter, PersistAttempt, worldVars, Attempts
<1>2. CASE Raise([rt EXCEPT !.attempts = @ + 1]) /\ UNCHANGED physical
  <2>1. /\ IsRuntime([rt EXCEPT !.attempts = @ + 1])
        /\ [rt EXCEPT !.attempts = @ + 1].attempts \in Nat /\ IsCall(call)
    BY DEF SendInv, SendTyped, IsRuntime, RuntimeFields
  <2> QED BY <1>1, <1>2, <2>1, RaiseIsQuiet, QuietKeeps
<1>3. ASSUME physical[n].entered = Absent,
             NEW f \in {Torn, Whole(<<>>)}, physical' = [physical EXCEPT ![n]["entered"] = f]
      PROVE  /\ sent[n] = <<>> /\ physical[n].terminal = Absent
             /\ physical' \in [Attempts -> [entered : RecordFiles, terminal : RecordFiles]]
             /\ physical'[n].entered = f /\ physical'[n].terminal = Absent
             /\ \A m \in Attempts \ {n} : physical'[m] = physical[m]
  <2>1. sent[n] = <<>> /\ physical[n].terminal = Absent
    BY <1>1, <1>3 DEF SendInv, ExchangeInv, Absent
  <2>2. f \in RecordFiles
    BY DEF RecordFiles
  <2>3. physical[n] \in [entered : RecordFiles, terminal : RecordFiles]
    BY <1>1 DEF SendInv, SendTyped
  <2> QED BY <1>1, <1>3, <2>1, <2>2, <2>3 DEF SendInv, SendTyped
<1>4. ASSUME physical[n].entered = Absent,
             NEW f \in {Torn, Whole(<<>>)}, physical' = [physical EXCEPT ![n]["entered"] = f]
      PROVE  ExchangeInv'
  <2> SUFFICES ASSUME NEW m \in Attempts
               PROVE  /\ sent'[m] # <<>> => physical'[m].entered.state = "whole"
                      /\ physical'[m].terminal # Absent => sent'[m] # <<>>
                      /\ physical'[m].terminal.state = "whole"
                           => physical'[m].terminal.body = sent'[m]
    BY DEF ExchangeInv
  <2>1. CASE m = n
    <3>1. sent'[m] = <<>> /\ physical'[m].terminal = Absent
      BY <1>1, <1>3, <1>4, <2>1
    <3>2. physical'[m].terminal.state # "whole"
      BY <3>1 DEF Absent
    <3> QED BY <3>1, <3>2
  <2>2. CASE m # n
    BY <1>1, <1>3, <1>4, <2>2 DEF SendInv, ExchangeInv
  <2> QED BY <2>1, <2>2
<1>5. CASE /\ physical[n].entered = Absent
           /\ physical' = [physical EXCEPT ![n]["entered"] = Torn] /\ Exit("dead")
  <2>1. ExchangeInv'
    BY <1>4, <1>5
  <2>2. SendTyped' /\ PositionInv'
    BY <1>1, <1>3, <1>5, NewObjects DEF SendInv, SendTyped, PositionInv, Exit
  <2> QED BY <2>1, <2>2 DEF SendInv
<1>6. CASE /\ physical[n].entered = Absent
           /\ physical' = [physical EXCEPT ![n]["entered"] = Whole(<<>>)]
           /\ rt' = [rt EXCEPT !.attempts = @ + 1] /\ pc' = "transport"
           /\ UNCHANGED <<driver, call>>
  <2>1. ExchangeInv'
    BY <1>4, <1>6
  <2>2. IsRuntime(rt') /\ rt'.attempts = n + 1
    BY <1>6 DEF SendInv, SendTyped, IsRuntime, RuntimeFields
  <2>3. SendTyped'
    BY <1>1, <1>3, <1>6, <2>2 DEF SendInv, SendTyped
  <2>4. Current' = n
    BY <1>1, <2>2 DEF Current, Attempts
  <2>5. PositionInv'
    BY <1>1, <1>3, <1>6, <2>4 DEF PositionInv, Whole
  <2> QED BY <2>1, <2>3, <2>5 DEF SendInv
<1> QED BY <1>2, <1>5, <1>6 DEF Enter, PersistAttempt

\* One answer, once, for the body that left.
LEMMA TransportKeeps == ASSUME SendInv, Transport PROVE SendInv'
<1>1. PICK r \in Replies : /\ sent' = [sent EXCEPT ![Current] = Append(@, r)]
                           /\ call' = [call EXCEPT !.reply = r]
  BY DEF Transport
<1>2. /\ pc = "transport" /\ pc' = "terminal"
      /\ UNCHANGED <<driver, rt, physical>>
  BY DEF Transport, storeVars
<1>3. /\ Current \in Attempts /\ sent[Current] = <<>>
      /\ physical[Current].entered.state = "whole" /\ Current' = Current
  BY <1>2 DEF SendInv, PositionInv, Current
<1>4. sent' = [sent EXCEPT ![Current] = <<r>>]
  BY <1>1, <1>3
<1>5. SendTyped'
  <2>1. IsCall(call')
    BY <1>1 DEF SendInv, SendTyped, IsCall
  <2>2. sent' \in [Attempts -> Exchanges]
    BY <1>3, <1>4 DEF SendInv, SendTyped, Exchanges
  <2> QED BY <1>2, <2>1, <2>2 DEF SendInv, SendTyped
<1>6. sent'[Current] = <<r>> /\ \A m \in Attempts \ {Current} : sent'[m] = sent[m]
  BY <1>3, <1>4 DEF SendInv, SendTyped
<1>7. ExchangeInv'
  <2> SUFFICES ASSUME NEW m \in Attempts
               PROVE  /\ sent'[m] # <<>> => physical[m].entered.state = "whole"
                      /\ physical[m].terminal # Absent => sent'[m] # <<>>
                      /\ physical[m].terminal.state = "whole"
                           => physical[m].terminal.body = sent'[m]
    BY <1>2 DEF ExchangeInv
  <2>1. CASE m = Current
    <3>1. physical[m].terminal = Absent
      BY <1>3, <2>1 DEF SendInv, ExchangeInv
    <3>2. physical[m].terminal.state # "whole"
      BY <3>1 DEF Absent
    <3> QED BY <1>3, <2>1, <3>1, <3>2
  <2>2. CASE m # Current
    BY <1>6, <2>2 DEF SendInv, ExchangeInv
  <2> QED BY <2>1, <2>2
<1>8. PositionInv'
  <2>1. call'.reply = r
    BY <1>1 DEF SendInv, SendTyped, IsCall, CallFields
  <2> QED BY <1>2, <1>3, <1>6, <2>1 DEF PositionInv
<1> QED BY <1>5, <1>7, <1>8 DEF SendInv

\* The answer goes into the record of the attempt that was sent.
LEMMA TerminalKeeps == ASSUME SendInv, Terminal PROVE SendInv'
<1> DEFINE n == Current
<1>1. /\ n \in Attempts /\ sent[n] = <<call.reply>> /\ call.reply \in Replies /\ UNCHANGED sent
      /\ physical[n] \in [entered : RecordFiles, terminal : RecordFiles]
  BY DEF SendInv, SendTyped, PositionInv, Terminal, PersistAttempt, worldVars
<1>2. CASE Raise(rt) /\ UNCHANGED physical
  BY <1>1, <1>2, RaiseIsQuiet, QuietKeeps DEF SendInv, SendTyped
<1>3. ASSUME NEW f \in {Torn, Whole(<<call.reply>>)},
             physical' = [physical EXCEPT ![n]["terminal"] = f]
      PROVE  /\ physical' \in [Attempts -> [entered : RecordFiles, terminal : RecordFiles]]
             /\ ExchangeInv'
  <2>1. f \in RecordFiles
    BY <1>1 DEF RecordFiles
  <2>2. /\ physical' \in [Attempts -> [entered : RecordFiles, terminal : RecordFiles]]
        /\ physical'[n].entered = physical[n].entered /\ physical'[n].terminal = f
        /\ \A m \in Attempts \ {n} : physical'[m] = physical[m]
    BY <1>1, <1>3, <2>1 DEF SendInv, SendTyped
  <2>3. f.state = "whole" => f.body = sent[n]
    BY <1>1 DEF Torn, Whole
  <2>4. ASSUME NEW m \in Attempts
        PROVE  /\ sent[m] # <<>> => physical'[m].entered.state = "whole"
               /\ physical'[m].terminal # Absent => sent[m] # <<>>
               /\ physical'[m].terminal.state = "whole" => physical'[m].terminal.body = sent[m]
    <3>1. CASE m = n
      <4>1. sent[n] # <<>>
        BY <1>1
      <4> QED BY <1>1, <2>2, <2>3, <3>1, <4>1 DEF SendInv, ExchangeInv
    <3>2. CASE m # n
      BY <2>2, <3>2 DEF SendInv, ExchangeInv
    <3> QED BY <3>1, <3>2
  <2> QED BY <1>1, <2>2, <2>4 DEF ExchangeInv
<1>4. CASE physical' = [physical EXCEPT ![n]["terminal"] = Torn] /\ Exit("dead")
  BY <1>1, <1>3, <1>4, NewObjects DEF SendInv, SendTyped, PositionInv, Exit
<1>5. CASE /\ physical' = [physical EXCEPT ![n]["terminal"] = Whole(<<call.reply>>)]
           /\ Goto("snapshot")
  BY <1>1, <1>3, <1>5 DEF SendInv, SendTyped, PositionInv, Goto
<1> QED BY <1>2, <1>4, <1>5 DEF Terminal, PersistAttempt

-----------------------------------------------------------------------------
(* All other steps are quiet *)

\* The rest of send_request.
LEMMA RequestIsQuiet ==
  ASSUME SendTyped, SnapshotRequest \/ RequestEvent \/ TerminalEvent PROVE QuietStep
<1> USE DEF SendTyped, QuietStep, worldVars
<1>1. CASE SnapshotRequest
  <2>1. IsRuntime(rt') /\ rt'.attempts = rt.attempts
    BY <1>1 DEF SnapshotRequest, IsRuntime, RuntimeFields
  <2> QED BY <1>1, <2>1 DEF SnapshotRequest
<1>2. CASE RequestEvent
  BY <1>2, RecordedKeeps DEF RequestEvent, Journalled
<1>3. CASE TerminalEvent
  <2>1. PICK e : /\ \/ rt' = Recorded(e)
                    \/ rt' = [Recorded(e) EXCEPT !.messages = Append(@, AssistantMessage(e))]
                 /\ Journalled(e)
    BY <1>3 DEF TerminalEvent
  <2>2. IsRuntime(Recorded(e)) /\ Recorded(e).attempts = rt.attempts
    BY RecordedKeeps
  <2>3. IsRuntime(rt') /\ rt'.attempts = rt.attempts
    BY <2>1, <2>2 DEF IsRuntime, RuntimeFields
  <2>4. IsCall(call')
    BY <1>3 DEF TerminalEvent, IsCall
  <2> QED BY <1>3, <2>1, <2>3, <2>4 DEF TerminalEvent, Journalled
<1> QED BY <1>1, <1>2, <1>3

\* The tools.
LEMMA ToolIsQuiet == ASSUME SendTyped, Tool PROVE QuietStep
<1> USE DEF SendTyped, worldVars
<1>0. ASSUME NEW skipped, ErrorFinish(skipped), UNCHANGED sent PROVE QuietStep
  <2>1. PICK e : Journalled(e) /\ Raise(Recorded(e))
    BY <1>0 DEF ErrorFinish
  <2> QED BY <1>0, <2>1, RecordedKeeps, RaiseIsQuiet DEF Journalled
<1>1. CASE ToolStart
  <2>1. PICK e : rt' = [Recorded(e) EXCEPT !.tools = @ + 1] /\ Journalled(e)
    BY <1>1 DEF ToolStart
  <2>2. IsRuntime(Recorded(e)) /\ Recorded(e).attempts = rt.attempts
    BY RecordedKeeps
  <2>3. IsRuntime(rt') /\ rt'.attempts = rt.attempts
    BY <2>1, <2>2 DEF IsRuntime, RuntimeFields
  <2>4. IsCall(call')
    BY <1>1 DEF ToolStart, IsCall
  <2> QED BY <1>1, <2>1, <2>3, <2>4 DEF ToolStart, Journalled, QuietStep
<1>2. CASE FileTool
  <2>1. CASE ErrorFinish(0)
    BY <1>0, <1>2, <2>1 DEF FileTool
  <2>2. CASE (ReadFile \/ WriteFile) /\ pc' = "tool_finish" /\ UNCHANGED <<driver, rt, storeVars>>
    <3>1. IsCall(call')
      BY <2>2 DEF ReadFile, WriteFile, IsCall
    <3> QED BY <1>2, <2>2, <3>1 DEF FileTool, storeVars, QuietStep
  <2> QED BY <1>2, <2>1, <2>2 DEF FileTool
<1>3. CASE RunTest
  <2>1. UNCHANGED <<physical, sent>>
    BY <1>3 DEF RunTest, storeVars
  <2>2. CASE Raise(rt)
    BY <2>1, <2>2, RaiseIsQuiet
  <2>3. CASE /\ call' = [call EXCEPT !.body = "result"] /\ pc' = "tool_finish"
             /\ UNCHANGED <<driver, rt>>
    <3>1. IsCall(call')
      BY <2>3 DEF IsCall
    <3> QED BY <2>1, <2>3, <3>1 DEF QuietStep
  <2> QED BY <1>3, <2>2, <2>3 DEF RunTest
<1>4. CASE ToolFinish
  <2>1. PICK e, b, m, c :
          /\ rt' = [Recorded(e) EXCEPT !.messages = m, !.bindings = b, !.changed = c]
          /\ Journalled(e)
    BY <1>4 DEF ToolFinish
  <2>2. IsRuntime(Recorded(e)) /\ Recorded(e).attempts = rt.attempts
    BY RecordedKeeps
  <2>3. IsRuntime(rt') /\ rt'.attempts = rt.attempts
    BY <2>1, <2>2 DEF IsRuntime, RuntimeFields
  <2> QED BY <1>4, <2>1, <2>3 DEF ToolFinish, Journalled, QuietStep
<1>5. CASE ToolFinishFails
  <2>1. CASE \E skipped \in {0, 1} : ErrorFinish(skipped)
    BY <1>0, <1>5, <2>1 DEF ToolFinishFails
  <2>2. CASE Raise(rt) /\ UNCHANGED storeVars
    BY <1>5, <2>2, RaiseIsQuiet DEF ToolFinishFails, storeVars
  <2> QED BY <1>5, <2>1, <2>2 DEF ToolFinishFails
<1> QED BY <1>1, <1>2, <1>3, <1>4, <1>5 DEF Tool

\* Comparisons, views, the constructor and sealing.
LEMMA OtherIsQuiet ==
  ASSUME SendTyped, Start \/ Construct \/ CompareBoundFile \/ PersistView \/ Seal \/ Kill \/ Foreign
  PROVE  QuietStep \/ (UNCHANGED <<pc, rt, call, physical, sent>>)
<1> USE DEF SendTyped, worldVars
<1>1. CASE Start
  BY <1>1, NewObjects DEF Start, storeVars, QuietStep
<1>2. CASE Construct
  <2>1. After[pc] \notin {"transport", "terminal"}
    BY <1>2 DEF Construct, After
  <2> QED BY <1>2, <2>1, PersistIsQuiet DEF Construct
<1>3. CASE CompareBoundFile
  <2>1. PICK e, c : rt' = [Recorded(e) EXCEPT !.checks = c] /\ Journalled(e)
    BY <1>3 DEF CompareBoundFile
  <2>2. IsRuntime(Recorded(e)) /\ Recorded(e).attempts = rt.attempts
    BY RecordedKeeps
  <2>3. IsRuntime(rt') /\ rt'.attempts = rt.attempts
    BY <2>1, <2>2 DEF IsRuntime, RuntimeFields
  <2> QED BY <1>3, <2>1, <2>3 DEF CompareBoundFile, Journalled, QuietStep
<1>4. CASE PersistView
  <2>1. UNCHANGED <<physical, sent>>
    BY <1>4 DEF PersistView
  <2>2. Goto("loop") \/ Exit("dead") \/ Raise(rt)
    BY <1>4 DEF PersistView
  <2>3. CASE Goto("loop")
    BY <2>1, <2>3 DEF Goto, QuietStep
  <2> QED BY <2>1, <2>2, <2>3, ExitIsQuiet, RaiseIsQuiet
<1>5. CASE RunStop
  <2>1. PICK e : rt' = Recorded(e) /\ Journalled(e)
    BY <1>5 DEF RunStop
  <2> QED BY <1>5, <2>1, RecordedKeeps DEF RunStop, Journalled, QuietStep
<1>6. CASE SealArtifact
  <2>1. After[pc] \notin {"transport", "terminal"}
    BY <1>6 DEF SealArtifact, After
  <2> QED BY <1>6, <2>1, PersistIsQuiet DEF SealArtifact
<1>7. CASE SealTree
  <2>1. IsCall(call')
    BY <1>7 DEF SealTree, IsCall
  <2> QED BY <1>7, <2>1 DEF SealTree, storeVars, QuietStep
<1>8. CASE SealBodies
  <2>1. UNCHANGED <<physical, sent>>
    BY <1>8 DEF SealBodies, storeVars
  <2>2. CASE Exit("raised")
    BY <2>1, <2>2, ExitIsQuiet
  <2>3. CASE pc' = "sealed_artifact" /\ UNCHANGED <<driver, rt>>
             /\ \E b : call' = [call EXCEPT !.body = b]
    <3>1. IsCall(call')
      BY <2>3 DEF IsCall
    <3> QED BY <2>1, <2>3, <3>1 DEF QuietStep
  <2> QED BY <1>8, <2>2, <2>3 DEF SealBodies
<1>9. CASE Kill
  BY <1>9, ExitIsQuiet DEF Kill, storeVars
<1>10. CASE Foreign
  BY <1>10 DEF Foreign, storeVars
<1> QED
  BY <1>1, <1>2, <1>3, <1>4, <1>5, <1>6, <1>7, <1>8, <1>9, <1>10 DEF Seal

-----------------------------------------------------------------------------

LEMMA InitSendInv == Init => SendInv
  BY NewObjects
  DEF Init, SendInv, SendTyped, ExchangeInv, PositionInv, RecordFiles, Exchanges, Absent

LEMMA NextSendInv == SendInv /\ [Next]_vars => SendInv'
<1> SUFFICES ASSUME SendInv, [Next]_vars PROVE SendInv'
  OBVIOUS
<1>1. CASE Enter     BY <1>1, EnterKeeps
<1>2. CASE Transport BY <1>2, TransportKeeps
<1>3. CASE Terminal  BY <1>3, TerminalKeeps
<1>4. CASE SnapshotRequest \/ RequestEvent \/ TerminalEvent
  BY <1>4, RequestIsQuiet, QuietKeeps DEF SendInv
<1>5. CASE Tool
  BY <1>5, ToolIsQuiet, QuietKeeps DEF SendInv
<1>6. CASE UNCHANGED <<pc, rt, call, physical, sent>>
  BY <1>6 DEF SendInv, SendTyped, ExchangeInv, PositionInv, Current
<1>7. CASE Start \/ Construct \/ CompareBoundFile \/ PersistView \/ Seal \/ Kill \/ Foreign
  BY <1>6, <1>7, OtherIsQuiet, QuietKeeps DEF SendInv
<1>8. CASE UNCHANGED vars
  BY <1>6, <1>8 DEF vars, storeVars, worldVars
<1> QED
  BY <1>1, <1>2, <1>3, <1>4, <1>5, <1>7, <1>8 DEF Next, Send

\* No call to the provider is invisible and none is made twice under one identity,
\* whatever kills or restarts the run (CapturedProvider.send, persist_physical_attempt).
THEOREM SentRecorded == Spec => []SentIsRecorded
<1>1. SendInv => SentIsRecorded
  <2> SUFFICES ASSUME SendInv, NEW n \in Attempts
               PROVE  /\ Len(sent[n]) <= 1
                      /\ sent[n] # <<>> => physical[n].entered.state = "whole"
                      /\ physical[n].terminal.state = "whole" => physical[n].terminal.body = sent[n]
    BY DEF SentIsRecorded
  <2>1. sent[n] \in Exchanges
    BY DEF SendInv, SendTyped
  <2>2. Len(sent[n]) <= 1
    <3>1. CASE sent[n] = <<>>
      BY <3>1
    <3>2. ASSUME NEW r, sent[n] = <<r>> PROVE Len(sent[n]) <= 1
      <4>1. Len(<<r>>) = 1
        OBVIOUS
      <4> QED BY <3>2, <4>1
    <3> QED BY <2>1, <3>1, <3>2 DEF Exchanges
  <2> QED BY <2>2 DEF SendInv, ExchangeInv
<1> QED BY <1>1, InitSendInv, NextSendInv, PTL DEF Spec

-----------------------------------------------------------------------------
(* What the legacy store holds stays as it is, so a verdict does too.      *)

\* seal stores the sealed artifact before run.json, which repeats it.
SealInv ==
  /\ disk = [a \in Artifacts |-> disk[a]]
  /\ pc \in {"final_state", "run"} => disk["sealed_artifact"] = Whole(SealedArtifact)
  /\ disk["run"].state = "whole" =>
       disk["sealed_artifact"] = Whole(disk["run"].body.sealed)

\* Only the constructor and seal write an artifact.
LEMMA DiskFrame ==
  ASSUME [Next]_vars
  PROVE  \/ UNCHANGED disk /\ pc' \notin {"final_state", "run"}
         \/ UNCHANGED <<disk, pc, call>>
         \/ Construct \/ SealArtifact
<1> USE DEF storeVars, Journalled, Exit, Goto, Raise
<1>1. CASE Start \/ Kill
  BY <1>1 DEF Start, Kill
<1>2. CASE Enter \/ Terminal
  BY <1>2 DEF Enter, Terminal, PersistAttempt
<1>3. CASE Transport \/ SnapshotRequest \/ RequestEvent \/ TerminalEvent
  BY <1>3 DEF Transport, SnapshotRequest, RequestEvent, TerminalEvent
<1>4. CASE Tool
  BY <1>4 DEF Tool, ToolStart, FileTool, RunTest, ToolFinish, ToolFinishFails, ErrorFinish
<1>5. CASE CompareBoundFile
  BY <1>5 DEF CompareBoundFile
<1>6. CASE PersistView
  BY <1>6 DEF PersistView
<1>7. CASE RunStop \/ SealTree \/ SealBodies
  BY <1>7 DEF RunStop, SealTree, SealBodies
<1>8. CASE Foreign \/ UNCHANGED vars
  BY <1>8 DEF Foreign, vars
<1> QED
  BY <1>1, <1>2, <1>3, <1>4, <1>5, <1>6, <1>7, <1>8 DEF Next, Send, Seal

\* _write_once never touches what is whole, and goes on only when its content is.
LEMMA PersistKeeps ==
  ASSUME disk = [a \in Artifacts |-> disk[a]], NEW a \in Artifacts, NEW body, NEW next,
         Persist(a, body, next)
  PROVE  /\ disk' = [b \in Artifacts |-> disk'[b]]
         /\ \A b \in Artifacts : disk[b].state = "whole" => disk'[b] = disk[b]
         /\ \A b \in Artifacts : b # a => disk'[b] = disk[b]
         /\ pc' \in {next, "raised", "dead"}
         /\ pc' = next /\ next \notin {"raised", "dead"} => disk'[a] = Whole(body) /\ UNCHANGED call
         /\ disk'[a] \in {disk[a], Torn, Whole(body)}
         /\ disk'[a] # disk[a] => disk'[a] = Torn \/ (disk'[a] = Whole(body) /\ pc' = next)
<1>1. CASE /\ disk[a] \in {Absent, Whole(body)}
           /\ disk' = [disk EXCEPT ![a] = Whole(body)] /\ Goto(next)
  <2>1. disk'[a] = Whole(body) /\ \A b \in Artifacts : b # a => disk'[b] = disk[b]
    BY <1>1
  <2>2. disk[a].state = "whole" => disk[a] = Whole(body)
    BY <1>1 DEF Absent
  <2> QED BY <1>1, <2>1, <2>2 DEF Goto
<1>2. CASE UNCHANGED disk /\ Exit("raised")
  BY <1>2 DEF Exit
<1>3. CASE disk[a] = Absent /\ disk' = [disk EXCEPT ![a] = Torn] /\ Exit("dead")
  <2>1. disk'[a] = Torn /\ \A b \in Artifacts : b # a => disk'[b] = disk[b]
    BY <1>3
  <2>2. disk[a].state # "whole"
    BY <1>3 DEF Absent
  <2> QED BY <1>3, <2>1, <2>2 DEF Exit
<1> QED BY <1>1, <1>2, <1>3 DEF Persist

\* The names of the artifacts, and where each of them leads.
LEMMA ArtifactNames ==
  /\ Artifacts = {"producer_blob", "producer_manifest", "producer_ref", "config_blob",
                  "initial_state", "events", "requests", "file_bindings", "usage_ledger",
                  "usage_aggregate", "sealed_artifact", "final_state", "run"}
  /\ \A a \in Artifacts : /\ After[a] = "final_state" => a = "sealed_artifact"
                          /\ After[a] = "run" => a = "final_state"
                          /\ After[a] \notin {"raised", "dead"}
  /\ After["run"] = "sealed"
  BY DEF Artifacts, After

LEMMA SealStep == ASSUME SealInv, [Next]_vars PROVE SealInv'
<1>1. CASE UNCHANGED disk /\ pc' \notin {"final_state", "run"}
  BY <1>1 DEF SealInv
<1>2. CASE UNCHANGED <<disk, pc, call>>
  BY <1>2 DEF SealInv, SealedArtifact
<1>3. CASE Construct
  <2>1. PICK body : Persist(pc, body, After[pc])
    BY <1>3 DEF Construct
  <2>2. pc \in Artifacts /\ pc \notin {"sealed_artifact", "final_state", "run"}
    BY <1>3, ArtifactNames DEF Construct
  <2>3. pc' \notin {"final_state", "run"}
    BY <2>1, <2>2, PersistKeeps, ArtifactNames DEF SealInv
  <2>4. disk'["run"] = disk["run"] /\ disk'["sealed_artifact"] = disk["sealed_artifact"]
    BY <2>1, <2>2, PersistKeeps, ArtifactNames DEF SealInv
  <2>5. disk' = [b \in Artifacts |-> disk'[b]]
    BY <2>1, <2>2, PersistKeeps DEF SealInv
  <2> QED BY <2>3, <2>4, <2>5 DEF SealInv
<1>4. CASE SealArtifact
  <2> DEFINE body == SealContent(pc)
             next == After[pc]
  <2>1. pc \in Artifacts /\ Persist(pc, body, next)
    BY <1>4, ArtifactNames DEF SealArtifact
  <2>2. /\ disk' = [b \in Artifacts |-> disk'[b]]
        /\ \A b \in Artifacts : disk[b].state = "whole" => disk'[b] = disk[b]
        /\ \A b \in Artifacts : b # pc => disk'[b] = disk[b]
        /\ pc' \in {next, "raised", "dead"}
        /\ pc' = next => disk'[pc] = Whole(body) /\ UNCHANGED call
        /\ disk'[pc] # disk[pc] => disk'[pc] = Torn \/ (disk'[pc] = Whole(body) /\ pc' = next)
    <3> HIDE DEF body, next
    <3>1. next \notin {"raised", "dead"}
      BY <2>1, ArtifactNames DEF next
    <3> QED BY <2>1, <3>1, PersistKeeps DEF SealInv
  <2>3. ASSUME pc' \in {"final_state", "run"}
        PROVE  disk'["sealed_artifact"] = Whole(SealedArtifact)'
    <3>1. /\ pc' = next /\ UNCHANGED call
          /\ pc = "sealed_artifact" \/ pc = "final_state"
      BY <2>1, <2>2, <2>3, ArtifactNames
    <3>2. CASE pc = "sealed_artifact"
      <4>1. body = SealedArtifact
        BY <3>2 DEF SealContent
      <4> QED BY <2>2, <3>1, <3>2, <4>1 DEF SealedArtifact, Whole
    <3>3. CASE pc = "final_state"
      BY <2>2, <3>1, <3>3, ArtifactNames DEF SealInv, SealedArtifact, Whole
    <3> QED BY <3>1, <3>2, <3>3
  <2>4. ASSUME disk'["run"].state = "whole"
        PROVE  disk'["sealed_artifact"] = Whole(disk'["run"].body.sealed)
    <3>1. CASE disk'["run"] = disk["run"]
      <4>1. disk["sealed_artifact"] = Whole(disk["run"].body.sealed)
        BY <2>4, <3>1 DEF SealInv
      <4>2. disk["sealed_artifact"].state = "whole"
        BY <4>1 DEF Whole
      <4> QED BY <2>2, <3>1, <4>1, <4>2, ArtifactNames
    <3>2. CASE disk'["run"] # disk["run"]
      <4>1. pc = "run"
        BY <2>2, <3>2, ArtifactNames
      <4>2. disk'["run"] = Whole(body)
        BY <2>2, <2>4, <3>2, <4>1 DEF Torn
      <4>3. body.sealed = SealedArtifact
        BY <4>1 DEF SealContent
      <4>4. disk'["run"].body.sealed = SealedArtifact
        BY <4>2, <4>3 DEF Whole
      <4>5. disk'["sealed_artifact"] = disk["sealed_artifact"]
        BY <2>2, <4>1, ArtifactNames
      <4> QED BY <4>1, <4>4, <4>5 DEF SealInv
    <3> QED BY <3>1, <3>2
  <2> QED BY <2>2, <2>3, <2>4 DEF SealInv
<1> QED BY <1>1, <1>2, <1>3, <1>4, DiskFrame

LEMMA InitSealInv == Init => SealInv
<1> SUFFICES ASSUME Init PROVE SealInv
  OBVIOUS
<1>1. disk = [a \in Artifacts |-> disk[a]] /\ pc = "off"
  BY DEF Init
<1>2. disk["run"] = Absent
  BY ArtifactNames DEF Init
<1> QED BY <1>1, <1>2 DEF SealInv, Absent

\* A PASS of audit_run tells what the provider received and answered and what was
\* sealed, after any history of kills, restarts, caught exceptions and foreign writes.
THEOREM PassIsTrue == Spec => []PassTellsTheTruth
<1>1. ASSUME SendInv, SealInv, AuditPasses PROVE
        /\ \A a \in Artifacts : IsWhole(a)
        /\ SnapshotIds = {n \in Attempts : sent[n] # <<>>}
        /\ \A e \in EventsOf({"response", "provider_failure"}) : sent[e.data.attempt] = <<e.data.reply>>
        /\ disk["sealed_artifact"].body.bodies = disk["final_state"].body.tree
        /\ disk["usage_aggregate"].body.complete => \A n \in SnapshotIds : sent[n][1].usage = "all"
  <2> DEFINE terminals == EventsOf({"response", "provider_failure"})
  <2>1. /\ AuditReadable /\ AuditRepositoryStates /\ AuditAttempts /\ AuditTerminals
        /\ AuditUsageLedger
    BY <1>1 DEF AuditPasses
  <2>2. disk["sealed_artifact"] = Whole(disk["run"].body.sealed)
    BY <1>1, <2>1, ArtifactNames DEF AuditReadable, IsWhole, SealInv
  <2>3. \A a \in Artifacts : IsWhole(a)
    BY <2>1, <2>2 DEF AuditReadable, IsWhole, Whole
  <2>4. disk["sealed_artifact"].body.bodies = disk["final_state"].body.tree
    BY <2>1, <2>2 DEF AuditRepositoryStates, Whole
  <2>5. /\ SnapshotIds = {e.data.attempt : e \in terminals} /\ SnapshotIds = PhysicalIds
        /\ \A n \in PhysicalIds : physical[n].terminal # Absent
    BY <2>1 DEF AuditAttempts
  <2>6. PhysicalIds = {n \in Attempts : sent[n] # <<>>}
    <3>1. \A n \in PhysicalIds : n \in Attempts /\ sent[n] # <<>>
      BY <1>1, <2>5 DEF PhysicalIds, SendInv, ExchangeInv
    <3>2. \A n \in Attempts : sent[n] # <<>> => physical[n].entered # Absent
      BY <1>1 DEF SendInv, ExchangeInv, Absent
    <3> QED BY <3>1, <3>2 DEF PhysicalIds
  <2>7. \A e \in terminals : e.data.attempt \in Attempts
    BY <2>5, <2>6
  <2>8. \A e \in terminals : sent[e.data.attempt] = <<e.data.reply>>
    <3> SUFFICES ASSUME NEW e \in terminals PROVE sent[e.data.attempt] = <<e.data.reply>>
      OBVIOUS
    <3>1. physical[e.data.attempt].terminal = Whole(<<e.data.reply>>)
      BY <2>1 DEF AuditTerminals
    <3> QED BY <1>1, <2>7, <3>1 DEF SendInv, ExchangeInv, Whole
  <2>9. ASSUME disk["usage_aggregate"].body.complete, NEW n \in SnapshotIds
        PROVE  sent[n][1].usage = "all"
    <3>1. \A e \in terminals : e.data.reply.usage = "all"
      BY <2>1, <2>9 DEF AuditUsageLedger
    <3>2. PICK e \in terminals : e.data.attempt = n
      BY <2>5
    <3> QED BY <2>8, <3>1, <3>2
  <2> QED BY <2>3, <2>4, <2>5, <2>6, <2>8, <2>9
<1>2. SendInv /\ SealInv => PassTellsTheTruth
  BY <1>1 DEF PassTellsTheTruth
<1>3. SealInv /\ [Next]_vars => SealInv'
  BY SealStep
<1> QED BY <1>2, <1>3, InitSendInv, NextSendInv, InitSealInv, PTL DEF Spec

\* A run that passes keeps its sealed record: only a new record of an attempt or of
\* a view can take the verdict away (_write_once, RunSealedError).
THEOREM VerdictsAreStable == Spec => VerdictIsStable
<1>1. ASSUME SealInv, AuditPasses, [Next]_vars PROVE UNCHANGED disk
  <2>1. \A a \in Artifacts : disk[a].state = "whole"
    <3>1. disk["run"].state = "whole" /\ \A a \in Artifacts \ {"sealed_artifact"} : IsWhole(a)
      BY <1>1, ArtifactNames DEF AuditPasses, AuditReadable, IsWhole
    <3> QED BY <1>1, <3>1 DEF SealInv, IsWhole, Whole
  <2>2. ASSUME NEW a \in Artifacts, NEW body, NEW next, Persist(a, body, next)
        PROVE  UNCHANGED disk
    <3>1. \A b \in Artifacts : disk'[b] = disk[b]
      BY <1>1, <2>1, <2>2, PersistKeeps DEF SealInv
    <3>2. disk' = [b \in Artifacts |-> disk'[b]] /\ disk = [b \in Artifacts |-> disk[b]]
      BY <1>1, <2>2, PersistKeeps DEF SealInv
    <3> QED BY <3>1, <3>2
  <2>3. CASE Construct
    <3>1. pc \in Artifacts /\ \E body : Persist(pc, body, After[pc])
      BY <2>3, ArtifactNames DEF Construct
    <3> QED BY <2>2, <3>1
  <2>4. CASE SealArtifact
    <3>1. pc \in Artifacts /\ \E body : Persist(pc, body, After[pc])
      BY <2>4, ArtifactNames DEF SealArtifact
    <3> QED BY <2>2, <3>1
  <2> QED BY <1>1, <2>3, <2>4, DiskFrame
<1>2. UNCHANGED <<disk, physical, views>> => AuditPasses' = AuditPasses
  BY DEF AuditPasses, AuditReadable, AuditRepositoryStates, AuditEvents, AuditAttempts,
     AuditTerminals, AuditContext, AuditFileBindings, AuditViews, AuditUsageLedger, IsWhole,
     Events, Snapshots, EventsOf, SnapshotIds, PhysicalIds
<1>3. SealInv /\ [Next]_vars =>
        [AuditPasses => AuditPasses' \/ physical' # physical \/ views' # views]_vars
  BY <1>1, <1>2
<1>4. SealInv /\ [Next]_vars => SealInv'
  BY SealStep
<1> QED BY <1>3, <1>4, InitSealInv, PTL DEF Spec, VerdictIsStable

-----------------------------------------------------------------------------
(* The journals: what a step adds to them, and what memory holds of them.  *)

IsSequence(s) == \E S : s \in Seq(S)

LEMMA SequenceFacts ==
  ASSUME NEW s, IsSequence(s)
  PROVE  Len(s) \in Nat /\ DOMAIN s = 1..Len(s)
  BY DEF IsSequence

LEMMA AppendFacts ==
  ASSUME NEW s, IsSequence(s), NEW x
  PROVE  /\ IsSequence(Append(s, x)) /\ Len(Append(s, x)) = Len(s) + 1
         /\ DOMAIN Append(s, x) = 1..(Len(s) + 1)
         /\ \A i \in DOMAIN s : i \in DOMAIN Append(s, x) /\ Append(s, x)[i] = s[i]
         /\ Append(s, x)[Len(s) + 1] = x
         /\ Range(Append(s, x)) = Range(s) \cup {x}
<1>1. PICK S : s \in Seq(S)
  BY DEF IsSequence
<1> DEFINE T == S \cup {x}
           t == Append(s, x)
<1>2. s \in Seq(T) /\ x \in T
  BY <1>1
<1>3. t \in Seq(T) /\ Len(t) = Len(s) + 1 /\ Len(s) \in Nat
  BY <1>2
<1>4. DOMAIN t = 1..(Len(s) + 1) /\ DOMAIN s = 1..Len(s)
  BY <1>2, <1>3
<1>5. \A i \in DOMAIN s : i \in DOMAIN t /\ t[i] = s[i]
  BY <1>2, <1>3, <1>4
<1>6. t[Len(s) + 1] = x
  BY <1>2
<1>7. Range(t) = Range(s) \cup {x}
  <2>1. ASSUME NEW y \in Range(t) PROVE y \in Range(s) \cup {x}
    <3>1. PICK i \in 1..(Len(s) + 1) : y = t[i]
      BY <1>4 DEF Range
    <3>2. i \in DOMAIN s \/ i = Len(s) + 1
      BY <1>3, <1>4
    <3> QED BY <1>5, <1>6, <3>1, <3>2 DEF Range
  <2>2. Range(s) \subseteq Range(t)
    BY <1>5 DEF Range
  <2>3. x \in Range(t)
    BY <1>3, <1>4, <1>6 DEF Range
  <2> QED BY <2>1, <2>2, <2>3
<1> QED BY <1>3, <1>4, <1>5, <1>6, <1>7 DEF IsSequence

LEMMA EmptyFacts == IsSequence(<<>>) /\ Range(<<>>) = {} /\ DOMAIN <<>> = {}
<1>1. <<>> \in Seq({})
  OBVIOUS
<1> QED BY <1>1 DEF IsSequence, Range

Alive == pc \notin Ended
\* The attempt is consumed and its request event not yet journalled.
Pending == {"transport", "terminal", "snapshot", "request_event"}
\* Here the attempt in progress has its whole terminal record.
Answered == {"snapshot", "request_event", "terminal_event"}

SameMemory ==
  /\ rt'.seq = rt.seq /\ rt'.events = rt.events /\ rt'.tools = rt.tools
  /\ rt'.messages = rt.messages /\ rt'.snapshots = rt.snapshots
Forgets == pc' \in {"raised", "dead"} /\ rt' = NewRuntime

\* A step that journals nothing.
Silent ==
  /\ UNCHANGED <<journal, requestsJournal, starts>>
  /\ \/ Forgets
     \/ /\ SameMemory /\ (Alive' => Alive)
        /\ rt'.attempts \in {rt.attempts, rt.attempts + 1}
        /\ pc' \in Pending => rt'.attempts = rt.attempts + 1 \/ (pc \in Pending /\ UNCHANGED rt)
        /\ pc' \in {"request_event", "terminal_event", "tool_run"} => UNCHANGED <<pc, rt, call>>
        /\ pc' = "tool_finish" => pc \in {"tool_run", "tool_finish"}
        /\ pc' = "snapshot" => UNCHANGED <<pc, rt, call>> \/ (pc = "terminal" /\ Terminal)

\* A step that journals the event e.
Records(e) ==
  /\ Alive
  /\ journal' = Append(journal, e) /\ UNCHANGED <<requestsJournal, starts, views>>
  /\ e.start = starts /\ e.seq \in {rt.seq, rt.seq + 1}
  /\ e.kind = "request" => pc = "request_event" /\ pc' = "terminal_event" /\ e.data.attempt = Current
  /\ e.kind \in {"response", "provider_failure"} =>
       pc = "terminal_event" /\ e.data.attempt = Current /\ e.data.reply = call.reply
  /\ e.kind = "tool_finish" => pc \in {"tool_run", "tool_finish"} /\ e.call = CurrentTool
  /\ \/ Forgets
     \/ /\ rt'.seq = e.seq + 1 /\ rt'.events = Append(rt.events, e)
        /\ rt'.snapshots = rt.snapshots /\ rt'.attempts = rt.attempts
        /\ rt'.tools \in {rt.tools, rt.tools + 1}
        /\ \/ rt'.messages = rt.messages
           \/ \E m : rt'.messages = Append(rt.messages, m) /\ m.origin = e.seq /\ e.done
        /\ pc' \notin Pending
        /\ pc' = "terminal_event" => e.kind = "request" /\ UNCHANGED call
        /\ pc' = "tool_run" => /\ e.kind = "tool_start" /\ e.call = rt.tools
                               /\ rt'.tools = rt.tools + 1
        /\ pc' # "tool_finish"

LEMMA RecordedFields ==
  ASSUME IsRuntime(rt), NEW e
  PROVE  /\ IsRuntime(Recorded(e))
         /\ Recorded(e).seq = e.seq + 1 /\ Recorded(e).events = Append(rt.events, e)
         /\ Recorded(e).attempts = rt.attempts /\ Recorded(e).tools = rt.tools
         /\ Recorded(e).messages = rt.messages /\ Recorded(e).snapshots = rt.snapshots
  BY DEF IsRuntime, Recorded, RuntimeFields

LEMMA ExitForgets ==
  ASSUME NEW how \in {"raised", "dead"}, Exit(how)
  PROVE  Forgets
  BY DEF Exit, Forgets

\* _write_once of an artifact.
LEMMA PersistIsSilent ==
  ASSUME SendTyped, NEW a, NEW body, NEW next, Persist(a, body, next), Alive,
         next \notin Pending \cup {"terminal_event", "tool_run", "tool_finish"}
  PROVE  Silent
<1>1. UNCHANGED <<journal, requestsJournal, starts>>
  BY DEF Persist, worldVars
<1>2. CASE Goto(next)
  BY <1>1, <1>2 DEF Goto, Silent, SameMemory, SendTyped, Pending
<1>3. CASE Exit("raised") \/ Exit("dead")
  BY <1>1, <1>3, ExitForgets DEF Silent
<1> QED BY <1>2, <1>3 DEF Persist

\* An exception that journals nothing.
LEMMA RaiseIsSilent ==
  ASSUME NEW r, Raise(r), Alive, UNCHANGED <<journal, requestsJournal, starts>>,
         IsRuntime(r), r.seq = rt.seq, r.events = rt.events, r.tools = rt.tools,
         r.messages = rt.messages, r.snapshots = rt.snapshots,
         r.attempts \in {rt.attempts, rt.attempts + 1}
  PROVE  Silent
<1>1. CASE Exit("raised")
  BY <1>1, ExitForgets DEF Silent
<1>2. CASE pc' = "loop" /\ rt' = [r EXCEPT !.caught = TRUE]
  <2>1. SameMemory /\ rt'.attempts = r.attempts
    BY <1>2 DEF IsRuntime, RuntimeFields, SameMemory
  <2> QED BY <1>2, <2>1 DEF Silent, Pending
<1> QED BY <1>1, <1>2 DEF Raise

\* An exception after the event e was journalled.
LEMMA RaiseRecords ==
  ASSUME SendTyped, NEW e, Journalled(e), Raise(Recorded(e)), UNCHANGED starts,
         pc \in {"tool_run", "tool_finish"}, e.start = starts, e.seq \in {rt.seq, rt.seq + 1},
         e.kind = "tool_finish", e.call = CurrentTool
  PROVE  Records(e)
<1>1. /\ Alive /\ journal' = Append(journal, e) /\ UNCHANGED <<requestsJournal, views>>
  BY DEF Alive, Ended, Journalled
<1>2. CASE Exit("raised")
  BY <1>1, <1>2, ExitForgets DEF Records
<1>3. CASE pc' = "loop" /\ rt' = [Recorded(e) EXCEPT !.caught = TRUE]
  <2>1. IsRuntime(Recorded(e))
    BY RecordedFields DEF SendTyped
  <2>2. /\ rt'.seq = Recorded(e).seq /\ rt'.events = Recorded(e).events
        /\ rt'.snapshots = Recorded(e).snapshots /\ rt'.attempts = Recorded(e).attempts
        /\ rt'.tools = Recorded(e).tools /\ rt'.messages = Recorded(e).messages
    BY <1>3, <2>1 DEF IsRuntime, RuntimeFields
  <2>3. /\ rt'.seq = e.seq + 1 /\ rt'.events = Append(rt.events, e)
        /\ rt'.snapshots = rt.snapshots /\ rt'.attempts = rt.attempts
        /\ rt'.tools = rt.tools /\ rt'.messages = rt.messages
    BY <2>2, RecordedFields DEF SendTyped
  <2> QED BY <1>1, <1>3, <2>3 DEF Records, Pending
<1> QED BY <1>2, <1>3 DEF Raise

\* send_request and the provider boundary.
LEMMA SendMemory ==
  ASSUME SendTyped, Enter \/ Transport \/ Terminal \/ RequestEvent \/ TerminalEvent
  PROVE  Silent \/ \E e : Records(e)
<1> USE DEF worldVars
<1>0. Alive
  BY DEF Alive, Ended, Enter, Transport, Terminal, RequestEvent, TerminalEvent
<1>1. CASE Enter
  <2> DEFINE consumed == [rt EXCEPT !.attempts = @ + 1]
  <2>1. /\ IsRuntime(consumed) /\ consumed.attempts = rt.attempts + 1
        /\ consumed.seq = rt.seq /\ consumed.events = rt.events /\ consumed.tools = rt.tools
        /\ consumed.messages = rt.messages /\ consumed.snapshots = rt.snapshots
    BY DEF SendTyped, IsRuntime, RuntimeFields
  <2>2. UNCHANGED <<journal, requestsJournal, starts>>
    BY <1>1 DEF Enter, PersistAttempt
  <2>3. CASE Raise(consumed)
    <3> HIDE DEF consumed
    <3> QED BY <1>0, <2>1, <2>2, <2>3, RaiseIsSilent
  <2>4. CASE Exit("dead")
    BY <2>2, <2>4, ExitForgets DEF Silent
  <2>5. CASE rt' = consumed /\ pc' = "transport"
    <3> HIDE DEF consumed
    <3> QED BY <1>0, <2>1, <2>2, <2>5 DEF Silent, SameMemory, Pending
  <2> QED BY <1>1, <2>3, <2>4, <2>5 DEF Enter, PersistAttempt
<1>2. CASE Transport
  BY <1>0, <1>2 DEF Transport, storeVars, Silent, SameMemory, Pending, SendTyped
<1>3. CASE Terminal
  <2>2. UNCHANGED <<journal, requestsJournal, starts>> /\ pc = "terminal"
    BY <1>3 DEF Terminal, PersistAttempt
  <2>3. CASE Raise(rt)
    BY <1>0, <2>2, <2>3, RaiseIsSilent DEF SendTyped
  <2>4. CASE Exit("dead")
    BY <2>2, <2>4, ExitForgets DEF Silent
  <2>5. CASE Goto("snapshot")
    BY <1>0, <1>3, <2>2, <2>5 DEF Goto, Silent, SameMemory, Pending
  <2> QED BY <1>3, <2>3, <2>4, <2>5 DEF Terminal, PersistAttempt
<1>4. CASE RequestEvent
  <2> DEFINE e == EventAt(rt.seq, "request", Current, TRUE, [attempt |-> Current])
  <2>1. /\ pc = "request_event" /\ pc' = "terminal_event" /\ rt' = Recorded(e) /\ Journalled(e)
        /\ UNCHANGED <<call, starts>>
    BY <1>4 DEF RequestEvent
  <2>2. e.seq = rt.seq /\ e.kind = "request" /\ e.start = starts /\ e.data.attempt = Current
    BY DEF EventAt
  <2> HIDE DEF e
  <2>3. Records(e)
    BY <1>0, <2>1, <2>2, RecordedFields DEF Records, Journalled, Pending, SendTyped
  <2> QED BY <2>3
<1>5. CASE TerminalEvent
  <2> DEFINE r == call.reply
             e == EventAt(rt.seq, IF r.failed THEN "provider_failure" ELSE "response",
                          Current, TRUE, [attempt |-> Current, reply |-> r])
  <2>1. /\ pc = "terminal_event" /\ pc' \in {"loop", "tool_start", "run_stop"}
        /\ rt' = (IF r.text = "none" THEN Recorded(e)
                  ELSE [Recorded(e) EXCEPT !.messages = Append(@, AssistantMessage(e))])
        /\ Journalled(e) /\ UNCHANGED starts
    BY <1>5 DEF TerminalEvent
  <2>2. /\ e.seq = rt.seq /\ e.kind \in {"response", "provider_failure"} /\ e.start = starts
        /\ e.data.attempt = Current /\ e.data.reply = r /\ e.done
    BY DEF EventAt
  <2> HIDE DEF e
  <2>3. IsRuntime(Recorded(e)) /\ Recorded(e).messages = rt.messages
    BY RecordedFields DEF SendTyped
  <2>4. /\ rt'.seq = Recorded(e).seq /\ rt'.events = Recorded(e).events
        /\ rt'.snapshots = Recorded(e).snapshots /\ rt'.attempts = Recorded(e).attempts
        /\ rt'.tools = Recorded(e).tools
        /\ rt'.messages = Recorded(e).messages
             \/ rt'.messages = Append(Recorded(e).messages, AssistantMessage(e))
    BY <2>1, <2>3 DEF IsRuntime, RuntimeFields
  <2>5. AssistantMessage(e).origin = e.seq
    BY DEF AssistantMessage
  <2>6. rt'.messages = rt.messages
          \/ \E m : rt'.messages = Append(rt.messages, m) /\ m.origin = e.seq /\ e.done
    BY <2>2, <2>3, <2>4, <2>5
  <2>7. /\ rt'.seq = e.seq + 1 /\ rt'.events = Append(rt.events, e)
        /\ rt'.snapshots = rt.snapshots /\ rt'.attempts = rt.attempts
        /\ rt'.tools = rt.tools
    BY <2>4, RecordedFields DEF SendTyped
  <2>8. Records(e)
    BY <1>0, <2>1, <2>2, <2>6, <2>7 DEF Records, Journalled, Pending
  <2> QED BY <2>8
<1> QED BY <1>1, <1>2, <1>3, <1>4, <1>5

\* The tools.
LEMMA ToolMemory == ASSUME SendTyped, rt.seq \in Nat, Tool PROVE Silent \/ \E e : Records(e)
<1> USE DEF worldVars
<1>0. Alive
  BY DEF Alive, Ended, Tool, ToolStart, FileTool, RunTest, ToolFinish, ToolFinishFails
<1>1. ASSUME NEW skipped \in {0, 1}, ErrorFinish(skipped), UNCHANGED starts,
             pc \in {"tool_run", "tool_finish"}
      PROVE  \E e : Records(e)
  <2> DEFINE e == EventAt(rt.seq + skipped, "tool_finish", CurrentTool, TRUE,
                          [tool |-> call.tool, complete |-> FALSE])
  <2>1. Journalled(e) /\ Raise(Recorded(e))
    BY <1>1 DEF ErrorFinish
  <2>2. /\ e.seq = rt.seq + skipped /\ e.kind = "tool_finish" /\ e.start = starts
        /\ e.call = CurrentTool
    BY DEF EventAt
  <2> HIDE DEF e
  <2>3. e.seq \in {rt.seq, rt.seq + 1}
    BY <1>1, <2>2
  <2>4. Records(e)
    BY <1>1, <2>1, <2>2, <2>3, RaiseRecords
  <2> QED BY <2>4
<1>2. CASE ToolStart
  <2> DEFINE e == EventAt(rt.seq, "tool_start", rt.tools, FALSE, [tool |-> call'.tool])
  <2>1. /\ rt' = [Recorded(e) EXCEPT !.tools = @ + 1] /\ Journalled(e)
        /\ pc' = "tool_run" /\ UNCHANGED starts
    BY <1>2 DEF ToolStart
  <2>2. e.seq = rt.seq /\ e.kind = "tool_start" /\ e.start = starts /\ e.call = rt.tools
    BY DEF EventAt
  <2> HIDE DEF e
  <2>3. IsRuntime(Recorded(e)) /\ Recorded(e).tools = rt.tools
    BY RecordedFields DEF SendTyped
  <2>4. /\ rt'.seq = Recorded(e).seq /\ rt'.events = Recorded(e).events
        /\ rt'.snapshots = Recorded(e).snapshots /\ rt'.attempts = Recorded(e).attempts
        /\ rt'.tools = Recorded(e).tools + 1 /\ rt'.messages = Recorded(e).messages
    BY <2>1, <2>3 DEF IsRuntime, RuntimeFields
  <2>5. /\ rt'.seq = e.seq + 1 /\ rt'.events = Append(rt.events, e)
        /\ rt'.snapshots = rt.snapshots /\ rt'.attempts = rt.attempts
        /\ rt'.tools = rt.tools + 1 /\ rt'.messages = rt.messages
    BY <2>3, <2>4, RecordedFields DEF SendTyped
  <2>6. Records(e)
    BY <1>0, <2>1, <2>2, <2>5 DEF Records, Journalled, Pending
  <2> QED BY <2>6
<1>3. CASE FileTool
  <2>1. CASE ErrorFinish(0)
    BY <1>1, <1>3, <2>1 DEF FileTool
  <2>2. CASE (ReadFile \/ WriteFile) /\ pc' = "tool_finish" /\ UNCHANGED <<driver, rt, storeVars>>
    BY <1>0, <1>3, <2>2 DEF FileTool, storeVars, Silent, SameMemory, Pending
  <2> QED BY <1>3, <2>1, <2>2 DEF FileTool
<1>4. CASE RunTest
  <2>1. CASE Raise(rt)
    BY <1>0, <1>4, <2>1, RaiseIsSilent DEF RunTest, storeVars, SendTyped
  <2>2. CASE pc' = "tool_finish" /\ UNCHANGED rt
    BY <1>0, <1>4, <2>2 DEF RunTest, storeVars, Silent, SameMemory, Pending
  <2> QED BY <1>4, <2>1, <2>2 DEF RunTest
<1>5. CASE ToolFinish
  <2> DEFINE e == EventAt(rt.seq, "tool_finish", CurrentTool, TRUE,
                          [tool |-> call.tool, complete |-> TRUE, body |-> call.body])
  <2>1. PICK b, c :
          /\ rt' = [Recorded(e) EXCEPT !.messages = Append(@, ToolMessage(e)),
                                       !.bindings = b, !.changed = c]
          /\ Journalled(e) /\ pc = "tool_finish" /\ pc' = "loop" /\ UNCHANGED starts
    BY <1>5 DEF ToolFinish
  <2>2. /\ e.seq = rt.seq /\ e.kind = "tool_finish" /\ e.start = starts
        /\ e.call = CurrentTool /\ e.done
    BY DEF EventAt
  <2> HIDE DEF e
  <2>3. IsRuntime(Recorded(e)) /\ Recorded(e).messages = rt.messages
    BY RecordedFields DEF SendTyped
  <2>4. /\ rt'.seq = Recorded(e).seq /\ rt'.events = Recorded(e).events
        /\ rt'.snapshots = Recorded(e).snapshots /\ rt'.attempts = Recorded(e).attempts
        /\ rt'.tools = Recorded(e).tools
        /\ rt'.messages = Append(Recorded(e).messages, ToolMessage(e))
    BY <2>1, <2>3 DEF IsRuntime, RuntimeFields
  <2>5. ToolMessage(e).origin = e.seq
    BY DEF ToolMessage
  <2>6. \E m : rt'.messages = Append(rt.messages, m) /\ m.origin = e.seq /\ e.done
    BY <2>2, <2>3, <2>4, <2>5
  <2>7. /\ rt'.seq = e.seq + 1 /\ rt'.events = Append(rt.events, e)
        /\ rt'.snapshots = rt.snapshots /\ rt'.attempts = rt.attempts
        /\ rt'.tools = rt.tools
    BY <2>4, RecordedFields DEF SendTyped
  <2>8. Records(e)
    BY <1>0, <2>1, <2>2, <2>6, <2>7 DEF Records, Journalled, Pending
  <2> QED BY <2>8
<1>6. CASE ToolFinishFails
  <2>1. CASE \E skipped \in {0, 1} : ErrorFinish(skipped)
    BY <1>1, <1>6, <2>1 DEF ToolFinishFails
  <2>2. CASE Raise(rt) /\ UNCHANGED storeVars
    BY <1>0, <1>6, <2>2, RaiseIsSilent DEF ToolFinishFails, storeVars, SendTyped
  <2> QED BY <1>6, <2>1, <2>2 DEF ToolFinishFails
<1> QED BY <1>2, <1>3, <1>4, <1>5, <1>6 DEF Tool

\* Every step starts a process, journals nothing, journals one event, or one request.
LEMMA MemoryStep ==
  ASSUME SendTyped, rt.seq \in Nat, [Next]_vars
  PROVE  Start \/ Silent \/ SnapshotRequest \/ \E e : Records(e)
<1> USE DEF worldVars
<1>1. CASE Construct \/ SealArtifact
  <2>1. PICK body : Persist(pc, body, After[pc])
    BY <1>1 DEF Construct, SealArtifact
  <2>2. Alive /\ After[pc] \notin Pending \cup {"terminal_event", "tool_run", "tool_finish"}
    BY <1>1 DEF Construct, SealArtifact, After, Alive, Ended, Pending
  <2> QED BY <2>1, <2>2, PersistIsSilent
<1>2. CASE CompareBoundFile
  <2>1. PICK b \in Range(rt.bindings) :
          LET c == ComparedWith(b)
              e == EventAt(rt.seq, "state_check", b.event, TRUE, c)
          IN rt' = [Recorded(e) EXCEPT !.checks = Append(@, c)] /\ Journalled(e)
    BY <1>2 DEF CompareBoundFile
  <2> DEFINE c == ComparedWith(b)
             e == EventAt(rt.seq, "state_check", b.event, TRUE, c)
  <2>2. /\ rt' = [Recorded(e) EXCEPT !.checks = Append(@, c)] /\ Journalled(e)
        /\ pc = "loop" /\ pc' = "loop" /\ UNCHANGED starts
    BY <1>2, <2>1 DEF CompareBoundFile
  <2>3. e.seq = rt.seq /\ e.kind = "state_check" /\ e.start = starts
    BY DEF EventAt
  <2> HIDE DEF e, c
  <2>4. IsRuntime(Recorded(e))
    BY RecordedFields DEF SendTyped
  <2>5. /\ rt'.seq = Recorded(e).seq /\ rt'.events = Recorded(e).events
        /\ rt'.snapshots = Recorded(e).snapshots /\ rt'.attempts = Recorded(e).attempts
        /\ rt'.tools = Recorded(e).tools /\ rt'.messages = Recorded(e).messages
    BY <2>2, <2>4 DEF IsRuntime, RuntimeFields
  <2>6. /\ rt'.seq = e.seq + 1 /\ rt'.events = Append(rt.events, e)
        /\ rt'.snapshots = rt.snapshots /\ rt'.attempts = rt.attempts
        /\ rt'.tools = rt.tools /\ rt'.messages = rt.messages
    BY <2>5, RecordedFields DEF SendTyped
  <2>7. Records(e)
    BY <2>2, <2>3, <2>6 DEF Records, Journalled, Pending, Alive, Ended
  <2> QED BY <2>7
<1>3. CASE PersistView
  <2>1. UNCHANGED <<journal, requestsJournal, starts>> /\ Alive
    BY <1>3 DEF PersistView, Alive, Ended
  <2>2. Goto("loop") \/ Exit("dead") \/ Raise(rt)
    BY <1>3 DEF PersistView
  <2>3. CASE Goto("loop")
    BY <2>1, <2>3 DEF Goto, Silent, SameMemory, Pending
  <2>4. CASE Exit("dead")
    BY <2>1, <2>4, ExitForgets DEF Silent
  <2>5. CASE Raise(rt)
    BY <2>1, <2>5, RaiseIsSilent DEF SendTyped
  <2> QED BY <2>2, <2>3, <2>4, <2>5
<1>4. CASE RunStop
  <2> DEFINE e == EventAt(rt.seq, "run_stop", 0, TRUE, [status |-> StopStatus])
  <2>1. /\ rt' = Recorded(e) /\ Journalled(e) /\ pc \in {"run_stop", "loop"}
        /\ pc' = "events" /\ UNCHANGED starts
    BY <1>4 DEF RunStop
  <2>2. e.seq = rt.seq /\ e.kind = "run_stop" /\ e.start = starts
    BY DEF EventAt
  <2> HIDE DEF e
  <2>3. Records(e)
    BY <2>1, <2>2, RecordedFields DEF Records, Journalled, Pending, SendTyped, Alive, Ended
  <2> QED BY <2>3
<1>5. CASE SealTree
  BY <1>5 DEF SealTree, storeVars, Silent, SameMemory, Pending, Alive, Ended
<1>6. CASE SealBodies
  <2>1. UNCHANGED <<journal, requestsJournal, starts>> /\ Alive
    BY <1>6 DEF SealBodies, storeVars, Alive, Ended
  <2>2. CASE Exit("raised")
    BY <2>1, <2>2, ExitForgets DEF Silent
  <2>3. CASE pc' = "sealed_artifact" /\ UNCHANGED rt
    BY <2>1, <2>3 DEF Silent, SameMemory, Pending
  <2> QED BY <1>6, <2>2, <2>3 DEF SealBodies
<1>7. CASE Kill
  BY <1>7, ExitForgets DEF Kill, storeVars, Silent
<1>8. CASE Foreign \/ UNCHANGED vars
  <2>1. UNCHANGED <<pc, rt, call, journal, requestsJournal, starts>>
    BY <1>8 DEF Foreign, vars, storeVars
  <2> QED BY <2>1 DEF Silent, SameMemory, Alive
<1> QED
  BY <1>1, <1>2, <1>3, <1>4, <1>5, <1>6, <1>7, <1>8, SendMemory, ToolMemory DEF Next, Send, Seal

\* What was exchanged stays, and so does a whole terminal record.
ExchangesKept ==
  \A n \in Attempts :
    /\ sent[n] # <<>> => sent'[n] = sent[n]
    /\ physical[n].terminal.state = "whole" => physical'[n].terminal = physical[n].terminal

LEMMA KeepsExchanges == ASSUME SendInv, [Next]_vars PROVE ExchangesKept
<1>1. CASE UNCHANGED <<physical, sent>>
  BY <1>1 DEF ExchangesKept
<1>2. CASE Enter
  <2>1. rt.attempts \in Attempts /\ UNCHANGED sent
    BY <1>2, BoundsAssumption DEF SendInv, SendTyped, Enter, PersistAttempt, worldVars, Attempts
  <2>2. physical' = physical \/ \E f : physical' = [physical EXCEPT ![rt.attempts]["entered"] = f]
    BY <1>2 DEF Enter, PersistAttempt
  <2>3. \A n \in Attempts : physical'[n].terminal = physical[n].terminal
    BY <2>1, <2>2 DEF SendInv, SendTyped
  <2> QED BY <2>1, <2>3 DEF ExchangesKept
<1>3. CASE Transport
  <2>1. Current \in Attempts /\ sent[Current] = <<>> /\ UNCHANGED physical
    BY <1>3 DEF SendInv, PositionInv, Transport, storeVars
  <2>2. \E x : sent' = [sent EXCEPT ![Current] = x]
    BY <1>3 DEF Transport
  <2> QED BY <2>1, <2>2 DEF ExchangesKept, SendInv, SendTyped
<1>4. CASE Terminal
  <2>1. Current \in Attempts /\ UNCHANGED sent
    BY <1>4 DEF SendInv, PositionInv, Terminal, PersistAttempt, worldVars
  <2>2. \/ physical' = physical
        \/ /\ physical[Current].terminal = Absent
           /\ \E f : physical' = [physical EXCEPT ![Current]["terminal"] = f]
    BY <1>4 DEF Terminal, PersistAttempt
  <2>3. ASSUME physical[Current].terminal = Absent, NEW f,
               physical' = [physical EXCEPT ![Current]["terminal"] = f]
        PROVE  ExchangesKept
    <3>1. physical[Current].terminal.state # "whole"
      BY <2>3 DEF Absent
    <3>2. \A n \in Attempts \ {Current} : physical'[n] = physical[n]
      BY <2>1, <2>3 DEF SendInv, SendTyped
    <3> QED BY <2>1, <3>1, <3>2 DEF ExchangesKept
  <2> QED BY <1>1, <2>1, <2>2, <2>3
<1>5. CASE SnapshotRequest \/ RequestEvent \/ TerminalEvent
  BY <1>1, <1>5, RequestIsQuiet DEF SendInv, QuietStep
<1>6. CASE Tool
  BY <1>1, <1>6, ToolIsQuiet DEF SendInv, QuietStep
<1>7. CASE Start \/ Construct \/ CompareBoundFile \/ PersistView \/ Seal \/ Kill \/ Foreign
  BY <1>1, <1>7, OtherIsQuiet DEF SendInv, QuietStep
<1>8. CASE UNCHANGED vars
  BY <1>1, <1>8 DEF vars, storeVars, worldVars
<1> QED
  BY <1>2, <1>3, <1>4, <1>5, <1>6, <1>7, <1>8 DEF Next, Send

JournalsTyped ==
  /\ IsSequence(journal) /\ IsSequence(requestsJournal)
  /\ IsSequence(rt.events) /\ IsSequence(rt.messages) /\ IsSequence(rt.snapshots)
  /\ rt.seq \in Nat /\ rt.tools \in Nat /\ starts \in Nat

LEMMA NewMemory ==
  /\ NewRuntime.seq = 0 /\ NewRuntime.tools = 0 /\ NewRuntime.attempts = 0
  /\ NewRuntime.events = <<>> /\ NewRuntime.messages = <<>> /\ NewRuntime.snapshots = <<>>
  BY DEF NewRuntime

LEMMA SnapshotFields ==
  ASSUME SendTyped, SnapshotRequest
  PROVE  \E s : /\ s.attempt = Current /\ s.cutoff = CutoffSeq /\ s.blocks = rt.messages
                /\ s.start = starts
                /\ requestsJournal' = Append(requestsJournal, s)
                /\ rt'.snapshots = Append(rt.snapshots, s)
                /\ rt'.seq = rt.seq /\ rt'.events = rt.events /\ rt'.tools = rt.tools
                /\ rt'.messages = rt.messages /\ rt'.attempts = rt.attempts
                /\ pc = "snapshot" /\ pc' = "request_event"
                /\ UNCHANGED <<call, physical, sent, journal, views, starts>>
<1> DEFINE s == [attempt |-> Current, cutoff |-> CutoffSeq, blocks |-> rt.messages,
                 start |-> starts]
<1>1. /\ s.attempt = Current /\ s.cutoff = CutoffSeq /\ s.blocks = rt.messages
      /\ s.start = starts
  OBVIOUS
<1>2. /\ requestsJournal' = Append(requestsJournal, s)
      /\ rt' = [rt EXCEPT !.usages = Append(@, call.reply.usage), !.snapshots = Append(@, s)]
      /\ pc = "snapshot" /\ pc' = "request_event"
      /\ UNCHANGED <<call, physical, sent, journal, views, starts>>
  BY DEF SnapshotRequest, worldVars
<1> HIDE DEF s
<1>3. /\ rt'.snapshots = Append(rt.snapshots, s)
      /\ rt'.seq = rt.seq /\ rt'.events = rt.events /\ rt'.tools = rt.tools
      /\ rt'.messages = rt.messages /\ rt'.attempts = rt.attempts
  BY <1>2 DEF SendTyped, IsRuntime, RuntimeFields
<1> QED BY <1>1, <1>2, <1>3

LEMMA JournalsTypedStep ==
  ASSUME SendTyped, JournalsTyped, [Next]_vars PROVE JournalsTyped'
<1> USE DEF JournalsTyped
<1>1. CASE Start
  <2>1. UNCHANGED <<journal, requestsJournal>> /\ rt' = NewRuntime /\ starts' = starts + 1
    BY <1>1 DEF Start, storeVars
  <2> QED BY <2>1, NewMemory, EmptyFacts
<1>2. CASE Silent
  <2>1. CASE Forgets
    BY <1>2, <2>1, NewMemory, EmptyFacts DEF Silent, Forgets
  <2>2. CASE SameMemory
    BY <1>2, <2>2 DEF Silent, SameMemory
  <2> QED BY <1>2, <2>1, <2>2 DEF Silent
<1>3. CASE SnapshotRequest
  <2>1. PICK s : /\ requestsJournal' = Append(requestsJournal, s)
                 /\ rt'.snapshots = Append(rt.snapshots, s)
                 /\ rt'.seq = rt.seq /\ rt'.events = rt.events /\ rt'.tools = rt.tools
                 /\ rt'.messages = rt.messages /\ UNCHANGED <<journal, starts>>
    BY <1>3, SnapshotFields
  <2>2. IsSequence(requestsJournal') /\ IsSequence(rt'.snapshots)
    BY <2>1, AppendFacts
  <2> QED BY <2>1, <2>2
<1>4. ASSUME NEW e, Records(e) PROVE JournalsTyped'
  <2>1. IsSequence(journal') /\ UNCHANGED <<requestsJournal, starts>>
    BY <1>4, AppendFacts DEF Records
  <2>2. CASE Forgets
    BY <2>1, <2>2, NewMemory, EmptyFacts DEF Forgets
  <2>3. CASE ~Forgets
    <3>1. IsSequence(rt'.messages)
      <4>1. rt'.messages = rt.messages \/ \E m : rt'.messages = Append(rt.messages, m)
        BY <1>4, <2>3 DEF Records
      <4>2. ASSUME NEW m, rt'.messages = Append(rt.messages, m) PROVE IsSequence(rt'.messages)
        BY <4>2, AppendFacts
      <4> QED BY <4>1, <4>2
    <3>2. IsSequence(rt'.events) /\ IsSequence(rt'.snapshots)
      <4>1. rt'.events = Append(rt.events, e) /\ rt'.snapshots = rt.snapshots
        BY <1>4, <2>3 DEF Records
      <4> QED BY <4>1, AppendFacts
    <3>3. rt'.seq \in Nat /\ rt'.tools \in Nat
      BY <1>4, <2>3 DEF Records
    <3> QED BY <2>1, <3>1, <3>2, <3>3
  <2> QED BY <2>2, <2>3
<1> QED BY <1>1, <1>2, <1>3, <1>4, MemoryStep

-----------------------------------------------------------------------------
(* A journalled event is backed by the evidence it stands for.             *)

Exchanged(n, r) == n \in Attempts /\ physical[n].terminal = Whole(<<r>>) /\ sent[n] = <<r>>
Snapshotted(n, start) ==
  \E j \in DOMAIN requestsJournal :
    requestsJournal[j].attempt = n /\ requestsJournal[j].start = start
ToolStarted(id, start, i) ==
  \E j \in 1..i : /\ journal[j].kind = "tool_start"
                  /\ journal[j].call = id /\ journal[j].start = start

\* The parts of JournalIsBacked for one line, and with the attempt's identity in range.
LineBacked(i) ==
  LET e == journal[i]
  IN /\ e.kind \in {"request", "response", "provider_failure"} =>
          /\ Snapshotted(e.data.attempt, e.start)
          /\ e.data.attempt \in Attempts /\ physical[e.data.attempt].terminal.state = "whole"
     /\ e.kind \in {"response", "provider_failure"} => sent[e.data.attempt] = <<e.data.reply>>
     /\ e.kind = "tool_finish" => ToolStarted(e.call, e.start, i - 1)

BackedInv ==
  /\ pc \in Answered => Exchanged(Current, call.reply)
  /\ pc \in {"request_event", "terminal_event"} => Snapshotted(Current, starts)
  /\ pc \in {"tool_run", "tool_finish"} => ToolStarted(CurrentTool, starts, Len(journal))
  /\ \A i \in DOMAIN journal : LineBacked(i)

\* Evidence only accumulates.
LEMMA BackingKept ==
  ASSUME SendInv, JournalsTyped, ExchangesKept,
         journal' = journal \/ \E e : journal' = Append(journal, e),
         requestsJournal' = requestsJournal
           \/ \E s : requestsJournal' = Append(requestsJournal, s)
  PROVE  /\ \A n, r : Exchanged(n, r) => Exchanged(n, r)'
         /\ \A n, start : Snapshotted(n, start) => Snapshotted(n, start)'
         /\ \A id, start, i : i <= Len(journal) /\ i \in Int /\ ToolStarted(id, start, i)
                                => ToolStarted(id, start, i)'
         /\ \A i \in DOMAIN journal : LineBacked(i) => LineBacked(i)'
<1>1. ASSUME NEW n, NEW r, Exchanged(n, r) PROVE Exchanged(n, r)'
  <2>1. Whole(<<r>>).state = "whole" /\ <<r>> # <<>>
    BY DEF Whole
  <2> QED BY <1>1, <2>1 DEF Exchanged, ExchangesKept
<1>2. \A j \in DOMAIN requestsJournal :
        j \in DOMAIN requestsJournal' /\ requestsJournal'[j] = requestsJournal[j]
  <2>1. ASSUME NEW s, requestsJournal' = Append(requestsJournal, s)
        PROVE  \A j \in DOMAIN requestsJournal :
                 j \in DOMAIN requestsJournal' /\ requestsJournal'[j] = requestsJournal[j]
    BY <2>1, AppendFacts DEF JournalsTyped
  <2> QED BY <2>1
<1>3. \A j \in DOMAIN journal : j \in DOMAIN journal' /\ journal'[j] = journal[j]
  <2>1. ASSUME NEW e, journal' = Append(journal, e)
        PROVE  \A j \in DOMAIN journal : j \in DOMAIN journal' /\ journal'[j] = journal[j]
    BY <2>1, AppendFacts DEF JournalsTyped
  <2> QED BY <2>1
<1>4. ASSUME NEW n, NEW start, Snapshotted(n, start) PROVE Snapshotted(n, start)'
  BY <1>2, <1>4 DEF Snapshotted
<1>5. Len(journal) \in Nat /\ DOMAIN journal = 1..Len(journal)
  BY SequenceFacts DEF JournalsTyped
<1>6. ASSUME NEW id, NEW start, NEW i \in Int, i <= Len(journal), ToolStarted(id, start, i)
      PROVE  ToolStarted(id, start, i)'
  <2>1. \A j \in 1..i : journal'[j] = journal[j]
    BY <1>3, <1>5, <1>6
  <2> QED BY <1>6, <2>1 DEF ToolStarted
<1>7. ASSUME NEW i \in DOMAIN journal, LineBacked(i) PROVE LineBacked(i)'
  <2>1. journal'[i] = journal[i] /\ i \in Int /\ i - 1 \in Int /\ i - 1 <= Len(journal)
    BY <1>3, <1>5
  <2> DEFINE e == journal[i]
             n == journal[i].data.attempt
  <2>2. ASSUME e.kind \in {"request", "response", "provider_failure"}
        PROVE  /\ Snapshotted(n, e.start)' /\ n \in Attempts
               /\ physical'[n].terminal.state = "whole"
    BY <1>4, <1>7, <2>1, <2>2 DEF LineBacked, ExchangesKept
  <2>3. ASSUME e.kind \in {"response", "provider_failure"}
        PROVE  sent'[n] = <<e.data.reply>>
    <3>1. n \in Attempts /\ sent[n] = <<e.data.reply>> /\ sent[n] # <<>>
      BY <1>7, <2>3 DEF LineBacked
    <3> QED BY <3>1 DEF ExchangesKept
  <2>4. ASSUME e.kind = "tool_finish" PROVE ToolStarted(e.call, e.start, i - 1)'
    <3>1. ToolStarted(e.call, e.start, i - 1)
      BY <1>7, <2>4 DEF LineBacked
    <3> QED BY <1>6, <2>1, <3>1
  <2> QED BY <2>1, <2>2, <2>3, <2>4 DEF LineBacked
<1> QED BY <1>1, <1>4, <1>6, <1>7

LEMMA BackedStep ==
  ASSUME SendInv, SendInv', JournalsTyped, BackedInv, [Next]_vars PROVE BackedInv'
<1> USE DEF SendInv
<1>0. ExchangesKept
  BY KeepsExchanges
<1>1. CASE Start
  <2>1. pc' = "producer_blob" /\ UNCHANGED <<journal, requestsJournal>>
    BY <1>1 DEF Start, storeVars
  <2>2. \A i \in DOMAIN journal : LineBacked(i)'
    BY <1>0, <2>1, BackingKept DEF BackedInv
  <2> QED BY <2>1, <2>2 DEF BackedInv, Answered
<1>2. CASE Silent
  <2>1. UNCHANGED <<journal, requestsJournal, starts>>
    BY <1>2 DEF Silent
  <2>2. \A i \in DOMAIN journal' : LineBacked(i)'
    BY <1>0, <2>1, BackingKept DEF BackedInv
  <2>3. CASE Forgets
    BY <2>2, <2>3 DEF BackedInv, Forgets, Answered
  <2>4. CASE ~Forgets
    <3>1. /\ SameMemory
          /\ pc' \in {"request_event", "terminal_event", "tool_run"} => UNCHANGED <<pc, rt, call>>
          /\ pc' = "tool_finish" => pc \in {"tool_run", "tool_finish"}
          /\ pc' = "snapshot" => UNCHANGED <<pc, rt, call>> \/ (pc = "terminal" /\ Terminal)
      BY <1>2, <2>4 DEF Silent
    <3>2. ASSUME pc' \in Answered PROVE Exchanged(Current, call.reply)'
      <4>1. CASE UNCHANGED <<pc, rt, call>>
        <5>1. Exchanged(Current, call.reply)
          BY <3>2, <4>1 DEF BackedInv
        <5>2. Current' = Current /\ call'.reply = call.reply
          BY <4>1 DEF Current
        <5> HIDE DEF SendInv
        <5>3. \A n, r : Exchanged(n, r) => Exchanged(n, r)'
          BY <1>0, <2>1, BackingKept
        <5> QED BY <5>1, <5>2, <5>3 DEF Exchanged
      <4>2. CASE pc' = "snapshot" /\ pc = "terminal" /\ Terminal
        <5>1. /\ Current \in Attempts /\ sent[Current] = <<call.reply>>
              /\ UNCHANGED sent
          BY <4>2 DEF PositionInv, Terminal, PersistAttempt, worldVars
        <5>2. /\ physical' = [physical EXCEPT ![Current]["terminal"] = Whole(<<call.reply>>)]
              /\ UNCHANGED <<rt, call>>
          BY <4>2 DEF Terminal, PersistAttempt, Exit, Raise, Goto
        <5>3. physical'[Current].terminal = Whole(<<call.reply>>)
          BY <5>1, <5>2 DEF SendTyped
        <5>4. Current' = Current /\ call'.reply = call.reply
          BY <5>2 DEF Current
        <5> QED BY <5>1, <5>3, <5>4 DEF Exchanged
      <4> QED BY <3>1, <3>2, <4>1, <4>2 DEF Answered
    <3>3. ASSUME pc' \in {"request_event", "terminal_event"} PROVE Snapshotted(Current, starts)'
      <4>1. Snapshotted(Current, starts) /\ Current' = Current
        BY <3>1, <3>3 DEF BackedInv, Current
      <4> QED BY <2>1, <4>1 DEF Snapshotted
    <3>4. ASSUME pc' \in {"tool_run", "tool_finish"}
          PROVE  ToolStarted(CurrentTool, starts, Len(journal))'
      <4>1. ToolStarted(CurrentTool, starts, Len(journal)) /\ CurrentTool' = CurrentTool
        BY <3>1, <3>4 DEF BackedInv, CurrentTool, SameMemory
      <4> QED BY <2>1, <4>1 DEF ToolStarted
    <3> QED BY <2>2, <3>2, <3>3, <3>4 DEF BackedInv
  <2> QED BY <2>3, <2>4
<1>3. CASE SnapshotRequest
  <2>1. PICK s : /\ s.attempt = Current /\ s.start = starts
                 /\ requestsJournal' = Append(requestsJournal, s)
                 /\ rt'.tools = rt.tools /\ rt'.attempts = rt.attempts
                 /\ pc = "snapshot" /\ pc' = "request_event"
                 /\ UNCHANGED <<call, physical, sent, journal, starts>>
    BY <1>3, SnapshotFields
  <2>2. Current' = Current
    BY <2>1 DEF Current
  <2>3. \A i \in DOMAIN journal' : LineBacked(i)'
    <3> HIDE DEF SendInv
    <3> QED BY <1>0, <2>1, BackingKept DEF BackedInv
  <2>4. Exchanged(Current, call.reply)'
    BY <2>1, <2>2 DEF BackedInv, Answered, Exchanged
  <2>5. Snapshotted(Current, starts)'
    <3>1. /\ Len(requestsJournal) + 1 \in DOMAIN requestsJournal'
          /\ requestsJournal'[Len(requestsJournal) + 1] = s
      BY <2>1, AppendFacts, SequenceFacts DEF JournalsTyped
    <3> QED BY <2>1, <2>2, <3>1 DEF Snapshotted
  <2> QED BY <2>1, <2>3, <2>4, <2>5 DEF BackedInv
<1>4. ASSUME NEW e, Records(e) PROVE BackedInv'
  <2>1. journal' = Append(journal, e) /\ UNCHANGED <<requestsJournal, starts>> /\ e.start = starts
    BY <1>4 DEF Records
  <2>0. PICK last : last = Len(journal) + 1
    OBVIOUS
  <2>2. /\ Len(journal) \in Nat /\ DOMAIN journal' = 1..last /\ DOMAIN journal = 1..Len(journal)
        /\ journal'[last] = e /\ Len(journal') = last
    BY <2>0, <2>1, AppendFacts, SequenceFacts DEF JournalsTyped
  <2>3. /\ \A n, r : Exchanged(n, r) => Exchanged(n, r)'
        /\ \A n, start : Snapshotted(n, start) => Snapshotted(n, start)'
        /\ \A id, start, i : i <= Len(journal) /\ i \in Int /\ ToolStarted(id, start, i)
                               => ToolStarted(id, start, i)'
        /\ \A i \in DOMAIN journal : LineBacked(i)'
    <3> HIDE DEF SendInv
    <3> QED BY <1>0, <2>1, BackingKept DEF BackedInv
  <2>4. LineBacked(last)'
    <3>1. ASSUME e.kind \in {"request", "response", "provider_failure"}
          PROVE  /\ Snapshotted(e.data.attempt, e.start)' /\ e.data.attempt \in Attempts
                 /\ physical'[e.data.attempt].terminal.state = "whole"
      <4>1. pc \in {"request_event", "terminal_event"} /\ e.data.attempt = Current
        BY <1>4, <3>1 DEF Records
      <4>2. Exchanged(e.data.attempt, call.reply) /\ Snapshotted(e.data.attempt, e.start)
        BY <2>1, <4>1 DEF BackedInv, Answered
      <4>3. Snapshotted(e.data.attempt, e.start)'
        BY <2>3, <4>2
      <4>4. Exchanged(e.data.attempt, call.reply)
        BY <4>2
      <4> QED BY <1>0, <4>3, <4>4 DEF Exchanged, ExchangesKept, Whole
    <3>2. ASSUME e.kind \in {"response", "provider_failure"}
          PROVE  sent'[e.data.attempt] = <<e.data.reply>>
      <4>1. pc = "terminal_event" /\ e.data.attempt = Current /\ e.data.reply = call.reply
        BY <1>4, <3>2 DEF Records
      <4>2. Exchanged(e.data.attempt, e.data.reply)
        BY <4>1 DEF BackedInv, Answered
      <4>3. sent[e.data.attempt] # <<>>
        BY <4>2 DEF Exchanged
      <4> QED BY <1>0, <4>2, <4>3 DEF Exchanged, ExchangesKept
    <3>3. ASSUME e.kind = "tool_finish" PROVE ToolStarted(e.call, e.start, last - 1)'
      <4>1. pc \in {"tool_run", "tool_finish"} /\ e.call = CurrentTool
        BY <1>4, <3>3 DEF Records
      <4>2. ToolStarted(e.call, e.start, Len(journal))
        BY <2>1, <4>1 DEF BackedInv
      <4>3. \A j \in 1..Len(journal) : journal'[j] = journal[j]
        BY <2>1, <2>2, AppendFacts DEF JournalsTyped
      <4>4. last - 1 = Len(journal)
        BY <2>0, <2>2
      <4> QED BY <2>2, <4>2, <4>3, <4>4 DEF ToolStarted
    <3> QED BY <2>2, <3>1, <3>2, <3>3 DEF LineBacked
  <2>5. \A i \in DOMAIN journal' : LineBacked(i)'
    <3>1. \A i \in DOMAIN journal' : i \in DOMAIN journal \/ i = last
      BY <2>0, <2>2
    <3> QED BY <2>3, <2>4, <3>1
  <2>6. CASE Forgets
    BY <2>5, <2>6 DEF BackedInv, Forgets, Answered
  <2>7. CASE ~Forgets
    <3>1. /\ pc' \notin Pending /\ pc' # "tool_finish" /\ rt'.attempts = rt.attempts
          /\ pc' = "terminal_event" => e.kind = "request" /\ UNCHANGED call
          /\ pc' = "tool_run" => /\ e.kind = "tool_start" /\ e.call = rt.tools
                                 /\ rt'.tools = rt.tools + 1
      BY <1>4, <2>7 DEF Records
    <3>2. ASSUME pc' \in {"terminal_event", "request_event", "snapshot"}
          PROVE  Exchanged(Current, call.reply)' /\ Snapshotted(Current, starts)'
      <4>1. e.kind = "request" /\ UNCHANGED call
        BY <3>1, <3>2 DEF Pending
      <4>2. pc = "request_event"
        BY <1>4, <4>1 DEF Records
      <4>3. Exchanged(Current, call.reply) /\ Snapshotted(Current, starts)
        BY <4>2 DEF BackedInv, Answered
      <4>4. Current' = Current
        BY <3>1 DEF Current
      <4>5. Snapshotted(Current, starts)'
        BY <2>1, <4>3, <4>4 DEF Snapshotted
      <4>6. PICK n, r : n = Current /\ r = call.reply
        OBVIOUS
      <4>7. Exchanged(n, r)'
        BY <2>3, <4>3, <4>6
      <4>8. Exchanged(Current, call.reply)'
        BY <4>1, <4>4, <4>6, <4>7 DEF Exchanged
      <4> QED BY <4>5, <4>8
    <3>3. ASSUME pc' \in {"tool_run", "tool_finish"}
          PROVE  ToolStarted(CurrentTool, starts, Len(journal))'
      <4>1. e.kind = "tool_start" /\ e.call = rt.tools /\ rt'.tools = rt.tools + 1
        BY <3>1, <3>3
      <4>2. CurrentTool' = e.call /\ last \in 1..Len(journal')
        BY <2>0, <2>2, <4>1 DEF CurrentTool, JournalsTyped
      <4> QED BY <2>1, <2>2, <4>1, <4>2 DEF ToolStarted
    <3> QED BY <2>5, <3>2, <3>3 DEF BackedInv, Answered
  <2> QED BY <2>6, <2>7
<1> QED BY <1>1, <1>2, <1>3, <1>4, MemoryStep DEF JournalsTyped

LEMMA InitJournals == Init => JournalsTyped /\ BackedInv
<1> SUFFICES ASSUME Init PROVE JournalsTyped /\ BackedInv
  OBVIOUS
<1>1. /\ journal = <<>> /\ requestsJournal = <<>> /\ rt = NewRuntime /\ starts = 0
      /\ pc = "off"
  BY DEF Init
<1> QED BY <1>1, NewMemory, EmptyFacts DEF JournalsTyped, BackedInv, Answered

\* Journals survive the process in evidence order: whatever kills or restarts the run,
\* a journalled event of an attempt has its snapshot and its terminal record, and a
\* tool finish its start (append_run_jsonl, send_request).
THEOREM JournalBacked == Spec => []JournalIsBacked
<1>1. JournalsTyped /\ BackedInv => JournalIsBacked
  <2> SUFFICES ASSUME BackedInv, NEW i \in DOMAIN journal
               PROVE  LET e == journal[i]
                      IN /\ e.kind \in {"request", "response", "provider_failure"} =>
                              /\ \E j \in DOMAIN requestsJournal :
                                   /\ requestsJournal[j].attempt = e.data.attempt
                                   /\ requestsJournal[j].start = e.start
                              /\ physical[e.data.attempt].terminal.state = "whole"
                         /\ e.kind \in {"response", "provider_failure"} =>
                              sent[e.data.attempt] = <<e.data.reply>>
                         /\ e.kind = "tool_finish" =>
                              \E j \in 1..(i - 1) :
                                /\ journal[j].kind = "tool_start"
                                /\ journal[j].call = e.call /\ journal[j].start = e.start
    BY DEF JournalIsBacked
  <2>1. LineBacked(i)
    BY DEF BackedInv
  <2> QED BY <2>1 DEF LineBacked, Snapshotted, ToolStarted
<1>2. SendInv /\ JournalsTyped /\ BackedInv /\ [Next]_vars => (JournalsTyped /\ BackedInv)'
  BY NextSendInv, JournalsTypedStep, BackedStep DEF SendInv
<1> QED BY <1>1, <1>2, InitSendInv, NextSendInv, InitJournals, PTL DEF Spec

-----------------------------------------------------------------------------
(* Requests and views carry no evidence from their own future.             *)

Available == {e.seq : e \in {x \in Range(rt.events) : x.done}}

\* Memory holds only what this process journalled, numbered below the next number, and
\* every message stems from a completed event of it.
MemoryInv ==
  /\ \A e \in Range(rt.events) :
       e \in Range(journal) /\ e.start = starts /\ e.seq \in Nat /\ e.seq < rt.seq
  /\ \E m \in Available \cup {0} : \A x \in Available : x <= m
  /\ \A b \in Range(rt.messages) : \E e \in Range(rt.events) : e.seq = b.origin /\ e.done
  /\ \A s \in Range(rt.snapshots) : s \in Range(requestsJournal) /\ s.start = starts

\* No line is from a later process; the request of the attempt in progress is not yet
\* journalled, and no snapshot of this process reaches the next number.
AgeInv ==
  /\ \A e \in Range(journal) : e.start \in Nat /\ e.start <= starts
  /\ \A s \in Range(requestsJournal) : s.start \in Nat /\ s.start <= starts
  /\ Alive => \A e \in Range(journal) :
       e.kind = "request" /\ e.start = starts =>
         /\ e.data.attempt \in Int
         /\ e.data.attempt < (IF pc \in Pending THEN Current ELSE rt.attempts)
  /\ Alive => \A s \in Range(requestsJournal) : s.start = starts =>
       \A b \in Range(s.blocks) : b.origin \in Nat /\ b.origin < rt.seq

\* The two parts of ContextIsPast, over what the journals hold.
SnapshotPast(s) ==
  /\ \A b \in Range(s.blocks) : \E e \in Range(journal) :
       e.start = s.start /\ e.seq = b.origin /\ e.done /\ e.seq <= s.cutoff
  /\ \A e \in Range(journal) :
       e.start = s.start /\ e.kind = "request" /\ e.data.attempt = s.attempt
       => \A b \in Range(s.blocks) : b.origin < e.seq
ViewPast(w) ==
  \A c \in w.view.comparisons :
    /\ c.seq <= w.view.cutoff
    /\ \E s \in Range(requestsJournal) : s.start = w.start /\ s.cutoff = w.view.cutoff

PastInv == /\ MemoryInv /\ AgeInv
           /\ \A s \in Range(requestsJournal) : SnapshotPast(s)
           /\ \A w \in views : ViewPast(w)

LEMMA MemoryInvStep ==
  ASSUME SendTyped, JournalsTyped, MemoryInv, [Next]_vars PROVE MemoryInv'
<1>0. ASSUME rt' = NewRuntime PROVE MemoryInv'
  <2>1. Range(rt'.events) = {} /\ Range(rt'.messages) = {} /\ Range(rt'.snapshots) = {}
    BY <1>0, NewMemory, EmptyFacts
  <2>2. Available' = {}
    BY <2>1 DEF Available
  <2> QED BY <2>1, <2>2 DEF MemoryInv
<1>1. CASE Start
  BY <1>0, <1>1 DEF Start
<1>2. CASE Silent
  <2>1. CASE Forgets
    BY <1>0, <2>1 DEF Forgets
  <2>2. CASE SameMemory
    <3>1. Available' = Available
      BY <2>2 DEF Available, SameMemory
    <3> QED BY <1>2, <2>2, <3>1 DEF Silent, SameMemory, MemoryInv
  <2> QED BY <1>2, <2>1, <2>2 DEF Silent
<1>3. CASE SnapshotRequest
  <2>1. PICK s : /\ s.start = starts
                 /\ requestsJournal' = Append(requestsJournal, s)
                 /\ rt'.snapshots = Append(rt.snapshots, s)
                 /\ rt'.seq = rt.seq /\ rt'.events = rt.events
                 /\ rt'.messages = rt.messages
                 /\ UNCHANGED <<journal, starts>>
    BY <1>3, SnapshotFields
  <2>2. /\ Range(requestsJournal') = Range(requestsJournal) \cup {s}
        /\ Range(rt'.snapshots) = Range(rt.snapshots) \cup {s}
    BY <2>1, AppendFacts DEF JournalsTyped
  <2>3. Available' = Available
    BY <2>1 DEF Available
  <2> QED BY <2>1, <2>2, <2>3 DEF MemoryInv
<1>4. ASSUME NEW e, Records(e) PROVE MemoryInv'
  <2>1. CASE Forgets
    BY <1>0, <2>1 DEF Forgets
  <2>2. CASE ~Forgets
    <3>1. /\ journal' = Append(journal, e) /\ UNCHANGED <<requestsJournal, starts>>
          /\ e.start = starts /\ e.seq \in {rt.seq, rt.seq + 1}
          /\ rt'.seq = e.seq + 1 /\ rt'.events = Append(rt.events, e)
          /\ rt'.snapshots = rt.snapshots
          /\ \/ rt'.messages = rt.messages
             \/ \E m : rt'.messages = Append(rt.messages, m) /\ m.origin = e.seq /\ e.done
      BY <1>4, <2>2 DEF Records
    <3>2. /\ Range(journal') = Range(journal) \cup {e}
          /\ Range(rt'.events) = Range(rt.events) \cup {e}
      BY <3>1, AppendFacts DEF JournalsTyped
    <3>3. e.seq \in Nat /\ rt.seq <= e.seq /\ rt.seq \in Nat
      BY <3>1 DEF JournalsTyped
    <3>4. \A x \in Range(rt'.events) :
            x \in Range(journal') /\ x.start = starts' /\ x.seq \in Nat /\ x.seq < rt'.seq
      BY <3>1, <3>2, <3>3 DEF MemoryInv
    <3>5. \E m \in Available' \cup {0} : \A x \in Available' : x <= m
      <4>1. CASE e.done
        <5>1. e.seq \in Available' /\ \A x \in Available' : x \in Nat /\ x <= e.seq
          BY <3>1, <3>2, <3>3, <3>4, <4>1 DEF Available
        <5> QED BY <5>1
      <4>2. CASE ~e.done
        <5>1. Available' = Available
          BY <3>2, <4>2 DEF Available
        <5> QED BY <5>1 DEF MemoryInv
      <4> QED BY <4>1, <4>2
    <3>6. \A b \in Range(rt'.messages) : \E x \in Range(rt'.events) : x.seq = b.origin /\ x.done
      <4>1. CASE rt'.messages = rt.messages
        BY <3>2, <4>1 DEF MemoryInv
      <4>2. ASSUME NEW m, rt'.messages = Append(rt.messages, m), m.origin = e.seq, e.done
            PROVE  \A b \in Range(rt'.messages) :
                     \E x \in Range(rt'.events) : x.seq = b.origin /\ x.done
        <5>1. Range(rt'.messages) = Range(rt.messages) \cup {m}
          BY <4>2, AppendFacts DEF JournalsTyped
        <5> QED BY <3>2, <4>2, <5>1 DEF MemoryInv
      <4> QED BY <3>1, <4>1, <4>2
    <3> QED BY <3>1, <3>4, <3>5, <3>6 DEF MemoryInv
  <2> QED BY <2>1, <2>2
<1> QED BY <1>1, <1>2, <1>3, <1>4, MemoryStep DEF JournalsTyped

LEMMA AgeInvStep ==
  ASSUME SendTyped, JournalsTyped, MemoryInv, AgeInv, [Next]_vars PROVE AgeInv'
<1> USE DEF AgeInv
<1>1. CASE Start
  <2>1. /\ UNCHANGED <<journal, requestsJournal>> /\ starts' = starts + 1 /\ starts \in Nat
    BY <1>1 DEF Start, storeVars, JournalsTyped
  <2> QED BY <2>1
<1>2. CASE Silent
  <2>1. UNCHANGED <<journal, requestsJournal, starts>>
    BY <1>2 DEF Silent
  <2>2. CASE Forgets
    <3>1. ~Alive'
      BY <2>2 DEF Forgets, Alive, Ended
    <3> QED BY <2>1, <3>1
  <2>3. CASE ~Forgets
    <3>1. /\ rt'.seq = rt.seq /\ (Alive' => Alive)
          /\ rt'.attempts \in {rt.attempts, rt.attempts + 1}
          /\ pc' \in Pending => rt'.attempts = rt.attempts + 1 \/ (pc \in Pending /\ UNCHANGED rt)
      BY <1>2, <2>3 DEF Silent, SameMemory
    <3>2. ASSUME Alive', NEW e \in Range(journal), e.kind = "request", e.start = starts
          PROVE  /\ e.data.attempt \in Int
                 /\ e.data.attempt < (IF pc' \in Pending THEN Current' ELSE rt'.attempts)
      <4>1. e.data.attempt \in Int /\ e.data.attempt < (IF pc \in Pending THEN Current ELSE rt.attempts)
        BY <3>1, <3>2
      <4>2. rt.attempts \in Nat
        BY DEF SendTyped
      <4>3. CASE pc' \in Pending
        BY <3>1, <4>1, <4>2, <4>3 DEF Current
      <4>4. CASE pc' \notin Pending
        BY <3>1, <4>1, <4>2, <4>4 DEF Current
      <4> QED BY <4>3, <4>4
    <3> QED BY <2>1, <3>1, <3>2
  <2> QED BY <2>2, <2>3
<1>3. CASE SnapshotRequest
  <2>1. PICK s : /\ s.start = starts /\ s.blocks = rt.messages
                 /\ requestsJournal' = Append(requestsJournal, s)
                 /\ rt'.seq = rt.seq /\ rt'.attempts = rt.attempts
                 /\ pc = "snapshot" /\ pc' = "request_event"
                 /\ UNCHANGED <<journal, starts>>
    BY <1>3, SnapshotFields
  <2>2. Range(requestsJournal') = Range(requestsJournal) \cup {s}
    BY <2>1, AppendFacts DEF JournalsTyped
  <2>3. \A b \in Range(s.blocks) : b.origin \in Nat /\ b.origin < rt.seq
    BY <2>1 DEF MemoryInv
  <2>4. /\ Current' = Current /\ Alive /\ pc \in Pending /\ pc' \in Pending /\ starts \in Nat
    BY <2>1 DEF Current, Alive, Ended, Pending, JournalsTyped
  <2> QED BY <2>1, <2>2, <2>3, <2>4
<1>4. ASSUME NEW e, Records(e) PROVE AgeInv'
  <2>1. /\ Alive /\ journal' = Append(journal, e) /\ UNCHANGED <<requestsJournal, starts>>
        /\ e.start = starts /\ starts \in Nat /\ rt.seq \in Nat /\ rt.attempts \in Nat
    BY <1>4 DEF Records, JournalsTyped, SendTyped
  <2>2. Range(journal') = Range(journal) \cup {e}
    BY <2>1, AppendFacts DEF JournalsTyped
  <2>3. CASE Forgets
    <3>1. ~Alive'
      BY <2>3 DEF Forgets, Alive, Ended
    <3> QED BY <2>1, <2>2, <3>1
  <2>4. CASE ~Forgets
    <3>1. /\ pc' \notin Pending /\ rt'.attempts = rt.attempts
          /\ rt'.seq = e.seq + 1 /\ e.seq \in {rt.seq, rt.seq + 1}
          /\ e.kind = "request" => e.data.attempt = Current
      BY <1>4, <2>4 DEF Records
    <3>2. ASSUME NEW x \in Range(journal'), x.kind = "request", x.start = starts
          PROVE  x.data.attempt \in Int /\ x.data.attempt < rt'.attempts
      <4>1. CASE x = e
        BY <2>1, <3>1, <3>2, <4>1 DEF Current
      <4>2. CASE x \in Range(journal)
        BY <2>1, <3>1, <3>2, <4>2 DEF Current
      <4> QED BY <2>2, <4>1, <4>2
    <3>3. rt.seq <= rt'.seq /\ rt'.seq \in Nat
      BY <2>1, <3>1
    <3>4. \A s \in Range(requestsJournal) : s.start = starts =>
            \A b \in Range(s.blocks) : b.origin \in Nat /\ b.origin < rt'.seq
      BY <2>1, <3>3
    <3> QED BY <2>1, <2>2, <3>1, <3>2, <3>4
  <2> QED BY <2>3, <2>4
<1> QED BY <1>1, <1>2, <1>3, <1>4, MemoryStep DEF JournalsTyped

\* The cutoff is the latest completed event.
LEMMA CutoffIsLatest ==
  ASSUME MemoryInv PROVE \A x \in Available : x <= CutoffSeq
<1>1. CutoffSeq = CHOOSE m \in Available \cup {0} : \A x \in Available : x <= m
  BY DEF CutoffSeq, Available
<1> QED BY <1>1 DEF MemoryInv

LEMMA SnapshotsPastStep ==
  ASSUME SendTyped, JournalsTyped, PastInv, [Next]_vars
  PROVE  \A s \in Range(requestsJournal') : SnapshotPast(s)'
<1> USE DEF PastInv
<1>1. CASE UNCHANGED <<journal, requestsJournal>>
  BY <1>1 DEF SnapshotPast
<1>3. CASE SnapshotRequest
  <2>1. PICK s : /\ s.attempt = Current /\ s.cutoff = CutoffSeq /\ s.blocks = rt.messages
                 /\ s.start = starts
                 /\ requestsJournal' = Append(requestsJournal, s)
                 /\ pc = "snapshot"
                 /\ UNCHANGED <<journal, starts>>
    BY <1>3, SnapshotFields
  <2>2. Range(requestsJournal') = Range(requestsJournal) \cup {s}
    BY <2>1, AppendFacts DEF JournalsTyped
  <2>3. \A x \in Range(requestsJournal) : SnapshotPast(x)'
    BY <2>1 DEF SnapshotPast
  <2>4. ASSUME NEW b \in Range(s.blocks)
        PROVE  \E e \in Range(journal) :
                 e.start = s.start /\ e.seq = b.origin /\ e.done /\ e.seq <= s.cutoff
    <3>1. PICK e \in Range(rt.events) : e.seq = b.origin /\ e.done
      BY <2>1, <2>4 DEF MemoryInv
    <3>2. e.seq \in Available
      BY <3>1 DEF Available
    <3> QED BY <2>1, <3>1, <3>2, CutoffIsLatest DEF MemoryInv
  <2>5. ASSUME NEW e \in Range(journal), e.start = s.start, e.kind = "request",
               e.data.attempt = s.attempt
        PROVE  FALSE
    <3>1. Alive /\ pc \in Pending
      BY <2>1 DEF Alive, Ended, Pending
    <3>2. e.data.attempt \in Int /\ e.data.attempt < Current
      BY <2>1, <2>5, <3>1 DEF AgeInv
    <3> QED BY <2>1, <2>5, <3>2
  <2>6. SnapshotPast(s)'
    BY <2>1, <2>4, <2>5 DEF SnapshotPast
  <2> QED BY <2>2, <2>3, <2>6
<1>4. ASSUME NEW e, Records(e)
      PROVE  \A s \in Range(requestsJournal') : SnapshotPast(s)'
  <2>1. /\ Alive /\ journal' = Append(journal, e) /\ UNCHANGED requestsJournal
        /\ e.start = starts /\ e.seq \in {rt.seq, rt.seq + 1}
    BY <1>4 DEF Records
  <2>2. Range(journal') = Range(journal) \cup {e}
    BY <2>1, AppendFacts DEF JournalsTyped
  <2> SUFFICES ASSUME NEW s \in Range(requestsJournal) PROVE SnapshotPast(s)'
    BY <2>1
  <2>3. ASSUME e.start = s.start, NEW b \in Range(s.blocks) PROVE b.origin < e.seq
    <3>1. b.origin \in Nat /\ b.origin < rt.seq
      BY <2>1, <2>3 DEF AgeInv
    <3> QED BY <2>1, <3>1 DEF JournalsTyped
  <2>4. \A b \in Range(s.blocks) : \E x \in Range(journal') :
          x.start = s.start /\ x.seq = b.origin /\ x.done /\ x.seq <= s.cutoff
    BY <2>2 DEF SnapshotPast
  <2>5. ASSUME NEW x \in Range(journal'), x.start = s.start, x.kind = "request",
               x.data.attempt = s.attempt, NEW b \in Range(s.blocks)
        PROVE  b.origin < x.seq
    <3>1. CASE x = e
      BY <2>3, <2>5, <3>1
    <3>2. CASE x \in Range(journal)
      BY <2>5, <3>2 DEF SnapshotPast
    <3> QED BY <2>2, <3>1, <3>2
  <2> QED BY <2>4, <2>5 DEF SnapshotPast
<1>5. CASE Start \/ Silent
  BY <1>1, <1>5 DEF Start, Silent, storeVars
<1> QED BY <1>3, <1>4, <1>5, MemoryStep DEF JournalsTyped

\* Only persist_view writes a view, and only one that build_view let through.
LEMMA ViewsStep ==
  ASSUME [Next]_vars
  PROVE  \/ views' = views
         \/ /\ rt.snapshots # <<>> /\ UNCHANGED <<requestsJournal, starts>>
            /\ \E w : /\ views' = views \cup {w} /\ w.start = starts
                      /\ w.view.cutoff = Last(rt.snapshots).cutoff
                      /\ \A c \in w.view.comparisons : c.seq <= w.view.cutoff
<1> USE DEF storeVars, Journalled
<1>1. CASE Start \/ Kill
  BY <1>1 DEF Start, Kill
<1>2. CASE Enter \/ Terminal
  BY <1>2 DEF Enter, Terminal, PersistAttempt
<1>3. CASE Transport \/ SnapshotRequest \/ RequestEvent \/ TerminalEvent
  BY <1>3 DEF Transport, SnapshotRequest, RequestEvent, TerminalEvent
<1>4. CASE Tool
  BY <1>4 DEF Tool, ToolStart, FileTool, RunTest, ToolFinish, ToolFinishFails, ErrorFinish
<1>5. CASE CompareBoundFile
  BY <1>5 DEF CompareBoundFile
<1>6. CASE PersistView
  <2> DEFINE s == Last(rt.snapshots)
             View(cs) == [cutoff |-> s.cutoff, blocks |-> s.blocks, comparisons |-> cs]
             Entry(state, cs) == [state |-> state, view |-> View(cs), start |-> starts]
  <2>1. rt.snapshots # <<>> /\ UNCHANGED <<requestsJournal, starts>>
    BY <1>6 DEF PersistView, worldVars
  <2>2. \/ views' = views
        \/ \E cs, state : /\ views' = views \cup {Entry(state, cs)}
                          /\ BuildView(s.blocks, cs, rt.events, s.cutoff)
    BY <1>6 DEF PersistView
  <2>3. ASSUME NEW cs, NEW state, views' = views \cup {Entry(state, cs)},
               BuildView(s.blocks, cs, rt.events, s.cutoff)
        PROVE  \E w : /\ views' = views \cup {w} /\ w.start = starts
                      /\ w.view.cutoff = Last(rt.snapshots).cutoff
                      /\ \A c \in w.view.comparisons : c.seq <= w.view.cutoff
    <3>1. \A c \in cs : c.seq <= s.cutoff
      BY <2>3 DEF BuildView, ComparisonAuthorized
    <3>2. /\ Entry(state, cs).start = starts /\ Entry(state, cs).view = View(cs)
          /\ View(cs).cutoff = s.cutoff /\ View(cs).comparisons = cs
      OBVIOUS
    <3> HIDE DEF Entry, View
    <3> QED BY <2>3, <3>1, <3>2
  <2> QED BY <2>1, <2>2, <2>3
<1>7. CASE RunStop \/ SealTree \/ SealBodies
  BY <1>7 DEF RunStop, SealTree, SealBodies
<1>8. CASE Construct \/ SealArtifact
  BY <1>8 DEF Construct, SealArtifact, Persist
<1>9. CASE Foreign \/ UNCHANGED vars
  BY <1>9 DEF Foreign, vars
<1> QED
  BY <1>1, <1>2, <1>3, <1>4, <1>5, <1>6, <1>7, <1>8, <1>9 DEF Next, Send, Seal

LEMMA ViewsPastStep ==
  ASSUME SendTyped, JournalsTyped, PastInv, [Next]_vars PROVE \A w \in views' : ViewPast(w)'
<1>1. Range(requestsJournal) \subseteq Range(requestsJournal')
  <2>1. requestsJournal' = requestsJournal
          \/ \E s : requestsJournal' = Append(requestsJournal, s)
    BY MemoryStep, SnapshotFields DEF JournalsTyped, Start, Silent, Records, storeVars
  <2>2. ASSUME NEW s, requestsJournal' = Append(requestsJournal, s)
        PROVE  Range(requestsJournal) \subseteq Range(requestsJournal')
    BY <2>2, AppendFacts DEF JournalsTyped
  <2> QED BY <2>1, <2>2
<1>2. \A w \in views : ViewPast(w)'
  BY <1>1 DEF PastInv, ViewPast
<1>3. ASSUME rt.snapshots # <<>>, UNCHANGED <<requestsJournal, starts>>,
             NEW w, w.start = starts, w.view.cutoff = Last(rt.snapshots).cutoff,
             \A c \in w.view.comparisons : c.seq <= w.view.cutoff
      PROVE  ViewPast(w)'
  <2>1. Last(rt.snapshots) \in Range(rt.snapshots)
    <3>1. Len(rt.snapshots) \in DOMAIN rt.snapshots
      BY <1>3 DEF JournalsTyped, IsSequence
    <3> QED BY <3>1 DEF Last, Range
  <2>2. Last(rt.snapshots) \in Range(requestsJournal) /\ Last(rt.snapshots).start = starts
    BY <2>1 DEF PastInv, MemoryInv
  <2> QED BY <1>3, <2>2 DEF ViewPast
<1> QED BY <1>2, <1>3, ViewsStep

LEMMA PastStep ==
  ASSUME SendTyped, JournalsTyped, PastInv, [Next]_vars PROVE PastInv'
  BY MemoryInvStep, AgeInvStep, SnapshotsPastStep, ViewsPastStep DEF PastInv

LEMMA InitPast == Init => PastInv
<1> SUFFICES ASSUME Init PROVE PastInv
  OBVIOUS
<1>1. /\ journal = <<>> /\ requestsJournal = <<>> /\ rt = NewRuntime /\ views = {}
  BY DEF Init
<1>2. /\ Range(journal) = {} /\ Range(requestsJournal) = {}
      /\ Range(rt.events) = {} /\ Range(rt.messages) = {} /\ Range(rt.snapshots) = {}
  BY <1>1, NewMemory, EmptyFacts
<1>3. Available = {}
  BY <1>2 DEF Available
<1> QED BY <1>1, <1>2, <1>3 DEF PastInv, MemoryInv, AgeInv

\* No request and no decision view carries evidence from its own future, whatever kills
\* or restarts the run and in whatever order a script calls it (context_blocks,
\* send_request, build_view).
THEOREM ContextPast == Spec => []ContextIsPast
<1>1. ASSUME JournalsTyped, PastInv PROVE ContextIsPast
  <2>1. ASSUME NEW i \in DOMAIN requestsJournal
        PROVE  LET s == requestsJournal[i]
               IN /\ \A k \in DOMAIN s.blocks : \E j \in DOMAIN journal :
                       /\ journal[j].start = s.start /\ journal[j].seq = s.blocks[k].origin
                       /\ journal[j].done /\ journal[j].seq <= s.cutoff
                  /\ \A j \in DOMAIN journal :
                       journal[j].start = s.start /\ journal[j].kind = "request"
                         /\ journal[j].data.attempt = s.attempt
                       => \A k \in DOMAIN s.blocks : s.blocks[k].origin < journal[j].seq
    <3> DEFINE s == requestsJournal[i]
    <3>1. SnapshotPast(s)
      BY <1>1 DEF PastInv, Range
    <3>2. ASSUME NEW k \in DOMAIN s.blocks
          PROVE  \E j \in DOMAIN journal :
                   /\ journal[j].start = s.start /\ journal[j].seq = s.blocks[k].origin
                   /\ journal[j].done /\ journal[j].seq <= s.cutoff
      <4>1. PICK e \in Range(journal) :
              e.start = s.start /\ e.seq = s.blocks[k].origin /\ e.done /\ e.seq <= s.cutoff
        BY <3>1, <3>2 DEF SnapshotPast, Range
      <4> QED BY <4>1 DEF Range
    <3>3. ASSUME NEW j \in DOMAIN journal, journal[j].start = s.start,
                 journal[j].kind = "request", journal[j].data.attempt = s.attempt,
                 NEW k \in DOMAIN s.blocks
          PROVE  s.blocks[k].origin < journal[j].seq
      BY <3>1, <3>3 DEF SnapshotPast, Range
    <3> QED BY <3>2, <3>3
  <2>2. \A w \in views : \A c \in w.view.comparisons :
          /\ c.seq <= w.view.cutoff
          /\ \E j \in DOMAIN requestsJournal : requestsJournal[j].start = w.start
               /\ requestsJournal[j].cutoff = w.view.cutoff
    BY <1>1 DEF PastInv, ViewPast, Range
  <2> QED BY <2>1, <2>2 DEF ContextIsPast
<1>2. SendInv /\ JournalsTyped /\ PastInv /\ [Next]_vars => (JournalsTyped /\ PastInv)'
  BY JournalsTypedStep, PastStep DEF SendInv
<1> QED BY <1>1, <1>2, InitSendInv, NextSendInv, InitJournals, InitPast, PTL DEF Spec

-----------------------------------------------------------------------------
(* A run sealed by its only process passes its audit.                      *)

\* The only process of the run is alive or has sealed, and nothing was caught.
CleanRun == starts = 1 /\ pc \notin {"off", "dead", "raised"} /\ ~rt.caught

Terminals == {"response", "provider_failure"}
InSend == Pending \cup {"terminal_event"}
InTool == {"tool_run", "tool_finish"}

SameLog ==
  /\ rt'.seq = rt.seq /\ rt'.events = rt.events /\ rt'.tools = rt.tools
  /\ rt'.messages = rt.messages /\ rt'.bindings = rt.bindings /\ rt'.checks = rt.checks
SameLedgers == rt'.snapshots = rt.snapshots /\ rt'.usages = rt.usages

\* The steps of a clean run: the three of CapturedProvider.send, ...
Enters ==
  /\ pc = "loop" /\ pc' = "transport" /\ rt.attempts < MaxAttempts
  /\ SameLog /\ SameLedgers /\ rt'.attempts = rt.attempts + 1
  /\ physical' = [physical EXCEPT ![rt.attempts]["entered"] = Whole(<<>>)]
  /\ UNCHANGED views
Waits == pc = "transport" /\ pc' = "terminal" /\ UNCHANGED <<rt, physical, views>>
Answers ==
  /\ pc = "terminal" /\ pc' = "snapshot" /\ UNCHANGED <<rt, call, views>>
  /\ physical' = [physical EXCEPT ![Current]["terminal"] = Whole(<<call.reply>>)]

\* ... the snapshot, ...
Snaps(s) ==
  /\ pc = "snapshot" /\ pc' = "request_event"
  /\ s.attempt = Current /\ s.cutoff = CutoffSeq /\ s.blocks = rt.messages
  /\ rt'.snapshots = Append(rt.snapshots, s)
  /\ rt'.usages = Append(rt.usages, call.reply.usage)
  /\ SameLog /\ rt'.attempts = rt.attempts
  /\ UNCHANGED <<call, physical, views>>

\* ... an event with what it adds to memory, ...
LogsRequest(e) ==
  /\ pc = "request_event" /\ pc' = "terminal_event" /\ UNCHANGED call
  /\ e.kind = "request" /\ e.call = Current /\ e.data.attempt = Current
  /\ rt'.tools = rt.tools /\ rt'.messages = rt.messages
  /\ rt'.bindings = rt.bindings /\ rt'.checks = rt.checks
LogsTerminal(e) ==
  /\ pc = "terminal_event" /\ pc' \in {"loop", "tool_start", "run_stop"}
  /\ e.kind \in Terminals /\ e.call = Current /\ e.data.attempt = Current
  /\ e.data.reply = call.reply /\ (e.kind = "provider_failure") = call.reply.failed
  /\ rt'.tools = rt.tools /\ rt'.bindings = rt.bindings /\ rt'.checks = rt.checks
  /\ \/ rt'.messages = rt.messages
     \/ \E m : /\ rt'.messages = Append(rt.messages, m) /\ e.kind = "response"
               /\ m.type = "assistant_response" /\ m.origin = e.seq /\ m.label = e.seq
LogsToolStart(e) ==
  /\ pc \in {"tool_start", "loop"} /\ pc' = "tool_run"
  /\ e.kind = "tool_start" /\ e.call = rt.tools
  /\ rt'.tools = rt.tools + 1 /\ rt'.messages = rt.messages
  /\ rt'.bindings = rt.bindings /\ rt'.checks = rt.checks
LogsToolFinish(e) ==
  /\ pc = "tool_finish" /\ pc' = "loop"
  /\ e.kind = "tool_finish" /\ e.call = CurrentTool /\ e.data.complete
  /\ rt'.tools = rt.tools /\ rt'.checks = rt.checks
  /\ \E m : /\ rt'.messages = Append(rt.messages, m)
            /\ m.type = "tool_result" /\ m.origin = e.seq /\ m.label = e.seq /\ m.call = e.call
  /\ \/ rt'.bindings = rt.bindings
     \/ \E b : /\ rt'.bindings = Append(rt.bindings, b)
               /\ b.event = e.seq /\ b.body = e.data.body
LogsCheck(e) ==
  /\ pc = "loop" /\ pc' = "loop"
  /\ e.kind = "state_check"
  /\ rt'.tools = rt.tools /\ rt'.messages = rt.messages /\ rt'.bindings = rt.bindings
  /\ \E c : /\ rt'.checks = Append(rt.checks, c) /\ c.seq = e.seq
            /\ e.call = c.binding.event /\ e.data = c
            /\ c.status # "unknown" => (c.status = "same") = (c.current = c.binding.body)
LogsStop(e) ==
  /\ pc \in {"run_stop", "loop"} /\ pc' = "events"
  /\ e.kind = "run_stop"
  /\ rt'.tools = rt.tools /\ rt'.messages = rt.messages
  /\ rt'.bindings = rt.bindings /\ rt'.checks = rt.checks
Logs(e) ==
  /\ e.seq = rt.seq /\ rt'.seq = rt.seq + 1 /\ rt'.events = Append(rt.events, e)
  /\ (e.kind # "tool_start" => e.done)
  /\ SameLedgers /\ rt'.attempts = rt.attempts
  /\ UNCHANGED <<physical, views>>
  /\ \/ LogsRequest(e) \/ LogsTerminal(e) \/ LogsToolStart(e) \/ LogsToolFinish(e)
     \/ LogsCheck(e) \/ LogsStop(e)

\* ... a view, ...
Shows(w) ==
  /\ pc = "loop" /\ pc' = "loop" /\ UNCHANGED <<rt, physical>>
  /\ views' = views \cup {w} /\ w.state = "whole" /\ rt.snapshots # <<>>
  /\ w.view.cutoff = Last(rt.snapshots).cutoff /\ w.view.blocks = Last(rt.snapshots).blocks
  /\ \A c \in w.view.comparisons :
       /\ c \in Range(rt.checks) /\ c.seq <= w.view.cutoff /\ c.binding.event <= w.view.cutoff
       /\ Cardinality({i \in DOMAIN w.view.blocks :
            w.view.blocks[i].bound /\ w.view.blocks[i].origin = c.binding.event}) = 1

\* ... and everything that leaves all of this alone.
Rests ==
  /\ UNCHANGED <<rt, physical, views>>
  /\ \/ UNCHANGED <<pc, call>>
     \/ pc = "tool_run" /\ pc' = "tool_finish"
     \/ pc \notin InSend \cup InTool /\ pc' \notin InSend \cup InTool

CleanStep ==
  \/ Enters \/ Waits \/ Answers \/ Rests
  \/ (\E s : Snaps(s)) \/ (\E e : Logs(e)) \/ (\E w : Shows(w))

LEMMA RecordedObject ==
  ASSUME IsRuntime(rt), NEW e
  PROVE  /\ IsRuntime(Recorded(e))
         /\ Recorded(e).seq = e.seq + 1 /\ Recorded(e).events = Append(rt.events, e)
         /\ Recorded(e).attempts = rt.attempts /\ Recorded(e).tools = rt.tools
         /\ Recorded(e).messages = rt.messages /\ Recorded(e).snapshots = rt.snapshots
         /\ Recorded(e).usages = rt.usages /\ Recorded(e).bindings = rt.bindings
         /\ Recorded(e).checks = rt.checks /\ Recorded(e).caught = rt.caught
  BY DEF IsRuntime, Recorded, RuntimeFields

\* A caught exception is remembered, an uncaught one ends the process.
LEMMA RaiseIsDirty ==
  ASSUME NEW r, IsRuntime(r), Raise(r) PROVE ~CleanRun'
<1>1. CASE Exit("raised")
  BY <1>1 DEF Exit, CleanRun
<1>2. CASE rt' = [r EXCEPT !.caught = TRUE]
  <2>1. rt'.caught = TRUE
    BY <1>2 DEF IsRuntime, RuntimeFields
  <2> QED BY <2>1 DEF CleanRun
<1> QED BY <1>1, <1>2 DEF Raise

LEMMA ExitIsDirty ==
  ASSUME NEW how \in {"raised", "dead"}, Exit(how) PROVE ~CleanRun'
  BY DEF Exit, CleanRun

LEMMA PersistRests ==
  ASSUME NEW a, NEW body, NEW next, Persist(a, body, next), CleanRun',
         pc \notin InSend \cup InTool \cup {"off", "dead", "raised"}, next \notin InSend \cup InTool
  PROVE  CleanRun /\ Rests
<1>1. Goto(next) /\ UNCHANGED <<physical, views, starts>>
  BY ExitIsDirty DEF Persist, worldVars
<1> QED BY <1>1 DEF Goto, CleanRun, Rests

LEMMA ReplyText ==
  ASSUME NEW r \in Replies PROVE r.failed \in BOOLEAN /\ (r.failed => r.text = "none")
<1>1. ASSUME NEW text, NEW usage
      PROVE  Answer(text, usage).failed = FALSE
  BY DEF Answer
<1>2. r = Failure \/ \E text, usage : r = Answer(text, usage)
  BY DEF Replies
<1>3. Failure.failed = TRUE /\ Failure.text = "none"
  BY DEF Failure
<1>4. CASE r = Failure
  BY <1>3, <1>4
<1>5. CASE \E text, usage : r = Answer(text, usage)
  BY <1>1, <1>5
<1> QED BY <1>2, <1>4, <1>5

LEMMA CleanSend ==
  ASSUME SendTyped, BackedInv, CleanRun', Send
  PROVE  CleanRun /\ CleanStep
<1> USE DEF worldVars
<1>1. CASE Enter
  <2> DEFINE consumed == [rt EXCEPT !.attempts = @ + 1]
  <2>1. /\ IsRuntime(consumed) /\ consumed.attempts = rt.attempts + 1
        /\ consumed.seq = rt.seq /\ consumed.events = rt.events /\ consumed.tools = rt.tools
        /\ consumed.messages = rt.messages /\ consumed.snapshots = rt.snapshots
        /\ consumed.usages = rt.usages /\ consumed.bindings = rt.bindings
        /\ consumed.checks = rt.checks /\ consumed.caught = rt.caught
    BY DEF SendTyped, IsRuntime, RuntimeFields
  <2>2. /\ pc = "loop" /\ rt.attempts < MaxAttempts
        /\ physical' = [physical EXCEPT ![rt.attempts]["entered"] = Whole(<<>>)]
        /\ rt' = consumed /\ pc' = "transport" /\ UNCHANGED <<views, starts>>
    <3> HIDE DEF consumed
    <3>1. ~Raise(consumed) /\ ~Exit("dead")
      BY <2>1, RaiseIsDirty, ExitIsDirty
    <3> QED BY <1>1, <3>1 DEF Enter, PersistAttempt, consumed
  <2> HIDE DEF consumed
  <2>3. Enters /\ CleanRun
    BY <2>1, <2>2 DEF Enters, SameLog, SameLedgers, CleanRun
  <2> QED BY <2>3 DEF CleanStep
<1>2. CASE Transport
  BY <1>2 DEF Transport, storeVars, CleanRun, CleanStep, Waits
<1>3. CASE Terminal
  <2>1. ~Raise(rt) /\ ~Exit("dead")
    BY RaiseIsDirty, ExitIsDirty DEF SendTyped
  <2>2. /\ pc = "terminal" /\ Goto("snapshot") /\ UNCHANGED <<views, starts>>
        /\ physical' = [physical EXCEPT ![Current]["terminal"] = Whole(<<call.reply>>)]
    BY <1>3, <2>1 DEF Terminal, PersistAttempt
  <2> QED BY <2>2 DEF Goto, CleanRun, CleanStep, Answers
<1>4. CASE SnapshotRequest
  <2> DEFINE s == [attempt |-> Current, cutoff |-> CutoffSeq, blocks |-> rt.messages,
                   start |-> starts]
  <2>1. s.attempt = Current /\ s.cutoff = CutoffSeq /\ s.blocks = rt.messages
    OBVIOUS
  <2>2. /\ rt' = [rt EXCEPT !.usages = Append(@, call.reply.usage), !.snapshots = Append(@, s)]
        /\ pc = "snapshot" /\ pc' = "request_event"
        /\ UNCHANGED <<call, physical, views, starts>>
    BY <1>4 DEF SnapshotRequest
  <2> HIDE DEF s
  <2>3. /\ rt'.snapshots = Append(rt.snapshots, s)
        /\ rt'.usages = Append(rt.usages, call.reply.usage)
        /\ SameLog /\ rt'.attempts = rt.attempts /\ rt'.caught = rt.caught
    BY <2>2 DEF SendTyped, IsRuntime, RuntimeFields, SameLog
  <2>4. Snaps(s) /\ CleanRun
    BY <2>1, <2>2, <2>3 DEF Snaps, CleanRun
  <2> QED BY <2>4 DEF CleanStep
<1>5. CASE RequestEvent
  <2> DEFINE e == EventAt(rt.seq, "request", Current, TRUE, [attempt |-> Current])
  <2>1. /\ pc = "request_event" /\ pc' = "terminal_event" /\ rt' = Recorded(e) /\ Journalled(e)
        /\ UNCHANGED <<call, starts>>
    BY <1>5 DEF RequestEvent
  <2>2. /\ e.seq = rt.seq /\ e.kind = "request" /\ e.call = Current /\ e.done
        /\ e.data.attempt = Current
    BY DEF EventAt
  <2> HIDE DEF e
  <2>3. Logs(e) /\ CleanRun
    BY <2>1, <2>2, RecordedObject
    DEF SendTyped, Logs, LogsRequest, SameLedgers, Journalled, CleanRun
  <2> QED BY <2>3 DEF CleanStep
<1>6. CASE TerminalEvent
  <2> DEFINE r == call.reply
             e == EventAt(rt.seq, IF r.failed THEN "provider_failure" ELSE "response",
                          Current, TRUE, [attempt |-> Current, reply |-> r])
  <2>1. /\ pc = "terminal_event" /\ pc' \in {"loop", "tool_start", "run_stop"}
        /\ rt' = (IF r.text = "none" THEN Recorded(e)
                  ELSE [Recorded(e) EXCEPT !.messages = Append(@, AssistantMessage(e))])
        /\ Journalled(e) /\ UNCHANGED starts
    BY <1>6 DEF TerminalEvent
  <2>2. r \in Replies
    <3>1. Current \in Attempts /\ sent[Current] = <<r>>
      BY <2>1 DEF BackedInv, Answered, Exchanged
    <3>2. sent[Current] \in Exchanges
      BY <3>1 DEF SendTyped
    <3>3. PICK q \in Replies : sent[Current] = <<q>>
      BY <3>1, <3>2 DEF Exchanges
    <3>4. r = q
      BY <3>1, <3>3
    <3> QED BY <3>4
  <2>3. r.failed \in BOOLEAN /\ (r.failed => r.text = "none")
    BY <2>2, ReplyText
  <2>4. /\ e.seq = rt.seq /\ e.kind = (IF r.failed THEN "provider_failure" ELSE "response")
        /\ e.call = Current /\ e.data.attempt = Current /\ e.data.reply = r /\ e.done
    BY DEF EventAt
  <2>5. e.kind \in Terminals /\ (e.kind = "provider_failure") = r.failed
    BY <2>3, <2>4 DEF Terminals
  <2> HIDE DEF e
  <2>6. /\ AssistantMessage(e).type = "assistant_response" /\ AssistantMessage(e).origin = e.seq
        /\ AssistantMessage(e).label = e.seq
    BY DEF AssistantMessage
  <2>7. IsRuntime(Recorded(e)) /\ Recorded(e).messages = rt.messages
    BY RecordedObject DEF SendTyped
  <2>8. /\ rt'.seq = Recorded(e).seq /\ rt'.events = Recorded(e).events
        /\ rt'.snapshots = Recorded(e).snapshots /\ rt'.attempts = Recorded(e).attempts
        /\ rt'.tools = Recorded(e).tools /\ rt'.usages = Recorded(e).usages
        /\ rt'.bindings = Recorded(e).bindings /\ rt'.checks = Recorded(e).checks
        /\ rt'.caught = Recorded(e).caught
    BY <2>1, <2>7 DEF IsRuntime, RuntimeFields
  <2>9. /\ r.text = "none" => rt'.messages = rt.messages
        /\ r.text # "none" => rt'.messages = Append(rt.messages, AssistantMessage(e))
    BY <2>1, <2>7 DEF IsRuntime, RuntimeFields
  <2>10. r.text # "none" => e.kind = "response"
    BY <2>3, <2>4
  <2>11. \/ rt'.messages = rt.messages
         \/ \E m : /\ rt'.messages = Append(rt.messages, m) /\ e.kind = "response"
                   /\ m.type = "assistant_response" /\ m.origin = e.seq /\ m.label = e.seq
    BY <2>6, <2>9, <2>10
  <2>12. /\ rt'.seq = e.seq + 1 /\ rt'.events = Append(rt.events, e)
         /\ SameLedgers /\ rt'.attempts = rt.attempts /\ rt'.tools = rt.tools
         /\ rt'.bindings = rt.bindings /\ rt'.checks = rt.checks /\ rt'.caught = rt.caught
    BY <2>8, RecordedObject DEF SendTyped, SameLedgers
  <2>13. LogsTerminal(e)
    BY <2>1, <2>4, <2>5, <2>11, <2>12 DEF LogsTerminal
  <2>14. Logs(e) /\ CleanRun
    BY <2>1, <2>4, <2>12, <2>13 DEF Logs, Journalled, CleanRun
  <2> QED BY <2>14 DEF CleanStep
<1> QED BY <1>1, <1>2, <1>3, <1>4, <1>5, <1>6 DEF Send

LEMMA CleanTool ==
  ASSUME SendTyped, CleanRun', Tool
  PROVE  CleanRun /\ CleanStep
<1> USE DEF worldVars
<1>1. CASE ToolStart
  <2> DEFINE e == EventAt(rt.seq, "tool_start", rt.tools, FALSE, [tool |-> call'.tool])
  <2>1. /\ pc \in {"tool_start", "loop"} /\ pc' = "tool_run"
        /\ rt' = [Recorded(e) EXCEPT !.tools = @ + 1] /\ Journalled(e) /\ UNCHANGED starts
    BY <1>1 DEF ToolStart
  <2>2. e.seq = rt.seq /\ e.kind = "tool_start" /\ e.call = rt.tools
    BY DEF EventAt
  <2> HIDE DEF e
  <2>3. IsRuntime(Recorded(e)) /\ Recorded(e).tools = rt.tools
    BY RecordedObject DEF SendTyped
  <2>4. /\ rt'.seq = Recorded(e).seq /\ rt'.events = Recorded(e).events
        /\ rt'.snapshots = Recorded(e).snapshots /\ rt'.attempts = Recorded(e).attempts
        /\ rt'.usages = Recorded(e).usages /\ rt'.messages = Recorded(e).messages
        /\ rt'.bindings = Recorded(e).bindings /\ rt'.checks = Recorded(e).checks
        /\ rt'.caught = Recorded(e).caught /\ rt'.tools = rt.tools + 1
    BY <2>1, <2>3 DEF IsRuntime, RuntimeFields
  <2>5. /\ rt'.seq = e.seq + 1 /\ rt'.events = Append(rt.events, e)
        /\ SameLedgers /\ rt'.attempts = rt.attempts /\ rt'.messages = rt.messages
        /\ rt'.bindings = rt.bindings /\ rt'.checks = rt.checks /\ rt'.caught = rt.caught
    BY <2>4, RecordedObject DEF SendTyped, SameLedgers
  <2>6. Logs(e) /\ CleanRun
    BY <2>1, <2>2, <2>4, <2>5 DEF Logs, LogsToolStart, Journalled, CleanRun
  <2> QED BY <2>6 DEF CleanStep
<1>2. ASSUME NEW skipped, ErrorFinish(skipped) PROVE FALSE
  <2>1. PICK e : Raise(Recorded(e))
    BY <1>2 DEF ErrorFinish
  <2> QED BY <2>1, RecordedObject, RaiseIsDirty DEF SendTyped
<1>3. ~Raise(rt)
  BY RaiseIsDirty DEF SendTyped
<1>4. CASE FileTool \/ RunTest
  BY <1>2, <1>3, <1>4 DEF FileTool, RunTest, storeVars, CleanRun, CleanStep, Rests
<1>5. CASE ToolFinish
  <2> DEFINE e == EventAt(rt.seq, "tool_finish", CurrentTool, TRUE,
                          [tool |-> call.tool, complete |-> TRUE, body |-> call.body])
             b == [event |-> e.seq, body |-> call.body]
  <2>1. /\ pc = "tool_finish" /\ pc' = "loop"
        /\ rt' = [Recorded(e) EXCEPT
                    !.messages = Append(@, ToolMessage(e)),
                    !.bindings = IF call.tool = "read_file" THEN Append(@, b) ELSE @,
                    !.changed = @ \/ call.tool = "write_file"]
        /\ Journalled(e) /\ UNCHANGED starts
    BY <1>5 DEF ToolFinish
  <2>2. /\ e.seq = rt.seq /\ e.kind = "tool_finish" /\ e.call = CurrentTool /\ e.done
        /\ e.data.complete /\ e.data.body = call.body
    BY DEF EventAt
  <2>3. b.event = e.seq /\ b.body = call.body
    OBVIOUS
  <2> HIDE DEF e, b
  <2>4. /\ ToolMessage(e).type = "tool_result" /\ ToolMessage(e).origin = e.seq
        /\ ToolMessage(e).label = e.seq /\ ToolMessage(e).call = CurrentTool
    BY DEF ToolMessage
  <2>5. /\ IsRuntime(Recorded(e)) /\ Recorded(e).messages = rt.messages
        /\ Recorded(e).bindings = rt.bindings
    BY RecordedObject DEF SendTyped
  <2>6. /\ rt'.seq = Recorded(e).seq /\ rt'.events = Recorded(e).events
        /\ rt'.snapshots = Recorded(e).snapshots /\ rt'.attempts = Recorded(e).attempts
        /\ rt'.usages = Recorded(e).usages /\ rt'.tools = Recorded(e).tools
        /\ rt'.checks = Recorded(e).checks /\ rt'.caught = Recorded(e).caught
    BY <2>1, <2>5 DEF IsRuntime, RuntimeFields
  <2>7. /\ rt'.messages = Append(rt.messages, ToolMessage(e))
        /\ rt'.bindings = rt.bindings \/ rt'.bindings = Append(rt.bindings, b)
    BY <2>1, <2>5 DEF IsRuntime, RuntimeFields
  <2>8. /\ rt'.seq = e.seq + 1 /\ rt'.events = Append(rt.events, e)
        /\ SameLedgers /\ rt'.attempts = rt.attempts /\ rt'.tools = rt.tools
        /\ rt'.checks = rt.checks /\ rt'.caught = rt.caught
    BY <2>6, RecordedObject DEF SendTyped, SameLedgers
  <2>9. \E m : /\ rt'.messages = Append(rt.messages, m)
               /\ m.type = "tool_result" /\ m.origin = e.seq /\ m.label = e.seq /\ m.call = e.call
    BY <2>2, <2>4, <2>7
  <2>10. \/ rt'.bindings = rt.bindings
         \/ \E c : /\ rt'.bindings = Append(rt.bindings, c)
                   /\ c.event = e.seq /\ c.body = e.data.body
    BY <2>2, <2>3, <2>7
  <2>11. LogsToolFinish(e)
    BY <2>1, <2>2, <2>8, <2>9, <2>10 DEF LogsToolFinish
  <2>12. Logs(e) /\ CleanRun
    BY <2>1, <2>2, <2>8, <2>11 DEF Logs, Journalled, CleanRun
  <2> QED BY <2>12 DEF CleanStep
<1>6. CASE ToolFinishFails
  BY <1>2, <1>3, <1>6 DEF ToolFinishFails
<1> QED BY <1>1, <1>4, <1>5, <1>6 DEF Tool

LEMMA CleanCheck ==
  ASSUME SendTyped, CleanRun', CompareBoundFile
  PROVE  CleanRun /\ CleanStep
<1>1. PICK b \in Range(rt.bindings) :
        LET c == ComparedWith(b)
            e == EventAt(rt.seq, "state_check", b.event, TRUE, c)
        IN rt' = [Recorded(e) EXCEPT !.checks = Append(@, c)] /\ Journalled(e)
  BY DEF CompareBoundFile
<1> DEFINE c == ComparedWith(b)
           e == EventAt(rt.seq, "state_check", b.event, TRUE, c)
<1>2. /\ rt' = [Recorded(e) EXCEPT !.checks = Append(@, c)] /\ Journalled(e)
      /\ pc = "loop" /\ pc' = "loop" /\ UNCHANGED starts
  BY <1>1 DEF CompareBoundFile, worldVars
<1>3. /\ c.seq = rt.seq /\ c.binding = b /\ c.current = file
      /\ c.status = IF file = Missing THEN "unknown"
                    ELSE IF file = b.body THEN "same" ELSE "changed"
  BY DEF ComparedWith
<1>4. e.seq = rt.seq /\ e.kind = "state_check" /\ e.call = b.event /\ e.done /\ e.data = c
  BY DEF EventAt
<1> HIDE DEF e, c
<1>5. IsRuntime(Recorded(e)) /\ Recorded(e).checks = rt.checks
  BY RecordedObject DEF SendTyped
<1>6. /\ rt'.seq = Recorded(e).seq /\ rt'.events = Recorded(e).events
      /\ rt'.snapshots = Recorded(e).snapshots /\ rt'.attempts = Recorded(e).attempts
      /\ rt'.usages = Recorded(e).usages /\ rt'.tools = Recorded(e).tools
      /\ rt'.messages = Recorded(e).messages /\ rt'.bindings = Recorded(e).bindings
      /\ rt'.caught = Recorded(e).caught
      /\ rt'.checks = Append(rt.checks, c)
  BY <1>2, <1>5 DEF IsRuntime, RuntimeFields
<1>7. /\ rt'.seq = e.seq + 1 /\ rt'.events = Append(rt.events, e)
      /\ SameLedgers /\ rt'.attempts = rt.attempts /\ rt'.tools = rt.tools
      /\ rt'.messages = rt.messages /\ rt'.bindings = rt.bindings /\ rt'.caught = rt.caught
  BY <1>6, RecordedObject DEF SendTyped, SameLedgers
<1>8. c.status # "unknown" => (c.status = "same") = (c.current = c.binding.body)
  BY <1>3
<1>9. LogsCheck(e)
  BY <1>2, <1>3, <1>4, <1>6, <1>7, <1>8 DEF LogsCheck
<1>10. Logs(e) /\ CleanRun
  BY <1>2, <1>4, <1>7, <1>9 DEF Logs, Journalled, CleanRun
<1> QED BY <1>10 DEF CleanStep

LEMMA CleanView ==
  ASSUME SendTyped, CleanRun', PersistView
  PROVE  CleanRun /\ CleanStep
<1> DEFINE s == Last(rt.snapshots)
           V(cs) == [cutoff |-> s.cutoff, blocks |-> s.blocks, comparisons |-> cs]
           W(cs) == [state |-> "whole", view |-> V(cs), start |-> starts]
<1>1. ~Raise(rt) /\ ~Exit("dead")
  BY RaiseIsDirty, ExitIsDirty DEF SendTyped
<1>2. PICK cs \in SUBSET Range(rt.checks) :
        BuildView(s.blocks, cs, rt.events, s.cutoff) /\ views' = views \cup {W(cs)} /\ Goto("loop")
  BY <1>1 DEF PersistView
<1>3. /\ pc = "loop" /\ rt.snapshots # <<>> /\ UNCHANGED <<physical, starts>>
  BY DEF PersistView, worldVars
<1>4. \A c \in cs : ComparisonAuthorized(c, s.blocks, rt.events, s.cutoff)
  BY <1>2 DEF BuildView
<1> DEFINE w == W(cs)
<1>5. /\ w.state = "whole" /\ w.view.cutoff = s.cutoff /\ w.view.blocks = s.blocks
      /\ w.view.comparisons = cs
  OBVIOUS
<1>6. views' = views \cup {w}
  BY <1>2
<1> HIDE DEF s, w
<1>7. \A c \in w.view.comparisons :
       /\ c \in Range(rt.checks) /\ c.seq <= w.view.cutoff /\ c.binding.event <= w.view.cutoff
       /\ Cardinality({i \in DOMAIN w.view.blocks :
            w.view.blocks[i].bound /\ w.view.blocks[i].origin = c.binding.event}) = 1
  BY <1>2, <1>4, <1>5 DEF ComparisonAuthorized, AuthorizeRef
<1>8. Shows(w) /\ CleanRun
  BY <1>2, <1>3, <1>5, <1>6, <1>7 DEF Shows, Goto, s, CleanRun
<1> QED BY <1>8 DEF CleanStep

LEMMA CleanOther ==
  ASSUME SendTyped, CleanRun', Construct \/ Seal \/ Kill \/ Foreign \/ UNCHANGED vars
  PROVE  CleanRun /\ CleanStep
<1> USE DEF worldVars
<1>1. CASE Construct \/ SealArtifact
  <2>1. PICK body : Persist(pc, body, After[pc])
    BY <1>1 DEF Construct, SealArtifact
  <2>2. /\ pc \notin InSend \cup InTool \cup {"off", "dead", "raised"}
        /\ After[pc] \notin InSend \cup InTool
    BY <1>1 DEF Construct, SealArtifact, After, InSend, InTool, Pending
  <2> QED BY <2>1, <2>2, PersistRests DEF CleanStep
<1>2. CASE RunStop
  <2> DEFINE e == EventAt(rt.seq, "run_stop", 0, TRUE, [status |-> StopStatus])
  <2>1. /\ rt' = Recorded(e) /\ Journalled(e) /\ pc \in {"run_stop", "loop"}
        /\ pc' = "events" /\ UNCHANGED starts
    BY <1>2 DEF RunStop
  <2>2. e.seq = rt.seq /\ e.kind = "run_stop" /\ e.done
    BY DEF EventAt
  <2> HIDE DEF e
  <2>3. Logs(e) /\ CleanRun
    BY <2>1, <2>2, RecordedObject
    DEF SendTyped, Logs, LogsStop, SameLedgers, Journalled, CleanRun
  <2> QED BY <2>3 DEF CleanStep
<1>3. CASE SealTree
  BY <1>3 DEF SealTree, storeVars, CleanRun, CleanStep, Rests, InSend, InTool, Pending
<1>4. CASE SealBodies
  <2>1. ~Exit("raised")
    BY ExitIsDirty
  <2>2. /\ pc = "bodies" /\ pc' = "sealed_artifact" /\ UNCHANGED <<rt, physical, views, starts>>
    BY <1>4, <2>1 DEF SealBodies, storeVars
  <2> QED BY <2>2 DEF CleanRun, CleanStep, Rests, InSend, InTool, Pending
<1>5. CASE Kill
  BY <1>5, ExitIsDirty DEF Kill
<1>6. CASE Foreign \/ UNCHANGED vars
  <2>1. UNCHANGED <<pc, rt, call, physical, views, starts>>
    BY <1>6 DEF Foreign, vars, storeVars
  <2> QED BY <2>1 DEF CleanRun, CleanStep, Rests
<1> QED BY <1>1, <1>2, <1>3, <1>4, <1>5, <1>6 DEF Seal

LEMMA CleanNext ==
  ASSUME SendTyped, BackedInv, CleanRun', [Next]_vars, ~Start
  PROVE  CleanRun /\ CleanStep
  BY CleanSend, CleanTool, CleanCheck, CleanView, CleanOther DEF Next

-----------------------------------------------------------------------------
(* The ledgers of a clean run.                                             *)

\* Before the first start nothing is on disk.
FreshInv ==
  starts = 0 =>
    /\ pc \in {"off", "dead", "raised"} /\ views = {}
    /\ \A n \in Attempts : physical[n].entered = Absent /\ physical[n].terminal = Absent

CleanTyped == IsSequence(rt.usages) /\ IsSequence(rt.bindings) /\ IsSequence(rt.checks)

\* The constructor of the first process is reached with an empty memory and directory.
Begins ==
  /\ pc' = "producer_blob" /\ rt' = NewRuntime /\ views' = {}
  /\ \A n \in Attempts : physical'[n].entered = Absent /\ physical'[n].terminal = Absent

LEMMA FirstStart ==
  ASSUME FreshInv, starts \in Nat, Start, CleanRun' PROVE Begins
<1>1. starts = 0
  BY DEF Start, CleanRun
<1> QED BY <1>1 DEF Start, FreshInv, storeVars, Begins

LEMMA FreshStep == ASSUME FreshInv, starts \in Nat, [Next]_vars PROVE FreshInv'
<1>1. CASE Start
  BY <1>1 DEF Start, FreshInv
<1>2. CASE starts # 0 /\ UNCHANGED starts
  BY <1>2 DEF FreshInv
<1>3. CASE starts = 0 /\ ~Start
  <2>1. pc \in {"off", "dead", "raised"}
    BY <1>3 DEF FreshInv
  <2>2. ~Construct /\ ~Kill /\ ~Foreign
    BY <1>3, <2>1 DEF Construct, Kill, Foreign, Ended
  <2>3. ~Send
    <3>1. ~Enter /\ ~Transport /\ ~Terminal
      BY <2>1 DEF Enter, Transport, Terminal
    <3>2. ~SnapshotRequest /\ ~RequestEvent /\ ~TerminalEvent
      BY <2>1 DEF SnapshotRequest, RequestEvent, TerminalEvent
    <3> QED BY <3>1, <3>2 DEF Send
  <2>4. ~Tool /\ ~CompareBoundFile /\ ~PersistView /\ ~Seal
    BY <2>1 DEF Tool, ToolStart, FileTool, RunTest, ToolFinish, ToolFinishFails,
       CompareBoundFile, PersistView, Seal, RunStop, SealArtifact, SealTree, SealBodies
  <2>5. UNCHANGED vars
    BY <1>3, <2>2, <2>3, <2>4 DEF Next
  <2> QED BY <1>3, <2>5 DEF FreshInv, vars, storeVars, worldVars
<1>4. CASE starts # 0 /\ ~Start /\ starts' # starts
  <2>1. CASE UNCHANGED vars
    BY <1>4, <2>1 DEF vars, worldVars
  <2>2. CASE Construct \/ Seal \/ Send \/ Kill \/ Foreign
    BY <1>4, <2>2 DEF Construct, Persist, Send, Enter, Transport, Terminal, PersistAttempt,
       SnapshotRequest, RequestEvent, TerminalEvent, Seal, RunStop, SealArtifact, SealTree,
       SealBodies, Kill, Foreign, worldVars
  <2>3. CASE Tool \/ CompareBoundFile \/ PersistView
    BY <1>4, <2>3 DEF Tool, ToolStart, FileTool, RunTest, ToolFinish, ToolFinishFails,
       CompareBoundFile, PersistView, worldVars
  <2> QED BY <1>4, <2>1, <2>2, <2>3 DEF Next
<1> QED BY <1>1, <1>2, <1>3, <1>4

LEMMA GrownSequence ==
  ASSUME NEW s, IsSequence(s), NEW t, t = s \/ \E x : t = Append(s, x)
  PROVE  IsSequence(t)
<1>1. CASE \E x : t = Append(s, x)
  <2>1. PICK x : t = Append(s, x)
    BY <1>1
  <2>2. IsSequence(Append(s, x))
    BY AppendFacts
  <2> QED BY <2>1, <2>2
<1> QED BY <1>1

LEMMA CleanTypedStep ==
  ASSUME CleanTyped, CleanStep PROVE CleanTyped'
<1>1. CASE Enters \/ Waits \/ Answers \/ Rests \/ \E w : Shows(w)
  BY <1>1 DEF Enters, Waits, Answers, Rests, Shows, SameLog, SameLedgers, CleanTyped
<1>2. CASE \E s : Snaps(s)
  BY <1>2, AppendFacts DEF Snaps, SameLog, CleanTyped
<1>3. ASSUME NEW e, Logs(e) PROVE CleanTyped'
  <2>1. /\ rt'.usages = rt.usages
        /\ rt'.bindings = rt.bindings \/ \E b : rt'.bindings = Append(rt.bindings, b)
        /\ rt'.checks = rt.checks \/ \E c : rt'.checks = Append(rt.checks, c)
    BY <1>3 DEF Logs, LogsRequest, LogsTerminal, LogsToolStart,
       LogsToolFinish, LogsCheck, LogsStop, SameLedgers
  <2> QED BY <2>1, GrownSequence DEF CleanTyped
<1> QED BY <1>1, <1>2, <1>3 DEF CleanStep

\* record_event numbers the events of a process from zero.
NumberInv ==
  /\ rt.seq = Len(rt.events)
  /\ \A i \in DOMAIN rt.events : rt.events[i].seq = i - 1

LEMMA NumberStep ==
  ASSUME JournalsTyped, NumberInv, CleanStep PROVE NumberInv'
<1>1. CASE rt'.seq = rt.seq /\ rt'.events = rt.events
  BY <1>1 DEF NumberInv
<1>2. ASSUME NEW e, rt'.seq = rt.seq + 1, rt'.events = Append(rt.events, e), e.seq = rt.seq
      PROVE  NumberInv'
  <2>1. /\ Len(rt'.events) = Len(rt.events) + 1
        /\ DOMAIN rt'.events = 1..(Len(rt.events) + 1) /\ DOMAIN rt.events = 1..Len(rt.events)
        /\ \A i \in DOMAIN rt.events : rt'.events[i] = rt.events[i]
        /\ rt'.events[Len(rt.events) + 1] = e /\ Len(rt.events) \in Nat
    BY <1>2, AppendFacts, SequenceFacts DEF JournalsTyped
  <2> QED BY <1>2, <2>1 DEF NumberInv
<1> QED BY <1>1, <1>2 DEF CleanStep, Enters, Waits, Answers, Rests, Shows, Snaps, Logs, SameLog

\* The events of some kinds are those of the calls 0..n-1, one for each.
Ledger(events, kinds, n) ==
  /\ \A i \in DOMAIN events : events[i].kind \in kinds => events[i].call \in 0..(n - 1)
  /\ \A k \in 0..(n - 1) : \E i \in DOMAIN events : events[i].kind \in kinds /\ events[i].call = k
  /\ \A i, j \in DOMAIN events :
       events[i].kind \in kinds /\ events[j].kind \in kinds /\ events[i].call = events[j].call
       => i = j

LEMMA LedgerStep ==
  ASSUME NEW events, IsSequence(events), NEW kinds, NEW n \in Nat, Ledger(events, kinds, n),
         NEW e, NEW m,
         \/ e.kind \notin kinds /\ m = n
         \/ e.kind \in kinds /\ e.call = n /\ m = n + 1
  PROVE  Ledger(Append(events, e), kinds, m)
<1> DEFINE after == Append(events, e)
<1>1. /\ DOMAIN after = 1..(Len(events) + 1) /\ DOMAIN events = 1..Len(events)
      /\ \A i \in DOMAIN events : i \in DOMAIN after /\ after[i] = events[i]
      /\ after[Len(events) + 1] = e /\ Len(events) \in Nat
  BY AppendFacts, SequenceFacts
<1> HIDE DEF after
<1>2. \A i \in DOMAIN after : i \in DOMAIN events \/ i = Len(events) + 1
  BY <1>1
<1>3. ASSUME NEW i \in DOMAIN after, after[i].kind \in kinds PROVE after[i].call \in 0..(m - 1)
  BY <1>1, <1>2, <1>3 DEF Ledger
<1>4. ASSUME NEW k \in 0..(m - 1)
      PROVE  \E i \in DOMAIN after : after[i].kind \in kinds /\ after[i].call = k
  <2>1. CASE k \in 0..(n - 1)
    BY <1>1, <2>1 DEF Ledger
  <2>2. CASE k \notin 0..(n - 1)
    <3>1. e.kind \in kinds /\ e.call = k
      BY <2>2
    <3>2. Len(events) + 1 \in DOMAIN after
      BY <1>1
    <3> QED BY <1>1, <3>1, <3>2
  <2> QED BY <2>1, <2>2
<1>5. ASSUME NEW i \in DOMAIN after, NEW j \in DOMAIN after, after[i].kind \in kinds,
             after[j].kind \in kinds, after[i].call = after[j].call
      PROVE  i = j
  <2>1. CASE i \in DOMAIN events /\ j \in DOMAIN events
    BY <1>1, <1>5, <2>1 DEF Ledger
  <2>2. \A k \in DOMAIN events : events[k].kind \in kinds => events[k].call # n
    BY DEF Ledger
  <2>3. CASE e.kind \in kinds
    BY <1>1, <1>2, <1>5, <2>1, <2>2, <2>3
  <2>4. CASE e.kind \notin kinds
    BY <1>1, <1>2, <1>5, <2>1, <2>4
  <2> QED BY <2>3, <2>4
<1>6. Ledger(after, kinds, m)
  BY <1>3, <1>4, <1>5 DEF Ledger
<1> QED BY <1>6 DEF after

LEMMA EmptyLedger == ASSUME NEW kinds PROVE Ledger(<<>>, kinds, 0)
  BY EmptyFacts DEF Ledger

\* A call in progress has not reached all ledgers.
Behind(places, n) == IF pc \in places THEN n - 1 ELSE n

AttemptInv ==
  /\ rt.attempts \in Nat /\ rt.attempts <= MaxAttempts
  /\ pc \in InSend => rt.attempts > 0
  /\ pc \in InTool => rt.tools > 0
  /\ Len(rt.snapshots) = Behind({"transport", "terminal", "snapshot"}, rt.attempts)
  /\ Len(rt.usages) = Len(rt.snapshots)
  /\ \A i \in DOMAIN rt.snapshots : rt.snapshots[i].attempt = i - 1

LedgerInv ==
  /\ Ledger(rt.events, {"request"}, Behind(Pending, rt.attempts))
  /\ Ledger(rt.events, Terminals, Behind(InSend, rt.attempts))
  /\ Ledger(rt.events, {"tool_start"}, rt.tools)
  /\ Ledger(rt.events, {"tool_finish"}, Behind(InTool, rt.tools))

LEMMA AttemptStep ==
  ASSUME JournalsTyped, CleanTyped, AttemptInv, CleanStep PROVE AttemptInv'
<1> USE DEF InSend, InTool, Pending
<1>0. MaxAttempts \in Nat /\ rt.tools \in Nat
  BY BoundsAssumption DEF JournalsTyped
<1>1. CASE Enters
  BY <1>0, <1>1 DEF Enters, AttemptInv, Behind, SameLedgers, SameLog
<1>2. CASE Waits \/ Answers \/ \E w : Shows(w)
  BY <1>2 DEF Waits, Answers, Shows, AttemptInv, Behind
<1>3. CASE Rests
  BY <1>3 DEF Rests, AttemptInv, Behind
<1>4. ASSUME NEW s, Snaps(s) PROVE AttemptInv'
  <2>1. /\ Len(rt'.snapshots) = Len(rt.snapshots) + 1
        /\ DOMAIN rt'.snapshots = 1..(Len(rt.snapshots) + 1)
        /\ DOMAIN rt.snapshots = 1..Len(rt.snapshots)
        /\ \A i \in DOMAIN rt.snapshots : rt'.snapshots[i] = rt.snapshots[i]
        /\ rt'.snapshots[Len(rt.snapshots) + 1] = s /\ Len(rt.snapshots) \in Nat
    BY <1>4, AppendFacts, SequenceFacts DEF JournalsTyped, Snaps
  <2>2. Len(rt'.usages) = Len(rt.usages) + 1
    BY <1>4, AppendFacts DEF CleanTyped, Snaps
  <2>3. \A i \in DOMAIN rt'.snapshots : rt'.snapshots[i].attempt = i - 1
    BY <1>4, <2>1 DEF Snaps, AttemptInv, Behind, Current
  <2> QED BY <1>4, <2>1, <2>2, <2>3 DEF Snaps, AttemptInv, Behind, SameLog
<1>5. ASSUME NEW e, Logs(e) PROVE AttemptInv'
  <2>1. /\ rt'.attempts = rt.attempts /\ SameLedgers
        /\ rt'.tools \in {rt.tools, rt.tools + 1}
        /\ pc' = "tool_run" => rt'.tools = rt.tools + 1
        /\ pc' \in InSend => pc \in InSend
        /\ pc' # "tool_finish"
        /\ pc \notin {"transport", "terminal", "snapshot"}
        /\ pc' \notin {"transport", "terminal", "snapshot"}
    BY <1>5 DEF Logs, LogsRequest, LogsTerminal, LogsToolStart, LogsToolFinish, LogsCheck, LogsStop
  <2> QED BY <1>0, <2>1 DEF AttemptInv, Behind, SameLedgers
<1> QED BY <1>1, <1>2, <1>3, <1>4, <1>5 DEF CleanStep

\* What an event does to the four ledgers.
LEMMA LogsLedgers ==
  ASSUME JournalsTyped, AttemptInv, LedgerInv, NEW e, Logs(e)
  PROVE  LedgerInv'
<1> DEFINE R == Behind(Pending, rt.attempts)
           T == Behind(InSend, rt.attempts)
           F == Behind(InTool, rt.tools)
<1>1. R \in Nat /\ T \in Nat /\ F \in Nat /\ rt.tools \in Nat
  BY DEF AttemptInv, JournalsTyped, Behind, InSend, InTool
<1>2. rt'.events = Append(rt.events, e) /\ IsSequence(rt.events)
  BY DEF Logs, JournalsTyped
<1> USE DEF Pending, InSend, InTool, Terminals
<1>3. \/ e.kind \notin {"request"} /\ R' = R
      \/ e.kind \in {"request"} /\ e.call = R /\ R' = R + 1
  BY DEF Logs, LogsRequest, LogsTerminal, LogsToolStart, LogsToolFinish, LogsCheck, LogsStop,
     Behind, Current, AttemptInv
<1>4. \/ e.kind \notin Terminals /\ T' = T
      \/ e.kind \in Terminals /\ e.call = T /\ T' = T + 1
  BY DEF Logs, LogsRequest, LogsTerminal, LogsToolStart, LogsToolFinish, LogsCheck, LogsStop,
     Behind, Current, AttemptInv
<1>5. \/ e.kind \notin {"tool_start"} /\ rt'.tools = rt.tools
      \/ e.kind \in {"tool_start"} /\ e.call = rt.tools /\ rt'.tools = rt.tools + 1
  BY DEF Logs, LogsRequest, LogsTerminal, LogsToolStart, LogsToolFinish, LogsCheck, LogsStop
<1>6. \/ e.kind \notin {"tool_finish"} /\ F' = F
      \/ e.kind \in {"tool_finish"} /\ e.call = F /\ F' = F + 1
  BY <1>1 DEF Logs, LogsRequest, LogsTerminal, LogsToolStart, LogsToolFinish, LogsCheck, LogsStop,
     Behind, CurrentTool
<1> HIDE DEF R, T, F, Pending, InSend, InTool, Terminals
<1>7. Ledger(rt'.events, {"request"}, R')
  <2>1. PICK kinds : kinds = {"request"}
    OBVIOUS
  <2>2. /\ Ledger(rt.events, kinds, R)
        /\ \/ e.kind \notin kinds /\ R' = R
           \/ e.kind \in kinds /\ e.call = R /\ R' = R + 1
    BY <1>3, <2>1 DEF LedgerInv, R
  <2> QED BY <1>1, <1>2, <2>1, <2>2, LedgerStep
<1>8. Ledger(rt'.events, Terminals, T')
  <2>1. PICK kinds : kinds = Terminals
    OBVIOUS
  <2>2. /\ Ledger(rt.events, kinds, T)
        /\ \/ e.kind \notin kinds /\ T' = T
           \/ e.kind \in kinds /\ e.call = T /\ T' = T + 1
    BY <1>4, <2>1 DEF LedgerInv, T
  <2> QED BY <1>1, <1>2, <2>1, <2>2, LedgerStep
<1>9. Ledger(rt'.events, {"tool_start"}, rt'.tools)
  <2>1. PICK kinds : kinds = {"tool_start"}
    OBVIOUS
  <2>2. /\ Ledger(rt.events, kinds, rt.tools)
        /\ \/ e.kind \notin kinds /\ rt'.tools = rt.tools
           \/ e.kind \in kinds /\ e.call = rt.tools /\ rt'.tools = rt.tools + 1
    BY <1>5, <2>1 DEF LedgerInv
  <2> QED BY <1>1, <1>2, <2>1, <2>2, LedgerStep
<1>10. Ledger(rt'.events, {"tool_finish"}, F')
  <2>1. PICK kinds : kinds = {"tool_finish"}
    OBVIOUS
  <2>2. /\ Ledger(rt.events, kinds, F)
        /\ \/ e.kind \notin kinds /\ F' = F
           \/ e.kind \in kinds /\ e.call = F /\ F' = F + 1
    BY <1>6, <2>1 DEF LedgerInv, F
  <2> QED BY <1>1, <1>2, <2>1, <2>2, LedgerStep
<1> QED BY <1>7, <1>8, <1>9, <1>10 DEF LedgerInv, R, T, F

LEMMA LedgersStep ==
  ASSUME JournalsTyped, AttemptInv, LedgerInv, CleanStep PROVE LedgerInv'
<1>1. CASE Enters \/ Waits \/ Answers \/ Rests \/ (\E w : Shows(w)) \/ (\E s : Snaps(s))
  <2>1. /\ rt'.events = rt.events /\ rt'.tools = rt.tools
        /\ Behind(Pending, rt.attempts)' = Behind(Pending, rt.attempts)
        /\ Behind(InSend, rt.attempts)' = Behind(InSend, rt.attempts)
        /\ Behind(InTool, rt.tools)' = Behind(InTool, rt.tools)
    BY <1>1 DEF Enters, Waits, Answers, Rests, Shows, Snaps, SameLog, Behind,
       Pending, InSend, InTool, AttemptInv
  <2> QED BY <2>1 DEF LedgerInv
<1> QED BY <1>1, LogsLedgers DEF CleanStep

\* What the usage ledger and the events say of an attempt.
AnswerInv ==
  /\ pc \in {"request_event", "terminal_event"} => rt.usages[rt.attempts] = call.reply.usage
  /\ \A i \in DOMAIN rt.events :
       LET e == rt.events[i]
       IN /\ e.kind \in {"request"} \cup Terminals => e.data.attempt = e.call
          /\ e.kind \in Terminals => /\ (e.kind = "provider_failure") = e.data.reply.failed
                                     /\ e.call + 1 \in DOMAIN rt.usages
                                     /\ rt.usages[e.call + 1] = e.data.reply.usage

LEMMA AnswerStep ==
  ASSUME JournalsTyped, CleanTyped
  PROVE  /\ Begins => AnswerInv'
         /\ AttemptInv /\ AnswerInv /\ CleanStep => AnswerInv'
<1>1. ASSUME Begins PROVE AnswerInv'
  BY <1>1, NewMemory, EmptyFacts DEF Begins, AnswerInv
<1>2. ASSUME AttemptInv, AnswerInv, CleanStep PROVE AnswerInv'
  <2>1. CASE Enters \/ Waits \/ Answers \/ (\E w : Shows(w))
    BY <1>2, <2>1 DEF Enters, Waits, Answers, Shows, SameLog, SameLedgers, AnswerInv
  <2>2. CASE Rests
    BY <1>2, <2>2 DEF Rests, AnswerInv, InSend, InTool, Pending
  <2>3. ASSUME NEW s, Snaps(s) PROVE AnswerInv'
    <3>1. /\ \A i \in DOMAIN rt.usages : i \in DOMAIN rt'.usages /\ rt'.usages[i] = rt.usages[i]
          /\ rt'.usages[Len(rt.usages) + 1] = call.reply.usage
      BY <2>3, AppendFacts DEF CleanTyped, Snaps
    <3>2. rt'.attempts = Len(rt.usages) + 1
      BY <1>2, <2>3 DEF AttemptInv, Behind, Snaps
    <3> QED BY <1>2, <2>3, <3>1, <3>2 DEF Snaps, SameLog, AnswerInv
  <2>4. ASSUME NEW e, Logs(e) PROVE AnswerInv'
    <3>1. /\ rt'.events = Append(rt.events, e) /\ rt'.usages = rt.usages
          /\ rt'.attempts = rt.attempts
      BY <2>4 DEF Logs, SameLedgers
    <3>2. /\ DOMAIN rt'.events = 1..(Len(rt.events) + 1)
          /\ DOMAIN rt.events = 1..Len(rt.events) /\ Len(rt.events) \in Nat
          /\ \A i \in DOMAIN rt.events : rt'.events[i] = rt.events[i]
          /\ rt'.events[Len(rt.events) + 1] = e
      BY <3>1, AppendFacts, SequenceFacts DEF JournalsTyped
    <3>3. pc' \in {"request_event", "terminal_event"} => pc = "request_event" /\ UNCHANGED call
      BY <2>4 DEF Logs, LogsRequest, LogsTerminal, LogsToolStart, LogsToolFinish, LogsCheck, LogsStop
    <3>4. /\ e.kind \in {"request"} \cup Terminals => e.data.attempt = e.call
          /\ e.kind \in Terminals =>
               /\ (e.kind = "provider_failure") = e.data.reply.failed
               /\ e.call + 1 = rt.attempts /\ pc = "terminal_event" /\ e.data.reply = call.reply
      BY <1>2, <2>4 DEF Logs, LogsRequest, LogsTerminal, LogsToolStart, LogsToolFinish, LogsCheck,
         LogsStop, Terminals, Current, AttemptInv
    <3>5. pc = "terminal_event" => rt.attempts \in DOMAIN rt.usages
      BY <1>2, SequenceFacts DEF AttemptInv, Behind, CleanTyped, InSend
    <3>6. \A i \in DOMAIN rt'.events : i \in DOMAIN rt.events \/ rt'.events[i] = e
      BY <3>2
    <3> QED BY <1>2, <3>1, <3>2, <3>3, <3>4, <3>5, <3>6 DEF AnswerInv
  <2> QED BY <1>2, <2>1, <2>2, <2>3, <2>4 DEF CleanStep
<1> QED BY <1>1, <1>2

\* The records on disk are those of the attempts consumed.
RecordsInv ==
  \A n \in Attempts :
    /\ physical[n].entered = IF n < rt.attempts THEN Whole(<<>>) ELSE Absent
    /\ IF n < Behind({"transport", "terminal"}, rt.attempts)
       THEN physical[n].terminal.state = "whole" ELSE physical[n].terminal = Absent

LEMMA RecordsStep ==
  ASSUME SendTyped, AttemptInv, RecordsInv, CleanStep PROVE RecordsInv'
<1> DEFINE T == Behind({"transport", "terminal"}, rt.attempts)
<1>0. /\ MaxAttempts \in Nat /\ rt.attempts \in Nat /\ Attempts = 0..(MaxAttempts - 1)
      /\ DOMAIN physical = Attempts
      /\ \A n \in Attempts : DOMAIN physical[n] = {"entered", "terminal"}
  BY BoundsAssumption DEF AttemptInv, SendTyped, Attempts
<1>1. CASE Enters
  <2>1. T' = T /\ T = rt.attempts /\ rt'.attempts = rt.attempts + 1 /\ rt.attempts \in Attempts
    BY <1>0, <1>1 DEF Enters, Behind
  <2>2. \A n \in Attempts : /\ physical'[n].terminal = physical[n].terminal
                            /\ n # rt.attempts => physical'[n].entered = physical[n].entered
                            /\ n = rt.attempts => physical'[n].entered = Whole(<<>>)
    BY <1>0, <1>1 DEF Enters
  <2> QED BY <1>0, <2>1, <2>2 DEF RecordsInv
<1>2. CASE Answers
  <2>1. /\ rt'.attempts = rt.attempts /\ rt.attempts > 0 /\ Current \in Attempts
        /\ T' = rt.attempts /\ T = Current /\ Current = rt.attempts - 1
    BY <1>0, <1>2 DEF Answers, Behind, AttemptInv, InSend, Pending, Current
  <2>2. \A n \in Attempts :
          /\ physical'[n].entered = physical[n].entered
          /\ n # Current => physical'[n].terminal = physical[n].terminal
          /\ n = Current => physical'[n].terminal = Whole(<<call.reply>>)
    BY <1>0, <1>2 DEF Answers
  <2>3. Whole(<<call.reply>>).state = "whole"
    BY DEF Whole
  <2> QED BY <1>0, <2>1, <2>2, <2>3 DEF RecordsInv
<1>3. CASE ~Enters /\ ~Answers
  <2>1. physical' = physical /\ rt'.attempts = rt.attempts /\ T' = T
    BY <1>3 DEF CleanStep, Waits, Rests, Shows, Snaps, Logs, LogsRequest, LogsTerminal,
       LogsToolStart, LogsToolFinish, LogsCheck, LogsStop, Behind, InSend, Pending
  <2> QED BY <2>1 DEF RecordsInv
<1> QED BY <1>1, <1>2, <1>3

\* A message carries a completed event of its own kind.
Stems(b, events) ==
  \E i \in DOMAIN events :
    /\ b.origin = i - 1 /\ b.label = i - 1 /\ events[i].done
    /\ events[i].kind = IF b.type = "tool_result" THEN "tool_finish" ELSE "response"
    /\ b.type = "tool_result" => events[i].call = b.call

BlockInv ==
  /\ \A b \in Range(rt.messages) : Stems(b, rt.events)
  /\ \A s \in Range(rt.snapshots) : \A b \in Range(s.blocks) :
       Stems(b, rt.events) /\ b.origin <= s.cutoff

LEMMA BlockStep ==
  ASSUME JournalsTyped, MemoryInv, NumberInv, BlockInv, CleanStep PROVE BlockInv'
<1>1. CASE Enters \/ Waits \/ Answers \/ Rests \/ (\E w : Shows(w))
  BY <1>1 DEF Enters, Waits, Answers, Rests, Shows, SameLog, SameLedgers, BlockInv
<1>2. ASSUME NEW s, Snaps(s) PROVE BlockInv'
  <2>1. Range(rt'.snapshots) = Range(rt.snapshots) \cup {s}
    BY <1>2, AppendFacts DEF JournalsTyped, Snaps
  <2>2. ASSUME NEW b \in Range(s.blocks) PROVE Stems(b, rt.events) /\ b.origin <= s.cutoff
    <3>1. b \in Range(rt.messages) /\ s.cutoff = CutoffSeq
      BY <1>2, <2>2 DEF Snaps
    <3>2. PICK i \in DOMAIN rt.events : b.origin = i - 1 /\ rt.events[i].done
      BY <3>1 DEF BlockInv, Stems
    <3>3. rt.events[i].seq \in Available /\ rt.events[i].seq = i - 1
      BY <3>2 DEF Available, Range, NumberInv
    <3> QED BY <3>1, <3>2, <3>3, CutoffIsLatest DEF BlockInv
  <2> QED BY <1>2, <2>1, <2>2 DEF Snaps, SameLog, BlockInv
<1>3. ASSUME NEW e, Logs(e) PROVE BlockInv'
  <2>1. /\ rt'.events = Append(rt.events, e) /\ rt'.snapshots = rt.snapshots
        /\ e.seq = rt.seq
    BY <1>3 DEF Logs, SameLedgers
  <2>2. /\ Len(rt.events) + 1 \in DOMAIN rt'.events
        /\ \A i \in DOMAIN rt.events : i \in DOMAIN rt'.events /\ rt'.events[i] = rt.events[i]
        /\ rt'.events[Len(rt.events) + 1] = e /\ Len(rt.events) \in Nat
    BY <2>1, AppendFacts, SequenceFacts DEF JournalsTyped
  <2>3. \A b : Stems(b, rt.events) => Stems(b, rt'.events)
    BY <2>2 DEF Stems
  <2>4. ASSUME NEW m, m.origin = e.seq, m.label = e.seq, e.done,
               e.kind = IF m.type = "tool_result" THEN "tool_finish" ELSE "response",
               m.type = "tool_result" => e.call = m.call
        PROVE  Stems(m, rt'.events)
    <3>1. e.seq = (Len(rt.events) + 1) - 1
      BY <2>1, <2>2 DEF NumberInv
    <3> QED BY <2>2, <2>4, <3>1 DEF Stems
  <2>5. CASE rt'.messages = rt.messages
    BY <2>1, <2>3, <2>5 DEF BlockInv
  <2>6. CASE rt'.messages # rt.messages
    <3>1. PICK m : rt'.messages = Append(rt.messages, m) /\ Stems(m, rt'.events)
      <4>1. CASE LogsTerminal(e)
        <5>1. PICK m : /\ rt'.messages = Append(rt.messages, m) /\ e.kind = "response"
                       /\ m.type = "assistant_response" /\ m.origin = e.seq /\ m.label = e.seq
          BY <2>6, <4>1 DEF LogsTerminal
        <5>2. e.done
          BY <1>3, <5>1 DEF Logs
        <5> QED BY <2>4, <5>1, <5>2
      <4>2. CASE LogsToolFinish(e)
        <5>1. PICK m : /\ rt'.messages = Append(rt.messages, m)
                       /\ m.type = "tool_result" /\ m.origin = e.seq /\ m.label = e.seq
                       /\ m.call = e.call
          BY <4>2 DEF LogsToolFinish
        <5>2. e.done /\ e.kind = "tool_finish"
          BY <1>3, <4>2 DEF Logs, LogsToolFinish
        <5> QED BY <2>4, <5>1, <5>2
      <4> QED BY <1>3, <2>6, <4>1, <4>2 DEF Logs, LogsRequest, LogsToolStart, LogsCheck, LogsStop
    <3>2. Range(rt'.messages) = Range(rt.messages) \cup {m}
      BY <3>1, AppendFacts DEF JournalsTyped
    <3> QED BY <2>1, <2>3, <3>1, <3>2 DEF BlockInv
  <2> QED BY <2>5, <2>6
<1> QED BY <1>1, <1>2, <1>3 DEF CleanStep

\* The request event of an attempt is completed before the next attempt's snapshot, so
\* cutoffs rise and a view belongs to one request.
CutoffInv ==
  /\ \A i, j \in DOMAIN rt.snapshots : i < j => rt.snapshots[i].cutoff < rt.snapshots[j].cutoff
  /\ \A i \in DOMAIN rt.snapshots :
       /\ rt.snapshots[i].cutoff \in Nat /\ rt.snapshots[i].cutoff <= rt.seq
       /\ pc # "request_event" \/ i < Len(rt.snapshots) => rt.snapshots[i].cutoff < rt.seq
       /\ pc \notin {"request_event", "terminal_event"} \/ i < Len(rt.snapshots) =>
            \E k \in DOMAIN rt.events :
              rt.events[k].done /\ rt.snapshots[i].cutoff < rt.events[k].seq

LEMMA CutoffStep ==
  ASSUME JournalsTyped, MemoryInv, NumberInv
  PROVE  /\ Begins => CutoffInv'
         /\ CutoffInv /\ CleanStep => CutoffInv'
<1>1. ASSUME Begins PROVE CutoffInv'
  BY <1>1, NewMemory, EmptyFacts DEF Begins, CutoffInv
<1>2. ASSUME CutoffInv, CleanStep PROVE CutoffInv'
  <2>0. rt.seq \in Nat
    BY DEF JournalsTyped
  <2>1. CASE Enters \/ Waits \/ Answers \/ Rests \/ (\E w : Shows(w))
    <3>1. /\ rt'.snapshots = rt.snapshots /\ rt'.seq = rt.seq /\ rt'.events = rt.events
          /\ pc' = "request_event" => pc = "request_event"
          /\ pc' \in {"request_event", "terminal_event"} <=> pc \in {"request_event", "terminal_event"}
          /\ pc' # "request_event" => pc # "request_event"
      BY <2>1 DEF Enters, Waits, Answers, Rests, Shows, SameLog, SameLedgers, InSend, Pending
    <3> QED BY <1>2, <3>1 DEF CutoffInv
  <2>2. ASSUME NEW s, Snaps(s) PROVE CutoffInv'
    <3>1. /\ Len(rt'.snapshots) = Len(rt.snapshots) + 1
          /\ DOMAIN rt'.snapshots = 1..(Len(rt.snapshots) + 1)
          /\ DOMAIN rt.snapshots = 1..Len(rt.snapshots)
          /\ \A i \in DOMAIN rt.snapshots : rt'.snapshots[i] = rt.snapshots[i]
          /\ rt'.snapshots[Len(rt.snapshots) + 1] = s /\ Len(rt.snapshots) \in Nat
      BY <2>2, AppendFacts, SequenceFacts DEF JournalsTyped, Snaps
    <3>2. s.cutoff \in Nat /\ s.cutoff <= rt.seq
      <4>1. CutoffSeq = CHOOSE m \in Available \cup {0} : \A x \in Available : x <= m
        BY DEF CutoffSeq, Available
      <4>2. CutoffSeq \in Available \cup {0}
        BY <4>1 DEF MemoryInv
      <4>3. \A x \in Available : x \in Nat /\ x < rt.seq
        BY DEF MemoryInv, Available
      <4> QED BY <2>0, <2>2, <4>2, <4>3 DEF Snaps
    <3>3. ASSUME NEW i \in DOMAIN rt.snapshots PROVE rt.snapshots[i].cutoff < s.cutoff
      <4>1. PICK k \in DOMAIN rt.events :
              rt.events[k].done /\ rt.snapshots[i].cutoff < rt.events[k].seq
        BY <1>2, <2>2 DEF CutoffInv, Snaps
      <4>2. rt.events[k].seq \in Available /\ rt.events[k].seq \in Nat
        BY <4>1 DEF Available, Range, MemoryInv
      <4>3. rt.events[k].seq <= s.cutoff
        BY <2>2, <4>2, CutoffIsLatest DEF Snaps
      <4> QED BY <1>2, <3>2, <4>1, <4>2, <4>3 DEF CutoffInv
    <3>4. /\ rt'.seq = rt.seq /\ rt'.events = rt.events /\ pc = "snapshot" /\ pc' = "request_event"
      BY <2>2 DEF Snaps, SameLog
    <3>5. \A i \in DOMAIN rt'.snapshots : i \in DOMAIN rt.snapshots \/ i = Len(rt.snapshots) + 1
      BY <3>1
    <3>6. \A i, j \in DOMAIN rt'.snapshots : i < j => rt'.snapshots[i].cutoff < rt'.snapshots[j].cutoff
      BY <1>2, <3>1, <3>3, <3>5 DEF CutoffInv
    <3>7. ASSUME NEW i \in DOMAIN rt'.snapshots
          PROVE  /\ rt'.snapshots[i].cutoff \in Nat /\ rt'.snapshots[i].cutoff <= rt'.seq
                 /\ i < Len(rt'.snapshots) => rt'.snapshots[i].cutoff < rt'.seq
                 /\ i < Len(rt'.snapshots) => \E k \in DOMAIN rt'.events :
                      rt'.events[k].done /\ rt'.snapshots[i].cutoff < rt'.events[k].seq
      <4>1. CASE i \in DOMAIN rt.snapshots
        BY <1>2, <3>1, <3>4, <4>1 DEF CutoffInv
      <4>2. CASE i = Len(rt.snapshots) + 1
        BY <3>1, <3>2, <3>4, <4>2
      <4> QED BY <3>5, <4>1, <4>2
    <3> QED BY <3>4, <3>6, <3>7 DEF CutoffInv
  <2>3. ASSUME NEW e, Logs(e) PROVE CutoffInv'
    <3>1. /\ rt'.events = Append(rt.events, e) /\ rt'.snapshots = rt.snapshots
          /\ e.seq = rt.seq /\ rt'.seq = rt.seq + 1
      BY <2>3 DEF Logs, SameLedgers
    <3>2. /\ Len(rt.events) + 1 \in DOMAIN rt'.events
          /\ \A i \in DOMAIN rt.events : i \in DOMAIN rt'.events /\ rt'.events[i] = rt.events[i]
          /\ rt'.events[Len(rt.events) + 1] = e
      BY <3>1, AppendFacts, SequenceFacts DEF JournalsTyped
    <3>3. /\ pc' # "request_event"
          /\ pc = "request_event" => pc' = "terminal_event"
          /\ pc = "terminal_event" => pc' \notin {"request_event", "terminal_event"} /\ e.done
      BY <2>3 DEF Logs, LogsRequest, LogsTerminal, LogsToolStart, LogsToolFinish, LogsCheck,
         LogsStop, Terminals
    <3>4. ASSUME NEW i \in DOMAIN rt.snapshots,
                 pc' \notin {"request_event", "terminal_event"} \/ i < Len(rt.snapshots)
          PROVE  \E k \in DOMAIN rt'.events :
                   rt'.events[k].done /\ rt.snapshots[i].cutoff < rt'.events[k].seq
      <4>1. CASE pc \notin {"request_event", "terminal_event"} \/ i < Len(rt.snapshots)
        <5>1. PICK k \in DOMAIN rt.events :
                rt.events[k].done /\ rt.snapshots[i].cutoff < rt.events[k].seq
          BY <1>2, <4>1 DEF CutoffInv
        <5> QED BY <3>2, <5>1
      <4>2. CASE pc = "terminal_event"
        <5>1. rt.snapshots[i].cutoff < e.seq
          BY <1>2, <3>1, <4>2 DEF CutoffInv
        <5> QED BY <3>2, <3>3, <4>2, <5>1
      <4> QED BY <3>3, <3>4, <4>1, <4>2
    <3>5. \A i \in DOMAIN rt.snapshots : rt.snapshots[i].cutoff < rt'.seq
      BY <1>2, <2>0, <3>1 DEF CutoffInv
    <3>6. \A i \in DOMAIN rt.snapshots : rt.snapshots[i].cutoff \in Nat
      BY <1>2 DEF CutoffInv
    <3> QED BY <1>2, <2>0, <3>1, <3>4, <3>5, <3>6 DEF CutoffInv
  <2> QED BY <1>2, <2>1, <2>2, <2>3 DEF CleanStep
<1> QED BY <1>1, <1>2

\* A comparison is its state_check event, a binding the event of a completed read.
Compared(c, events) ==
  /\ c.status # "unknown" => (c.status = "same") = (c.current = c.binding.body)
  /\ \E i \in DOMAIN events :
       /\ c.seq = i - 1 /\ events[i].kind = "state_check" /\ events[i].done
       /\ events[i].call = c.binding.event /\ events[i].data = c
Bound(b, events) ==
  \E i \in DOMAIN events :
    /\ b.event = i - 1 /\ events[i].kind = "tool_finish"
    /\ events[i].data.complete /\ events[i].data.body = b.body

CheckInv ==
  /\ \A c \in Range(rt.checks) : Compared(c, rt.events)
  /\ \A b \in Range(rt.bindings) : Bound(b, rt.events)

LEMMA CheckStep ==
  ASSUME JournalsTyped, CleanTyped, NumberInv, CheckInv, CleanStep PROVE CheckInv'
<1>1. CASE ~ \E e : Logs(e)
  <2>1. rt'.events = rt.events /\ rt'.checks = rt.checks /\ rt'.bindings = rt.bindings
    BY <1>1 DEF CleanStep, Enters, Waits, Answers, Rests, Shows, Snaps, SameLog
  <2> QED BY <2>1 DEF CheckInv
<1>2. ASSUME NEW e, Logs(e) PROVE CheckInv'
  <2>1. rt'.events = Append(rt.events, e) /\ e.seq = rt.seq
    BY <1>2 DEF Logs
  <2>2. /\ Len(rt.events) + 1 \in DOMAIN rt'.events
        /\ \A i \in DOMAIN rt.events : i \in DOMAIN rt'.events /\ rt'.events[i] = rt.events[i]
        /\ rt'.events[Len(rt.events) + 1] = e /\ Len(rt.events) \in Nat
    BY <2>1, AppendFacts, SequenceFacts DEF JournalsTyped
  <2>3. e.seq = (Len(rt.events) + 1) - 1
    BY <2>1, <2>2 DEF NumberInv
  <2>4. /\ \A c : Compared(c, rt.events) => Compared(c, rt'.events)
        /\ \A b : Bound(b, rt.events) => Bound(b, rt'.events)
    BY <2>2 DEF Compared, Bound
  <2>5. \A c \in Range(rt'.checks) : Compared(c, rt'.events)
    <3>1. CASE rt'.checks = rt.checks
      BY <2>4, <3>1 DEF CheckInv
    <3>2. CASE rt'.checks # rt.checks
      <4>1. LogsCheck(e) /\ e.done
        BY <1>2, <3>2 DEF Logs, LogsRequest, LogsTerminal, LogsToolStart, LogsToolFinish,
           LogsCheck, LogsStop
      <4>2. PICK c : /\ rt'.checks = Append(rt.checks, c) /\ c.seq = e.seq
                     /\ e.call = c.binding.event /\ e.data = c
                     /\ c.status # "unknown" => (c.status = "same") = (c.current = c.binding.body)
        BY <4>1 DEF LogsCheck
      <4>3. Range(rt'.checks) = Range(rt.checks) \cup {c}
        BY <4>2, AppendFacts DEF CleanTyped
      <4>4. Compared(c, rt'.events)
        <5>1. e.kind = "state_check" /\ e.done
          BY <4>1 DEF LogsCheck
        <5> QED BY <2>2, <2>3, <4>2, <5>1 DEF Compared
      <4> QED BY <2>4, <4>3, <4>4 DEF CheckInv
    <3> QED BY <3>1, <3>2
  <2>6. \A b \in Range(rt'.bindings) : Bound(b, rt'.events)
    <3>1. CASE rt'.bindings = rt.bindings
      BY <2>4, <3>1 DEF CheckInv
    <3>2. CASE rt'.bindings # rt.bindings
      <4>1. LogsToolFinish(e)
        BY <1>2, <3>2 DEF Logs, LogsRequest, LogsTerminal, LogsToolStart, LogsToolFinish,
           LogsCheck, LogsStop
      <4>2. PICK b : /\ rt'.bindings = Append(rt.bindings, b)
                     /\ b.event = e.seq /\ b.body = e.data.body
        BY <3>2, <4>1 DEF LogsToolFinish
      <4>3. Range(rt'.bindings) = Range(rt.bindings) \cup {b}
        BY <4>2, AppendFacts DEF CleanTyped
      <4>4. Bound(b, rt'.events)
        BY <2>2, <2>3, <4>1, <4>2 DEF Bound, LogsToolFinish
      <4> QED BY <2>4, <4>3, <4>4 DEF CheckInv
    <3> QED BY <3>1, <3>2
  <2> QED BY <2>5, <2>6 DEF CheckInv
<1> QED BY <1>1, <1>2

\* A view on disk is whole, shows a request of this process and comparisons it made.
Shown(w) ==
  /\ w.state = "whole"
  /\ \E s \in Range(rt.snapshots) : s.cutoff = w.view.cutoff /\ s.blocks = w.view.blocks
  /\ \A c \in w.view.comparisons :
       /\ c \in Range(rt.checks) /\ c.seq <= w.view.cutoff /\ c.binding.event <= w.view.cutoff
       /\ Cardinality({i \in DOMAIN w.view.blocks :
            w.view.blocks[i].bound /\ w.view.blocks[i].origin = c.binding.event}) = 1
ViewInv == \A w \in views : Shown(w)

LEMMA ViewStep ==
  ASSUME JournalsTyped, CleanTyped, ViewInv, CleanStep PROVE ViewInv'
<1>1. ASSUME NEW w, Shows(w) PROVE ViewInv'
  <2>1. Last(rt.snapshots) \in Range(rt.snapshots)
    <3>1. PICK S : rt.snapshots \in Seq(S)
      BY DEF JournalsTyped, IsSequence
    <3>2. Len(rt.snapshots) \in DOMAIN rt.snapshots
      BY <1>1, <3>1 DEF Shows
    <3> QED BY <3>2 DEF Last, Range
  <2>2. views' = views \cup {w} /\ rt' = rt
    BY <1>1 DEF Shows
  <2>3. Shown(w)
    BY <1>1, <2>1 DEF Shows, Shown
  <2>4. \A v : Shown(v) => Shown(v)'
    BY <2>2 DEF Shown
  <2> QED BY <2>2, <2>3, <2>4 DEF ViewInv
<1>2. CASE ~ \E w : Shows(w)
  <2>1. /\ views' = views
        /\ rt'.snapshots = rt.snapshots \/ \E s : rt'.snapshots = Append(rt.snapshots, s)
        /\ rt'.checks = rt.checks \/ \E c : rt'.checks = Append(rt.checks, c)
    BY <1>2 DEF CleanStep, Enters, Waits, Answers, Rests, Snaps, Logs, LogsRequest,
       LogsTerminal, LogsToolStart, LogsToolFinish, LogsCheck, LogsStop, SameLog, SameLedgers
  <2>2. Range(rt.snapshots) \subseteq Range(rt'.snapshots)
    <3>1. ASSUME NEW s, rt'.snapshots = Append(rt.snapshots, s)
          PROVE  Range(rt.snapshots) \subseteq Range(rt'.snapshots)
      BY <3>1, AppendFacts DEF JournalsTyped
    <3> QED BY <2>1, <3>1
  <2>3. Range(rt.checks) \subseteq Range(rt'.checks)
    <3>1. ASSUME NEW c, rt'.checks = Append(rt.checks, c)
          PROVE  Range(rt.checks) \subseteq Range(rt'.checks)
      BY <3>1, AppendFacts DEF CleanTyped
    <3> QED BY <2>1, <3>1
  <2>4. \A v : Shown(v) => Shown(v)'
    BY <2>2, <2>3 DEF Shown
  <2> QED BY <2>1, <2>4 DEF ViewInv
<1> QED BY <1>1, <1>2

-----------------------------------------------------------------------------
(* What the constructor and seal have stored.                              *)

Early == {"producer_blob", "producer_manifest", "producer_ref", "config_blob", "initial_state"}
Looping == {"loop", "run_stop", "tool_start"} \cup InSend \cup InTool

\* The points behind each artifact of seal.
PastRun == {"sealed"}
PastFinal == PastRun \cup {"run"}
PastSealed == PastFinal \cup {"final_state"}
PastBodies == PastSealed \cup {"sealed_artifact"}
PastUsage == PastBodies \cup {"tree", "bodies"}
PastLedger == PastUsage \cup {"usage_aggregate"}
PastBindings == PastLedger \cup {"usage_ledger"}
PastRequests == PastBindings \cup {"file_bindings"}
PastEvents == PastRequests \cup {"requests"}
Sealing == PastEvents \cup {"events"}

Stored(a) == disk[a] = Whole(SealContent(a))

ConstructedInv ==
  pc \notin {"off", "dead", "raised", "producer_blob"} =>
    /\ IsWhole("producer_blob")
    /\ pc # "producer_manifest" =>
         /\ IsWhole("producer_manifest")
         /\ pc # "producer_ref" =>
              /\ IsWhole("producer_ref")
              /\ pc # "config_blob" =>
                   /\ IsWhole("config_blob")
                   /\ pc # "initial_state" => IsWhole("initial_state")

StoredInv ==
  /\ pc \in PastEvents => Stored("events")
  /\ pc \in PastRequests => Stored("requests")
  /\ pc \in PastBindings => Stored("file_bindings")
  /\ pc \in PastLedger => Stored("usage_ledger")
  /\ pc \in PastUsage => Stored("usage_aggregate")
  /\ pc \in PastSealed => Stored("sealed_artifact")
  /\ pc \in PastFinal => Stored("final_state")
  /\ pc \in PastRun => Stored("run")

\* The run_stop event is the last, and nobody else has changed the tree.
StopInv ==
  /\ foreign \in Nat
  /\ pc \in Sealing => rt.events # <<>> /\ Last(rt.events).kind = "run_stop"
  /\ pc = "bodies" /\ foreign = 0 => call.tree = file
  /\ pc \in PastBodies /\ foreign = 0 => call.body = call.tree

LEMMA SealFrame ==
  ASSUME [Next]_vars
  PROVE  \/ Construct \/ SealArtifact
         \/ /\ UNCHANGED disk
            /\ \/ RunStop \/ SealTree \/ SealBodies \/ Foreign
               \/ UNCHANGED vars
               \/ pc' \in {"producer_blob", "dead", "raised"} /\ UNCHANGED foreign
               \/ pc \in Looping /\ pc' \in Looping /\ UNCHANGED foreign
<1> USE DEF storeVars, worldVars, Journalled, Exit, Goto, Raise, Looping, InSend, InTool, Pending
<1>1. CASE Start \/ Kill
  BY <1>1 DEF Start, Kill
<1>2. CASE Enter \/ Terminal
  BY <1>2 DEF Enter, Terminal, PersistAttempt
<1>3. CASE Transport \/ SnapshotRequest \/ RequestEvent
  BY <1>3 DEF Transport, SnapshotRequest, RequestEvent
<1>4. CASE TerminalEvent
  BY <1>4 DEF TerminalEvent
<1>5. CASE Tool
  BY <1>5 DEF Tool, ToolStart, FileTool, RunTest, ToolFinish, ToolFinishFails, ErrorFinish
<1>6. CASE CompareBoundFile
  BY <1>6 DEF CompareBoundFile
<1>7. CASE PersistView
  BY <1>7 DEF PersistView
<1>8. CASE RunStop \/ SealTree \/ SealBodies
  BY <1>8 DEF RunStop, SealTree, SealBodies
<1>9. CASE Foreign \/ UNCHANGED vars
  BY <1>9 DEF Foreign, vars
<1> QED
  BY <1>1, <1>2, <1>3, <1>4, <1>5, <1>6, <1>7, <1>8, <1>9 DEF Next, Send, Seal

LEMMA ConstructedStep == ASSUME SealInv, ConstructedInv, [Next]_vars PROVE ConstructedInv'
<1> USE DEF Sealing, PastEvents, PastRequests, PastBindings, PastLedger, PastUsage, PastBodies,
        PastSealed, PastFinal, PastRun
<1>1. CASE Construct
  <2>1. PICK body : Persist(pc, body, After[pc])
    BY <1>1 DEF Construct
  <2>2. pc \in Early /\ pc \in Artifacts /\ Early \subseteq Artifacts
    BY <1>1, ArtifactNames DEF Construct, Early
  <2>3. /\ pc = "producer_blob" => After[pc] = "producer_manifest"
        /\ pc = "producer_manifest" => After[pc] = "producer_ref"
        /\ pc = "producer_ref" => After[pc] = "config_blob"
        /\ pc = "config_blob" => After[pc] = "initial_state"
        /\ pc = "initial_state" => After[pc] = "loop"
    BY DEF After
  <2>4. PICK next : next = After[pc]
    OBVIOUS
  <2>5. next \notin {"raised", "dead"}
    BY <2>2, <2>3, <2>4 DEF Early
  <2>6. /\ \A b \in Artifacts : IsWhole(b) => IsWhole(b)'
        /\ pc' \in {next, "raised", "dead"}
        /\ pc' = next => disk'[pc] = Whole(body)
    BY <2>1, <2>2, <2>4, <2>5, PersistKeeps DEF SealInv, IsWhole
  <2>7. pc' = next => disk'[pc].state = "whole"
    BY <2>6 DEF Whole
  <2> QED BY <2>2, <2>3, <2>4, <2>6, <2>7 DEF ConstructedInv, Early, IsWhole
<1>2. CASE SealArtifact
  <2>1. PICK body : Persist(pc, body, After[pc])
    BY <1>2 DEF SealArtifact
  <2>2. pc \in Sealing \ {"sealed", "tree", "bodies"} /\ pc \in Artifacts
    BY <1>2, ArtifactNames DEF SealArtifact
  <2>3. \A b \in Artifacts : IsWhole(b) => IsWhole(b)'
    BY <2>1, <2>2, PersistKeeps DEF SealInv, IsWhole
  <2>4. pc' \in {After[pc], "raised", "dead"} /\ After[pc] \in PastEvents
    <3>1. pc' \in {After[pc], "raised", "dead"}
      BY <2>1, <2>2, PersistKeeps DEF SealInv
    <3>2. After[pc] \in PastEvents
      BY <2>2 DEF After
    <3> QED BY <3>1, <3>2
  <2> QED BY <2>2, <2>3, <2>4, ArtifactNames DEF ConstructedInv, Early
<1>3. CASE UNCHANGED disk /\ (RunStop \/ SealTree \/ SealBodies)
  BY <1>3 DEF RunStop, SealTree, SealBodies, Exit, ConstructedInv, IsWhole
<1>4. CASE UNCHANGED disk /\ (Foreign \/ UNCHANGED vars)
  BY <1>4 DEF Foreign, vars, ConstructedInv, IsWhole
<1>5. CASE UNCHANGED disk /\ pc' \in {"producer_blob", "dead", "raised"}
  BY <1>5 DEF ConstructedInv
<1>6. CASE UNCHANGED disk /\ pc \in Looping /\ pc' \in Looping
  BY <1>6 DEF ConstructedInv, Looping, InSend, InTool, Pending, IsWhole
<1> QED BY <1>1, <1>2, <1>3, <1>4, <1>5, <1>6, SealFrame

\* The contents of seal depend on the memory of the process alone; the first five not on
\* what it read of the tree.
LEMMA ContentsKept ==
  ASSUME UNCHANGED <<rt, starts>>
  PROVE  /\ \A a \in {"events", "requests", "file_bindings", "usage_ledger", "usage_aggregate"} :
              SealContent(a)' = SealContent(a)
         /\ call' = call => \A a \in {"sealed_artifact", "final_state", "run"} :
              SealContent(a)' = SealContent(a)
  BY DEF SealContent, SealedArtifact, FinalState

LEMMA StoredStep == ASSUME SealInv, StoredInv, [Next]_vars PROVE StoredInv'
<1> USE DEF PastEvents, PastRequests, PastBindings, PastLedger, PastUsage, PastBodies,
        PastSealed, PastFinal, PastRun
<1>1. CASE Construct
  <2>1. PICK body : Persist(pc, body, After[pc])
    BY <1>1 DEF Construct
  <2>2. pc \in Early /\ pc \in Artifacts
    BY <1>1, ArtifactNames DEF Construct, Early
  <2>3. pc' \in {After[pc], "raised", "dead"}
    BY <2>1, <2>2, PersistKeeps DEF SealInv
  <2>4. After[pc] \in Early \cup {"loop"}
    BY <2>2 DEF Early, After
  <2> QED BY <2>3, <2>4 DEF StoredInv, Early
<1>2. CASE SealArtifact
  <2>1. PICK here : here = pc
    OBVIOUS
  <2>2. PICK body : body = SealContent(here)
    OBVIOUS
  <2>3. PICK next : next = After[here]
    OBVIOUS
  <2>4. Persist(here, body, next) /\ here \in Artifacts \ Early
    BY <1>2, <2>1, <2>2, <2>3, ArtifactNames DEF SealArtifact, Early
  <2>5. next \notin {"raised", "dead"}
    BY <2>3, <2>4, ArtifactNames
  <2>6. /\ \A b \in Artifacts : b # here => disk'[b] = disk[b]
        /\ pc' \in {next, "raised", "dead"}
        /\ pc' = next => disk'[here] = Whole(body)
    BY <2>4, <2>5, PersistKeeps DEF SealInv
  <2>7. CASE pc' \in {"raised", "dead"}
    BY <2>7 DEF StoredInv
  <2>8. CASE pc' = next
    <3>1. UNCHANGED <<rt, call, starts>>
      <4>1. ~Exit("raised") /\ ~Exit("dead")
        BY <2>5, <2>8 DEF Exit
      <4> QED BY <2>4, <4>1 DEF Persist, Goto, worldVars
    <3>2. \A a \in Artifacts \ Early : SealContent(a)' = SealContent(a)
      BY <3>1, ContentsKept, ArtifactNames DEF Early
    <3>3. ASSUME NEW a \in Artifacts \ Early, a # here, Stored(a) PROVE Stored(a)'
      <4>1. disk'[a] = Whole(SealContent(a))
        BY <2>6, <3>3 DEF Stored
      <4> QED BY <3>2, <4>1 DEF Stored, Whole
    <3>4. Stored(here)'
      <4>1. disk'[here] = Whole(SealContent(here))
        BY <2>2, <2>6, <2>8
      <4> QED BY <2>4, <3>2, <4>1 DEF Stored, Whole
    <3>5. /\ here = "events" => next = "requests"
          /\ here = "requests" => next = "file_bindings"
          /\ here = "file_bindings" => next = "usage_ledger"
          /\ here = "usage_ledger" => next = "usage_aggregate"
          /\ here = "usage_aggregate" => next = "tree"
          /\ here = "sealed_artifact" => next = "final_state"
          /\ here = "final_state" => next = "run"
          /\ here = "run" => next = "sealed"
      BY <2>3 DEF After
    <3>6. Artifacts \ Early = {"events", "requests", "file_bindings", "usage_ledger",
                               "usage_aggregate", "sealed_artifact", "final_state", "run"}
      BY ArtifactNames DEF Early
    <3>7. /\ pc' \in PastEvents => here = "events" \/ Stored("events")
          /\ pc' \in PastRequests => here = "requests" \/ Stored("requests")
          /\ pc' \in PastBindings => here = "file_bindings" \/ Stored("file_bindings")
          /\ pc' \in PastLedger => here = "usage_ledger" \/ Stored("usage_ledger")
          /\ pc' \in PastUsage => here = "usage_aggregate" \/ Stored("usage_aggregate")
          /\ pc' \in PastSealed => here = "sealed_artifact" \/ Stored("sealed_artifact")
          /\ pc' \in PastFinal => here = "final_state" \/ Stored("final_state")
          /\ pc' \in PastRun => here = "run" \/ Stored("run")
      BY <2>1, <2>4, <2>8, <3>5, <3>6 DEF StoredInv
    <3>8. \A a \in Artifacts \ Early : here = a \/ Stored(a) => Stored(a)'
      BY <3>3, <3>4
    <3> HIDE DEF PastEvents, PastRequests, PastBindings, PastLedger, PastUsage, PastBodies,
             PastSealed, PastFinal, PastRun
    <3> QED BY <3>6, <3>7, <3>8 DEF StoredInv
  <2> QED BY <2>6, <2>7, <2>8
<1>3. ASSUME UNCHANGED <<disk, rt, starts>>, pc \in PastUsage, pc' \in PastUsage \ PastSealed
      PROVE  StoredInv'
  <2>1. \A a \in {"events", "requests", "file_bindings", "usage_ledger", "usage_aggregate"} :
          Stored(a) => Stored(a)'
    BY <1>3, ContentsKept DEF Stored, Whole
  <2> QED BY <1>3, <2>1 DEF StoredInv
<1>4. CASE UNCHANGED disk /\ (SealTree \/ SealBodies)
  <2>1. CASE pc' \in {"raised", "dead"}
    BY <2>1 DEF StoredInv
  <2>2. CASE pc' \notin {"raised", "dead"}
    <3>1. UNCHANGED <<disk, rt, starts>> /\ pc \in {"tree", "bodies"} /\ pc' \in {"bodies", "sealed_artifact"}
      BY <1>4, <2>2 DEF SealTree, SealBodies, Exit, worldVars
    <3> QED BY <1>3, <3>1
  <2> QED BY <2>1, <2>2
<1>5. CASE UNCHANGED disk /\ (Foreign \/ UNCHANGED vars)
  <2>1. UNCHANGED <<disk, pc, rt, call, starts>>
    BY <1>5 DEF Foreign, vars, worldVars
  <2>2. \A a \in {"events", "requests", "file_bindings", "usage_ledger", "usage_aggregate",
                  "sealed_artifact", "final_state", "run"} : Stored(a) => Stored(a)'
    BY <2>1, ContentsKept DEF Stored, Whole
  <2> QED BY <2>1, <2>2 DEF StoredInv
<1>6. CASE pc' \in {"producer_blob", "dead", "raised"} \/ pc' \in Looping \/ RunStop
  <2>1. pc' \in {"producer_blob", "dead", "raised", "events"} \/ pc' \in Looping
    BY <1>6 DEF RunStop
  <2> QED BY <2>1 DEF StoredInv, Looping, InSend, InTool, Pending
<1> QED BY <1>1, <1>2, <1>4, <1>5, <1>6, SealFrame

LEMMA StopStep ==
  ASSUME SendTyped, JournalsTyped, SealInv, StopInv, [Next]_vars PROVE StopInv'
<1> USE DEF Sealing, PastEvents, PastRequests, PastBindings, PastLedger, PastUsage, PastBodies,
        PastSealed, PastFinal, PastRun
<1>1. CASE Construct \/ SealArtifact
  <2>1. PICK body : Persist(pc, body, After[pc])
    BY <1>1 DEF Construct, SealArtifact
  <2>2. UNCHANGED foreign
    BY <2>1 DEF Persist, worldVars
  <2>3. CASE pc' \in {"raised", "dead"}
    BY <2>2, <2>3 DEF StopInv
  <2>4. CASE pc' \notin {"raised", "dead"}
    <3>1. pc' = After[pc] /\ UNCHANGED <<rt, call>>
      BY <2>1, <2>4 DEF Persist, Goto, Exit
    <3>2. CASE Construct
      <4>1. pc' \in Early \cup {"loop"}
        BY <3>1, <3>2 DEF Construct, Early, After
      <4> QED BY <2>2, <4>1 DEF StopInv, Early
    <3>3. CASE SealArtifact
      <4>1. /\ pc \in Sealing /\ pc' \in Sealing /\ pc' # "bodies"
            /\ pc' \in PastBodies => pc \in PastBodies
        BY <3>1, <3>3 DEF SealArtifact, After
      <4> QED BY <2>2, <3>1, <4>1 DEF StopInv
    <3> QED BY <1>1, <3>2, <3>3
  <2> QED BY <2>3, <2>4
<1>2. CASE RunStop
  <2> DEFINE e == EventAt(rt.seq, "run_stop", 0, TRUE, [status |-> StopStatus])
  <2>1. rt' = Recorded(e) /\ pc' = "events" /\ UNCHANGED foreign
    BY <1>2 DEF RunStop, worldVars
  <2>2. e.kind = "run_stop"
    BY DEF EventAt
  <2> HIDE DEF e
  <2>3. rt'.events = Append(rt.events, e)
    BY <2>1, RecordedObject DEF SendTyped
  <2>4. Last(rt'.events) = e /\ rt'.events # <<>>
    <3>1. /\ Len(rt'.events) = Len(rt.events) + 1 /\ rt'.events[Len(rt.events) + 1] = e
          /\ Len(rt.events) \in Nat
      BY <2>3, AppendFacts, SequenceFacts DEF JournalsTyped
    <3> QED BY <3>1 DEF Last
  <2> QED BY <2>1, <2>2, <2>4 DEF StopInv
<1>3. CASE SealTree
  <2>1. /\ call' = [call EXCEPT !.tree = file] /\ pc = "tree" /\ pc' = "bodies"
        /\ UNCHANGED <<rt, file, foreign>>
    BY <1>3 DEF SealTree, worldVars
  <2>2. call'.tree = file
    BY <2>1 DEF SendTyped, IsCall, CallFields
  <2> QED BY <2>1, <2>2 DEF StopInv
<1>4. CASE SealBodies
  <2>1. CASE pc' \in {"raised", "dead"}
    BY <1>4, <2>1 DEF StopInv, SealBodies, worldVars
  <2>2. CASE pc' \notin {"raised", "dead"}
    <3>1. /\ call' = [call EXCEPT !.body = IF call.tree = Missing THEN Missing ELSE file]
          /\ pc = "bodies" /\ pc' = "sealed_artifact" /\ UNCHANGED <<rt, foreign>>
      BY <1>4, <2>2 DEF SealBodies, Exit, worldVars
    <3>2. /\ call'.body = (IF call.tree = Missing THEN Missing ELSE file)
          /\ call'.tree = call.tree
      BY <3>1 DEF SendTyped, IsCall, CallFields
    <3> QED BY <3>1, <3>2 DEF StopInv
  <2> QED BY <2>1, <2>2
<1>5. CASE Foreign
  BY <1>5 DEF Foreign, StopInv
<1>6. CASE UNCHANGED vars
  BY <1>6 DEF vars, worldVars, StopInv
<1>7. CASE UNCHANGED foreign /\ (pc' \in {"producer_blob", "dead", "raised"} \/ pc' \in Looping)
  BY <1>7 DEF StopInv, Looping, InSend, InTool, Pending
<1> QED BY <1>1, <1>2, <1>3, <1>4, <1>5, <1>6, <1>7, SealFrame

-----------------------------------------------------------------------------
(* The verdict over a sealed run.                                          *)

CleanInv ==
  /\ CleanTyped /\ NumberInv /\ AttemptInv /\ LedgerInv /\ AnswerInv
  /\ RecordsInv /\ BlockInv /\ CutoffInv /\ CheckInv /\ ViewInv

Selected(events, kinds) == {e \in Range(events) : e.kind \in kinds}

\* A ledger has as many events as calls.
LEMMA LedgerCounts ==
  ASSUME NEW events, NEW kinds, NEW n \in Nat, Ledger(events, kinds, n)
  PROVE  /\ {e.call : e \in Selected(events, kinds)} = 0..(n - 1)
         /\ Cardinality(Selected(events, kinds)) = n
<1> DEFINE E == Selected(events, kinds)
           f == [k \in 0..(n - 1) |-> CHOOSE e \in E : e.call = k]
<1>1. \A e \in E : e.call \in 0..(n - 1)
  BY DEF Ledger, Selected, Range
<1>2. \A k \in 0..(n - 1) : \E e \in E : e.call = k
  BY DEF Ledger, Selected, Range
<1>3. \A e, d \in E : e.call = d.call => e = d
  <2>1. ASSUME NEW e \in E, NEW d \in E, e.call = d.call PROVE e = d
    <3>1. PICK i \in DOMAIN events : e = events[i] /\ e.kind \in kinds
      BY DEF Selected, Range
    <3>2. PICK j \in DOMAIN events : d = events[j] /\ d.kind \in kinds
      BY DEF Selected, Range
    <3>3. i = j
      BY <2>1, <3>1, <3>2 DEF Ledger
    <3> QED BY <3>1, <3>2, <3>3
  <2> QED BY <2>1
<1> HIDE DEF E
<1>4. \A k \in 0..(n - 1) : f[k] \in E /\ f[k].call = k
  BY <1>2
<1>5. f \in Bijection(0..(n - 1), E)
  <2> HIDE DEF f
  <2>1. f \in [0..(n - 1) -> E]
    BY <1>4 DEF f
  <2>2. \A j, k \in 0..(n - 1) : f[j] = f[k] => j = k
    BY <1>4
  <2>3. \A e \in E : \E k \in 0..(n - 1) : f[k] = e
    BY <1>1, <1>3, <1>4
  <2>4. PICK D : D = 0..(n - 1)
    OBVIOUS
  <2>5. /\ f \in [D -> E] /\ (\A j, k \in D : f[j] = f[k] => j = k)
        /\ \A e \in E : \E k \in D : f[k] = e
    BY <2>1, <2>2, <2>3, <2>4
  <2>6. f \in Bijection(D, E)
    BY <2>5 DEF Bijection, Injection, Surjection, IsInjective
  <2> QED BY <2>4, <2>6
<1>6. IsFiniteSet(0..(n - 1)) /\ Cardinality(0..(n - 1)) = n
  <2>1. n - 1 \in Int /\ 0 \in Int
    OBVIOUS
  <2> QED BY <2>1, FS_Interval
<1>7. Cardinality(E) = n
  BY <1>5, <1>6, FS_Bijection DEF ExistsBijection
<1> QED BY <1>1, <1>2, <1>7 DEF E
\* An event is found by its number.
LEMMA EventBySeq ==
  ASSUME NumberInv, JournalsTyped, NEW i \in DOMAIN rt.events
  PROVE  /\ {e \in Range(rt.events) : e.seq = i - 1} = {rt.events[i]}
         /\ \A j \in DOMAIN rt.events : rt.events[j].seq = i - 1 => j = i
<1>1. DOMAIN rt.events \subseteq Int
  BY SequenceFacts DEF JournalsTyped
<1>2. \A j \in DOMAIN rt.events : rt.events[j].seq = i - 1 => j = i
  BY <1>1 DEF NumberInv
<1>3. rt.events[i] \in {e \in Range(rt.events) : e.seq = i - 1}
  BY DEF NumberInv, Range
<1>4. ASSUME NEW e \in Range(rt.events), e.seq = i - 1 PROVE e = rt.events[i]
  BY <1>2, <1>4 DEF Range
<1> QED BY <1>2, <1>3, <1>4

\* build_view accepts the blocks of a snapshot of the run.
LEMMA BlocksAuthorized ==
  ASSUME NumberInv, JournalsTyped, BlockInv, NEW s \in Range(rt.snapshots),
         NEW k \in DOMAIN s.blocks
  PROVE  AuthorizeRef(s.blocks[k].label, s.cutoff) /\ CompletedEvent(s.blocks[k], rt.events, s.cutoff)
<1> DEFINE b == s.blocks[k]
<1>1. b \in Range(s.blocks)
  BY DEF Range
<1>2. Stems(b, rt.events) /\ b.origin <= s.cutoff
  BY <1>1 DEF BlockInv
<1> HIDE DEF b
<1>3. PICK i \in DOMAIN rt.events :
        /\ b.origin = i - 1 /\ b.label = i - 1 /\ rt.events[i].done
        /\ rt.events[i].kind = IF b.type = "tool_result" THEN "tool_finish" ELSE "response"
        /\ b.type = "tool_result" => rt.events[i].call = b.call
  BY <1>2 DEF Stems
<1> DEFINE matches == {e \in Range(rt.events) : e.seq = b.origin}
<1>4. matches = {rt.events[i]}
  BY <1>3, EventBySeq
<1>5. Cardinality(matches) = 1
  BY <1>4, FS_Singleton
<1>6. rt.events[i].seq = i - 1
  BY DEF NumberInv
<1>7. AuthorizeRef(b.label, s.cutoff)
  BY <1>2, <1>3 DEF AuthorizeRef
<1> HIDE DEF matches
<1>8. \A e \in matches :
        /\ e.done /\ e.seq <= s.cutoff
        /\ e.kind = IF b.type = "tool_result" THEN "tool_finish" ELSE "response"
        /\ b.type = "tool_result" => e.call = b.call
        /\ b.label = e.seq
  BY <1>2, <1>3, <1>4, <1>6
<1>9. CompletedEvent(b, rt.events, s.cutoff)
  BY <1>5, <1>8 DEF CompletedEvent, matches
<1> QED BY <1>7, <1>9 DEF b

\* ... and the comparisons of a view on disk.
LEMMA ViewAuthorized ==
  ASSUME NumberInv, JournalsTyped, BlockInv, CheckInv, NEW w, Shown(w)
  PROVE  BuildView(w.view.blocks, w.view.comparisons, rt.events, w.view.cutoff)
<1>1. PICK s \in Range(rt.snapshots) : s.cutoff = w.view.cutoff /\ s.blocks = w.view.blocks
  BY DEF Shown
<1>2. \A k \in DOMAIN w.view.blocks :
        /\ AuthorizeRef(w.view.blocks[k].label, w.view.cutoff)
        /\ CompletedEvent(w.view.blocks[k], rt.events, w.view.cutoff)
  BY <1>1, BlocksAuthorized
<1>3. ASSUME NEW c \in w.view.comparisons
      PROVE  ComparisonAuthorized(c, w.view.blocks, rt.events, w.view.cutoff)
  <2>1. PICK i \in DOMAIN rt.events :
          /\ c.seq = i - 1 /\ rt.events[i].kind = "state_check" /\ rt.events[i].done
          /\ rt.events[i].call = c.binding.event
    BY DEF Shown, CheckInv, Compared
  <2> DEFINE found == {j \in DOMAIN rt.events : /\ rt.events[j].kind = "state_check"
                         /\ rt.events[j].done /\ rt.events[j].seq = c.seq
                         /\ rt.events[j].call = c.binding.event}
  <2>2. found = {i}
    <3>1. rt.events[i].seq = i - 1
      BY DEF NumberInv
    <3> QED BY <2>1, <3>1, EventBySeq
  <2>3. Cardinality(found) = 1
    BY <2>2, FS_Singleton
  <2> QED BY <2>3 DEF Shown, ComparisonAuthorized, AuthorizeRef
<1> QED BY <1>2, <1>3 DEF BuildView

LEMMA WholeFacts ==
  /\ \A x : Whole(x).state = "whole" /\ Whole(x).body = x
  /\ \A f \in RecordFiles : f.state = "whole" => f = Whole(f.body)
<1>1. \A x : Whole(x).state = "whole" /\ Whole(x).body = x
  BY DEF Whole
<1>2. Absent.state # "whole" /\ Torn.state # "whole"
  BY DEF Absent, Torn
<1>3. ASSUME NEW f \in RecordFiles, f.state = "whole" PROVE f = Whole(f.body)
  <2>1. PICK x : f = Whole(x)
    BY <1>2, <1>3 DEF RecordFiles
  <2> QED BY <1>1, <2>1
<1> QED BY <1>1, <1>3

LEMMA CountBelow ==
  ASSUME NEW n \in Nat PROVE IsFiniteSet(0..(n - 1)) /\ Cardinality(0..(n - 1)) = n
<1>1. n - 1 \in Int /\ 0 \in Int
  OBVIOUS
<1> QED BY <1>1, FS_Interval

\* What seal left on disk.
LEMMA SealedContents ==
  ASSUME ConstructedInv, StoredInv, pc = "sealed"
  PROVE  /\ \A a \in Artifacts : IsWhole(a)
         /\ Events = rt.events /\ Snapshots = rt.snapshots
         /\ disk["file_bindings"].body = rt.bindings
         /\ disk["usage_ledger"].body = [i \in DOMAIN rt.usages |-> rt.snapshots[i].attempt]
         /\ disk["usage_aggregate"].body.count = Len(rt.usages)
         /\ disk["usage_aggregate"].body.complete = UsageComplete(rt.usages)
         /\ disk["final_state"].body = FinalState
         /\ disk["run"].body.events = rt.events /\ disk["run"].body.sealed = SealedArtifact
         /\ disk["run"].body.final = FinalState
<1>1. \A a \in Early : IsWhole(a)
  BY DEF ConstructedInv, Early
<1>2. \A a \in Artifacts \ Early : Stored(a)
  <2>1. Artifacts \ Early = {"events", "requests", "file_bindings", "usage_ledger",
                             "usage_aggregate", "sealed_artifact", "final_state", "run"}
    BY ArtifactNames DEF Early
  <2> QED BY <2>1 DEF StoredInv, PastEvents, PastRequests, PastBindings, PastLedger, PastUsage,
         PastBodies, PastSealed, PastFinal, PastRun
<1>3. \A a \in Artifacts \ Early : disk[a].state = "whole" /\ disk[a].body = SealContent(a)
  BY <1>2, WholeFacts DEF Stored
<1>4. \A a \in {"events", "requests", "file_bindings", "usage_ledger", "usage_aggregate",
                "sealed_artifact", "final_state", "run"} : disk[a].body = SealContent(a)
  BY <1>3, ArtifactNames DEF Early
<1>5. /\ SealContent("events") = rt.events /\ SealContent("requests") = rt.snapshots
      /\ SealContent("file_bindings") = rt.bindings
      /\ SealContent("usage_ledger") = [i \in DOMAIN rt.usages |-> rt.snapshots[i].attempt]
      /\ SealContent("usage_aggregate") =
           [count |-> Len(rt.usages), complete |-> UsageComplete(rt.usages)]
      /\ SealContent("final_state") = FinalState
      /\ SealContent("run") = [events |-> rt.events, sealed |-> SealedArtifact,
                               final |-> FinalState, start |-> starts]
  BY DEF SealContent
<1> QED BY <1>1, <1>3, <1>4, <1>5 DEF IsWhole, Events, Snapshots

LEMMA SealedPasses ==
  ASSUME SendInv, JournalsTyped, BackedInv, MemoryInv, CleanInv, ConstructedInv, StoredInv, StopInv,
         pc = "sealed", foreign = 0
  PROVE  AuditPasses
<1> DEFINE n == rt.attempts
<1> USE DEF CleanInv
<1>0. /\ n \in Nat /\ n <= MaxAttempts /\ MaxAttempts \in Nat
      /\ Len(rt.snapshots) = n /\ Len(rt.usages) = n
      /\ DOMAIN rt.snapshots = 1..n /\ DOMAIN rt.usages = 1..n
  <2>1. n \in Nat /\ n <= MaxAttempts /\ Len(rt.snapshots) = n /\ Len(rt.usages) = n
    BY DEF AttemptInv, Behind
  <2> QED BY <2>1, BoundsAssumption, SequenceFacts DEF JournalsTyped, CleanTyped
<1>1. /\ Ledger(rt.events, {"request"}, n) /\ Ledger(rt.events, Terminals, n)
      /\ Ledger(rt.events, {"tool_start"}, rt.tools) /\ Ledger(rt.events, {"tool_finish"}, rt.tools)
  BY DEF LedgerInv, Behind, Pending, InSend, InTool
<1>2. \A kinds : EventsOf(kinds) = Selected(rt.events, kinds)
  BY SealedContents DEF EventsOf, Selected
<1>3. SnapshotIds = 0..(n - 1)
  <2>1. SnapshotIds = {s.attempt : s \in Range(rt.snapshots)}
    BY SealedContents DEF SnapshotIds
  <2>2. ASSUME NEW x \in SnapshotIds PROVE x \in 0..(n - 1)
    BY <1>0, <2>1, <2>2 DEF Range, AttemptInv
  <2>3. ASSUME NEW x \in 0..(n - 1) PROVE x \in SnapshotIds
    <3>1. x + 1 \in DOMAIN rt.snapshots /\ rt.snapshots[x + 1].attempt = x
      BY <1>0 DEF AttemptInv
    <3> QED BY <2>1, <3>1 DEF Range
  <2> QED BY <2>2, <2>3
<1>4. PhysicalIds = 0..(n - 1)
  <2>1. \A m \in Attempts : IF m < n THEN physical[m].entered = Whole(<<>>)
                            ELSE physical[m].entered = Absent /\ physical[m].terminal = Absent
    BY <1>0 DEF RecordsInv, Behind
  <2>2. Whole(<<>>) # Absent
    BY DEF Whole, Absent
  <2> QED BY <1>0, <2>1, <2>2 DEF PhysicalIds, Attempts
<1>5. Cardinality(0..(n - 1)) = n
  BY <1>0, CountBelow
<1>6. ASSUME NEW kinds, Ledger(rt.events, kinds, n), kinds \subseteq {"request"} \cup Terminals
      PROVE  /\ {e.data.attempt : e \in EventsOf(kinds)} = 0..(n - 1)
             /\ Cardinality(EventsOf(kinds)) = n
  <2>1. /\ {e.call : e \in EventsOf(kinds)} = 0..(n - 1)
        /\ Cardinality(EventsOf(kinds)) = n
    BY <1>0, <1>2, <1>6, LedgerCounts
  <2>2. \A e \in EventsOf(kinds) : e.data.attempt = e.call
    BY <1>2, <1>6 DEF Selected, Range, AnswerInv
  <2> QED BY <2>1, <2>2
<1>7. AuditReadable
  <2>1. \A m \in Attempts : physical[m].entered # Torn /\ physical[m].terminal # Torn
    BY DEF RecordsInv, Whole, Absent, Torn
  <2>2. \A w \in views : w.state = "whole"
    BY DEF ViewInv, Shown
  <2> QED BY <2>1, <2>2, SealedContents DEF AuditReadable
<1>8. AuditRepositoryStates
  <2>1. call.body = call.tree
    BY DEF StopInv, PastBodies, PastSealed, PastFinal, PastRun
  <2> QED BY <2>1, SealedContents DEF AuditRepositoryStates, FinalState, SealedArtifact
<1>9. AuditEvents
  <2>1. rt.events # <<>> /\ Last(rt.events).kind = "run_stop"
    BY DEF StopInv, Sealing, PastEvents, PastRequests, PastBindings, PastLedger, PastUsage,
       PastBodies, PastSealed, PastFinal, PastRun
  <2> QED BY <2>1, SealedContents DEF AuditEvents, NumberInv
<1>10. AuditAttempts
  <2>1. \A m \in PhysicalIds : physical[m].entered # Absent /\ physical[m].terminal # Absent
    BY <1>0, <1>4 DEF RecordsInv, Behind, Whole, Absent, Attempts
  <2>2. /\ {e.data.attempt : e \in EventsOf({"request"})} = 0..(n - 1)
        /\ Cardinality(EventsOf({"request"})) = n
    BY <1>1, <1>6
  <2>3. /\ {e.data.attempt : e \in EventsOf(Terminals)} = 0..(n - 1)
        /\ Cardinality(EventsOf(Terminals)) = n
    BY <1>1, <1>6
  <2>4. Len(Snapshots) = n
    BY <1>0, SealedContents
  <2> QED BY <1>3, <1>4, <1>5, <2>1, <2>2, <2>3, <2>4 DEF AuditAttempts, Terminals
<1>11. AuditTerminals
  <2>1. ASSUME NEW e \in EventsOf(Terminals)
        PROVE  /\ (e.kind = "provider_failure") = e.data.reply.failed
               /\ physical[e.data.attempt].terminal = Whole(<<e.data.reply>>)
    <3>1. e \in Range(rt.events) /\ e.kind \in Terminals
      BY <1>2 DEF Selected
    <3>2. (e.kind = "provider_failure") = e.data.reply.failed
      BY <3>1 DEF AnswerInv, Range
    <3>3. PICK j \in DOMAIN journal : e = journal[j]
      BY <3>1 DEF MemoryInv, Range
    <3>4. LineBacked(j)
      BY DEF BackedInv
    <3>5. /\ e.data.attempt \in Attempts /\ physical[e.data.attempt].terminal.state = "whole"
          /\ sent[e.data.attempt] = <<e.data.reply>>
      BY <3>1, <3>3, <3>4 DEF LineBacked, Terminals
    <3>6. physical[e.data.attempt].terminal.body = <<e.data.reply>>
      BY <3>5 DEF SendInv, ExchangeInv
    <3>7. physical[e.data.attempt].terminal \in RecordFiles
      BY <3>5 DEF SendInv, SendTyped
    <3>8. physical[e.data.attempt].terminal = Whole(physical[e.data.attempt].terminal.body)
      BY <3>5, <3>7, WholeFacts
    <3> QED BY <3>2, <3>6, <3>8
  <2> QED BY <2>1 DEF AuditTerminals, Terminals
<1>12. AuditContext
  <2>1. \A s \in Range(Snapshots) : \A i \in DOMAIN s.blocks :
          /\ AuthorizeRef(s.blocks[i].label, s.cutoff)
          /\ CompletedEvent(s.blocks[i], Events, s.cutoff)
    BY SealedContents, BlocksAuthorized
  <2> QED BY <2>1 DEF AuditContext, BuildView
<1>13. AuditFileBindings
  <2>0. rt.tools \in Nat
    BY DEF JournalsTyped
  <2>1. ASSUME NEW kind \in {"tool_start", "tool_finish"}
        PROVE  /\ {e.call : e \in EventsOf({kind})} = 0..(rt.tools - 1)
               /\ Cardinality(EventsOf({kind})) = rt.tools
    <3>1. Ledger(rt.events, {kind}, rt.tools)
      BY <1>1
    <3> QED BY <1>2, <2>0, <3>1, LedgerCounts
  <2>2. Cardinality(0..(rt.tools - 1)) = rt.tools
    BY <2>0, CountBelow
  <2>3. ASSUME NEW b \in Range(rt.bindings)
        PROVE  \E e \in EventsOf({"tool_finish"}) :
                 e.seq = b.event /\ e.data.complete /\ e.data.body = b.body
    <3>1. PICK i \in DOMAIN rt.events :
            /\ b.event = i - 1 /\ rt.events[i].kind = "tool_finish"
            /\ rt.events[i].data.complete /\ rt.events[i].data.body = b.body
      BY DEF CheckInv, Bound
    <3>2. rt.events[i].seq = i - 1
      BY DEF NumberInv
    <3>3. rt.events[i] \in EventsOf({"tool_finish"})
      BY <1>2, <3>1 DEF Selected, Range
    <3> QED BY <3>1, <3>2, <3>3
  <2>4. disk["final_state"].body.files = rt.bindings
    BY SealedContents DEF FinalState
  <2> QED BY <2>1, <2>2, <2>3, <2>4, SealedContents DEF AuditFileBindings
<1>14. AuditViews
  <2>1. ASSUME NEW w \in views
        PROVE  /\ Cardinality({i \in DOMAIN Snapshots : /\ Snapshots[i].cutoff = w.view.cutoff
                                                        /\ Snapshots[i].blocks = w.view.blocks}) = 1
               /\ BuildView(w.view.blocks, w.view.comparisons, Events, w.view.cutoff)
    <3>1. Shown(w)
      BY DEF ViewInv
    <3>2. PICK k \in DOMAIN rt.snapshots : /\ rt.snapshots[k].cutoff = w.view.cutoff
                                           /\ rt.snapshots[k].blocks = w.view.blocks
      BY <3>1 DEF Shown, Range
    <3>3. \A i \in DOMAIN rt.snapshots : rt.snapshots[i].cutoff = w.view.cutoff => i = k
      BY <1>0, <3>2 DEF CutoffInv
    <3>4. {i \in DOMAIN rt.snapshots : /\ rt.snapshots[i].cutoff = w.view.cutoff
                                       /\ rt.snapshots[i].blocks = w.view.blocks} = {k}
      BY <3>2, <3>3
    <3>5. BuildView(w.view.blocks, w.view.comparisons, rt.events, w.view.cutoff)
      BY <3>1, ViewAuthorized
    <3>6. Cardinality({k}) = 1
      BY FS_Singleton
    <3>7. Snapshots = rt.snapshots /\ Events = rt.events
      BY SealedContents
    <3> QED BY <3>4, <3>5, <3>6, <3>7
  <2>2. ASSUME NEW w \in views, NEW c \in w.view.comparisons
        PROVE  \E e \in EventsOf({"state_check"}) :
                 /\ e.seq = c.seq /\ e.data = c
                 /\ c.status # "unknown" => (c.status = "same") = (c.current = c.binding.body)
    <3>1. Compared(c, rt.events)
      BY DEF ViewInv, Shown, CheckInv
    <3>2. PICK i \in DOMAIN rt.events :
            c.seq = i - 1 /\ rt.events[i].kind = "state_check" /\ rt.events[i].data = c
      BY <3>1 DEF Compared
    <3>3. rt.events[i].seq = i - 1 /\ rt.events[i] \in EventsOf({"state_check"})
      BY <1>2, <3>2 DEF NumberInv, Selected, Range
    <3> QED BY <3>1, <3>2, <3>3 DEF Compared
  <2> QED BY <2>1, <2>2 DEF AuditViews
<1>15. AuditUsageLedger
  <2>1. Range(disk["usage_ledger"].body) = SnapshotIds
    <3>1. disk["usage_ledger"].body = [i \in 1..n |-> rt.snapshots[i].attempt]
      BY <1>0, SealedContents
    <3>2. SnapshotIds = {rt.snapshots[i].attempt : i \in 1..n}
      BY <1>0, SealedContents DEF SnapshotIds, Range
    <3> QED BY <3>1, <3>2 DEF Range
  <2>2. UsageComplete(rt.usages) <=> \A e \in EventsOf(Terminals) : e.data.reply.usage = "all"
    <3>1. \A e \in EventsOf(Terminals) :
            e.call + 1 \in DOMAIN rt.usages /\ rt.usages[e.call + 1] = e.data.reply.usage
      BY <1>2 DEF Selected, Range, AnswerInv
    <3>2. {e.call : e \in EventsOf(Terminals)} = 0..(n - 1)
      BY <1>0, <1>1, <1>2, LedgerCounts
    <3>3. ASSUME NEW i \in DOMAIN rt.usages
          PROVE  \E e \in EventsOf(Terminals) : e.call + 1 = i
      <4>1. i - 1 \in 0..(n - 1) /\ i \in Int
        BY <1>0
      <4>2. PICK e \in EventsOf(Terminals) : e.call = i - 1
        BY <3>2, <4>1
      <4> QED BY <4>1, <4>2
    <3> QED BY <3>1, <3>3 DEF UsageComplete
  <2>3. UsageComplete(rt.usages) \in BOOLEAN
    BY DEF UsageComplete
  <2>4. disk["usage_aggregate"].body.count = Cardinality(SnapshotIds)
    BY <1>0, <1>3, <1>5, SealedContents
  <2> QED BY <2>1, <2>2, <2>3, <2>4, SealedContents DEF AuditUsageLedger, Terminals
<1> QED
  BY <1>7, <1>8, <1>9, <1>10, <1>11, <1>12, <1>13, <1>14, <1>15 DEF AuditPasses

LEMMA BeginsClean == ASSUME Begins PROVE CleanInv'
<1>1. /\ rt'.usages = <<>> /\ rt'.checks = <<>> /\ rt'.bindings = <<>>
      /\ rt'.events = <<>> /\ rt'.snapshots = <<>> /\ rt'.messages = <<>>
      /\ rt'.attempts = 0 /\ rt'.tools = 0 /\ rt'.seq = 0
      /\ pc' = "producer_blob" /\ views' = {}
  BY DEF Begins, NewRuntime
<1>2. CleanTyped' /\ NumberInv'
  BY <1>1, EmptyFacts DEF CleanTyped, NumberInv
<1>3. AttemptInv'
  BY <1>1, EmptyFacts, BoundsAssumption DEF AttemptInv, Behind, InSend, InTool, Pending
<1>4. LedgerInv'
  <2>1. /\ Behind(Pending, rt.attempts)' = 0 /\ Behind(InSend, rt.attempts)' = 0
        /\ Behind(InTool, rt.tools)' = 0
    BY <1>1 DEF Behind, Pending, InSend, InTool
  <2> QED BY <1>1, <2>1, EmptyLedger DEF LedgerInv
<1>5. RecordsInv'
  BY <1>1, BoundsAssumption DEF Begins, RecordsInv, Behind, Attempts
<1>6. AnswerInv' /\ BlockInv' /\ CutoffInv' /\ CheckInv' /\ ViewInv'
  BY <1>1, EmptyFacts DEF AnswerInv, BlockInv, CutoffInv, CheckInv, ViewInv
<1> QED BY <1>2, <1>3, <1>4, <1>5, <1>6 DEF CleanInv

LEMMA CleanInvStep ==
  ASSUME SendTyped, JournalsTyped, BackedInv, MemoryInv, FreshInv,
         CleanRun => CleanInv, [Next]_vars, CleanRun'
  PROVE  CleanInv'
<1>1. CASE Start
  BY <1>1, FirstStart, BeginsClean DEF JournalsTyped
<1>2. CASE ~Start
  <2> USE DEF CleanInv
  <2>1. CleanInv /\ CleanStep
    BY <1>2, CleanNext
  <2>2. CleanTyped' /\ NumberInv' /\ AttemptInv' /\ LedgerInv' /\ AnswerInv'
    BY <2>1, CleanTypedStep, NumberStep, AttemptStep, LedgersStep, AnswerStep
  <2>3. RecordsInv' /\ BlockInv' /\ CutoffInv' /\ CheckInv' /\ ViewInv'
    BY <2>1, RecordsStep, BlockStep, CutoffStep, CheckStep, ViewStep
  <2> QED BY <2>2, <2>3
<1> QED BY <1>1, <1>2

\* The invariant of the whole argument.
RunInv ==
  /\ SendInv /\ JournalsTyped /\ BackedInv /\ PastInv /\ SealInv
  /\ FreshInv /\ ConstructedInv /\ StoredInv /\ StopInv
  /\ CleanRun => CleanInv

LEMMA InitRunInv == Init => RunInv
<1> SUFFICES ASSUME Init PROVE RunInv
  OBVIOUS
<1>1. SendInv /\ JournalsTyped /\ BackedInv /\ PastInv /\ SealInv
  BY InitSendInv, InitJournals, InitPast, InitSealInv
<1>2. pc = "off" /\ starts = 0 /\ foreign = 0 /\ views = {}
  BY DEF Init
<1>3. FreshInv
  BY <1>2 DEF FreshInv, Init
<1>4. ConstructedInv /\ StoredInv /\ StopInv
  BY <1>2 DEF ConstructedInv, StoredInv, StopInv, Sealing, PastEvents, PastRequests, PastBindings,
     PastLedger, PastUsage, PastBodies, PastSealed, PastFinal, PastRun
<1>5. ~CleanRun
  BY <1>2 DEF CleanRun
<1> QED BY <1>1, <1>3, <1>4, <1>5 DEF RunInv

LEMMA NextRunInv == RunInv /\ [Next]_vars => RunInv'
<1> SUFFICES ASSUME RunInv, [Next]_vars PROVE RunInv'
  OBVIOUS
<1> USE DEF RunInv
<1>1. SendTyped /\ MemoryInv /\ starts \in Nat
  BY DEF SendInv, PastInv, JournalsTyped
<1>2. SendInv'
  BY NextSendInv
<1>3. JournalsTyped' /\ BackedInv'
  BY <1>1, <1>2, JournalsTypedStep, BackedStep
<1>4. PastInv'
  BY <1>1, PastStep
<1>5. SealInv' /\ FreshInv' /\ ConstructedInv' /\ StoredInv' /\ StopInv'
  BY <1>1, SealStep, FreshStep, ConstructedStep, StoredStep, StopStep
<1>6. CleanRun' => CleanInv'
  BY <1>1, CleanInvStep
<1> QED BY <1>2, <1>3, <1>4, <1>5, <1>6

\* Every run that its only process seals, without a caught exception or a foreign change,
\* passes its audit, for any number of attempts, tool calls, comparisons and views: the
\* fail-closed audit_run blocks nothing that CapturedRuntime does in good order.
THEOREM SealedRunsPass == Spec => []SealedRunPasses
<1>1. ASSUME RunInv PROVE SealedRunPasses
  <2> SUFFICES ASSUME pc = "sealed", starts = 1, foreign = 0, ~rt.caught PROVE AuditPasses
    BY DEF SealedRunPasses
  <2>1. CleanRun
    BY DEF CleanRun
  <2> QED BY <1>1, <2>1, SealedPasses DEF RunInv, PastInv
<1> QED BY <1>1, InitRunInv, NextRunInv, PTL DEF Spec
=============================================================================
