-------------------------- MODULE HookCaptureProofs --------------------------
(***************************************************************************)
(* Proofs about HookCapture, and about the launcher's audit of what it     *)
(* leaves (SessionAudit), for every number of hook processes, verifier     *)
(* occurrences, Claude sessions and worktree contents.                     *)
(***************************************************************************)
EXTENDS SessionAudit, FiniteSetTheorems, TLAPS

-----------------------------------------------------------------------------
(* The inductive invariant, in named parts.                                *)

Early     == {"load", "bind", "reserve_event", "event"}
PrePath   == {"capture", "manifest", "reserve_checkpoint", "checkpoint",
              "checkpoint_blob", "pending"}
PostPath  == {"correlate", "reserve_receipt", "receipt", "receipt_write", "receipt_blob"}
Receipting == {"reserve_receipt", "receipt", "receipt_write"}

\* Where a process can be, given the event it was started for.
ControlInv ==
  \A h \in Hooks :
    /\ pc[h] = "idle" <=> call[h] = NoCall
    /\ pc[h] \in PrePath => call[h].kind = "pre"
    /\ pc[h] \in PostPath => call[h].kind = "post" /\ Eligible(call[h].op)
    /\ pc[h] \in PostPath \ {"correlate"} => OpScope[call[h].op] = "root"
    /\ call[h].kind = "post" => run[call[h].op].phase = "finished"
    /\ pc[h] \in {"reserve_checkpoint", "checkpoint"} => captured[h] \in Manifests

\* What a process has written by the time it gets where it is.
EventInv ==
  \A h \in Hooks :
    /\ pc[h] \in {"idle"} \cup Early => events[h].file = "absent"
    /\ pc[h] = "event_blob" => events[h].file = "file"
    /\ pc[h] \in PrePath \cup PostPath => events[h].file = "whole"
    /\ pc[h] \in {"reserve_event", "event"} \/ Complete(events[h]) =>
         binding = [file |-> "whole", ext |-> call[h].ext]

CheckpointInv ==
  \A h \in Hooks :
    /\ pc[h] \in {"idle", "event_blob", "capture", "manifest", "reserve_checkpoint",
                  "checkpoint"} \cup Early => checkpoints[h].file = "absent"
    /\ pc[h] = "checkpoint_blob" => checkpoints[h].file = "file"
    /\ pc[h] = "pending" => checkpoints[h].file = "whole"
    /\ Complete(checkpoints[h]) => call[h].kind = "pre" /\ checkpoints[h].manifest \in Manifests

\* A marker names a process that finished the whole pre-state branch.
MarkerInv ==
  \A o \in Ops : pending[o].file = "whole" =>
    LET p == pending[o].owner
    IN  /\ p \in Hooks
        /\ call[p].kind = "pre" /\ call[p].op = o
        /\ events[p].file = "whole"
        /\ checkpoints[p].file = "whole"
        /\ checkpoints[p].manifest = pending[o].manifest
        /\ pending[o].ext = call[p].ext
        /\ pending[o].preSeq = events[p].seq

\* A process on its way to a receipt holds the marker's owner, and at most one
\* process of an occurrence is between creating and completing the receipt.
WriterInv ==
  /\ \A h \in Hooks : pc[h] \in Receipting =>
       pending[call[h].op].file = "whole" /\ loaded[h] = pending[call[h].op].owner
  /\ \A h \in Hooks : pc[h] = "receipt_write" => receipts[call[h].op].file = "partial"
  /\ \A g, h \in Hooks :
       pc[g] = "receipt_write" /\ pc[h] = "receipt_write" /\ call[g].op = call[h].op => g = h
  /\ \A h \in Hooks : pc[h] = "receipt_blob" => Complete(receipts[call[h].op])

ReceiptInv ==
  \A o \in Ops : Complete(receipts[o]) =>
    LET r == receipts[o]
    IN  /\ pending[o].file = "whole" /\ r.owner = pending[o].owner
        /\ r.manifest = pending[o].manifest
        /\ r.post \in Hooks /\ call[r.post].kind = "post" /\ call[r.post].op = o
        /\ events[r.post].file = "whole"
        /\ r.verdict = TrustedTerminalResult(run[o].result) /\ Eligible(o)

IInv ==
  /\ TypeOK /\ ControlInv /\ EventInv /\ CheckpointInv
  /\ MarkerInv /\ WriterInv /\ ReceiptInv

-----------------------------------------------------------------------------

USE DEF Torn, FileStates

\* A process on a verifier branch knows its occurrence and its Claude session.
LEMMA CallFacts ==
  ASSUME TypeOK, ControlInv, NEW h \in Hooks
  PROVE  /\ pc[h] \in PrePath \cup PostPath => call[h].op \in Ops
         /\ pc[h] # "idle" => call[h].ext \in Exts /\ call[h] # NoCall
  BY DEF TypeOK, ControlInv, Calls, NoCall

\* A change of the fields of one run, or of the file of one receipt, keeps the shape.
LEMMA RunUpdate ==
  ASSUME NEW f \in [Ops -> Runs], NEW o \in Ops, NEW r \in Runs
  PROVE  [f EXCEPT ![o] = r] \in [Ops -> Runs]
  OBVIOUS

LEMMA RunFields ==
  ASSUME NEW r \in Runs, NEW p \in {"idle", "pre", "running", "finished", "blocked"}
  PROVE  /\ [r EXCEPT !.phase = p] \in Runs
         /\ \A v \in Versions : [r EXCEPT !.phase = p, !.version = v] \in Runs
         /\ \A x \in Results : [r EXCEPT !.phase = p, !.result = x] \in Runs
  BY DEF Runs

LEMMA ReceiptFileUpdate ==
  ASSUME NEW f \in [Ops -> ReceiptRecords], NEW o \in Ops, NEW s \in FileStates
  PROVE  [f EXCEPT ![o].file = s] \in [Ops -> ReceiptRecords]
<1>1. \A r \in ReceiptRecords : [r EXCEPT !.file = s] \in ReceiptRecords
  BY DEF ReceiptRecords
<1>2. [f[o] EXCEPT !.file = s] \in ReceiptRecords
  BY <1>1
<1>3. [f EXCEPT ![o].file = s] = [f EXCEPT ![o] = [f[o] EXCEPT !.file = s]]
  OBVIOUS
<1> QED
  BY <1>2, <1>3

\* Every step keeps the shape of every variable.
LEMMA TypeStep == IInv /\ [Next]_vars => TypeOK'
<1> SUFFICES ASSUME TypeOK, ControlInv, MarkerInv, WriterInv, [Next]_vars PROVE TypeOK'
  BY DEF IInv
<1>a. /\ run \in [Ops -> Runs] /\ ws \in Versions
      /\ events \in [Hooks -> EventRecords] /\ manifests \in [Manifests -> FileStates]
      /\ checkpoints \in [Hooks -> CheckpointRecords]
      /\ pending \in [Ops -> Markers] /\ receipts \in [Ops -> ReceiptRecords]
  BY DEF TypeOK
<1>b. binding \in [file : FileStates, ext : Exts \cup {None}] /\ seqFile \in Nat \cup {Torn}
  BY DEF TypeOK
<1>1. ASSUME NEW h \in Hooks, NEW o \in Ops, NEW e \in Exts, DeliverPre(h, o, e)
      PROVE  TypeOK'
  <2>1. run' \in [Ops -> Runs]
    BY <1>a, <1>1 DEF DeliverPre, Runs
  <2>2. call' \in [Hooks -> Calls]
    BY <1>1 DEF DeliverPre, Deliver, Calls, TypeOK
  <2> QED
    BY <1>1, <2>1, <2>2 DEF TypeOK, DeliverPre, Deliver, Goto, PCs, Live, Storing, Over,
       Exited, Reserving, claudeVars, localVars, storeVars, sessionVars, recordVars
<1>2. ASSUME NEW h \in Hooks, NEW o \in Ops, NEW e \in Exts, DeliverPost(h, o, e)
      PROVE  TypeOK'
  BY <1>2 DEF TypeOK, DeliverPost, Deliver, Calls, Goto, PCs, Live, Storing, Over, Exited,
     Reserving, claudeVars, localVars, storeVars, sessionVars, recordVars
<1>3. ASSUME NEW h \in Hooks, NEW e \in Exts, DeliverOther(h, e) PROVE TypeOK'
  BY <1>3 DEF TypeOK, DeliverOther, Deliver, Calls, Goto, PCs, Live, Storing, Over,
     Exited, Reserving, claudeVars, localVars, storeVars, sessionVars, recordVars
<1>4. ASSUME NEW o \in Ops, StartVerifier(o) PROVE TypeOK'
  <2>1. run' = [run EXCEPT ![o] = [run[o] EXCEPT !.phase = "running", !.version = ws]]
    BY <1>a, <1>4 DEF StartVerifier
  <2>2. run' \in [Ops -> Runs]
    BY <1>a, <2>1, RunFields, RunUpdate
  <2> QED
    BY <1>4, <2>2 DEF TypeOK, StartVerifier, claudeVars, localVars, storeVars,
       sessionVars, recordVars
<1>5. ASSUME NEW o \in Ops, BlockVerifier(o) PROVE TypeOK'
  <2>1. run' = [run EXCEPT ![o] = [run[o] EXCEPT !.phase = "blocked"]]
    BY <1>a, <1>5 DEF BlockVerifier
  <2>2. run' \in [Ops -> Runs]
    BY <1>a, <2>1, RunFields, RunUpdate
  <2> QED
    BY <1>5, <2>2 DEF TypeOK, BlockVerifier, claudeVars, localVars, storeVars,
       sessionVars, recordVars
<1>6. ASSUME NEW o \in Ops, NEW r \in Results, FinishVerifier(o, r) PROVE TypeOK'
  <2>1. run' = [run EXCEPT ![o] = [run[o] EXCEPT !.phase = "finished", !.result = r]]
    BY <1>a, <1>6 DEF FinishVerifier
  <2>2. run' \in [Ops -> Runs]
    BY <1>a, <2>1, RunFields, RunUpdate
  <2> QED
    BY <1>6, <2>2 DEF TypeOK, FinishVerifier, claudeVars, localVars, storeVars,
       sessionVars, recordVars
<1>7. ASSUME NEW v \in Versions, WriteWorkspace(v) PROVE TypeOK'
  <2>1. run' \in [Ops -> Runs]
    BY <1>a, <1>7 DEF WriteWorkspace, Runs
  <2> QED
    BY <1>7, <2>1 DEF TypeOK, WriteWorkspace, claudeVars, localVars, storeVars,
       sessionVars, recordVars
<1>8. ASSUME NEW h \in Hooks, LoadSession(h) PROVE TypeOK'
  BY <1>8 DEF TypeOK, LoadSession, Goto, PCs, Live, Storing, Over, Exited, Reserving,
     claudeVars, localVars, storeVars, sessionVars, recordVars
<1>9. ASSUME NEW h \in Hooks, RejectInput(h) PROVE TypeOK'
  BY <1>9 DEF TypeOK, RejectInput, Goto, PCs, Live, Storing, Over, Exited, Reserving,
     claudeVars, localVars, storeVars, sessionVars, recordVars
<1>10. ASSUME NEW h \in Hooks, BindExternalSession(h) PROVE TypeOK'
  <2>1. binding' \in [file : FileStates, ext : Exts \cup {None}]
    BY CallFacts, <1>10 DEF BindExternalSession, TypeOK
  <2> QED
    BY <1>10, <2>1 DEF TypeOK, BindExternalSession, Goto, PCs, Live, Storing, Over,
       Exited, Reserving, claudeVars, localVars, storeVars, sessionVars, recordVars
<1>11. ASSUME NEW h \in Hooks, ReserveSequence(h) PROVE TypeOK'
  BY <1>11 DEF TypeOK, ReserveSequence, Goto, PCs, Live, Storing, Over, Exited, Reserving,
     AfterReserve, claudeVars, localVars, storeVars, sessionVars, recordVars
<1>12. ASSUME NEW h \in Hooks, PersistEvent(h) PROVE TypeOK'
  BY <1>12 DEF TypeOK, PersistEvent, Goto, PCs, Live, Storing, Over, Exited, Reserving,
     EventRecords, claudeVars, localVars, storeVars, sessionVars, recordVars
<1>13. ASSUME NEW h \in Hooks, PersistEventBlob(h) PROVE TypeOK'
  BY <1>13 DEF TypeOK, PersistEventBlob, Goto, PCs, Live, Storing, Over, Exited,
     Reserving, EventRecords, AfterEvent, claudeVars, localVars, storeVars, sessionVars,
     recordVars
<1>14. ASSUME NEW h \in Hooks, BeginCapture(h) PROVE TypeOK'
  BY <1>14 DEF TypeOK, BeginCapture, Goto, PCs, Live, Storing, Over, Exited, Reserving,
     claudeVars, localVars, storeVars, sessionVars, recordVars
<1>15. ASSUME NEW h \in Hooks, PersistManifest(h) PROVE TypeOK'
  BY <1>15 DEF TypeOK, PersistManifest, Goto, PCs, Live, Storing, Over, Exited, Reserving,
     CaptureOutcomes, claudeVars, localVars, storeVars, sessionVars, recordVars
<1>16. ASSUME NEW h \in Hooks, PersistCheckpoint(h) PROVE TypeOK'
  BY <1>16 DEF TypeOK, PersistCheckpoint, Goto, PCs, Live, Storing, Over, Exited,
     Reserving, CheckpointRecords, claudeVars, localVars, storeVars, sessionVars,
     recordVars
<1>17. ASSUME NEW h \in Hooks, PersistCheckpointBlob(h) PROVE TypeOK'
  <2>1. checkpoints' \in [Hooks -> CheckpointRecords]
    BY <1>a, <1>17 DEF PersistCheckpointBlob, CheckpointRecords
  <2> QED
    BY <1>17, <2>1 DEF TypeOK, PersistCheckpointBlob, Goto, PCs, Live, Storing, Over,
       Exited, Reserving, claudeVars, localVars, storeVars, sessionVars, recordVars
<1>18. ASSUME NEW h \in Hooks, PersistPending(h) PROVE TypeOK'
  <2>1. PendingMarker(h) \in Markers
    BY CallFacts, <1>18 DEF PersistPending, PendingMarker, Markers, EventRecords,
       CheckpointRecords, TypeOK
  <2> QED
    BY <1>18, <2>1 DEF TypeOK, PersistPending, Goto, PCs, Live, Storing, Over, Exited,
       Reserving, claudeVars, localVars, storeVars, sessionVars, recordVars
<1>19. ASSUME NEW h \in Hooks, CorrelateResult(h) PROVE TypeOK'
  <2>1. pending[call[h].op].owner \in Hooks \cup {None}
    BY CallFacts, <1>19 DEF CorrelateResult, Markers, PostPath, PrePath, TypeOK
  <2> QED
    BY <1>19, <2>1 DEF TypeOK, CorrelateResult, Goto, PCs, Live, Storing, Over, Exited,
       Reserving, claudeVars, localVars, storeVars, sessionVars, recordVars
<1>20. ASSUME NEW h \in Hooks, CreateReceipt(h) PROVE TypeOK'
  <2>1. receipts' \in [Ops -> ReceiptRecords]
    BY <1>a, <1>20, CallFacts, ReceiptFileUpdate DEF CreateReceipt, PostPath
  <2> QED
    BY <1>20, <2>1 DEF TypeOK, CreateReceipt, Goto, PCs, Live, Storing, Over, Exited,
       Reserving, claudeVars, localVars, storeVars, sessionVars, recordVars
<1>21. ASSUME NEW h \in Hooks, WriteReceipt(h) PROVE TypeOK'
  <2>1. loaded[h] \in Hooks
    BY CallFacts, <1>21 DEF WriteReceipt, WriterInv, MarkerInv, Receipting, PostPath, TypeOK
  <2>2. TrustedTerminalResult(run[call[h].op].result) \in {"pass", "fail", "none"}
    BY <1>21 DEF TrustedTerminalResult, TypeOK
  <2>3. ReceiptRecord(h) \in ReceiptRecords
    BY <2>1, <2>2, <1>21 DEF ReceiptRecord, ReceiptRecords, CheckpointRecords, TypeOK
  <2> QED
    BY <1>21, <2>1, <2>2, <2>3 DEF TypeOK, WriteReceipt, Goto, PCs, Live, Storing, Over,
       Exited, Reserving, claudeVars, localVars, storeVars, sessionVars, recordVars
<1>22. ASSUME NEW h \in Hooks, PersistReceiptBlob(h) PROVE TypeOK'
  <2>1. receipts' \in [Ops -> ReceiptRecords]
    BY <1>a, <1>22, CallFacts, ReceiptFileUpdate DEF PersistReceiptBlob, PostPath
  <2> QED
    BY <1>22, <2>1 DEF TypeOK, PersistReceiptBlob, Goto, PCs, Live, Storing, Over,
       Exited, Reserving, claudeVars, localVars, storeVars, sessionVars, recordVars
<1>23. ASSUME NEW h \in Hooks, CatchError(h) PROVE TypeOK'
  BY <1>23 DEF TypeOK, CatchError, Goto, PCs, Live, Storing, Over, Exited, Reserving,
     claudeVars, localVars, storeVars, sessionVars, recordVars
<1>24. ASSUME NEW h \in Hooks, PersistAnomaly(h) PROVE TypeOK'
  BY <1>24 DEF TypeOK, PersistAnomaly, Goto, PCs, Live, Storing, Over, Exited, Reserving,
     claudeVars, localVars, storeVars, sessionVars, recordVars
<1>25. ASSUME NEW h \in Hooks, Kill(h) PROVE TypeOK'
  BY <1>25 DEF TypeOK, Kill, Goto, PCs, Live, Storing, Over, Exited, Reserving,
     claudeVars, localVars, storeVars, sessionVars, recordVars
<1>26. ASSUME NEW h \in Hooks, KillInWrite(h) PROVE TypeOK'
  <2>1. pending' \in {pending, [pending EXCEPT ![call[h].op].file = "partial"]}
    BY <1>a, <1>26 DEF KillInWrite, recordVars
  <2>2. pending' \in [Ops -> Markers]
    BY <1>a, <2>1, <1>26 DEF Markers
  <2>3. events' \in [Hooks -> EventRecords]
    BY <1>a, <1>26 DEF KillInWrite, EventRecords, recordVars
  <2>4. checkpoints' \in [Hooks -> CheckpointRecords]
    BY <1>a, <1>26 DEF KillInWrite, CheckpointRecords, recordVars
  <2>5. manifests' \in [Manifests -> FileStates]
    BY <1>a, <1>26 DEF KillInWrite, CaptureOutcomes, recordVars
  <2>6. /\ binding' \in [file : FileStates, ext : Exts \cup {None}]
         /\ seqFile' \in Nat \cup {Torn} /\ receipts' = receipts /\ anomalies' = anomalies
    BY <1>b, <1>26 DEF KillInWrite, sessionVars, recordVars
  <2> QED
    BY <1>26, <2>1, <2>2, <2>3, <2>4, <2>5, <2>6 DEF TypeOK, KillInWrite, Goto, PCs,
       Live, Storing, Over, Exited, Reserving, claudeVars, localVars, storeVars,
       sessionVars, recordVars
<1>27. ASSUME NEW h \in Hooks, OSErrorExits(h) PROVE TypeOK'
  BY <1>27 DEF TypeOK, OSErrorExits, Goto, PCs, Live, Storing, Over, Exited, Reserving,
     ReceiptRecords, NoReceipt, claudeVars, localVars, storeVars, sessionVars, recordVars
<1>28. CASE UNCHANGED vars
  BY <1>28 DEF TypeOK, vars, claudeVars, localVars, storeVars, sessionVars, recordVars
<1> QED
  BY <1>1, <1>2, <1>3, <1>4, <1>5, <1>6, <1>7, <1>8, <1>9, <1>10, <1>11, <1>12, <1>13,
     <1>14, <1>15, <1>16, <1>17, <1>18, <1>19, <1>20, <1>21, <1>22, <1>23, <1>24, <1>25,
     <1>26, <1>27, <1>28 DEF Next, Claude, HookStep, HookFailure

\* Which operations write which variable.
LEMMA Frame ==
  ASSUME [Next]_vars
  PROVE  /\ \/ UNCHANGED call
            \/ \E h \in Hooks, o \in Ops, e \in Exts :
                 DeliverPre(h, o, e) \/ DeliverPost(h, o, e)
            \/ \E h \in Hooks, e \in Exts : DeliverOther(h, e)
         /\ \/ UNCHANGED run
            \/ \E h \in Hooks, o \in Ops, e \in Exts : DeliverPre(h, o, e)
            \/ \E o \in Ops : \/ StartVerifier(o) \/ BlockVerifier(o)
                              \/ \E r \in Results : FinishVerifier(o, r)
            \/ \E v \in Versions : WriteWorkspace(v)
         /\ UNCHANGED events \/ \E h \in Hooks :
              PersistEvent(h) \/ PersistEventBlob(h) \/ KillInWrite(h)
         /\ UNCHANGED checkpoints \/ \E h \in Hooks :
              PersistCheckpoint(h) \/ PersistCheckpointBlob(h) \/ KillInWrite(h)
         /\ UNCHANGED pending \/ \E h \in Hooks : PersistPending(h) \/ KillInWrite(h)
         /\ UNCHANGED receipts \/ \E h \in Hooks :
              CreateReceipt(h) \/ WriteReceipt(h) \/ PersistReceiptBlob(h) \/ OSErrorExits(h)
<1> USE DEF vars, claudeVars, localVars, storeVars, sessionVars, recordVars
<1>1. CASE UNCHANGED vars
  BY <1>1
<1>2. CASE Claude
  BY <1>2 DEF Claude, DeliverPre, DeliverPost, DeliverOther, Deliver, StartVerifier,
     BlockVerifier, FinishVerifier, WriteWorkspace
<1>3. ASSUME NEW h \in Hooks, HookStep(h) PROVE
        /\ UNCHANGED <<call, run>>
        /\ UNCHANGED events \/ PersistEvent(h) \/ PersistEventBlob(h)
        /\ UNCHANGED checkpoints \/ PersistCheckpoint(h) \/ PersistCheckpointBlob(h)
        /\ UNCHANGED pending \/ PersistPending(h)
        /\ UNCHANGED receipts \/ CreateReceipt(h) \/ WriteReceipt(h) \/ PersistReceiptBlob(h)
  BY <1>3 DEF HookStep, LoadSession, RejectInput, BindExternalSession, ReserveSequence,
     PersistEvent, PersistEventBlob, BeginCapture, PersistManifest, PersistCheckpoint,
     PersistCheckpointBlob, PersistPending, CorrelateResult, CreateReceipt, WriteReceipt,
     PersistReceiptBlob, CatchError, PersistAnomaly
<1>4. ASSUME NEW h \in Hooks, HookFailure(h) PROVE
        /\ UNCHANGED <<call, run>>
        /\ UNCHANGED <<events, checkpoints, pending>> \/ KillInWrite(h)
        /\ UNCHANGED receipts \/ OSErrorExits(h)
  BY <1>4 DEF HookFailure, Kill, KillInWrite, OSErrorExits
<1> QED
  BY <1>1, <1>2, <1>3, <1>4 DEF Next

\* A process only moves along the branch of its own event.
LEMMA ControlStep == IInv /\ TypeOK' /\ [Next]_vars => ControlInv'
<1> SUFFICES ASSUME TypeOK, ControlInv, TypeOK', [Next]_vars PROVE ControlInv'
  BY DEF IInv
<1> USE DEF TypeOK, ControlInv, Eligible, Goto, Calls, NoCall, Runs, Live, Storing,
   Reserving, Over, Exited, Early, PrePath, PostPath, Receipting, claudeVars, localVars,
   storeVars, sessionVars, recordVars
<1>1. ASSUME NEW h \in Hooks, NEW o \in Ops, NEW e \in Exts, DeliverPre(h, o, e)
      PROVE  ControlInv'
  BY <1>1, CallFacts DEF DeliverPre, Deliver
<1>2. ASSUME NEW h \in Hooks, NEW o \in Ops, NEW e \in Exts, DeliverPost(h, o, e)
      PROVE  ControlInv'
  BY <1>2, CallFacts DEF DeliverPost, Deliver
<1>3. ASSUME NEW h \in Hooks, NEW e \in Exts, DeliverOther(h, e) PROVE ControlInv'
  BY <1>3, CallFacts DEF DeliverOther, Deliver
<1>4. ASSUME NEW o \in Ops, StartVerifier(o) PROVE ControlInv'
  <2>1. run[o].phase # "finished"
    BY <1>4 DEF StartVerifier
  <2>2. \A q \in Ops : run'[q].result = run[q].result /\ (q # o => run'[q] = run[q])
    BY <1>4 DEF StartVerifier
  <2>3. UNCHANGED <<pc, call, captured>>
    BY <1>4 DEF StartVerifier
  <2>4. \A g \in Hooks : call[g].kind = "post" => call[g].op \in Ops /\ call[g].op # o
    BY SMTT(30), <2>1
  <2>5. \A g \in Hooks : pc[g] \in PostPath => Eligible(call[g].op)'
    BY <2>2, <2>3, <2>4
  <2> QED
    BY <2>1, <2>2, <2>3, <2>4, <2>5
<1>5. ASSUME NEW o \in Ops, BlockVerifier(o) PROVE ControlInv'
  BY <1>5, CallFacts DEF BlockVerifier
<1>6. ASSUME NEW o \in Ops, NEW r \in Results, FinishVerifier(o, r) PROVE ControlInv'
  BY <1>6, CallFacts DEF FinishVerifier
<1>7. ASSUME NEW v \in Versions, WriteWorkspace(v) PROVE ControlInv'
  BY <1>7, CallFacts DEF WriteWorkspace
<1>8. ASSUME NEW h \in Hooks, LoadSession(h) PROVE ControlInv'
  BY <1>8, CallFacts DEF LoadSession
<1>9. ASSUME NEW h \in Hooks, RejectInput(h) PROVE ControlInv'
  BY <1>9, CallFacts DEF RejectInput
<1>10. ASSUME NEW h \in Hooks, BindExternalSession(h) PROVE ControlInv'
  BY <1>10, CallFacts DEF BindExternalSession, MayBind
<1>11. ASSUME NEW h \in Hooks, ReserveSequence(h) PROVE ControlInv'
  BY <1>11, CallFacts DEF ReserveSequence, AfterReserve
<1>12. ASSUME NEW h \in Hooks, PersistEvent(h) PROVE ControlInv'
  BY <1>12, CallFacts DEF PersistEvent
<1>13. ASSUME NEW h \in Hooks, PersistEventBlob(h) PROVE ControlInv'
  BY <1>13, CallFacts DEF PersistEventBlob, AfterEvent
<1>14. ASSUME NEW h \in Hooks, BeginCapture(h) PROVE ControlInv'
  BY <1>14, CallFacts DEF BeginCapture
<1>15. ASSUME NEW h \in Hooks, PersistManifest(h) PROVE ControlInv'
  BY <1>15, CallFacts DEF PersistManifest, CaptureOutcomes
<1>16. ASSUME NEW h \in Hooks, PersistCheckpoint(h) PROVE ControlInv'
  BY <1>16, CallFacts DEF PersistCheckpoint
<1>17. ASSUME NEW h \in Hooks, PersistCheckpointBlob(h) PROVE ControlInv'
  BY <1>17, CallFacts DEF PersistCheckpointBlob
<1>18. ASSUME NEW h \in Hooks, PersistPending(h) PROVE ControlInv'
  BY <1>18, CallFacts DEF PersistPending, PendingMarker
<1>19. ASSUME NEW h \in Hooks, CorrelateResult(h) PROVE ControlInv'
  BY <1>19, CallFacts DEF CorrelateResult, Correlated
<1>20. ASSUME NEW h \in Hooks, CreateReceipt(h) PROVE ControlInv'
  BY <1>20, CallFacts DEF CreateReceipt, MayCreateReceipt
<1>21. ASSUME NEW h \in Hooks, WriteReceipt(h) PROVE ControlInv'
  BY <1>21, CallFacts DEF WriteReceipt, ReceiptRecord
<1>22. ASSUME NEW h \in Hooks, PersistReceiptBlob(h) PROVE ControlInv'
  BY <1>22, CallFacts DEF PersistReceiptBlob
<1>23. ASSUME NEW h \in Hooks, CatchError(h) PROVE ControlInv'
  BY <1>23, CallFacts DEF CatchError, Raises
<1>24. ASSUME NEW h \in Hooks, PersistAnomaly(h) PROVE ControlInv'
  BY <1>24, CallFacts DEF PersistAnomaly
<1>25. ASSUME NEW h \in Hooks, Kill(h) PROVE ControlInv'
  BY <1>25, CallFacts DEF Kill
<1>26. ASSUME NEW h \in Hooks, KillInWrite(h) PROVE ControlInv'
  BY <1>26, CallFacts DEF KillInWrite, CaptureOutcomes
<1>27. ASSUME NEW h \in Hooks, OSErrorExits(h) PROVE ControlInv'
  BY <1>27, CallFacts DEF OSErrorExits, NoReceipt
<1>28. CASE UNCHANGED vars
  BY <1>28 DEF vars
<1> QED
  BY <1>1, <1>2, <1>3, <1>4, <1>5, <1>6, <1>7, <1>8, <1>9, <1>10, <1>11, <1>12, <1>13,
     <1>14, <1>15, <1>16, <1>17, <1>18, <1>19, <1>20, <1>21, <1>22, <1>23, <1>24, <1>25,
     <1>26, <1>27, <1>28 DEF Next, Claude, HookStep, HookFailure

\* A process records its event once, and only of the bound Claude session.
LEMMA EventStep == IInv /\ TypeOK' /\ [Next]_vars => EventInv'
<1> SUFFICES ASSUME TypeOK, ControlInv, EventInv, TypeOK', [Next]_vars PROVE EventInv'
  BY DEF IInv
<1> USE DEF TypeOK, EventInv, Complete, Goto, EventRecords, Live, Storing, Reserving,
   Over, Exited, Early, PrePath, PostPath, Receipting, claudeVars, localVars, storeVars,
   sessionVars, recordVars
<1>1. ASSUME NEW h \in Hooks, NEW o \in Ops, NEW e \in Exts, DeliverPre(h, o, e)
      PROVE  EventInv'
  BY <1>1, CallFacts DEF DeliverPre, Deliver
<1>2. ASSUME NEW h \in Hooks, NEW o \in Ops, NEW e \in Exts, DeliverPost(h, o, e)
      PROVE  EventInv'
  BY <1>2, CallFacts DEF DeliverPost, Deliver
<1>3. ASSUME NEW h \in Hooks, NEW e \in Exts, DeliverOther(h, e) PROVE EventInv'
  BY <1>3, CallFacts DEF DeliverOther, Deliver
<1>4. ASSUME NEW o \in Ops, StartVerifier(o) PROVE EventInv'
  BY <1>4, CallFacts DEF StartVerifier
<1>5. ASSUME NEW o \in Ops, BlockVerifier(o) PROVE EventInv'
  BY <1>5, CallFacts DEF BlockVerifier
<1>6. ASSUME NEW o \in Ops, NEW r \in Results, FinishVerifier(o, r) PROVE EventInv'
  BY <1>6, CallFacts DEF FinishVerifier
<1>7. ASSUME NEW v \in Versions, WriteWorkspace(v) PROVE EventInv'
  BY <1>7, CallFacts DEF WriteWorkspace
<1>8. ASSUME NEW h \in Hooks, LoadSession(h) PROVE EventInv'
  BY <1>8, CallFacts DEF LoadSession
<1>9. ASSUME NEW h \in Hooks, RejectInput(h) PROVE EventInv'
  BY <1>9, CallFacts DEF RejectInput
<1>10. ASSUME NEW h \in Hooks, BindExternalSession(h) PROVE EventInv'
  BY <1>10, CallFacts DEF BindExternalSession, MayBind
<1>11. ASSUME NEW h \in Hooks, ReserveSequence(h) PROVE EventInv'
  BY <1>11, CallFacts DEF ReserveSequence, AfterReserve
<1>12. ASSUME NEW h \in Hooks, PersistEvent(h) PROVE EventInv'
  BY <1>12, CallFacts DEF PersistEvent
<1>13. ASSUME NEW h \in Hooks, PersistEventBlob(h) PROVE EventInv'
  BY <1>13, CallFacts DEF PersistEventBlob, AfterEvent
<1>14. ASSUME NEW h \in Hooks, BeginCapture(h) PROVE EventInv'
  BY <1>14, CallFacts DEF BeginCapture
<1>15. ASSUME NEW h \in Hooks, PersistManifest(h) PROVE EventInv'
  BY <1>15, CallFacts DEF PersistManifest, CaptureOutcomes
<1>16. ASSUME NEW h \in Hooks, PersistCheckpoint(h) PROVE EventInv'
  BY <1>16, CallFacts DEF PersistCheckpoint
<1>17. ASSUME NEW h \in Hooks, PersistCheckpointBlob(h) PROVE EventInv'
  BY <1>17, CallFacts DEF PersistCheckpointBlob
<1>18. ASSUME NEW h \in Hooks, PersistPending(h) PROVE EventInv'
  BY <1>18, CallFacts DEF PersistPending, PendingMarker
<1>19. ASSUME NEW h \in Hooks, CorrelateResult(h) PROVE EventInv'
  BY <1>19, CallFacts DEF CorrelateResult, Correlated
<1>20. ASSUME NEW h \in Hooks, CreateReceipt(h) PROVE EventInv'
  BY <1>20, CallFacts DEF CreateReceipt, MayCreateReceipt
<1>21. ASSUME NEW h \in Hooks, WriteReceipt(h) PROVE EventInv'
  BY <1>21, CallFacts DEF WriteReceipt, ReceiptRecord
<1>22. ASSUME NEW h \in Hooks, PersistReceiptBlob(h) PROVE EventInv'
  BY <1>22, CallFacts DEF PersistReceiptBlob
<1>23. ASSUME NEW h \in Hooks, CatchError(h) PROVE EventInv'
  BY <1>23, CallFacts DEF CatchError, Raises
<1>24. ASSUME NEW h \in Hooks, PersistAnomaly(h) PROVE EventInv'
  BY <1>24, CallFacts DEF PersistAnomaly
<1>25. ASSUME NEW h \in Hooks, Kill(h) PROVE EventInv'
  BY <1>25, CallFacts DEF Kill
<1>26. ASSUME NEW h \in Hooks, KillInWrite(h) PROVE EventInv'
  BY <1>26, CallFacts DEF KillInWrite, CaptureOutcomes
<1>27. ASSUME NEW h \in Hooks, OSErrorExits(h) PROVE EventInv'
  BY <1>27, CallFacts DEF OSErrorExits, NoReceipt
<1>28. CASE UNCHANGED vars
  BY <1>28 DEF vars
<1> QED
  BY <1>1, <1>2, <1>3, <1>4, <1>5, <1>6, <1>7, <1>8, <1>9, <1>10, <1>11, <1>12, <1>13,
     <1>14, <1>15, <1>16, <1>17, <1>18, <1>19, <1>20, <1>21, <1>22, <1>23, <1>24, <1>25,
     <1>26, <1>27, <1>28 DEF Next, Claude, HookStep, HookFailure

\* A process completes its checkpoint before it writes the marker.
LEMMA CheckpointStep == IInv /\ TypeOK' /\ [Next]_vars => CheckpointInv'
<1> SUFFICES ASSUME TypeOK, ControlInv, CheckpointInv, TypeOK', [Next]_vars
        PROVE  CheckpointInv'
  BY DEF IInv
<1> USE DEF TypeOK, ControlInv, CheckpointInv, Complete, Goto, Calls, NoCall,
   CheckpointRecords, Live, Storing, Reserving, Over, Exited, Early, PrePath, PostPath,
   Receipting, claudeVars, localVars, storeVars, sessionVars, recordVars
<1>1. ASSUME NEW h \in Hooks, NEW o \in Ops, NEW e \in Exts, DeliverPre(h, o, e)
      PROVE  CheckpointInv'
  BY <1>1, CallFacts DEF DeliverPre, Deliver
<1>2. ASSUME NEW h \in Hooks, NEW o \in Ops, NEW e \in Exts, DeliverPost(h, o, e)
      PROVE  CheckpointInv'
  BY <1>2, CallFacts DEF DeliverPost, Deliver
<1>3. ASSUME NEW h \in Hooks, NEW e \in Exts, DeliverOther(h, e) PROVE CheckpointInv'
  BY <1>3, CallFacts DEF DeliverOther, Deliver
<1>4. ASSUME NEW o \in Ops, StartVerifier(o) PROVE CheckpointInv'
  BY <1>4, CallFacts DEF StartVerifier
<1>5. ASSUME NEW o \in Ops, BlockVerifier(o) PROVE CheckpointInv'
  BY <1>5, CallFacts DEF BlockVerifier
<1>6. ASSUME NEW o \in Ops, NEW r \in Results, FinishVerifier(o, r) PROVE CheckpointInv'
  BY <1>6, CallFacts DEF FinishVerifier
<1>7. ASSUME NEW v \in Versions, WriteWorkspace(v) PROVE CheckpointInv'
  BY <1>7, CallFacts DEF WriteWorkspace
<1>8. ASSUME NEW h \in Hooks, LoadSession(h) PROVE CheckpointInv'
  BY <1>8, CallFacts DEF LoadSession
<1>9. ASSUME NEW h \in Hooks, RejectInput(h) PROVE CheckpointInv'
  BY <1>9, CallFacts DEF RejectInput
<1>10. ASSUME NEW h \in Hooks, BindExternalSession(h) PROVE CheckpointInv'
  BY <1>10, CallFacts DEF BindExternalSession, MayBind
<1>11. ASSUME NEW h \in Hooks, ReserveSequence(h) PROVE CheckpointInv'
  BY <1>11, CallFacts DEF ReserveSequence, AfterReserve
<1>12. ASSUME NEW h \in Hooks, PersistEvent(h) PROVE CheckpointInv'
  BY <1>12, CallFacts DEF PersistEvent
<1>13. ASSUME NEW h \in Hooks, PersistEventBlob(h) PROVE CheckpointInv'
  BY <1>13, CallFacts DEF PersistEventBlob, AfterEvent
<1>14. ASSUME NEW h \in Hooks, BeginCapture(h) PROVE CheckpointInv'
  BY <1>14, CallFacts DEF BeginCapture
<1>15. ASSUME NEW h \in Hooks, PersistManifest(h) PROVE CheckpointInv'
  BY <1>15, CallFacts DEF PersistManifest, CaptureOutcomes
<1>16. ASSUME NEW h \in Hooks, PersistCheckpoint(h) PROVE CheckpointInv'
  BY <1>16, CallFacts DEF PersistCheckpoint
<1>17. ASSUME NEW h \in Hooks, PersistCheckpointBlob(h) PROVE CheckpointInv'
  BY <1>17, CallFacts DEF PersistCheckpointBlob
<1>18. ASSUME NEW h \in Hooks, PersistPending(h) PROVE CheckpointInv'
  BY <1>18, CallFacts DEF PersistPending, PendingMarker
<1>19. ASSUME NEW h \in Hooks, CorrelateResult(h) PROVE CheckpointInv'
  BY <1>19, CallFacts DEF CorrelateResult, Correlated
<1>20. ASSUME NEW h \in Hooks, CreateReceipt(h) PROVE CheckpointInv'
  BY <1>20, CallFacts DEF CreateReceipt, MayCreateReceipt
<1>21. ASSUME NEW h \in Hooks, WriteReceipt(h) PROVE CheckpointInv'
  BY <1>21, CallFacts DEF WriteReceipt, ReceiptRecord
<1>22. ASSUME NEW h \in Hooks, PersistReceiptBlob(h) PROVE CheckpointInv'
  BY <1>22, CallFacts DEF PersistReceiptBlob
<1>23. ASSUME NEW h \in Hooks, CatchError(h) PROVE CheckpointInv'
  BY <1>23, CallFacts DEF CatchError, Raises
<1>24. ASSUME NEW h \in Hooks, PersistAnomaly(h) PROVE CheckpointInv'
  BY <1>24, CallFacts DEF PersistAnomaly
<1>25. ASSUME NEW h \in Hooks, Kill(h) PROVE CheckpointInv'
  BY <1>25, CallFacts DEF Kill
<1>26. ASSUME NEW h \in Hooks, KillInWrite(h) PROVE CheckpointInv'
  BY <1>26, CallFacts DEF KillInWrite, CaptureOutcomes
<1>27. ASSUME NEW h \in Hooks, OSErrorExits(h) PROVE CheckpointInv'
  BY <1>27, CallFacts DEF OSErrorExits, NoReceipt
<1>28. CASE UNCHANGED vars
  BY <1>28 DEF vars
<1> QED
  BY <1>1, <1>2, <1>3, <1>4, <1>5, <1>6, <1>7, <1>8, <1>9, <1>10, <1>11, <1>12, <1>13,
     <1>14, <1>15, <1>16, <1>17, <1>18, <1>19, <1>20, <1>21, <1>22, <1>23, <1>24, <1>25,
     <1>26, <1>27, <1>28 DEF Next, Claude, HookStep, HookFailure

\* A marker keeps naming finished pre-state evidence.
LEMMA MarkerStep == IInv /\ TypeOK' /\ [Next]_vars => MarkerInv'
<1> SUFFICES ASSUME TypeOK, ControlInv, EventInv, CheckpointInv, MarkerInv, TypeOK',
                    [Next]_vars
        PROVE  MarkerInv'
  BY DEF IInv
<1> USE DEF TypeOK, ControlInv, EventInv, CheckpointInv, MarkerInv, Complete, Goto,
   Calls, NoCall, EventRecords, CheckpointRecords, Markers, Live, Storing, Reserving,
   Over, Exited, Early, PrePath, PostPath, Receipting, claudeVars, localVars, storeVars,
   sessionVars, recordVars
<1>1. ASSUME NEW h \in Hooks, NEW o \in Ops, NEW e \in Exts, DeliverPre(h, o, e)
      PROVE  MarkerInv'
  BY <1>1, CallFacts DEF DeliverPre, Deliver
<1>2. ASSUME NEW h \in Hooks, NEW o \in Ops, NEW e \in Exts, DeliverPost(h, o, e)
      PROVE  MarkerInv'
  BY <1>2, CallFacts DEF DeliverPost, Deliver
<1>3. ASSUME NEW h \in Hooks, NEW e \in Exts, DeliverOther(h, e) PROVE MarkerInv'
  BY <1>3, CallFacts DEF DeliverOther, Deliver
<1>4. ASSUME NEW h \in Hooks, PersistEvent(h) PROVE MarkerInv'
  BY <1>4, CallFacts DEF PersistEvent
<1>5. ASSUME NEW h \in Hooks, PersistEventBlob(h) PROVE MarkerInv'
  BY <1>5, CallFacts DEF PersistEventBlob, AfterEvent
<1>6. ASSUME NEW h \in Hooks, PersistCheckpoint(h) PROVE MarkerInv'
  BY <1>6, CallFacts DEF PersistCheckpoint
<1>7. ASSUME NEW h \in Hooks, PersistCheckpointBlob(h) PROVE MarkerInv'
  BY <1>7, CallFacts DEF PersistCheckpointBlob
<1>8. ASSUME NEW h \in Hooks, PersistPending(h) PROVE MarkerInv'
  BY <1>8, CallFacts DEF PersistPending, PendingMarker
<1>9. ASSUME NEW h \in Hooks, KillInWrite(h) PROVE MarkerInv'
  <2>1. pending' \in {pending, [pending EXCEPT ![call[h].op].file = "partial"]}
    BY <1>9 DEF KillInWrite
  <2>2. (pc[h] = "pending" /\ pending[call[h].op].file = "absent") \/ pending' = pending
    BY <1>9 DEF KillInWrite
  <2>3. \A q \in Ops : pending[q].file = "whole" => pending'[q] = pending[q]
    BY <2>1, <2>2, CallFacts
  <2>4. UNCHANGED <<receipts, call, loaded, run>> /\ pc' = [pc EXCEPT ![h] = "killed"]
    BY <1>9 DEF KillInWrite
  <2>5. \A g \in Hooks : /\ events[g].file = "whole" => events'[g] = events[g]
                         /\ checkpoints[g].file = "whole" => checkpoints'[g] = checkpoints[g]
    BY <1>9 DEF KillInWrite
  <2>6. \A q \in Ops : pending'[q].file = "whole" => pending'[q] = pending[q]
    BY SMTT(30), <2>1, <2>2, CallFacts
  <2> QED
    BY <2>3, <2>4, <2>5, <2>6
<1>10. CASE UNCHANGED <<call, events, checkpoints, pending>>
  BY SMTT(30), <1>10
<1> QED
  BY Frame, <1>1, <1>2, <1>3, <1>4, <1>5, <1>6, <1>7, <1>8, <1>9, <1>10

\* Creating the receipt file excludes every other writer of the occurrence.
LEMMA WriterStep == IInv /\ TypeOK' /\ [Next]_vars => WriterInv'
<1> SUFFICES ASSUME TypeOK, ControlInv, MarkerInv, WriterInv, TypeOK', [Next]_vars
        PROVE  WriterInv'
  BY DEF IInv
<1> USE DEF TypeOK, ControlInv, WriterInv, Complete, Goto, Calls, NoCall, Markers,
   ReceiptRecords, Live, Storing, Reserving, Over, Exited, Early, PrePath, PostPath,
   Receipting, claudeVars, localVars, storeVars, sessionVars, recordVars
<1>1. ASSUME NEW h \in Hooks, NEW o \in Ops, NEW e \in Exts, DeliverPre(h, o, e)
      PROVE  WriterInv'
  BY <1>1, CallFacts DEF DeliverPre, Deliver
<1>2. ASSUME NEW h \in Hooks, NEW o \in Ops, NEW e \in Exts, DeliverPost(h, o, e)
      PROVE  WriterInv'
  BY <1>2, CallFacts DEF DeliverPost, Deliver
<1>3. ASSUME NEW h \in Hooks, NEW e \in Exts, DeliverOther(h, e) PROVE WriterInv'
  BY <1>3, CallFacts DEF DeliverOther, Deliver
<1>4. ASSUME NEW o \in Ops, StartVerifier(o) PROVE WriterInv'
  BY <1>4, CallFacts DEF StartVerifier
<1>5. ASSUME NEW o \in Ops, BlockVerifier(o) PROVE WriterInv'
  BY <1>5, CallFacts DEF BlockVerifier
<1>6. ASSUME NEW o \in Ops, NEW r \in Results, FinishVerifier(o, r) PROVE WriterInv'
  BY <1>6, CallFacts DEF FinishVerifier
<1>7. ASSUME NEW v \in Versions, WriteWorkspace(v) PROVE WriterInv'
  BY <1>7, CallFacts DEF WriteWorkspace
<1>8. ASSUME NEW h \in Hooks, LoadSession(h) PROVE WriterInv'
  BY <1>8, CallFacts DEF LoadSession
<1>9. ASSUME NEW h \in Hooks, RejectInput(h) PROVE WriterInv'
  BY <1>9, CallFacts DEF RejectInput
<1>10. ASSUME NEW h \in Hooks, BindExternalSession(h) PROVE WriterInv'
  BY <1>10, CallFacts DEF BindExternalSession, MayBind
<1>11. ASSUME NEW h \in Hooks, ReserveSequence(h) PROVE WriterInv'
  BY <1>11, CallFacts DEF ReserveSequence, AfterReserve
<1>12. ASSUME NEW h \in Hooks, PersistEvent(h) PROVE WriterInv'
  BY <1>12, CallFacts DEF PersistEvent
<1>13. ASSUME NEW h \in Hooks, PersistEventBlob(h) PROVE WriterInv'
  BY <1>13, CallFacts DEF PersistEventBlob, AfterEvent
<1>14. ASSUME NEW h \in Hooks, BeginCapture(h) PROVE WriterInv'
  BY <1>14, CallFacts DEF BeginCapture
<1>15. ASSUME NEW h \in Hooks, PersistManifest(h) PROVE WriterInv'
  BY <1>15, CallFacts DEF PersistManifest, CaptureOutcomes
<1>16. ASSUME NEW h \in Hooks, PersistCheckpoint(h) PROVE WriterInv'
  BY <1>16, CallFacts DEF PersistCheckpoint
<1>17. ASSUME NEW h \in Hooks, PersistCheckpointBlob(h) PROVE WriterInv'
  BY <1>17, CallFacts DEF PersistCheckpointBlob
<1>18. ASSUME NEW h \in Hooks, PersistPending(h) PROVE WriterInv'
  BY <1>18, CallFacts DEF PersistPending, PendingMarker
<1>19. ASSUME NEW h \in Hooks, CorrelateResult(h) PROVE WriterInv'
  <2>1. UNCHANGED <<receipts, call, pending>> /\ pc'[h] \in {"reserve_receipt", "exit0"}
    BY <1>19 DEF CorrelateResult
  <2>2. \A g \in Hooks : g # h => pc'[g] = pc[g] /\ loaded'[g] = loaded[g]
    BY <1>19 DEF CorrelateResult
  <2>3. pc'[h] = "reserve_receipt" =>
          pending[call[h].op].file = "whole" /\ loaded'[h] = pending[call[h].op].owner
    BY <1>19 DEF CorrelateResult, Correlated
  <2>4. \A g \in Hooks : pc'[g] \in {"receipt_write", "receipt_blob"} => pc[g] = pc'[g]
    BY <2>1, <2>2
  <2>5. \A g \in Hooks : pc'[g] \in Receipting =>
          pending'[call[g].op].file = "whole" /\ loaded'[g] = pending[call[g].op].owner
    BY <2>1, <2>2, <2>3
  <2> QED
    BY <2>1, <2>4, <2>5
<1>20. ASSUME NEW h \in Hooks, CreateReceipt(h) PROVE WriterInv'
  BY <1>20, CallFacts DEF CreateReceipt, MayCreateReceipt
<1>21. ASSUME NEW h \in Hooks, WriteReceipt(h) PROVE WriterInv'
  BY <1>21, CallFacts DEF WriteReceipt, ReceiptRecord
<1>22. ASSUME NEW h \in Hooks, PersistReceiptBlob(h) PROVE WriterInv'
  BY <1>22, CallFacts DEF PersistReceiptBlob
<1>23. ASSUME NEW h \in Hooks, CatchError(h) PROVE WriterInv'
  BY <1>23, CallFacts DEF CatchError, Raises
<1>24. ASSUME NEW h \in Hooks, PersistAnomaly(h) PROVE WriterInv'
  BY <1>24, CallFacts DEF PersistAnomaly
<1>25. ASSUME NEW h \in Hooks, Kill(h) PROVE WriterInv'
  BY <1>25, CallFacts DEF Kill
<1>26. ASSUME NEW h \in Hooks, KillInWrite(h) PROVE WriterInv'
  <2>1. pending' \in {pending, [pending EXCEPT ![call[h].op].file = "partial"]}
    BY <1>26 DEF KillInWrite
  <2>2. (pc[h] = "pending" /\ pending[call[h].op].file = "absent") \/ pending' = pending
    BY <1>26 DEF KillInWrite
  <2>3. \A q \in Ops : pending[q].file = "whole" => pending'[q] = pending[q]
    BY <2>1, <2>2, CallFacts
  <2>4. UNCHANGED <<receipts, call, loaded, run>> /\ pc' = [pc EXCEPT ![h] = "killed"]
    BY <1>26 DEF KillInWrite
  <2>5. \A g \in Hooks : pc'[g] \in Receipting => pending'[call[g].op] = pending[call[g].op]
    BY <2>3, <2>4, CallFacts
  <2> QED
    BY <2>4, <2>5
<1>27. ASSUME NEW h \in Hooks, OSErrorExits(h) PROVE WriterInv'
  BY <1>27, CallFacts DEF OSErrorExits, NoReceipt
<1>28. CASE UNCHANGED vars
  BY <1>28 DEF vars
<1> QED
  BY <1>1, <1>2, <1>3, <1>4, <1>5, <1>6, <1>7, <1>8, <1>9, <1>10, <1>11, <1>12, <1>13,
     <1>14, <1>15, <1>16, <1>17, <1>18, <1>19, <1>20, <1>21, <1>22, <1>23, <1>24, <1>25,
     <1>26, <1>27, <1>28 DEF Next, Claude, HookStep, HookFailure

\* A readable receipt keeps naming the marker, the result event and the verdict.
LEMMA ReceiptStep == IInv /\ TypeOK' /\ [Next]_vars => ReceiptInv'
<1> SUFFICES ASSUME TypeOK, ControlInv, EventInv, MarkerInv, WriterInv, ReceiptInv,
                    TypeOK', [Next]_vars
        PROVE  ReceiptInv'
  BY DEF IInv
<1> USE DEF TypeOK, ControlInv, EventInv, MarkerInv, WriterInv, ReceiptInv, Complete,
   Eligible, Goto, Calls, NoCall, Runs, EventRecords, CheckpointRecords, Markers,
   ReceiptRecords, Live, Storing, Reserving, Over, Exited, Early, PrePath, PostPath,
   Receipting, claudeVars, localVars, storeVars, sessionVars, recordVars
<1>1. ASSUME NEW h \in Hooks, NEW o \in Ops, NEW e \in Exts, DeliverPre(h, o, e)
      PROVE  ReceiptInv'
  BY <1>1, CallFacts DEF DeliverPre, Deliver
<1>2. ASSUME NEW h \in Hooks, NEW o \in Ops, NEW e \in Exts, DeliverPost(h, o, e)
      PROVE  ReceiptInv'
  BY <1>2, CallFacts DEF DeliverPost, Deliver
<1>3. ASSUME NEW h \in Hooks, NEW e \in Exts, DeliverOther(h, e) PROVE ReceiptInv'
  BY <1>3, CallFacts DEF DeliverOther, Deliver
<1>4. ASSUME NEW o \in Ops, StartVerifier(o) PROVE ReceiptInv'
  BY <1>4, CallFacts DEF StartVerifier
<1>5. ASSUME NEW o \in Ops, BlockVerifier(o) PROVE ReceiptInv'
  BY <1>5, CallFacts DEF BlockVerifier
<1>6. ASSUME NEW o \in Ops, NEW r \in Results, FinishVerifier(o, r) PROVE ReceiptInv'
  BY <1>6, CallFacts DEF FinishVerifier
<1>7. ASSUME NEW v \in Versions, WriteWorkspace(v) PROVE ReceiptInv'
  BY <1>7, CallFacts DEF WriteWorkspace
<1>8. ASSUME NEW h \in Hooks, PersistEvent(h) PROVE ReceiptInv'
  BY <1>8, CallFacts DEF PersistEvent
<1>9. ASSUME NEW h \in Hooks, PersistEventBlob(h) PROVE ReceiptInv'
  BY <1>9, CallFacts DEF PersistEventBlob, AfterEvent
<1>10. ASSUME NEW h \in Hooks, PersistPending(h) PROVE ReceiptInv'
  BY <1>10, CallFacts DEF PersistPending, PendingMarker
<1>11. ASSUME NEW h \in Hooks, CreateReceipt(h) PROVE ReceiptInv'
  BY <1>11, CallFacts DEF CreateReceipt, MayCreateReceipt
<1>12. ASSUME NEW h \in Hooks, WriteReceipt(h) PROVE ReceiptInv'
  BY <1>12, CallFacts DEF WriteReceipt, ReceiptRecord
<1>13. ASSUME NEW h \in Hooks, PersistReceiptBlob(h) PROVE ReceiptInv'
  BY <1>13, CallFacts DEF PersistReceiptBlob
<1>14. ASSUME NEW h \in Hooks, KillInWrite(h) PROVE ReceiptInv'
  <2>1. pending' \in {pending, [pending EXCEPT ![call[h].op].file = "partial"]}
    BY <1>14 DEF KillInWrite
  <2>2. (pc[h] = "pending" /\ pending[call[h].op].file = "absent") \/ pending' = pending
    BY <1>14 DEF KillInWrite
  <2>3. \A q \in Ops : pending[q].file = "whole" => pending'[q] = pending[q]
    BY <2>1, <2>2, CallFacts
  <2>4. UNCHANGED <<receipts, call, loaded, run>> /\ pc' = [pc EXCEPT ![h] = "killed"]
    BY <1>14 DEF KillInWrite
  <2>5. \A g \in Hooks : events[g].file = "whole" => events'[g] = events[g]
    BY <1>14 DEF KillInWrite
  <2> QED
    BY <2>3, <2>4, <2>5
<1>15. ASSUME NEW h \in Hooks, OSErrorExits(h) PROVE ReceiptInv'
  BY <1>15, CallFacts DEF OSErrorExits, NoReceipt
<1>16. CASE UNCHANGED <<run, call, events, pending, receipts>>
  BY <1>16
<1> QED
  BY Frame, <1>1, <1>2, <1>3, <1>4, <1>5, <1>6, <1>7, <1>8, <1>9, <1>10, <1>11,
   <1>12, <1>13, <1>14, <1>15, <1>16

-----------------------------------------------------------------------------
(* The theorems.                                                           *)

\* The empty evidence directory satisfies the invariant.
LEMMA InitInv == Init => IInv
<1> SUFFICES ASSUME Init PROVE IInv
  OBVIOUS
<1> USE DEF Init, NoCall, NoEvent, NoCheckpoint, NoPending, NoReceipt, NotRun, Complete
<1>1. TypeOK
  BY DEF TypeOK, Calls, Runs, PCs, EventRecords, CheckpointRecords, Markers, ReceiptRecords
<1>2. ControlInv
  BY DEF ControlInv, PrePath, PostPath
<1>3. EventInv /\ CheckpointInv
  BY DEF EventInv, CheckpointInv, PrePath, PostPath, Early
<1>4. MarkerInv /\ WriterInv /\ ReceiptInv
  BY DEF MarkerInv, WriterInv, ReceiptInv, Receipting
<1> QED
  BY <1>1, <1>2, <1>3, <1>4 DEF IInv

\* IInv is an inductive invariant of the hook endpoint.
THEOREM Invariance == Spec => []IInv
<1>1. IInv /\ [Next]_vars => IInv'
  BY TypeStep, ControlStep, EventStep, CheckpointStep, MarkerStep, WriterStep, ReceiptStep
     DEF IInv
<1> QED
  BY <1>1, InitInv, PTL DEF Spec

\* Every variable keeps its shape, for any number of processes (the store's
\* JSON documents and handle_claude_hook's control points).
THEOREM TypeCorrect == Spec => []TypeOK
<1>1. IInv => TypeOK
  BY DEF IInv
<1> QED
  BY <1>1, Invariance, PTL

\* No receipt without its pre-state: what _persist_verifier_result checks
\* still holds of every readable receipt in every later state.
THEOREM ReceiptsHavePreState == Spec => []ReceiptHasPreState
<1>1. ASSUME IInv, NEW o \in Ops, Complete(receipts[o])
      PROVE  /\ pending[o].file = "whole" /\ pending[o].owner = receipts[o].owner
             /\ pending[o].owner \in PreHooks(o) /\ receipts[o].post \in PostHooks(o)
             /\ events[pending[o].owner].file = "whole"
             /\ events[receipts[o].post].file = "whole"
             /\ checkpoints[pending[o].owner].file = "whole"
             /\ checkpoints[pending[o].owner].manifest = receipts[o].manifest
             /\ pending[o].ext = call[pending[o].owner].ext
  BY <1>1 DEF IInv, MarkerInv, ReceiptInv, PreHooks, PostHooks
<1>2. ASSUME IInv, NEW h \in Hooks, events[h].file = "whole"
      PROVE  binding.ext = call[h].ext
  BY <1>2 DEF IInv, EventInv, Complete
<1>3. IInv => ReceiptHasPreState
  BY <1>1, <1>2 DEF ReceiptHasPreState, PreHooks, PostHooks
<1> QED
  BY <1>3, Invariance, PTL

\* The verdict on a receipt is the one the verifier run reported
\* (_trusted_terminal_result).
THEOREM VerdictsAreObserved == Spec => []VerdictIsObserved
<1>1. IInv => VerdictIsObserved
  <2> SUFFICES ASSUME IInv, NEW o \in Ops, Complete(receipts[o])
      PROVE /\ run[o].phase = "finished"
            /\ run[o].result = (IF receipts[o].verdict = "pass" THEN "ok" ELSE "exit_nonzero")
            /\ receipts[o].verdict # "none"
    BY DEF VerdictIsObserved
  <2>1. run[o].phase = "finished"
    BY DEF IInv, ReceiptInv, ControlInv
  <2>2. /\ receipts[o].verdict = TrustedTerminalResult(run[o].result)
        /\ receipts[o].verdict # "none" /\ run[o].result \in Results \cup {"none"}
    BY DEF IInv, ReceiptInv, Eligible, TypeOK, Runs
  <2> QED
    BY <2>1, <2>2 DEF TrustedTerminalResult, Termination, Results
<1> QED
  BY <1>1, Invariance, PTL

\* Every event on record is of the one bound Claude session
\* (bind_external_session).
THEOREM BoundToOneSession == Spec => []OneClaudeSession
<1>1. IInv => OneClaudeSession
  BY DEF IInv, EventInv, OneClaudeSession
<1> QED
  BY <1>1, Invariance, PTL

\* No step rewrites or removes durable evidence.
LEMMA EvidenceStep == IInv /\ [Next]_vars => EvidenceKept
<1> DEFINE
  EventKept(h) == Complete(events[h]) =>
                    Complete(events'[h]) /\ events'[h].seq = events[h].seq
  CheckpointKept(h) == Complete(checkpoints[h]) =>
    checkpoints'[h] \in {checkpoints[h], [checkpoints[h] EXCEPT !.file = "whole"]}
  MarkerKept(o) == pending[o].file = "whole" => pending'[o] = pending[o]
  ReceiptKept(o) == Complete(receipts[o]) =>
    receipts'[o] \in {receipts[o], [receipts[o] EXCEPT !.file = "whole"]}
<1>1. ASSUME IInv, [Next]_vars, binding.file = "whole" PROVE binding' = binding
  <2>1. ASSUME NEW h \in Hooks, BindExternalSession(h) PROVE binding' = binding
    BY <1>1, <2>1 DEF BindExternalSession, MayBind
  <2>2. ASSUME NEW h \in Hooks, KillInWrite(h) PROVE binding' = binding
    BY <1>1, <2>2 DEF KillInWrite, sessionVars
  <2>3. CASE UNCHANGED vars
    BY <2>3 DEF vars, storeVars, sessionVars
  <2>4. CASE Claude
    BY <2>4 DEF Claude, DeliverPre, DeliverPost, DeliverOther, StartVerifier, BlockVerifier,
       FinishVerifier, WriteWorkspace, storeVars, sessionVars
  <2>5. ASSUME NEW h \in Hooks, HookStep(h)
      PROVE  binding' = binding \/ BindExternalSession(h)
    BY <2>5 DEF HookStep, LoadSession, RejectInput, BindExternalSession, ReserveSequence,
       PersistEvent, PersistEventBlob, BeginCapture, PersistManifest, PersistCheckpoint,
       PersistCheckpointBlob, PersistPending, CorrelateResult, CreateReceipt, WriteReceipt,
       PersistReceiptBlob, CatchError, PersistAnomaly, storeVars, sessionVars
  <2>6. ASSUME NEW h \in Hooks, HookFailure(h) PROVE binding' = binding \/ KillInWrite(h)
    BY <2>6 DEF HookFailure, Kill, OSErrorExits, storeVars, sessionVars
  <2> QED
    BY <1>1, <2>1, <2>2, <2>3, <2>4, <2>5, <2>6 DEF Next
<1>2. ASSUME IInv, [Next]_vars, NEW g \in Hooks PROVE EventKept(g)
  <2> USE <1>2 DEF IInv, TypeOK, EventInv, EventRecords, Complete, Early
  <2>1. ASSUME NEW h \in Hooks, PersistEvent(h) PROVE EventKept(g)
    BY <2>1 DEF PersistEvent
  <2>2. ASSUME NEW h \in Hooks, PersistEventBlob(h) PROVE EventKept(g)
    BY <2>2 DEF PersistEventBlob
  <2>3. ASSUME NEW h \in Hooks, KillInWrite(h) PROVE EventKept(g)
    BY <2>3 DEF KillInWrite, recordVars
  <2> QED
    BY <2>1, <2>2, <2>3, Frame
<1>3. ASSUME IInv, [Next]_vars, NEW g \in Hooks PROVE CheckpointKept(g)
  <2> USE <1>3 DEF IInv, TypeOK, CheckpointInv, CheckpointRecords, Complete
  <2>1. ASSUME NEW h \in Hooks, PersistCheckpoint(h) PROVE CheckpointKept(g)
    BY <2>1 DEF PersistCheckpoint
  <2>2. ASSUME NEW h \in Hooks, PersistCheckpointBlob(h) PROVE CheckpointKept(g)
    BY <2>2 DEF PersistCheckpointBlob
  <2>3. ASSUME NEW h \in Hooks, KillInWrite(h) PROVE CheckpointKept(g)
    BY <2>3 DEF KillInWrite, recordVars
  <2> QED
    BY <2>1, <2>2, <2>3, Frame
<1>4. ASSUME IInv, [Next]_vars, NEW q \in Ops PROVE MarkerKept(q)
  <2> USE <1>4 DEF IInv, TypeOK, Markers
  <2>1. ASSUME NEW h \in Hooks, PersistPending(h) PROVE MarkerKept(q)
    BY <2>1 DEF PersistPending
  <2>2. ASSUME NEW h \in Hooks, KillInWrite(h) PROVE MarkerKept(q)
    BY <2>2 DEF KillInWrite, recordVars
  <2> QED
    BY <2>1, <2>2, Frame
<1>5. ASSUME IInv, [Next]_vars, NEW q \in Ops PROVE ReceiptKept(q)
  <2> USE <1>5 DEF IInv, TypeOK, WriterInv, ReceiptRecords, Complete
  <2>1. ASSUME NEW h \in Hooks, CreateReceipt(h) PROVE ReceiptKept(q)
    BY <2>1 DEF CreateReceipt, MayCreateReceipt
  <2>2. ASSUME NEW h \in Hooks, WriteReceipt(h) PROVE ReceiptKept(q)
    BY <2>2 DEF WriteReceipt
  <2>3. ASSUME NEW h \in Hooks, PersistReceiptBlob(h) PROVE ReceiptKept(q)
    BY <2>3 DEF PersistReceiptBlob
  <2>4. ASSUME NEW h \in Hooks, OSErrorExits(h) PROVE ReceiptKept(q)
    BY <2>4 DEF OSErrorExits
  <2> QED
    BY <2>1, <2>2, <2>3, <2>4, Frame
<1> QED
  BY <1>1, <1>2, <1>3, <1>4, <1>5 DEF EvidenceKept

\* Durable evidence is never rewritten or removed ("immutable objects",
\* store.py).
THEOREM EvidenceStaysImmutable == Spec => EvidenceIsImmutable
<1>1. IInv /\ [Next]_vars => [EvidenceKept]_vars
  BY EvidenceStep
<1> QED
  BY <1>1, Invariance, PTL DEF Spec, EvidenceIsImmutable

\* The hook processes use the session binding and the sequence numbers only as
\* the session lock allows: HookCapture implements SessionState.
THEOREM HooksUseSessionState == Spec => UsesSessionState
<1>1. Init => State!Init
  BY DEF Init, State!Init
<1>2. IInv /\ [Next]_vars => [State!Next]_(State!vars)
  <2> SUFFICES ASSUME IInv, [Next]_vars PROVE State!Next \/ UNCHANGED State!vars
    OBVIOUS
  <2> USE DEF State!vars, State!Torn, claudeVars, localVars, storeVars, sessionVars
  <2>1. ASSUME NEW h \in Hooks, BindExternalSession(h)
        PROVE  (State!Bind(call[h].ext) /\ call[h].ext \in Exts) \/ UNCHANGED State!vars
    BY <2>1, CallFacts DEF IInv, BindExternalSession, MayBind, State!Bind
  <2>2. ASSUME NEW h \in Hooks, ReserveSequence(h) PROVE State!Reserve(h)
    BY <2>2 DEF ReserveSequence, State!Reserve
  <2>3. ASSUME NEW h \in Hooks, KillInWrite(h) PROVE State!Next \/ UNCHANGED State!vars
    BY <2>3 DEF KillInWrite, State!Next, State!LoseBinding, State!LoseSequence
  <2>4. ASSUME NEW h \in Hooks, OSErrorExits(h) PROVE State!LoseSequence \/ UNCHANGED State!vars
    BY <2>4 DEF OSErrorExits, State!LoseSequence
  <2>5. ASSUME NEW h \in Hooks, HookStep(h)
        PROVE  BindExternalSession(h) \/ ReserveSequence(h) \/ UNCHANGED State!vars
    BY <2>5 DEF HookStep, LoadSession, RejectInput, PersistEvent, PersistEventBlob,
       BeginCapture,
       PersistManifest, PersistCheckpoint, PersistCheckpointBlob, PersistPending, CorrelateResult,
       CreateReceipt, WriteReceipt, PersistReceiptBlob, CatchError, PersistAnomaly
  <2>6. CASE Claude
    BY <2>6 DEF Claude, DeliverPre, DeliverPost, DeliverOther, StartVerifier, BlockVerifier,
       FinishVerifier, WriteWorkspace
  <2>7. ASSUME NEW h \in Hooks, Kill(h) PROVE UNCHANGED State!vars
    BY <2>7 DEF Kill
  <2>8. CASE UNCHANGED vars
    BY <2>8 DEF vars
  <2> QED
    BY <2>1, <2>2, <2>3, <2>4, <2>5, <2>6, <2>7, <2>8 DEF Next, HookFailure, State!Next
<1> QED
  BY <1>1, <1>2, Invariance, PTL DEF Spec, UsesSessionState, State!Spec

-----------------------------------------------------------------------------
(* A receipt is about the worktree the verifier started on.  The argument  *)
(* needs one fact about Claude Code: it does not start the tool while a    *)
(* PreToolUse hook of it still runs (~HooksOutliveTimeout).                *)

\* The part about the tested state, for hooks that do not outlive the timeout.
\* While an undisturbed occurrence waits for its hooks, the worktree is the one
\* they capture; once it runs, that worktree is its version.
TestedInv ==
  \A o \in Ops :
    /\ run[o].phase = "idle" => PreHooks(o) = {}
    /\ run[o].phase \in {"running", "finished"} =>
         run[o].version \in Versions /\ \A h \in PreHooks(o) : pc[h] \in Over
    /\ run[o].quiet /\ run[o].phase = "pre" => \A h \in PreHooks(o) :
         /\ pc[h] = "manifest" => seen[h] = {ws}
         /\ pc[h] \in {"reserve_checkpoint", "checkpoint"} => captured[h] = ManifestOf[ws]
         /\ Complete(checkpoints[h]) => checkpoints[h].manifest = ManifestOf[ws]
    /\ run[o].quiet /\ run[o].phase \in {"running", "finished"} => \A h \in PreHooks(o) :
         Complete(checkpoints[h]) => checkpoints[h].manifest = ManifestOf[run[o].version]

\* A process that moves outside the capture disturbs nothing.
LEMMA Elsewhere ==
  ASSUME TestedInv, TypeOK, NEW h \in Hooks, NEW p,
         p \notin {"manifest", "reserve_checkpoint", "checkpoint"},
         pc' = [pc EXCEPT ![h] = p], pc[h] \notin Over,
         UNCHANGED <<ws, run, call, seen, captured, checkpoints>>
  PROVE  TestedInv'
  BY SMTT(30) DEF TestedInv, TypeOK, PreHooks, Complete

\* Every step keeps TestedInv.
LEMMA TestedStep ==
  ~HooksOutliveTimeout /\ IInv /\ TestedInv /\ TypeOK' /\ [Next]_vars => TestedInv'
<1> SUFFICES ASSUME TypeOK, ControlInv, CheckpointInv, TestedInv, ~HooksOutliveTimeout,
                    TypeOK', [Next]_vars
        PROVE  TestedInv'
  BY DEF IInv
<1> USE DEF TypeOK, ControlInv, CheckpointInv, TestedInv, PreHooks, Complete, Goto,
   Calls, NoCall, Runs, CheckpointRecords, Live, Storing, Reserving, Over, Exited,
   Early, PrePath, PostPath, claudeVars, localVars, storeVars, sessionVars, recordVars
<1>1. ASSUME NEW h \in Hooks, NEW o \in Ops, NEW e \in Exts, DeliverPre(h, o, e)
      PROVE  TestedInv'
  BY <1>1, CallFacts DEF DeliverPre, Deliver
<1>2. ASSUME NEW h \in Hooks, NEW o \in Ops, NEW e \in Exts, DeliverPost(h, o, e)
      PROVE  TestedInv'
  BY <1>2, CallFacts DEF DeliverPost, Deliver
<1>3. ASSUME NEW h \in Hooks, NEW e \in Exts, DeliverOther(h, e) PROVE TestedInv'
  BY <1>3, CallFacts DEF DeliverOther, Deliver
<1>4. ASSUME NEW o \in Ops, StartVerifier(o) PROVE TestedInv'
  BY <1>4, CallFacts DEF StartVerifier
<1>5. ASSUME NEW o \in Ops, BlockVerifier(o) PROVE TestedInv'
  BY <1>5, CallFacts DEF BlockVerifier
<1>6. ASSUME NEW o \in Ops, NEW r \in Results, FinishVerifier(o, r) PROVE TestedInv'
  BY <1>6, CallFacts DEF FinishVerifier
<1>7. ASSUME NEW v \in Versions, WriteWorkspace(v) PROVE TestedInv'
  BY <1>7, CallFacts DEF WriteWorkspace
<1>8. ASSUME NEW h \in Hooks, LoadSession(h) PROVE TestedInv'
  BY <1>8, Elsewhere DEF LoadSession
<1>9. ASSUME NEW h \in Hooks, RejectInput(h) PROVE TestedInv'
  BY <1>9, Elsewhere DEF RejectInput
<1>10. ASSUME NEW h \in Hooks, BindExternalSession(h) PROVE TestedInv'
  BY <1>10, Elsewhere DEF BindExternalSession
<1>11. ASSUME NEW h \in Hooks, ReserveSequence(h) PROVE TestedInv'
  BY <1>11, CallFacts DEF ReserveSequence, AfterReserve
<1>12. ASSUME NEW h \in Hooks, PersistEvent(h) PROVE TestedInv'
  BY <1>12, Elsewhere DEF PersistEvent
<1>13. ASSUME NEW h \in Hooks, PersistEventBlob(h) PROVE TestedInv'
  BY <1>13, Elsewhere DEF PersistEventBlob, AfterEvent
<1>14. ASSUME NEW h \in Hooks, BeginCapture(h) PROVE TestedInv'
  BY <1>14, CallFacts DEF BeginCapture
<1>15. ASSUME NEW h \in Hooks, PersistManifest(h) PROVE TestedInv'
  <2>1. PICK m \in CaptureOutcomes(h) : captured' = [captured EXCEPT ![h] = m]
    BY <1>15 DEF PersistManifest
  <2>2. seen[h] = {ws} => m = ManifestOf[ws]
    BY <2>1 DEF CaptureOutcomes
  <2>3. /\ pc' = [pc EXCEPT ![h] = "reserve_checkpoint"] /\ pc[h] = "manifest"
        /\ UNCHANGED <<ws, run, call, checkpoints>>
        /\ \A g \in Hooks : g # h => seen'[g] = seen[g]
    BY <1>15 DEF PersistManifest
  <2> QED
    BY <2>1, <2>2, <2>3
<1>16. ASSUME NEW h \in Hooks, PersistCheckpoint(h) PROVE TestedInv'
  BY SMTT(30), <1>16, CallFacts DEF PersistCheckpoint
<1>17. ASSUME NEW h \in Hooks, PersistCheckpointBlob(h) PROVE TestedInv'
  BY <1>17, CallFacts DEF PersistCheckpointBlob
<1>18. ASSUME NEW h \in Hooks, PersistPending(h) PROVE TestedInv'
  BY <1>18, Elsewhere DEF PersistPending
<1>19. ASSUME NEW h \in Hooks, CorrelateResult(h) PROVE TestedInv'
  <2>1. /\ UNCHANGED <<ws, run, call, seen, captured, checkpoints>> /\ pc[h] = "correlate"
        /\ \E p \in {"reserve_receipt", "exit0"} : pc' = [pc EXCEPT ![h] = p]
    BY <1>19 DEF CorrelateResult
  <2> QED
    BY <2>1, Elsewhere
<1>20. ASSUME NEW h \in Hooks, CreateReceipt(h) PROVE TestedInv'
  BY <1>20, Elsewhere DEF CreateReceipt
<1>21. ASSUME NEW h \in Hooks, WriteReceipt(h) PROVE TestedInv'
  BY <1>21, Elsewhere DEF WriteReceipt
<1>22. ASSUME NEW h \in Hooks, PersistReceiptBlob(h) PROVE TestedInv'
  BY <1>22, Elsewhere DEF PersistReceiptBlob
<1>23. ASSUME NEW h \in Hooks, CatchError(h) PROVE TestedInv'
  BY <1>23, Elsewhere DEF CatchError, Raises
<1>24. ASSUME NEW h \in Hooks, PersistAnomaly(h) PROVE TestedInv'
  BY <1>24, Elsewhere DEF PersistAnomaly
<1>25. ASSUME NEW h \in Hooks, Kill(h) PROVE TestedInv'
  BY <1>25, Elsewhere DEF Kill
<1>26. ASSUME NEW h \in Hooks, KillInWrite(h) PROVE TestedInv'
  <2>1. /\ pc' = [pc EXCEPT ![h] = "killed"]
        /\ UNCHANGED <<ws, run, call, seen, captured>>
        /\ \A g \in Hooks : checkpoints'[g] = checkpoints[g] \/ ~Complete(checkpoints'[g])
    BY <1>26 DEF KillInWrite
  <2> QED
    BY <2>1
<1>27. ASSUME NEW h \in Hooks, OSErrorExits(h) PROVE TestedInv'
  BY <1>27, Elsewhere DEF OSErrorExits
<1>28. CASE UNCHANGED vars
  BY <1>28 DEF vars
<1> QED
  BY <1>1, <1>2, <1>3, <1>4, <1>5, <1>6, <1>7, <1>8, <1>9, <1>10, <1>11, <1>12, <1>13,
     <1>14, <1>15, <1>16, <1>17, <1>18, <1>19, <1>20, <1>21, <1>22, <1>23, <1>24, <1>25,
     <1>26, <1>27, <1>28 DEF Next, Claude, HookStep, HookFailure

\* The manifest on a receipt is the one of the worktree the verifier started
\* on, if nobody wrote the worktree since the PreToolUse event and a hook that
\* timed out does not go on (_persist_verifier_pre_state before the tool runs).
THEOREM ReceiptsArePreVerifierState ==
  ASSUME ~HooksOutliveTimeout PROVE Spec => []ReceiptIsPreVerifierState
<1>1. Init => TestedInv
  BY DEF Init, TestedInv, NotRun, NoCall, PreHooks
<1>2. IInv /\ IInv' /\ TestedInv /\ [Next]_vars => TestedInv'
  BY TestedStep DEF IInv
<1>3. ASSUME IInv, TestedInv PROVE ReceiptIsPreVerifierState
  <2> SUFFICES ASSUME NEW o \in Ops, Complete(receipts[o]), run[o].quiet
               PROVE  receipts[o].manifest = ManifestOf[run[o].version]
    BY DEF ReceiptIsPreVerifierState
  <2> DEFINE p == pending[o].owner
  <2>1. /\ p \in PreHooks(o) /\ Complete(checkpoints[p])
        /\ checkpoints[p].manifest = receipts[o].manifest
    BY <1>3 DEF IInv, ReceiptInv, MarkerInv, PreHooks, Complete
  <2>2. run[o].phase = "finished"
    BY <1>3 DEF IInv, ReceiptInv, ControlInv
  <2> QED
    BY <1>3, <2>1, <2>2 DEF TestedInv
<1> QED
  BY <1>1, <1>2, <1>3, Invariance, PTL DEF Spec

-----------------------------------------------------------------------------
(* Sequence numbers.                                                       *)

\* The points at which a process holds a number that no record carries yet.
Holding == {"event", "checkpoint", "receipt", "receipt_write"}

\* Every number handed out that is, or may still become, the number of a record.
Claims ==
  Stamps \cup {[kind |-> "held", id |-> h, seq |-> seq[h]] :
                 h \in {g \in Hooks : pc[g] \in Holding}}

\* A number is handed out once, and .sequence is never behind a number in use.
NumberInv ==
  /\ \A s, t \in Claims : s.seq = t.seq => s = t
  /\ seqFile # Torn => \A s \in Claims : s.seq <= seqFile

\* A process numbers what it writes in the order in which it writes it.
OrderInv ==
  /\ \A h \in Hooks :
       /\ pc[h] \in Holding \ {"event"} => events[h].seq < seq[h]
       /\ Complete(checkpoints[h]) => events[h].seq < checkpoints[h].seq
  /\ \A o \in Ops : Complete(receipts[o]) => events[receipts[o].post].seq < receipts[o].seq

\* Claude Code starts no tool before its PreToolUse hooks are over, so a result
\* event is numbered after every checkpoint of its occurrence.
LateInv ==
  \A p, q \in Hooks :
    (call[p].kind = "pre" /\ call[q].kind = "post" /\ call[p].op = call[q].op
       /\ Complete(checkpoints[p]))
    => /\ pc[q] = "event" => checkpoints[p].seq < seq[q]
       /\ Complete(events[q]) => checkpoints[p].seq < events[q].seq

\* A step that hands out no number and numbers no record.
LEMMA QuietClaims ==
  ASSUME \A h \in Hooks : pc'[h] \in Holding => pc[h] \in Holding /\ seq'[h] = seq[h],
         \A h \in Hooks : Complete(events'[h]) =>
           Complete(events[h]) /\ events'[h].seq = events[h].seq,
         \A h \in Hooks : Complete(checkpoints'[h]) =>
           Complete(checkpoints[h]) /\ checkpoints'[h].seq = checkpoints[h].seq,
         \A o \in Ops : Complete(receipts'[o]) =>
           Complete(receipts[o]) /\ receipts'[o].seq = receipts[o].seq
  PROVE  Claims' \subseteq Claims
<1> SUFFICES ASSUME NEW s \in Claims' PROVE s \in Claims
  OBVIOUS
<1>1. CASE \E h \in Hooks : /\ Complete(events'[h])
                            /\ s = [kind |-> "event", id |-> h, seq |-> events'[h].seq]
  BY <1>1 DEF Claims, Stamps
<1>2. CASE \E h \in Hooks : /\ Complete(checkpoints'[h])
                            /\ s = [kind |-> "checkpoint", id |-> h, seq |-> checkpoints'[h].seq]
  BY <1>2 DEF Claims, Stamps
<1>3. CASE \E o \in Ops : /\ Complete(receipts'[o])
                          /\ s = [kind |-> "receipt", id |-> o, seq |-> receipts'[o].seq]
  BY <1>3 DEF Claims, Stamps
<1>4. CASE \E h \in Hooks : /\ pc'[h] \in Holding
                            /\ s = [kind |-> "held", id |-> h, seq |-> seq'[h]]
  BY <1>4 DEF Claims, Stamps
<1> QED
  BY <1>1, <1>2, <1>3, <1>4 DEF Claims, Stamps, Complete

\* A step in which process h spends the number it holds on the record of stamp t.
LEMMA SpentClaims ==
  ASSUME NEW h \in Hooks, NEW t,
         \A g \in Hooks : pc'[g] \in Holding => g # h /\ pc[g] \in Holding /\ seq'[g] = seq[g],
         \A g \in Hooks : Complete(events'[g]) =>
           \/ Complete(events[g]) /\ events'[g].seq = events[g].seq
           \/ t = [kind |-> "event", id |-> g, seq |-> events'[g].seq],
         \A g \in Hooks : Complete(checkpoints'[g]) =>
           \/ Complete(checkpoints[g]) /\ checkpoints'[g].seq = checkpoints[g].seq
           \/ t = [kind |-> "checkpoint", id |-> g, seq |-> checkpoints'[g].seq],
         \A o \in Ops : Complete(receipts'[o]) =>
           \/ Complete(receipts[o]) /\ receipts'[o].seq = receipts[o].seq
           \/ t = [kind |-> "receipt", id |-> o, seq |-> receipts'[o].seq]
  PROVE  Claims' \subseteq (Claims \ {[kind |-> "held", id |-> h, seq |-> seq[h]]}) \cup {t}
<1> DEFINE held == [kind |-> "held", id |-> h, seq |-> seq[h]]
<1> SUFFICES ASSUME NEW s \in Claims', s # t PROVE s \in Claims /\ s # held
  OBVIOUS
<1>1. CASE \E g \in Hooks : /\ Complete(events'[g])
                            /\ s = [kind |-> "event", id |-> g, seq |-> events'[g].seq]
  BY <1>1 DEF Claims, Stamps
<1>2. CASE \E g \in Hooks : /\ Complete(checkpoints'[g])
                            /\ s = [kind |-> "checkpoint", id |-> g, seq |-> checkpoints'[g].seq]
  BY <1>2 DEF Claims, Stamps
<1>3. CASE \E o \in Ops : /\ Complete(receipts'[o])
                          /\ s = [kind |-> "receipt", id |-> o, seq |-> receipts'[o].seq]
  BY <1>3 DEF Claims, Stamps
<1>4. CASE \E g \in Hooks : /\ pc'[g] \in Holding
                            /\ s = [kind |-> "held", id |-> g, seq |-> seq'[g]]
  BY <1>4 DEF Claims, Stamps
<1> QED
  BY <1>1, <1>2, <1>3, <1>4 DEF Claims, Stamps, Complete

\* Numbers are naturals.
LEMMA ClaimsAreNumbers == TypeOK => \A s \in Claims : s.seq \in Nat
  BY DEF TypeOK, Claims, Stamps, EventRecords, CheckpointRecords, ReceiptRecords

\* The three things a step may do to the numbers.
LEMMA NumbersKept ==
  ASSUME NumberInv, Claims' \subseteq Claims, seqFile' \in {seqFile, Torn}
  PROVE  NumberInv'
  BY DEF NumberInv

LEMMA NumberHandedOut ==
  ASSUME NumberInv, TypeOK, NEW s, Claims' \subseteq Claims \cup {s},
         seqFile # Torn, s.seq = seqFile + 1, seqFile' = seqFile + 1
  PROVE  NumberInv'
<1>1. seqFile \in Nat /\ \A t \in Claims : t.seq \in Nat /\ t.seq <= seqFile
  BY ClaimsAreNumbers DEF NumberInv, TypeOK
<1>2. \A t \in Claims' : t = s \/ (t \in Claims /\ t.seq # s.seq)
  BY <1>1
<1>3. \A t \in Claims' : t.seq <= seqFile'
  BY <1>1
<1> QED
  BY <1>2, <1>3 DEF NumberInv

LEMMA NumberMoved ==
  ASSUME NumberInv, NEW s \in Claims, NEW t, Claims' \subseteq (Claims \ {s}) \cup {t},
         t.seq = s.seq, UNCHANGED seqFile
  PROVE  NumberInv'
  BY DEF NumberInv

\* reserve_sequence and the records that carry its numbers keep them unique.
LEMMA NumberStep == IInv /\ NumberInv /\ TypeOK' /\ [Next]_vars => NumberInv'
<1> SUFFICES ASSUME TypeOK, ControlInv, EventInv, CheckpointInv, WriterInv, NumberInv, TypeOK',
                    [Next]_vars
             PROVE  NumberInv'
  BY DEF IInv
<1> USE DEF TypeOK, Complete, Goto, EventRecords, CheckpointRecords, ReceiptRecords, Holding,
   claudeVars, localVars, storeVars, sessionVars, recordVars
<1>1. ASSUME NEW h \in Hooks, ReserveSequence(h) PROVE NumberInv'
  <2> DEFINE s == [kind |-> "held", id |-> h, seq |-> seqFile + 1]
  <2>1. /\ seq' = [seq EXCEPT ![h] = seqFile + 1]
        /\ pc' = [pc EXCEPT ![h] = AfterReserve(pc[h])]
        /\ seqFile # Torn /\ seqFile' = seqFile + 1
        /\ UNCHANGED <<events, checkpoints, receipts>>
    BY <1>1 DEF ReserveSequence
  <2>2. Claims' \subseteq Claims \cup {s}
    BY <2>1 DEF Claims, Stamps
  <2> QED
    BY <2>1, <2>2, NumberHandedOut
<1>2. ASSUME NEW h \in Hooks, PersistEvent(h) PROVE NumberInv'
  <2> DEFINE s == [kind |-> "held", id |-> h, seq |-> seq[h]]
             t == [kind |-> "event", id |-> h, seq |-> seq[h]]
  <2>1. /\ pc[h] = "event" /\ pc' = [pc EXCEPT ![h] = "event_blob"]
        /\ events' = [events EXCEPT ![h] = [file |-> "file", seq |-> seq[h]]]
        /\ UNCHANGED <<seq, seqFile, checkpoints, receipts>>
    BY <1>2 DEF PersistEvent
  <2>2. s \in Claims
    BY <2>1 DEF Claims
  <2>3. Claims' \subseteq (Claims \ {s}) \cup {t}
    BY <2>1, SpentClaims
  <2>4. t.seq = s.seq /\ UNCHANGED seqFile
    BY <2>1
  <2> HIDE DEF s, t
  <2> QED
    BY <2>2, <2>3, <2>4, NumberMoved
<1>3. ASSUME NEW h \in Hooks, PersistCheckpoint(h) PROVE NumberInv'
  <2> DEFINE s == [kind |-> "held", id |-> h, seq |-> seq[h]]
             t == [kind |-> "checkpoint", id |-> h, seq |-> seq[h]]
  <2>1. /\ pc[h] = "checkpoint" /\ pc' = [pc EXCEPT ![h] = "checkpoint_blob"]
        /\ checkpoints' = [checkpoints EXCEPT ![h] =
                             [file |-> "file", seq |-> seq[h], manifest |-> captured[h]]]
        /\ UNCHANGED <<seq, seqFile, events, receipts>>
    BY <1>3 DEF PersistCheckpoint
  <2>2. s \in Claims
    BY <2>1 DEF Claims
  <2>3. Claims' \subseteq (Claims \ {s}) \cup {t}
    BY <2>1, SpentClaims
  <2>4. t.seq = s.seq /\ UNCHANGED seqFile
    BY <2>1
  <2> HIDE DEF s, t
  <2> QED
    BY <2>2, <2>3, <2>4, NumberMoved
<1>4. ASSUME NEW h \in Hooks, WriteReceipt(h) PROVE NumberInv'
  <2> DEFINE o == call[h].op
             s == [kind |-> "held", id |-> h, seq |-> seq[h]]
             t == [kind |-> "receipt", id |-> o, seq |-> seq[h]]
  <2>1. /\ pc[h] = "receipt_write" /\ pc' = [pc EXCEPT ![h] = "receipt_blob"]
        /\ receipts' = [receipts EXCEPT ![o] = ReceiptRecord(h)]
        /\ ReceiptRecord(h).seq = seq[h] /\ o \in Ops
        /\ UNCHANGED <<seq, seqFile, events, checkpoints>>
    BY <1>4, CallFacts DEF WriteReceipt, ReceiptRecord, PrePath, PostPath
  <2>2. s \in Claims
    BY <2>1 DEF Claims
  <2>3. Claims' \subseteq (Claims \ {s}) \cup {t}
    <3>1. \A q \in Ops : receipts'[q] = (IF q = o THEN ReceiptRecord(h) ELSE receipts[q])
      BY <2>1
    <3>2. \A q \in Ops : q = o => t = [kind |-> "receipt", id |-> q, seq |-> receipts'[q].seq]
      BY <2>1, <3>1
    <3> HIDE DEF t
    <3> QED
      BY <2>1, <3>1, <3>2, SpentClaims
  <2>4. t.seq = s.seq /\ UNCHANGED seqFile
    BY <2>1
  <2> HIDE DEF s, t
  <2> QED
    BY <2>2, <2>3, <2>4, NumberMoved
<1>5. ASSUME NEW h \in Hooks, PersistEventBlob(h) PROVE NumberInv'
  <2>1. /\ pc[h] = "event_blob" /\ events[h].file = "file"
        /\ pc' = [pc EXCEPT ![h] = AfterEvent(h)] /\ AfterEvent(h) \notin Holding
        /\ events' = [events EXCEPT ![h].file = "whole"]
        /\ UNCHANGED <<seq, seqFile, checkpoints, receipts>>
    BY <1>5 DEF PersistEventBlob, AfterEvent, EventInv
  <2> QED
    BY <2>1, QuietClaims, NumbersKept
<1>6. ASSUME NEW h \in Hooks, PersistCheckpointBlob(h) PROVE NumberInv'
  <2>1. /\ pc[h] = "checkpoint_blob" /\ checkpoints[h].file = "file"
        /\ pc' = [pc EXCEPT ![h] = "pending"]
        /\ checkpoints' = [checkpoints EXCEPT ![h].file = "whole"]
        /\ UNCHANGED <<seq, seqFile, events, receipts>>
    BY <1>6 DEF PersistCheckpointBlob, CheckpointInv
  <2> QED
    BY <2>1, QuietClaims, NumbersKept
<1>7. ASSUME NEW h \in Hooks, PersistReceiptBlob(h) PROVE NumberInv'
  <2>1. /\ pc[h] = "receipt_blob" /\ Complete(receipts[call[h].op]) /\ call[h].op \in Ops
        /\ pc' = [pc EXCEPT ![h] = "exit0"]
        /\ receipts' = [receipts EXCEPT ![call[h].op].file = "whole"]
        /\ UNCHANGED <<seq, seqFile, events, checkpoints>>
    BY <1>7, CallFacts DEF PersistReceiptBlob, WriterInv, PrePath, PostPath
  <2> QED
    BY <2>1, QuietClaims, NumbersKept
<1>8. ASSUME NEW h \in Hooks, CreateReceipt(h) PROVE NumberInv'
  <2>1. /\ pc[h] = "receipt" /\ pc' = [pc EXCEPT ![h] = "receipt_write"]
        /\ receipts' = [receipts EXCEPT ![call[h].op].file = "partial"]
        /\ UNCHANGED <<seq, seqFile, events, checkpoints>>
    BY <1>8 DEF CreateReceipt
  <2> QED
    BY <2>1, QuietClaims, NumbersKept
<1>9. ASSUME NEW h \in Hooks, KillInWrite(h) PROVE NumberInv'
  <2>1. pc' = [pc EXCEPT ![h] = "killed"] /\ UNCHANGED <<seq, receipts>>
    BY <1>9 DEF KillInWrite
  <2>2. seqFile' \in {seqFile, Torn}
    BY <1>9 DEF KillInWrite
  <2>3. \A g \in Hooks : events'[g] = events[g] \/ ~Complete(events'[g])
    BY <1>9 DEF KillInWrite
  <2>4. \A g \in Hooks : checkpoints'[g] = checkpoints[g] \/ ~Complete(checkpoints'[g])
    BY <1>9 DEF KillInWrite
  <2> QED
    BY <2>1, <2>2, <2>3, <2>4, QuietClaims, NumbersKept
<1>10. ASSUME NEW h \in Hooks, OSErrorExits(h) PROVE NumberInv'
  <2>1. /\ pc' = [pc EXCEPT ![h] = "exit1"] /\ UNCHANGED <<seq, events, checkpoints>>
        /\ seqFile' \in {seqFile, Torn}
        /\ \A o \in Ops : receipts'[o] = receipts[o] \/ ~Complete(receipts'[o])
    BY <1>10 DEF OSErrorExits, NoReceipt
  <2> QED
    BY <2>1, QuietClaims, NumbersKept
<1>11. ASSUME UNCHANGED <<seq, seqFile, events, checkpoints, receipts>>,
              \A h \in Hooks : pc'[h] \in Holding => pc[h] \in Holding
       PROVE  NumberInv'
  BY <1>11, QuietClaims, NumbersKept
<1>12. ASSUME NEW h \in Hooks, HookStep(h) PROVE NumberInv'
  BY <1>1, <1>2, <1>3, <1>4, <1>5, <1>6, <1>7, <1>8, <1>11, <1>12 DEF HookStep, LoadSession,
     RejectInput, BindExternalSession, BeginCapture, PersistManifest, PersistPending,
     CorrelateResult, CatchError, PersistAnomaly
<1>13. ASSUME NEW h \in Hooks, HookFailure(h) PROVE NumberInv'
  BY <1>9, <1>10, <1>11, <1>13 DEF HookFailure, Kill
<1>14. CASE Claude
  BY <1>14, <1>11 DEF Claude, DeliverPre, DeliverPost, DeliverOther, Deliver, StartVerifier,
     BlockVerifier, FinishVerifier, WriteWorkspace
<1>15. CASE UNCHANGED vars
  BY <1>15, <1>11 DEF vars
<1> QED
  BY <1>12, <1>13, <1>14, <1>15 DEF Next

\* A process numbers its records in the order of the branch it follows.
LEMMA OrderStep == IInv /\ NumberInv /\ OrderInv /\ TypeOK' /\ [Next]_vars => OrderInv'
<1> SUFFICES ASSUME IInv, TypeOK, ControlInv, EventInv, CheckpointInv, WriterInv,
                    ReceiptInv, NumberInv, OrderInv, TypeOK', [Next]_vars
             PROVE  OrderInv'
  BY DEF IInv
<1> DEFINE
  HookOrder(h) ==
    /\ pc[h] \in Holding \ {"event"} => events[h].seq < seq[h]
    /\ Complete(checkpoints[h]) => events[h].seq < checkpoints[h].seq
  ReceiptOrder(o) ==
    Complete(receipts[o]) => events[receipts[o].post].seq < receipts[o].seq
<1>0. /\ \A h \in Hooks : HookOrder(h)
      /\ \A o \in Ops : ReceiptOrder(o)
  BY DEF OrderInv
<1>1. ASSUME NEW h \in Hooks,
             pc'[h] \in Holding \ {"event"} =>
               pc[h] \in Holding \ {"event"} /\ seq'[h] = seq[h],
             events'[h].seq = events[h].seq,
             Complete(checkpoints'[h]) =>
               Complete(checkpoints[h]) /\ checkpoints'[h].seq = checkpoints[h].seq
      PROVE  HookOrder(h)'
  BY <1>0, <1>1 DEF Holding
<1>2. ASSUME NEW h \in Hooks, Complete(events[h]), seqFile # Torn
      PROVE  events[h].seq < seqFile + 1
  <2>1. [kind |-> "event", id |-> h, seq |-> events[h].seq] \in Claims
    BY <1>2 DEF Claims, Stamps
  <2> QED
    BY <1>2, <2>1 DEF NumberInv, TypeOK, EventRecords
<1>3. ASSUME NEW g \in Hooks PROVE HookOrder(g)'
  <2> USE DEF TypeOK, Complete, Goto, EventRecords, CheckpointRecords, Holding,
      claudeVars, localVars, storeVars, sessionVars, recordVars
  <2>1. ASSUME NEW h \in Hooks, ReserveSequence(h) PROVE HookOrder(g)'
    <3>1. /\ seq' = [seq EXCEPT ![h] = seqFile + 1] /\ seqFile # Torn
          /\ pc' = [pc EXCEPT ![h] = AfterReserve(pc[h])]
          /\ UNCHANGED <<events, checkpoints>>
      BY <2>1 DEF ReserveSequence
    <3>2. AfterReserve(pc[h]) # "event" => Complete(events[h])
      BY <2>1 DEF ReserveSequence, Reserving, AfterReserve, EventInv, PrePath, PostPath
    <3> QED
      BY <1>0, <1>2, <3>1, <3>2
  <2>2. ASSUME NEW h \in Hooks, PersistEvent(h) PROVE HookOrder(g)'
    <3>1. /\ events' = [events EXCEPT ![h] = [file |-> "file", seq |-> seq[h]]]
          /\ pc' = [pc EXCEPT ![h] = "event_blob"] /\ UNCHANGED <<seq, checkpoints>>
          /\ ~Complete(checkpoints[h])
      BY <2>2 DEF PersistEvent, CheckpointInv, Early
    <3> QED
      BY <1>0, <3>1
  <2>3. ASSUME NEW h \in Hooks, PersistCheckpoint(h) PROVE HookOrder(g)'
    BY <1>0, <2>3 DEF PersistCheckpoint
  <2>4. ASSUME NEW h \in Hooks, PersistEventBlob(h) PROVE HookOrder(g)'
    BY <1>1, <2>4 DEF PersistEventBlob, AfterEvent
  <2>5. ASSUME NEW h \in Hooks, PersistCheckpointBlob(h) PROVE HookOrder(g)'
    BY <1>1, <2>5 DEF PersistCheckpointBlob, CheckpointInv
  <2>6. ASSUME NEW h \in Hooks, KillInWrite(h) PROVE HookOrder(g)'
    <3>1. pc' = [pc EXCEPT ![h] = "killed"] /\ UNCHANGED seq
      BY <2>6 DEF KillInWrite
    <3>2. events' \in {events, [events EXCEPT ![h].file = "partial"]}
      BY <2>6 DEF KillInWrite
    <3>3. checkpoints'[g] = checkpoints[g] \/ ~Complete(checkpoints'[g])
      BY <2>6 DEF KillInWrite
    <3> QED
      BY <1>1, <3>1, <3>2, <3>3
  <2>7. ASSUME UNCHANGED <<seq, events, checkpoints>>,
               pc'[g] \in Holding \ {"event"} => pc[g] \in Holding \ {"event"}
        PROVE  HookOrder(g)'
    BY <1>1, <2>7
  <2>8. ASSUME NEW h \in Hooks, HookStep(h) PROVE HookOrder(g)'
    BY <2>1, <2>2, <2>3, <2>4, <2>5, <2>7, <2>8 DEF HookStep, LoadSession, RejectInput,
       BindExternalSession, BeginCapture, PersistManifest, PersistPending, CorrelateResult,
       CreateReceipt, WriteReceipt, PersistReceiptBlob, CatchError, PersistAnomaly
  <2>9. ASSUME NEW h \in Hooks, HookFailure(h) PROVE HookOrder(g)'
    BY <2>6, <2>7, <2>9 DEF HookFailure, Kill, OSErrorExits
  <2>10. CASE Claude
    BY <2>7, <2>10 DEF Claude, DeliverPre, DeliverPost, DeliverOther, Deliver, StartVerifier,
       BlockVerifier, FinishVerifier, WriteWorkspace
  <2>11. CASE UNCHANGED vars
    BY <2>7, <2>11 DEF vars
  <2> QED
    BY <2>8, <2>9, <2>10, <2>11 DEF Next
<1>4. ASSUME NEW q \in Ops PROVE ReceiptOrder(q)'
  <2> USE DEF TypeOK, Complete, EventRecords, ReceiptRecords,
      claudeVars, localVars, storeVars, sessionVars, recordVars
  <2>1. Complete(receipts[q]) => receipts[q].post \in Hooks /\ events[receipts[q].post].file = "whole"
    BY DEF ReceiptInv
  <2>2. ASSUME NEW g \in Hooks, events[g].file = "whole" PROVE events'[g].seq = events[g].seq
    BY <2>2, EvidenceStep DEF EvidenceKept
  <2>3. ASSUME NEW h \in Hooks, WriteReceipt(h) PROVE ReceiptOrder(q)'
    <3>1. /\ receipts' = [receipts EXCEPT ![call[h].op] = ReceiptRecord(h)]
          /\ ReceiptRecord(h).seq = seq[h] /\ ReceiptRecord(h).post = h /\ UNCHANGED events
          /\ pc[h] = "receipt_write"
      BY <2>3 DEF WriteReceipt, ReceiptRecord
    <3>2. events[h].seq < seq[h]
      BY <1>0, <3>1 DEF Holding
    <3> QED
      BY <1>0, <3>1, <3>2
  <2>4. ASSUME receipts'[q] = receipts[q] \/ ~Complete(receipts'[q]) PROVE ReceiptOrder(q)'
    BY <1>0, <2>1, <2>2, <2>4
  <2>5. ASSUME NEW h \in Hooks, PersistReceiptBlob(h) PROVE ReceiptOrder(q)'
    <3>1. /\ receipts' = [receipts EXCEPT ![call[h].op].file = "whole"] /\ UNCHANGED events
          /\ Complete(receipts[call[h].op])
      BY <2>5 DEF PersistReceiptBlob, WriterInv
    <3> QED
      BY <1>0, <3>1
  <2>6. ASSUME NEW h \in Hooks, CreateReceipt(h) PROVE ReceiptOrder(q)'
    BY <2>4, <2>6 DEF CreateReceipt
  <2>7. ASSUME NEW h \in Hooks, OSErrorExits(h) PROVE ReceiptOrder(q)'
    BY <2>4, <2>7 DEF OSErrorExits, NoReceipt
  <2> QED
    BY <2>3, <2>4, <2>5, <2>6, <2>7, Frame
<1> QED
  BY <1>3, <1>4 DEF OrderInv

\* A result event is numbered after every checkpoint of its occurrence.
LEMMA LateStep ==
  ~HooksOutliveTimeout /\ IInv /\ TestedInv /\ NumberInv /\ LateInv /\ TypeOK' /\ [Next]_vars
    => LateInv'
<1> SUFFICES ASSUME TypeOK, ControlInv, EventInv, CheckpointInv, TestedInv, NumberInv, LateInv,
                    TypeOK', [Next]_vars,
                    NEW p \in Hooks, NEW q \in Hooks,
                    call'[p].kind = "pre", call'[q].kind = "post", call'[p].op = call'[q].op,
                    Complete(checkpoints'[p])
             PROVE  /\ pc'[q] = "event" => checkpoints'[p].seq < seq'[q]
                    /\ Complete(events'[q]) => checkpoints'[p].seq < events'[q].seq
  BY DEF IInv, LateInv, Complete
<1> DEFINE
  Goal == /\ pc'[q] = "event" => checkpoints'[p].seq < seq'[q]
          /\ Complete(events'[q]) => checkpoints'[p].seq < events'[q].seq
  Paired == call[p].kind = "pre" /\ call[q].kind = "post" /\ call[p].op = call[q].op
<1> USE DEF TypeOK, Complete, Goto, EventRecords, CheckpointRecords,
      claudeVars, localVars, storeVars, sessionVars, recordVars
<1>1. ASSUME Paired, Complete(checkpoints[p])
      PROVE  /\ pc[q] = "event" => checkpoints[p].seq < seq[q]
             /\ Complete(events[q]) => checkpoints[p].seq < events[q].seq
  BY <1>1 DEF LateInv
<1>2. ASSUME Paired PROVE pc[p] \in Over
  <2>0. call[q] \in Calls /\ run[call[q].op].phase = "finished"
    BY <1>2 DEF ControlInv
  <2>1. call[q].op \in Ops /\ run[call[q].op].phase = "finished"
    BY <1>2, <2>0 DEF Calls, NoCall
  <2>2. p \in PreHooks(call[q].op)
    BY <1>2 DEF PreHooks
  <2> QED
    BY <2>1, <2>2 DEF TestedInv
<1>3. ASSUME UNCHANGED call, checkpoints'[p].seq = checkpoints[p].seq, Complete(checkpoints[p]),
             pc'[q] = "event" => pc[q] = "event" /\ seq'[q] = seq[q],
             Complete(events'[q]) => Complete(events[q]) /\ events'[q].seq = events[q].seq
      PROVE  Goal
  BY <1>1, <1>3
<1>4. ASSUME NEW h \in Hooks, NEW k \in {"pre", "post", "other"}, NEW o, NEW e, Deliver(h, k, o, e),
             UNCHANGED <<checkpoints, events, seq>>
      PROVE  Goal
  <2>1. checkpoints[h].file = "absent" /\ events[h].file = "absent"
    BY <1>4 DEF Deliver, EventInv, CheckpointInv
  <2>2. p # h
    BY <1>4, <2>1
  <2>3. CASE q = h
    BY <1>4, <2>1, <2>3 DEF Deliver
  <2>4. CASE q # h
    BY <1>1, <1>4, <2>2, <2>4 DEF Deliver
  <2> QED
    BY <2>3, <2>4
<1>5. ASSUME UNCHANGED <<call, checkpoints, events, seq>>, pc'[q] = "event" => pc[q] = "event"
      PROVE  Goal
  BY <1>3, <1>5
<1>6. CASE Claude
  BY <1>4, <1>5, <1>6 DEF Claude, DeliverPre, DeliverPost, DeliverOther, StartVerifier,
     BlockVerifier, FinishVerifier, WriteWorkspace
<1>7. ASSUME NEW h \in Hooks, ReserveSequence(h) PROVE Goal
  <2>1. /\ seq' = [seq EXCEPT ![h] = seqFile + 1] /\ seqFile # Torn
        /\ pc' = [pc EXCEPT ![h] = AfterReserve(pc[h])]
        /\ UNCHANGED <<call, events, checkpoints>>
    BY <1>7 DEF ReserveSequence
  <2>2. [kind |-> "checkpoint", id |-> p, seq |-> checkpoints[p].seq] \in Claims
    BY <2>1 DEF Claims, Stamps
  <2>3. checkpoints[p].seq < seqFile + 1
    BY <2>1, <2>2 DEF NumberInv
  <2> QED
    BY <1>1, <2>1, <2>3
<1>8. ASSUME NEW h \in Hooks, PersistEvent(h) PROVE Goal
  BY <1>1, <1>8 DEF PersistEvent
<1>9. ASSUME NEW h \in Hooks, PersistEventBlob(h) PROVE Goal
  BY <1>3, <1>9 DEF PersistEventBlob, AfterEvent, EventInv
<1>10. ASSUME NEW h \in Hooks, PersistCheckpoint(h) PROVE Goal
  <2>1. p # h
    BY <1>2, <1>10 DEF PersistCheckpoint, Over, Exited
  <2> QED
    BY <1>3, <1>10, <2>1 DEF PersistCheckpoint
<1>11. ASSUME NEW h \in Hooks, PersistCheckpointBlob(h) PROVE Goal
  BY <1>3, <1>11 DEF PersistCheckpointBlob, CheckpointInv
<1>12. ASSUME NEW h \in Hooks, KillInWrite(h) PROVE Goal
  <2>1. pc' = [pc EXCEPT ![h] = "killed"] /\ UNCHANGED <<seq, call>>
    BY <1>12 DEF KillInWrite
  <2>2. events'[q] = events[q] \/ ~Complete(events'[q])
    BY <1>12 DEF KillInWrite
  <2>3. checkpoints'[p] = checkpoints[p]
    BY <1>12 DEF KillInWrite
  <2> QED
    BY <1>3, <2>1, <2>2, <2>3
<1>13. ASSUME NEW h \in Hooks, HookStep(h) PROVE Goal
  BY <1>5, <1>7, <1>8, <1>9, <1>10, <1>11, <1>13 DEF HookStep, LoadSession, RejectInput,
     BindExternalSession, BeginCapture, PersistManifest, PersistPending, CorrelateResult,
     CreateReceipt, WriteReceipt, PersistReceiptBlob, CatchError, PersistAnomaly
<1>14. ASSUME NEW h \in Hooks, HookFailure(h) PROVE Goal
  BY <1>5, <1>12, <1>14 DEF HookFailure, Kill, OSErrorExits
<1>15. CASE UNCHANGED vars
  BY <1>5, <1>15 DEF vars
<1> QED
  BY <1>6, <1>13, <1>14, <1>15 DEF Next

\* No two durable records carry the same number: the session's journal has one
\* order, whatever dies between reserve_sequence and the record
\* (OrderingEvidence basis "locked_session_sequence_v1").
THEOREM SequenceNumbersUnique == Spec => []SequencesUnique
<1>1. Init => NumberInv
  BY DEF Init, NumberInv, Claims, Stamps, NoEvent, NoCheckpoint, NoReceipt, Complete, Holding
<1>2. IInv /\ IInv' /\ NumberInv /\ [Next]_vars => NumberInv'
  BY NumberStep DEF IInv
<1>3. NumberInv => SequencesUnique
  BY DEF NumberInv, SequencesUnique, Claims
<1> QED
  BY <1>1, <1>2, <1>3, Invariance, PTL DEF Spec

\* The numbers of a receipt's evidence tell the order in which it came to be
\* (audit_session compares half of them).
THEOREM ReceiptsFollowTheirEvidence == Spec => []ReceiptFollowsItsEvidence
<1> DEFINE NInv == NumberInv /\ OrderInv
           TInv == ~HooksOutliveTimeout => TestedInv /\ LateInv
<1>1. Init => NInv /\ TInv
  <2> SUFFICES ASSUME Init PROVE NInv /\ TInv
    OBVIOUS
  <2> USE DEF Init, NoCall, NoEvent, NoCheckpoint, NoReceipt, NotRun, Complete, Holding
  <2>1. NumberInv
    BY DEF NumberInv, Claims, Stamps
  <2>2. OrderInv /\ LateInv
    BY DEF OrderInv, LateInv
  <2>3. TestedInv
    BY DEF TestedInv, PreHooks
  <2> QED
    BY <2>1, <2>2, <2>3
<1>2. IInv /\ IInv' /\ NInv /\ TInv /\ [Next]_vars => NInv' /\ TInv'
  BY NumberStep, OrderStep, TestedStep, LateStep DEF IInv
<1>3. ASSUME IInv, NInv, TInv PROVE ReceiptFollowsItsEvidence
  <2> SUFFICES ASSUME NEW o \in Ops, Complete(receipts[o])
               PROVE  LET r == receipts[o]
                          p == pending[o].owner
                      IN  /\ pending[o].preSeq = events[p].seq
                          /\ events[p].seq < checkpoints[p].seq
                          /\ events[r.post].seq < r.seq
                          /\ HooksOutliveTimeout \/ checkpoints[p].seq < events[r.post].seq
    BY DEF ReceiptFollowsItsEvidence
  <2> DEFINE p == pending[o].owner
             q == receipts[o].post
  <2>1. /\ p \in Hooks /\ call[p].kind = "pre" /\ call[p].op = o
        /\ Complete(checkpoints[p]) /\ pending[o].preSeq = events[p].seq
    BY <1>3 DEF IInv, ReceiptInv, MarkerInv, Complete
  <2>2. /\ q \in Hooks /\ call[q].kind = "post" /\ call[q].op = o
        /\ Complete(events[q])
    BY <1>3 DEF IInv, ReceiptInv, Complete
  <2>3. events[p].seq < checkpoints[p].seq /\ events[q].seq < receipts[o].seq
    BY <1>3, <2>1 DEF OrderInv
  <2>4. HooksOutliveTimeout \/ checkpoints[p].seq < events[q].seq
    BY <1>3, <2>1, <2>2 DEF LateInv
  <2> QED
    BY <2>1, <2>3, <2>4
<1> HIDE DEF NInv, TInv
<1> QED
  BY <1>1, <1>2, <1>3, Invariance, PTL DEF Spec

-----------------------------------------------------------------------------
(* The launcher and its audit (module SessionAudit).                       *)

\* A process that returned 0 without an anomaly did all its event asks for.
ReturnedInv ==
  \A h \in Hooks : pc[h] = "exit0" /\ h \notin anomalies =>
    /\ events[h].file = "whole"
    /\ call[h].kind = "pre" =>
         /\ OpScope[call[h].op] = "root"
         /\ pending[call[h].op].file = "whole" /\ pending[call[h].op].owner = h
    /\ call[h].kind = "post" /\ Eligible(call[h].op) => Complete(receipts[call[h].op])

\* Only a root-scoped occurrence is captured, and the manifest of a checkpoint
\* is in the store before the checkpoint is.
StoredInv ==
  \A h \in Hooks :
    /\ pc[h] \in PrePath \ {"capture"} => OpScope[call[h].op] = "root"
    /\ pc[h] \in {"reserve_checkpoint", "checkpoint"} => manifests[captured[h]] = "whole"
    /\ Complete(checkpoints[h]) => manifests[checkpoints[h].manifest] = "whole"
    /\ checkpoints[h].file # "absent" => call[h].kind = "pre"

\* A receipt that is not yet whole is somebody's unfinished work.
UnfinishedInv ==
  \A o \in Ops :
    /\ receipts[o].file = "partial" =>
         \E h \in Hooks : call[h].op = o /\ pc[h] \in {"receipt_write", "killed"}
    /\ receipts[o].file = "file" =>
         \E h \in Hooks : call[h].op = o /\ pc[h] \in {"receipt_blob", "killed", "exit1"}

\* After Claude Code has exited nothing moves, and the verdict is about what is
\* still there.
AuditInv ==
  /\ launcher \in {"claude", "audit", "PASS", "BLOCK"}
  /\ launcher # "claude" => \A h \in Hooks : pc[h] \notin Live
  /\ launcher = "PASS" => AuditPasses
  /\ launcher = "BLOCK" => ~AuditPasses

\* Claude Code starts processes and runs tools; it touches no evidence.
LEMMA ClaudeFrame ==
  ASSUME TypeOK, Claude
  PROVE  /\ UNCHANGED storeVars /\ UNCHANGED <<seq, captured, loaded>>
         /\ \A h \in Hooks :
              \/ pc'[h] = pc[h] /\ call'[h] = call[h]
              \/ pc[h] = "idle" /\ pc'[h] = "load"
<1> USE DEF TypeOK, localVars
<1>1. ASSUME NEW h \in Hooks, NEW k, NEW o, NEW e, Deliver(h, k, o, e)
      PROVE  \A g \in Hooks : \/ pc'[g] = pc[g] /\ call'[g] = call[g]
                              \/ pc[g] = "idle" /\ pc'[g] = "load"
  BY <1>1 DEF Deliver, Goto
<1>2. CASE \E h \in Hooks, o \in Ops, e \in Exts : DeliverPre(h, o, e) \/ DeliverPost(h, o, e)
  BY <1>1, <1>2 DEF DeliverPre, DeliverPost
<1>3. CASE \E h \in Hooks, e \in Exts : DeliverOther(h, e)
  BY <1>1, <1>3 DEF DeliverOther
<1>4. CASE \/ \E o \in Ops : \/ StartVerifier(o) \/ BlockVerifier(o)
                             \/ \E r \in Results : FinishVerifier(o, r)
           \/ \E v \in Versions : WriteWorkspace(v)
  BY <1>4 DEF StartVerifier, BlockVerifier, FinishVerifier, WriteWorkspace
<1> QED
  BY <1>2, <1>3, <1>4 DEF Claude

\* The result of a finished occurrence is not reported twice.
LEMMA FinishedRunStays ==
  ASSUME TypeOK, [Next]_vars, NEW o \in Ops, run[o].phase = "finished"
  PROVE  run'[o].result = run[o].result /\ run'[o].phase = "finished"
<1> USE DEF TypeOK, Runs
<1>1. ASSUME NEW h \in Hooks, NEW q \in Ops, NEW e \in Exts, DeliverPre(h, q, e)
      PROVE  run'[o] = run[o]
  BY <1>1 DEF DeliverPre
<1>2. ASSUME NEW q \in Ops, StartVerifier(q) \/ BlockVerifier(q) PROVE run'[o] = run[o]
  BY <1>2 DEF StartVerifier, BlockVerifier
<1>3. ASSUME NEW q \in Ops, NEW r \in Results, FinishVerifier(q, r) PROVE run'[o] = run[o]
  BY <1>3 DEF FinishVerifier
<1>4. ASSUME NEW v \in Versions, WriteWorkspace(v) PROVE run'[o] = run[o]
  BY <1>4 DEF WriteWorkspace
<1> QED
  BY <1>1, <1>2, <1>3, <1>4, Frame

\* A complete event record stays complete.
LEMMA WholeEventStays ==
  ASSUME IInv, [Next]_vars
  PROVE  \A g \in Hooks : events[g].file = "whole" => events'[g].file = "whole"
<1> SUFFICES ASSUME NEW g \in Hooks, events[g].file = "whole" PROVE events'[g].file = "whole"
  OBVIOUS
<1> USE DEF IInv, TypeOK, EventRecords, EventInv, Early
<1>1. ASSUME NEW h \in Hooks, PersistEvent(h) PROVE events'[g] = events[g]
  BY <1>1 DEF PersistEvent
<1>2. ASSUME NEW h \in Hooks, PersistEventBlob(h) PROVE events'[g].file = "whole"
  BY <1>2 DEF PersistEventBlob
<1>3. ASSUME NEW h \in Hooks, KillInWrite(h) PROVE events'[g] = events[g]
  BY <1>3 DEF KillInWrite, recordVars
<1> QED
  BY <1>1, <1>2, <1>3, Frame

\* A process that returned 0 keeps what it left.
LEMMA ReturnedStep == IInv /\ ReturnedInv /\ StoredInv /\ TypeOK' /\ [Next]_vars => ReturnedInv'
<1> SUFFICES ASSUME IInv, ReturnedInv, StoredInv, TypeOK', [Next]_vars PROVE ReturnedInv'
  OBVIOUS
<1> DEFINE
  Left(h) ==
    /\ events[h].file = "whole"
    /\ call[h].kind = "pre" =>
         /\ OpScope[call[h].op] = "root"
         /\ pending[call[h].op].file = "whole" /\ pending[call[h].op].owner = h
    /\ call[h].kind = "post" /\ Eligible(call[h].op) => Complete(receipts[call[h].op])
<1>0. /\ TypeOK /\ ControlInv /\ EventInv /\ WriterInv /\ EvidenceKept
      /\ \A h \in Hooks : pc[h] = "exit0" /\ h \notin anomalies => Left(h)
  BY EvidenceStep DEF IInv, ReturnedInv
<1>1. \A h \in Hooks : events[h].file = "whole" => events'[h].file = "whole"
  BY WholeEventStays
<1>2. ASSUME NEW h \in Hooks, call'[h] = call[h], Left(h) PROVE Left(h)'
  <2>1. call[h].kind \in {"pre", "post"} => call[h].op \in Ops
    BY <1>0 DEF TypeOK, Calls, NoCall
  <2>2. ASSUME call[h].kind = "post" PROVE run'[call[h].op].result = run[call[h].op].result
    <3>1. run[call[h].op].phase = "finished" /\ call[h].op \in Ops
      BY <1>0, <2>1, <2>2 DEF ControlInv
    <3> QED
      BY <1>0, <3>1, FinishedRunStays
  <2>3. events'[h].file = "whole"
    BY <1>1, <1>2
  <2>4. call'[h].kind = "pre" =>
          /\ OpScope[call'[h].op] = "root"
          /\ pending'[call'[h].op].file = "whole" /\ pending'[call'[h].op].owner = h
    BY <1>0, <1>2, <2>1 DEF EvidenceKept
  <2>5. call'[h].kind = "post" /\ Eligible(call[h].op)' => Complete(receipts[call[h].op])'
    <3> SUFFICES ASSUME call[h].kind = "post", Eligible(call[h].op)'
                 PROVE  Complete(receipts'[call[h].op])
      BY <1>2
    <3>1. Eligible(call[h].op)
      BY <1>2, <2>2 DEF Eligible
    <3>2. Complete(receipts[call[h].op])
      BY <1>2, <3>1
    <3> QED
      BY <1>0, <2>1, <3>2 DEF EvidenceKept, Complete, TypeOK, ReceiptRecords
  <2> QED
    BY <2>3, <2>4, <2>5
<1>3. ASSUME NEW g \in Hooks, pc'[g] = "exit0", g \notin anomalies' PROVE Left(g)'
  <2>1. anomalies \subseteq anomalies'
    BY DEF Next, Claude, HookStep, HookFailure, DeliverPre, DeliverPost, DeliverOther,
       StartVerifier, BlockVerifier, FinishVerifier, WriteWorkspace, LoadSession, RejectInput,
       BindExternalSession, ReserveSequence, PersistEvent, PersistEventBlob, BeginCapture,
       PersistManifest, PersistCheckpoint, PersistCheckpointBlob, PersistPending,
       CorrelateResult, CreateReceipt, WriteReceipt, PersistReceiptBlob, CatchError,
       PersistAnomaly, Kill, KillInWrite, OSErrorExits, vars, storeVars, sessionVars
  <2>2. ASSUME pc'[g] = pc[g], call'[g] = call[g] PROVE Left(g)'
    BY <1>0, <1>2, <1>3, <2>1, <2>2
  <2> USE <1>0 DEF TypeOK, Goto, claudeVars, localVars, storeVars, sessionVars, recordVars
  <2>3. ASSUME NEW h \in Hooks, HookStep(h) PROVE Left(g)'
    <3>1. CASE g # h
      BY <2>2, <2>3, <3>1 DEF HookStep, LoadSession, RejectInput, BindExternalSession,
         ReserveSequence, PersistEvent, PersistEventBlob, BeginCapture, PersistManifest,
         PersistCheckpoint, PersistCheckpointBlob, PersistPending, CorrelateResult,
         CreateReceipt, WriteReceipt, PersistReceiptBlob, CatchError, PersistAnomaly
    <3>2. CASE g = h /\ PersistEventBlob(h)
      <4>1. /\ pc[h] = "event_blob" /\ call' = call
            /\ events' = [events EXCEPT ![h].file = "whole"] /\ AfterEvent(h) = "exit0"
            /\ UNCHANGED run
        BY <1>3, <3>2 DEF PersistEventBlob
      <4>2. call[h].kind # "pre" /\ ~(call[h].kind = "post" /\ Eligible(call[h].op))
        BY <4>1 DEF AfterEvent
      <4>3. events'[h].file = "whole" /\ Eligible(call[h].op)' = Eligible(call[h].op)
        BY <4>1 DEF EventRecords, Eligible
      <4> QED
        BY <3>2, <4>1, <4>2, <4>3
    <3>3. CASE g = h /\ PersistPending(h)
      <4>1. /\ pc[h] = "pending" /\ call' = call /\ UNCHANGED events
            /\ pending' = [pending EXCEPT ![call[h].op] = PendingMarker(h)]
        BY <3>3 DEF PersistPending
      <4>2. events[h].file = "whole" /\ call[h].kind = "pre" /\ call[h].op \in Ops
        BY <4>1, CallFacts DEF EventInv, ControlInv, PrePath, PostPath
      <4>3. OpScope[call[h].op] = "root"
        BY <4>1 DEF StoredInv, PrePath
      <4> QED
        BY <3>3, <4>1, <4>2, <4>3 DEF PendingMarker
    <3>4. CASE g = h /\ CorrelateResult(h)
      <4>1. /\ pc[h] = "correlate" /\ UNCHANGED <<call, events, receipts>>
            /\ receipts[call[h].op].file \notin {"absent", "partial"}
        BY <1>3, <3>4 DEF CorrelateResult
      <4>2. events[h].file = "whole" /\ call[h].kind = "post" /\ call[h].op \in Ops
        BY <4>1, CallFacts DEF EventInv, ControlInv, PrePath, PostPath
      <4>3. Complete(receipts[call[h].op])
        BY <4>1, <4>2 DEF Complete, ReceiptRecords
      <4> QED
        BY <3>4, <4>1, <4>2, <4>3
    <3>5. CASE g = h /\ PersistReceiptBlob(h)
      <4>1. /\ pc[h] = "receipt_blob" /\ UNCHANGED <<call, events>>
            /\ receipts' = [receipts EXCEPT ![call[h].op].file = "whole"]
        BY <3>5 DEF PersistReceiptBlob
      <4>2. events[h].file = "whole" /\ call[h].kind = "post" /\ call[h].op \in Ops
        BY <4>1, CallFacts DEF EventInv, ControlInv, PrePath, PostPath
      <4>3. Complete(receipts'[call[h].op])
        BY <4>1, <4>2 DEF Complete, ReceiptRecords
      <4> QED
        BY <3>5, <4>1, <4>2, <4>3
    <3>6. CASE g = h /\ PersistAnomaly(h)
      BY <1>3, <3>6 DEF PersistAnomaly
    <3> QED
      BY <1>3, <2>3, <3>1, <3>2, <3>3, <3>4, <3>5, <3>6 DEF HookStep, LoadSession,
         RejectInput, BindExternalSession, ReserveSequence, AfterReserve, PersistEvent,
         BeginCapture, PersistManifest, PersistCheckpoint, PersistCheckpointBlob,
         CreateReceipt, WriteReceipt, CatchError
  <2>4. ASSUME NEW h \in Hooks, HookFailure(h) PROVE Left(g)'
    <3>1. \E p \in {"killed", "exit1"} : pc' = [pc EXCEPT ![h] = p] /\ UNCHANGED call
      <4>1. ASSUME KillInWrite(h) PROVE pc' = [pc EXCEPT ![h] = "killed"] /\ UNCHANGED call
        BY <4>1 DEF KillInWrite
      <4> QED
        BY <2>4, <4>1 DEF HookFailure, Kill, OSErrorExits
    <3> QED
      BY <1>3, <2>2, <3>1
  <2>5. CASE Claude
    BY <1>3, <2>2, <2>5, ClaudeFrame
  <2>6. CASE UNCHANGED vars
    BY <2>2, <2>6 DEF vars
  <2> QED
    BY <2>3, <2>4, <2>5, <2>6 DEF Next
<1> QED
  BY <1>3 DEF ReturnedInv

\* A checkpoint's manifest stays in the store.
LEMMA StoredStep == IInv /\ StoredInv /\ TypeOK' /\ [Next]_vars => StoredInv'
<1> SUFFICES ASSUME IInv, StoredInv, TypeOK', [Next]_vars, NEW g \in Hooks
             PROVE  /\ pc'[g] \in PrePath \ {"capture"} => OpScope[call'[g].op] = "root"
                    /\ pc'[g] \in {"reserve_checkpoint", "checkpoint"} =>
                         manifests'[captured'[g]] = "whole"
                    /\ Complete(checkpoints'[g]) => manifests'[checkpoints'[g].manifest] = "whole"
                    /\ checkpoints'[g].file # "absent" => call'[g].kind = "pre"
  BY DEF StoredInv, Complete
<1>0. /\ TypeOK /\ ControlInv /\ CheckpointInv
  BY DEF IInv
<1> DEFINE
  Goal == /\ pc'[g] \in PrePath \ {"capture"} => OpScope[call'[g].op] = "root"
          /\ pc'[g] \in {"reserve_checkpoint", "checkpoint"} =>
               manifests'[captured'[g]] = "whole"
          /\ Complete(checkpoints'[g]) => manifests'[checkpoints'[g].manifest] = "whole"
          /\ checkpoints'[g].file # "absent" => call'[g].kind = "pre"
<1>1. /\ pc[g] \in PrePath \ {"capture"} => OpScope[call[g].op] = "root"
      /\ pc[g] \in {"reserve_checkpoint", "checkpoint"} =>
           captured[g] \in Manifests /\ manifests[captured[g]] = "whole"
      /\ Complete(checkpoints[g]) =>
           checkpoints[g].manifest \in Manifests /\ manifests[checkpoints[g].manifest] = "whole"
      /\ checkpoints[g].file # "absent" => call[g].kind = "pre"
      /\ pc[g] = "idle" => checkpoints[g].file = "absent"
  BY <1>0 DEF StoredInv, ControlInv, CheckpointInv
<1>2. \A m \in Manifests : manifests[m] = "whole" => manifests'[m] = "whole"
  <2> USE <1>0 DEF TypeOK, claudeVars, localVars, storeVars, sessionVars, recordVars
  <2>1. ASSUME NEW h \in Hooks, PersistManifest(h), NEW m \in Manifests, manifests[m] = "whole"
        PROVE  manifests'[m] = "whole"
    BY <2>1 DEF PersistManifest
  <2>2. ASSUME NEW h \in Hooks, KillInWrite(h), NEW m \in Manifests, manifests[m] = "whole"
        PROVE  manifests'[m] = "whole"
    BY <2>2 DEF KillInWrite
  <2>3. \/ UNCHANGED manifests
        \/ \E h \in Hooks : PersistManifest(h) \/ KillInWrite(h)
    BY DEF Next, Claude, HookStep, HookFailure, DeliverPre, DeliverPost, DeliverOther,
       StartVerifier, BlockVerifier, FinishVerifier, WriteWorkspace, LoadSession, RejectInput,
       BindExternalSession, ReserveSequence, PersistEvent, PersistEventBlob, BeginCapture,
       PersistCheckpoint, PersistCheckpointBlob, PersistPending, CorrelateResult,
       CreateReceipt, WriteReceipt, PersistReceiptBlob, CatchError, PersistAnomaly, Kill,
       OSErrorExits, vars
  <2> QED
    BY <2>1, <2>2, <2>3
<1>3. ASSUME pc'[g] \in PrePath \ {"capture"} => pc'[g] = pc[g] /\ captured'[g] = captured[g],
             call'[g] = call[g] \/ pc[g] = "idle", UNCHANGED checkpoints
      PROVE  Goal
  BY <1>1, <1>2, <1>3 DEF PrePath, Complete
<1> USE <1>0 DEF TypeOK, Goto, PrePath, Complete, CheckpointRecords, claudeVars, localVars,
    storeVars, sessionVars, recordVars
<1>4. ASSUME NEW h \in Hooks, BeginCapture(h) PROVE Goal
  BY <1>1, <1>4 DEF BeginCapture
<1>5. ASSUME NEW h \in Hooks, PersistManifest(h) PROVE Goal
  <2>1. PICK m \in CaptureOutcomes(h) :
          /\ manifests' = [manifests EXCEPT ![m] = "whole"]
          /\ captured' = [captured EXCEPT ![h] = m]
    BY <1>5 DEF PersistManifest
  <2>2. /\ m \in Manifests /\ pc[h] = "manifest" /\ UNCHANGED <<call, checkpoints>>
        /\ pc' = [pc EXCEPT ![h] = "reserve_checkpoint"]
    BY <1>5, <2>1 DEF PersistManifest, CaptureOutcomes
  <2> QED
    BY <1>1, <1>2, <2>1, <2>2
<1>6. ASSUME NEW h \in Hooks, ReserveSequence(h) PROVE Goal
  BY <1>1, <1>2, <1>6 DEF ReserveSequence, Reserving, AfterReserve
<1>7. ASSUME NEW h \in Hooks, PersistCheckpoint(h) PROVE Goal
  BY <1>1, <1>2, <1>7 DEF PersistCheckpoint, ControlInv
<1>8. ASSUME NEW h \in Hooks, PersistCheckpointBlob(h) PROVE Goal
  <2>1. Complete(checkpoints[h])
    BY <1>8 DEF PersistCheckpointBlob, CheckpointInv
  <2> QED
    BY <1>1, <1>2, <1>8, <2>1 DEF PersistCheckpointBlob
<1>9. ASSUME NEW h \in Hooks, KillInWrite(h) PROVE Goal
  <2>1. pc' = [pc EXCEPT ![h] = "killed"] /\ UNCHANGED <<call, captured>>
    BY <1>9 DEF KillInWrite
  <2>2. checkpoints'[g] = checkpoints[g]
          \/ (checkpoints'[g].file = "partial" /\ pc[g] = "checkpoint")
    BY <1>9 DEF KillInWrite
  <2>3. pc[g] = "checkpoint" => call[g].kind = "pre"
    BY DEF ControlInv
  <2> QED
    BY <1>1, <1>2, <2>1, <2>2, <2>3
<1>10. ASSUME NEW h \in Hooks, HookStep(h) PROVE Goal
  BY <1>3, <1>4, <1>5, <1>6, <1>7, <1>8, <1>10 DEF HookStep, LoadSession, RejectInput,
     BindExternalSession, PersistEvent, PersistEventBlob, AfterEvent, PersistPending,
     CorrelateResult, CreateReceipt, WriteReceipt, PersistReceiptBlob, CatchError,
     PersistAnomaly
<1>11. ASSUME NEW h \in Hooks, HookFailure(h) PROVE Goal
  BY <1>3, <1>9, <1>11 DEF HookFailure, Kill, OSErrorExits
<1>12. CASE Claude
  BY <1>3, <1>12, ClaudeFrame
<1>13. CASE UNCHANGED vars
  BY <1>3, <1>13 DEF vars
<1> QED
  BY <1>10, <1>11, <1>12, <1>13 DEF Next

\* A receipt is completed or taken back by the process that created it, unless
\* that process died.
LEMMA UnfinishedStep == IInv /\ UnfinishedInv /\ TypeOK' /\ [Next]_vars => UnfinishedInv'
<1> SUFFICES ASSUME IInv, UnfinishedInv, TypeOK', [Next]_vars, NEW o \in Ops
             PROVE  /\ receipts'[o].file = "partial" =>
                         \E h \in Hooks : call'[h].op = o /\ pc'[h] \in {"receipt_write", "killed"}
                    /\ receipts'[o].file = "file" =>
                         \E h \in Hooks :
                           call'[h].op = o /\ pc'[h] \in {"receipt_blob", "killed", "exit1"}
  BY DEF UnfinishedInv
<1> DEFINE
  Goal == /\ receipts'[o].file = "partial" =>
               \E h \in Hooks : call'[h].op = o /\ pc'[h] \in {"receipt_write", "killed"}
          /\ receipts'[o].file = "file" =>
               \E h \in Hooks : call'[h].op = o /\ pc'[h] \in {"receipt_blob", "killed", "exit1"}
<1>0. /\ TypeOK /\ ControlInv /\ WriterInv
  BY DEF IInv
<1>1. /\ receipts[o].file = "partial" =>
           \E h \in Hooks : call[h].op = o /\ pc[h] \in {"receipt_write", "killed"}
      /\ receipts[o].file = "file" =>
           \E h \in Hooks : call[h].op = o /\ pc[h] \in {"receipt_blob", "killed", "exit1"}
  BY DEF UnfinishedInv
<1>2. ASSUME receipts'[o] = receipts[o],
             \A h \in Hooks : pc[h] \in {"receipt_write", "receipt_blob", "killed", "exit1"} =>
               /\ call'[h] = call[h]
               /\ pc'[h] = pc[h] \/ (pc[h] \in {"receipt_write", "receipt_blob"} /\ pc'[h] = "killed")
      PROVE  Goal
  BY <1>1, <1>2
<1> USE <1>0 DEF TypeOK, Goto, ReceiptRecords, claudeVars, localVars, storeVars,
    sessionVars, recordVars
<1>3. ASSUME NEW h \in Hooks, CreateReceipt(h) PROVE Goal
  <2>1. /\ pc[h] = "receipt" /\ pc' = [pc EXCEPT ![h] = "receipt_write"] /\ UNCHANGED call
        /\ receipts' = [receipts EXCEPT ![call[h].op].file = "partial"]
    BY <1>3 DEF CreateReceipt
  <2>2. CASE call[h].op = o
    BY <2>1, <2>2
  <2>3. CASE call[h].op # o
    BY <1>2, <2>1, <2>3
  <2> QED
    BY <2>2, <2>3
<1>4. ASSUME NEW h \in Hooks, WriteReceipt(h) PROVE Goal
  <2>1. /\ pc[h] = "receipt_write" /\ pc' = [pc EXCEPT ![h] = "receipt_blob"] /\ UNCHANGED call
        /\ receipts' = [receipts EXCEPT ![call[h].op] = ReceiptRecord(h)]
        /\ ReceiptRecord(h).file = "file"
    BY <1>4 DEF WriteReceipt, ReceiptRecord
  <2>2. CASE call[h].op = o
    BY <2>1, <2>2
  <2>3. CASE call[h].op # o
    BY <1>1, <2>1, <2>3
  <2> QED
    BY <2>2, <2>3
<1>5. ASSUME NEW h \in Hooks, PersistReceiptBlob(h) PROVE Goal
  <2>1. /\ pc[h] = "receipt_blob" /\ pc' = [pc EXCEPT ![h] = "exit0"] /\ UNCHANGED call
        /\ receipts' = [receipts EXCEPT ![call[h].op].file = "whole"]
    BY <1>5 DEF PersistReceiptBlob
  <2>2. CASE call[h].op = o
    BY <2>1, <2>2
  <2>3. CASE call[h].op # o
    BY <1>1, <2>1, <2>3
  <2> QED
    BY <2>2, <2>3
<1>6. ASSUME NEW h \in Hooks, OSErrorExits(h) PROVE Goal
  <2>1. /\ pc[h] \in Live /\ pc' = [pc EXCEPT ![h] = "exit1"] /\ UNCHANGED call
        /\ receipts' = IF pc[h] = "receipt_write"
                       THEN [receipts EXCEPT ![call[h].op] = NoReceipt] ELSE receipts
    BY <1>6 DEF OSErrorExits
  <2>2. CASE call[h].op = o /\ pc[h] = "receipt_write"
    BY <2>1, <2>2 DEF NoReceipt
  <2>3. CASE call[h].op # o \/ pc[h] # "receipt_write"
    BY <1>1, <2>1, <2>3 DEF Live, Storing, Reserving
  <2> QED
    BY <2>2, <2>3
<1>7. ASSUME NEW h \in Hooks, HookStep(h) PROVE Goal
  BY <1>2, <1>3, <1>4, <1>5, <1>7 DEF HookStep, LoadSession, RejectInput,
     BindExternalSession, ReserveSequence, Reserving, PersistEvent, PersistEventBlob,
     BeginCapture, PersistManifest, PersistCheckpoint, PersistCheckpointBlob,
     PersistPending, CorrelateResult, CatchError, Raises, PersistAnomaly
<1>8. ASSUME NEW h \in Hooks, HookFailure(h) PROVE Goal
  <2>1. ASSUME KillInWrite(h) PROVE Goal
    <3>1. pc' = [pc EXCEPT ![h] = "killed"] /\ UNCHANGED <<call, receipts>>
      BY <2>1 DEF KillInWrite
    <3>2. pc[h] \notin {"receipt_write", "receipt_blob", "killed", "exit1"}
      BY <2>1 DEF KillInWrite, Reserving
    <3> QED
      BY <1>2, <3>1, <3>2
  <2>2. ASSUME Kill(h) PROVE Goal
    BY <1>2, <2>2 DEF Kill, Live, Storing, Reserving
  <2> QED
    BY <1>6, <1>8, <2>1, <2>2 DEF HookFailure
<1>9. CASE Claude
  BY <1>2, <1>9, ClaudeFrame
<1>10. CASE UNCHANGED vars
  BY <1>2, <1>10 DEF vars
<1> QED
  BY <1>7, <1>8, <1>9, <1>10 DEF Next

\* The invariants of the session carry over to the launcher's run of it.
SessionInv ==
  /\ IInv /\ TestedInv /\ NumberInv /\ OrderInv
  /\ ReturnedInv /\ StoredInv /\ UnfinishedInv

LEMMA SessionInit == Init => SessionInv
<1> SUFFICES ASSUME Init PROVE SessionInv
  OBVIOUS
<1> USE DEF Init, NoCall, NoEvent, NoCheckpoint, NoReceipt, NotRun, Complete
<1>1. NumberInv
  BY DEF NumberInv, Claims, Stamps, Holding
<1>2. OrderInv
  BY DEF OrderInv, Holding
<1>3. TestedInv
  BY DEF TestedInv, PreHooks
<1>4. ReturnedInv /\ StoredInv /\ UnfinishedInv
  BY DEF ReturnedInv, StoredInv, UnfinishedInv, PrePath
<1> QED
  BY <1>1, <1>2, <1>3, <1>4, InitInv DEF SessionInv

LEMMA SessionStep == ~HooksOutliveTimeout /\ SessionInv /\ [Next]_vars => SessionInv'
<1> SUFFICES ASSUME ~HooksOutliveTimeout, SessionInv, [Next]_vars PROVE SessionInv'
  OBVIOUS
<1>1. IInv' /\ TypeOK'
  BY TypeStep, ControlStep, EventStep, CheckpointStep, MarkerStep, WriterStep, ReceiptStep
     DEF SessionInv, IInv
<1> QED
  BY <1>1, TestedStep, NumberStep, OrderStep, ReturnedStep, StoredStep, UnfinishedStep
     DEF SessionInv

\* A process that can move has not ended.
LEMMA MovesWhileLive ==
  ASSUME NEW h \in Hooks, HookStep(h) \/ HookFailure(h)
  PROVE  pc[h] \in Live
<1> USE DEF Live, Storing, Reserving
<1>1. CASE HookStep(h)
  BY <1>1 DEF HookStep, LoadSession, RejectInput, BindExternalSession, ReserveSequence,
     PersistEvent, PersistEventBlob, BeginCapture, PersistManifest, PersistCheckpoint,
     PersistCheckpointBlob, PersistPending, CorrelateResult, CreateReceipt, WriteReceipt,
     PersistReceiptBlob, CatchError, Raises, PersistAnomaly
<1>2. CASE KillInWrite(h)
  BY <1>2 DEF KillInWrite
<1>3. CASE Kill(h) \/ OSErrorExits(h)
  BY <1>3 DEF Kill, OSErrorExits
<1> QED
  BY <1>1, <1>2, <1>3 DEF HookFailure

\* The audit's verdict depends on the session alone.
LEMMA VerdictFrame == UNCHANGED vars => AuditPasses' = AuditPasses
  BY DEF vars, claudeVars, localVars, storeVars, sessionVars, recordVars, AuditPasses,
     EventsValid, CheckpointsValid, ReceiptsValid, CorrelationComplete, Recorded,
     ReceiptBinds, Eligible

\* Both invariants hold of the launcher's run when no hook outlives its timeout.
LEMMA AuditInvariance ==
  ASSUME ~HooksOutliveTimeout PROVE AuditSpec => [](SessionInv /\ AuditInv)
<1>1. AuditInit => SessionInv /\ AuditInv
  BY SessionInit DEF AuditInit, AuditInv
<1>2. [AuditNext]_auditVars => [Next]_vars
  BY DEF AuditNext, auditVars, Next, ClaudeExits, AuditSession
<1>3. ASSUME AuditInv, [AuditNext]_auditVars PROVE AuditInv'
  <2>1. CASE ClaudeExits
    BY <1>3, <2>1 DEF ClaudeExits, AuditInv, vars
  <2>2. CASE AuditSession
    BY <1>3, <2>2, VerdictFrame DEF AuditSession, AuditInv, vars
  <2>3. CASE launcher = "claude" /\ UNCHANGED launcher
    BY <1>3, <2>3 DEF AuditInv
  <2>4. CASE launcher # "claude" /\ \E h \in Hooks : HookStep(h) \/ HookFailure(h)
    BY <1>3, <2>4, MovesWhileLive DEF AuditInv
  <2>5. CASE UNCHANGED auditVars
    BY <1>3, <2>5, VerdictFrame DEF auditVars, AuditInv, vars
  <2> QED
    BY <1>3, <2>1, <2>2, <2>3, <2>4, <2>5 DEF AuditNext
<1> QED
  BY <1>1, <1>2, <1>3, SessionStep, PTL DEF AuditSpec

\* A PASS of the launcher means that every recorded receipt-eligible result has
\* its receipt, with the verifier's verdict and the manifest of the worktree it
\* ran on (audit_session), if no hook process outlives its timeout.
THEOREM PassTrustworthy ==
  ASSUME ~HooksOutliveTimeout PROVE AuditSpec => []PassIsTrustworthy
<1>1. ASSUME SessionInv, AuditInv PROVE PassIsTrustworthy
  <2> SUFFICES ASSUME launcher = "PASS", NEW o \in Ops, Recorded(o, "post") # {}, Eligible(o)
               PROVE  /\ receipts[o].file = "whole"
                      /\ receipts[o].verdict = (IF run[o].result = "ok" THEN "pass" ELSE "fail")
                      /\ run[o].quiet => receipts[o].manifest = ManifestOf[run[o].version]
    BY DEF PassIsTrustworthy
  <2>1. receipts[o].file = "whole"
    BY <1>1 DEF AuditInv, AuditPasses, CorrelationComplete
  <2>2. /\ receipts[o].verdict = TrustedTerminalResult(run[o].result)
        /\ receipts[o].verdict # "none" /\ run[o].result \in Results \cup {"none"}
        /\ run[o].phase = "finished"
    BY <1>1, <2>1 DEF SessionInv, IInv, ReceiptInv, ControlInv, Complete, Eligible, TypeOK, Runs
  <2>3. receipts[o].verdict = (IF run[o].result = "ok" THEN "pass" ELSE "fail")
    BY <2>2 DEF TrustedTerminalResult, Termination, Results
  <2>4. /\ pending[o].owner \in PreHooks(o) /\ Complete(checkpoints[pending[o].owner])
        /\ checkpoints[pending[o].owner].manifest = receipts[o].manifest
    BY <1>1, <2>1 DEF SessionInv, IInv, ReceiptInv, MarkerInv, PreHooks, Complete
  <2> QED
    BY <1>1, <2>1, <2>2, <2>3, <2>4 DEF SessionInv, TestedInv
<1> QED
  BY <1>1, AuditInvariance, PTL

\* A PASS of the launcher hides no torn record, no checkpoint without its
\* manifest and no identified result without its pre-state (audit_session).
THEOREM PassHidesNoEvidence ==
  ASSUME ~HooksOutliveTimeout PROVE AuditSpec => []PassHidesNothing
<1>1. ASSUME SessionInv, AuditInv PROVE PassHidesNothing
  <2> SUFFICES ASSUME launcher = "PASS" PROVE PassHidesNothing
    BY DEF PassHidesNothing
  <2>1. EventsValid /\ CheckpointsValid /\ ReceiptsValid /\ CorrelationComplete
    BY <1>1 DEF AuditInv, AuditPasses
  <2>2. ASSUME NEW o \in Ops, OpScope[o] # "unidentified",
               NEW h \in PostHooks(o), events[h].file = "whole"
        PROVE  \E g \in PreHooks(o) : checkpoints[g].file = "whole"
    <3>1. Recorded(o, "post") # {}
      BY <2>2 DEF Recorded, PostHooks
    <3>2. pending[o].file = "whole"
      BY <2>1, <3>1 DEF CorrelationComplete
    <3> QED
      BY <1>1, <3>2 DEF SessionInv, IInv, MarkerInv, PreHooks
  <2>3. \A h \in Hooks : events[h].file # "partial" /\ checkpoints[h].file # "partial"
    BY <2>1 DEF EventsValid, CheckpointsValid
  <2>4. \A o \in Ops : receipts[o].file # "partial"
    BY <2>1 DEF ReceiptsValid
  <2>5. \A h \in Hooks : checkpoints[h].file = "whole" =>
          manifests[checkpoints[h].manifest] = "whole"
    BY <2>1 DEF CheckpointsValid
  <2> QED
    BY <2>2, <2>3, <2>4, <2>5 DEF PassHidesNothing
<1> QED
  BY <1>1, AuditInvariance, PTL

\* In a clean session every process did all its work.
LEMMA CleanWork ==
  ASSUME SessionInv, CleanSession
  PROVE  /\ \A h \in Hooks :
              \/ pc[h] = "idle" /\ events[h].file = "absent" /\ checkpoints[h].file = "absent"
              \/ pc[h] = "exit0" /\ events[h].file = "whole"
                                 /\ checkpoints[h].file \in {"absent", "whole"}
         /\ \A h \in Hooks : call[h].kind = "pre" =>
              /\ events[h].file = "whole" /\ OpScope[call[h].op] = "root"
              /\ pending[call[h].op].file = "whole"
         /\ \A h \in Hooks : call[h].kind = "post" =>
              /\ events[h].file = "whole"
              /\ Eligible(call[h].op) => receipts[call[h].op].file = "whole"
         /\ \A o \in Ops : receipts[o].file \in {"absent", "whole"}
         /\ binding.file = "whole"
         /\ \A h \in Hooks : events[h].file = "whole" => call[h].ext = binding.ext
<1>1. \A h \in Hooks : pc[h] \in {"idle", "exit0"} /\ h \notin anomalies
  BY DEF CleanSession
<1>2. \A h \in Hooks : call[h].kind \in {"pre", "post"} => pc[h] = "exit0" /\ call[h].op \in Ops
  BY <1>1 DEF SessionInv, IInv, TypeOK, ControlInv, Calls, NoCall
<1>3. \A h \in Hooks : pc[h] = "idle" => events[h].file = "absent" /\ checkpoints[h].file = "absent"
  BY DEF SessionInv, IInv, EventInv, CheckpointInv
<1>4. \A h \in Hooks : pc[h] = "exit0" => events[h].file = "whole"
  BY <1>1 DEF SessionInv, ReturnedInv
<1>5. \A h \in Hooks : call[h].kind = "pre" =>
        /\ OpScope[call[h].op] = "root"
        /\ pending[call[h].op].file = "whole" /\ pending[call[h].op].owner = h
  BY <1>1, <1>2 DEF SessionInv, ReturnedInv
<1>6. \A h \in Hooks : call[h].kind = "pre" => checkpoints[h].file = "whole"
  BY <1>2, <1>5 DEF SessionInv, IInv, MarkerInv
<1>7. \A h \in Hooks : checkpoints[h].file \in {"absent", "whole"}
  BY <1>6 DEF SessionInv, StoredInv
<1>8. \A o \in Ops : receipts[o].file \in {"absent", "whole"}
  <2>1. \A o \in Ops : receipts[o].file \notin {"partial", "file"}
    BY <1>1 DEF SessionInv, UnfinishedInv
  <2> QED
    BY <2>1 DEF SessionInv, IInv, TypeOK, ReceiptRecords
<1>9. \A h \in Hooks : call[h].kind = "post" /\ Eligible(call[h].op) =>
        receipts[call[h].op].file = "whole"
  BY <1>1, <1>2, <1>8 DEF SessionInv, ReturnedInv, Complete
<1>10. \A h \in Hooks : events[h].file = "whole" =>
         binding.file = "whole" /\ binding.ext = call[h].ext
  BY DEF SessionInv, IInv, EventInv, Complete
<1>11. \E h \in Hooks : pc[h] = "exit0"
  BY DEF CleanSession
<1>12. binding.file = "whole"
  BY <1>4, <1>10, <1>11
<1> QED
  BY <1>1, <1>2, <1>3, <1>4, <1>5, <1>7, <1>8, <1>9, <1>10, <1>12

\* A set of processes is finite, and part of a singleton is at most one.
LEMMA AtMostOne ==
  ASSUME NEW S, S \subseteq Hooks, NEW T, T \subseteq S,
         S = {} \/ Cardinality(S) = 1
  PROVE  Cardinality(T) <= 1
<1>1. IsFiniteSet(S)
  BY FiniteHooks, FS_Subset
<1>2. IsFiniteSet(T) /\ Cardinality(T) <= Cardinality(S)
  BY <1>1, FS_Subset
<1> QED
  BY <1>2, FS_EmptySet

\* The launcher never reports BLOCK for a session in which nothing went wrong:
\* audit_session accepts everything that handle_claude_hook leaves behind.
THEOREM CleanSessionsPass ==
  ASSUME ~HooksOutliveTimeout PROVE AuditSpec => []CleanSessionPasses
<1>1. ASSUME SessionInv, CleanSession PROVE AuditPasses
  <2> USE <1>1
  <2>a. /\ \A h \in Hooks :
             \/ pc[h] = "idle" /\ events[h].file = "absent" /\ checkpoints[h].file = "absent"
             \/ pc[h] = "exit0" /\ events[h].file = "whole"
                                /\ checkpoints[h].file \in {"absent", "whole"}
        /\ \A h \in Hooks : call[h].kind = "pre" =>
             /\ events[h].file = "whole" /\ OpScope[call[h].op] = "root"
             /\ pending[call[h].op].file = "whole"
        /\ \A h \in Hooks : call[h].kind = "post" =>
             /\ events[h].file = "whole"
             /\ Eligible(call[h].op) => receipts[call[h].op].file = "whole"
        /\ \A o \in Ops : receipts[o].file \in {"absent", "whole"}
        /\ binding.file = "whole"
        /\ \A h \in Hooks : events[h].file = "whole" => call[h].ext = binding.ext
    BY CleanWork
  <2>b. \A o \in Ops :
          \/ PreHooks(o) = {} /\ PostHooks(o) = {}
          \/ Cardinality(PreHooks(o)) = 1 /\ Cardinality(PostHooks(o)) = 1
    <3> SUFFICES ASSUME NEW o \in Ops, run[o].phase = "idle"
                 PROVE  PreHooks(o) = {} /\ PostHooks(o) = {}
      BY DEF CleanSession
    <3>1. PreHooks(o) = {}
      BY DEF SessionInv, TestedInv
    <3>2. PostHooks(o) = {}
      BY DEF SessionInv, IInv, ControlInv, PostHooks
    <3> QED
      BY <3>1, <3>2
  <2>c. \A o \in Ops : (PreHooks(o) = {}) <=> (PostHooks(o) = {})
    <3>1. Cardinality({}) # 1
      BY FS_EmptySet
    <3> QED
      BY <2>b, <3>1
  <2>d. ASSUME NEW o \in Ops
        PROVE  /\ Recorded(o, "pre") = PreHooks(o)
               /\ Recorded(o, "post") = PostHooks(o)
    <3>1. Recorded(o, "pre") = PreHooks(o)
      BY <2>a DEF Recorded, PreHooks
    <3>2. CASE PreHooks(o) = {}
      BY <2>c, <3>1, <3>2 DEF Recorded, PostHooks
    <3>3. CASE PreHooks(o) # {}
      <4>1. OpScope[o] = "root"
        BY <2>a, <3>3 DEF PreHooks
      <4> QED
        BY <2>a, <3>1, <4>1 DEF Recorded, PostHooks
    <3> QED
      BY <3>2, <3>3
  <2>1. EventsValid
    <3>1. ASSUME NEW o \in Ops, NEW kind \in {"pre", "post"}
          PROVE  Cardinality(Recorded(o, kind)) <= 1
      <4>1. PreHooks(o) \subseteq Hooks /\ PostHooks(o) \subseteq Hooks
        BY DEF PreHooks, PostHooks
      <4>2. CASE kind = "pre"
        BY <2>b, <2>d, <4>1, <4>2, AtMostOne
      <4>3. CASE kind = "post"
        BY <2>b, <2>d, <4>1, <4>3, AtMostOne
      <4> QED
        BY <4>2, <4>3
    <3> QED
      BY <2>a, <3>1 DEF EventsValid
  <2>2. CheckpointsValid
    BY <2>a DEF CheckpointsValid, SessionInv, StoredInv, Complete
  <2>3. ReceiptsValid
    <3> SUFFICES ASSUME NEW o \in Ops, receipts[o].file = "whole"
                 PROVE  \E p \in Recorded(o, "pre"), q \in Recorded(o, "post") :
                          ReceiptBinds(o, p, q)
      BY <2>a DEF ReceiptsValid
    <3> DEFINE p == pending[o].owner
               q == receipts[o].post
    <3>1. /\ pending[o].file = "whole" /\ receipts[o].owner = p
          /\ receipts[o].manifest = pending[o].manifest
          /\ q \in PostHooks(o)
          /\ receipts[o].verdict = TrustedTerminalResult(run[o].result) /\ Eligible(o)
      BY DEF SessionInv, IInv, ReceiptInv, Complete, PostHooks
    <3>2. /\ p \in PreHooks(o) /\ checkpoints[p].file = "whole"
          /\ checkpoints[p].manifest = pending[o].manifest
          /\ pending[o].ext = call[p].ext /\ pending[o].preSeq = events[p].seq
      BY <3>1 DEF SessionInv, IInv, MarkerInv, PreHooks
    <3>3. pending[o].ext = binding.ext
      BY <2>a, <3>2 DEF PreHooks
    <3>4. receipts[o].seq > events[q].seq
      <4>1. events[q].seq < receipts[o].seq
        BY DEF SessionInv, OrderInv, Complete
      <4>2. q \in Hooks /\ events[q].seq \in Nat /\ receipts[o].seq \in Nat
        BY <3>1 DEF PostHooks, SessionInv, IInv, TypeOK, EventRecords, ReceiptRecords
      <4> QED
        BY <4>1, <4>2
    <3>5. ReceiptBinds(o, p, q)
      BY <3>1, <3>2, <3>3, <3>4 DEF ReceiptBinds
    <3> QED
      BY <2>d, <3>1, <3>2, <3>5
  <2>4. CorrelationComplete
    <3> SUFFICES ASSUME NEW o \in Ops
                 PROVE  /\ Recorded(o, "pre") # {} => pending[o].file = "whole"
                        /\ (Recorded(o, "pre") = {}) = (Recorded(o, "post") = {})
                        /\ (Recorded(o, "post") # {} /\ Eligible(o)) = (receipts[o].file = "whole")
      BY DEF CorrelationComplete
    <3>1. PreHooks(o) # {} => pending[o].file = "whole"
      BY <2>a DEF PreHooks
    <3>2. (PostHooks(o) # {} /\ Eligible(o)) => receipts[o].file = "whole"
      BY <2>a DEF PostHooks
    <3>3. receipts[o].file = "whole" => (PostHooks(o) # {} /\ Eligible(o))
      BY DEF SessionInv, IInv, ReceiptInv, Complete, PostHooks
    <3>4. Eligible(o) \in BOOLEAN
      BY DEF Eligible
    <3> QED
      BY <2>c, <2>d, <3>1, <3>2, <3>3, <3>4
  <2> QED
    BY <2>a, <2>1, <2>2, <2>3, <2>4 DEF AuditPasses
<1>2. SessionInv /\ AuditInv => CleanSessionPasses
  BY <1>1 DEF AuditInv, CleanSessionPasses
<1> QED
  BY <1>2, AuditInvariance, PTL
=============================================================================
