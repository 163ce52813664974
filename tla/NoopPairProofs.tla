--------------------------- MODULE NoopPairProofs ---------------------------
(***************************************************************************)
(* Proofs about NoopPair and PairAudit, for any number of pair and         *)
(* evaluate-add commands, kills and edits.                                 *)
(***************************************************************************)
EXTENDS PairAudit, TLAPS

FileRefPcs == {"check_ref", "write_ref"}
FileResultPcs == {"check_result", "write_result"}
FilePcs == {"check_manifest", "write_manifest"} \cup FileRefPcs \cup FileResultPcs
EvalPcs == {"execute"} \cup FilePcs
ClosingPcs == {"check_pair", "write_pair", "done"}
EvaluatingPcs == {"evaluate_A", "evaluate_B"} \cup EvalPcs
SealedPcs == EvaluatingPcs \cup ClosingPcs
VerifiedPcs == {"arm_1", "seal_1", "arm_2", "seal_2"} \cup SealedPcs
OwnerPcs == {"copy_B", "verify"} \cup VerifiedPcs
PreparePcs == {"check_producer", "write_producer", "check_plan", "write_plan", "copy_A"}

Plans == [order : Orders, source : Nat, spec : Nat]
Evs == [arm : Arms, started : Nat, spec : Nat]
FileStates == {"absent", "torn", "whole"}
Runs == [state : {"none", "open", "stopped", "sealed"}, initial : Nat, stop : Nat, count : Nat]

Locations == PreparePcs \cup OwnerPcs \cup Ended

PairTypeOK ==
  /\ pc \in [Procs -> Locations]
  /\ plan \in [Procs -> Plans] /\ ev \in [Procs -> Evs]
  /\ pairDir \in [PairFiles -> [state : FileStates, body : Plans \cup {<<>>}]]
  /\ evals \in [Arms -> [EvalFiles -> [state : FileStates, body : Evs \cup {<<>>}]]]
  /\ workspace \in [Arms -> Nat] /\ runs \in [Arms -> Runs]
  /\ source \in Nat \ {0} /\ spec \in Nat /\ faults \in Nat /\ clock \in Nat
  /\ \A p \in EvalProcs : pc[p] \in EvalPcs \cup Ended

\* copytree decides who owns the pair: one process at most is past the first copy, and
\* nothing was run before its copies were made.
OwnerInv ==
  /\ \A p, q \in PairProcs : pc[p] \in OwnerPcs /\ pc[q] \in OwnerPcs => p = q
  /\ \A p \in PairProcs : pc[p] \in OwnerPcs =>
       workspace["A"] # 0 /\ (workspace["B"] = 0 <=> pc[p] = "copy_B")
  /\ workspace["B"] # 0 => workspace["A"] # 0
  /\ workspace["B"] = 0 \/ (\E p \in PairProcs : pc[p] = "verify") => \A a \in Arms : runs[a] = NoRun

Stopped(a) == runs[a].state \in {"stopped", "sealed"}

\* An arm is run once, from its workspace.
Once(a) ==
  /\ runs[a].count <= 1
  /\ Stopped(a) => runs[a].count = 1
  /\ runs[a].count = 1 => \A b \in Arms : runs[b].initial = workspace[a]

\* How far the owner is tells what the arms have done.
Progress(p) ==
  LET first == runs[plan[p].order[1]]
      second == runs[plan[p].order[2]]
  IN /\ pc[p] \in VerifiedPcs => \A a \in Arms :
          runs[a].initial = plan[p].source /\ workspace[a] = plan[p].source
     /\ pc[p] = "arm_1" => first.count = 0
     /\ pc[p] = "seal_1" => first.state = "stopped"
     /\ pc[p] \in {"arm_1", "seal_1", "arm_2"} => second.count = 0
     /\ pc[p] \in {"arm_2", "seal_2"} => first.state = "sealed"
     /\ pc[p] = "seal_2" => second.state = "stopped"
     /\ pc[p] \in SealedPcs => \A a \in Arms : runs[a].state = "sealed"
ArmInv == (\A a \in Arms : Once(a)) /\ (\A p \in PairProcs : Progress(p))

\* No two timestamps are equal, and no evaluation has the timestamp of a run_stop.
Dated(t) == t < clock /\ \A b \in Arms : Stopped(b) => t # runs[b].stop
TimeInv ==
  /\ \A a \in Arms : Stopped(a) => runs[a].stop < clock
  /\ \A p \in PairProcs : pc[p] \in {"seal_2"} \cup SealedPcs =>
       runs[plan[p].order[1]].stop < runs[plan[p].order[2]].stop
  /\ \A p \in Procs : pc[p] \in EvalPcs => Dated(ev[p].started)
  /\ \A a \in Arms, f \in EvalFiles :
       evals[a][f].state = "whole" => evals[a][f].body \in Evs /\ Dated(evals[a][f].body.started)

Present(a) == \A f \in EvalFiles : evals[a][f].state # "absent"

\* A process that is past a file has left it on disk ...
Behind(p) ==
  /\ pc[p] \in FileRefPcs \cup FileResultPcs => evals[ev[p].arm]["manifest"].state # "absent"
  /\ pc[p] \in FileResultPcs => evals[ev[p].arm]["ref"].state # "absent"
PairBehind(p) ==
  /\ pc[p] = "evaluate_B" => Present("A")
  /\ pc[p] \in EvalPcs /\ ev[p].arm = "B" => Present("A")
  /\ pc[p] \in ClosingPcs => Present("A") /\ Present("B")

\* ... and pair.json, written by the owner, ends the pair.
PairEnded ==
  /\ workspace["B"] # 0
  /\ \A p \in PairProcs : pc[p] \in OwnerPcs => pc[p] \in ClosingPcs
  /\ \A a \in Arms : runs[a].state = "sealed" /\ Present(a)
PairByOwner == \E p \in PairProcs : pc[p] = "done" /\ plan[p] = pairDir["pair"].body

FileInv ==
  /\ \A p \in Procs : Behind(p)
  /\ \A p \in PairProcs : PairBehind(p)
  /\ pairDir["pair"].state # "absent" => PairEnded
  /\ pairDir["pair"].state = "whole" => PairByOwner

PairInv == PairTypeOK /\ OwnerInv /\ ArmInv /\ TimeInv /\ FileInv

-----------------------------------------------------------------------------

Alone(p) == faults = 0 /\ \A q \in Procs \ {p} : pc[q] = "off"
Evaluation(a, e) == e.arm = a /\ e.spec = spec /\ \A b \in Arms : e.started >= runs[b].stop
Evaluated(a) ==
  /\ \A f \in EvalFiles : evals[a][f] = evals[a]["result"]
  /\ evals[a]["result"].state = "whole" /\ Evaluation(a, evals[a]["result"].body)

\* The files of a pair whose command nobody disturbs.
Undisturbed(p) ==
  /\ pc[p] \in PreparePcs \cup OwnerPcs => plan[p].spec = spec
  /\ pc[p] \in OwnerPcs \cup {"check_plan", "write_plan", "copy_A"} => pairDir["producer"].state = "whole"
  /\ pc[p] \in OwnerPcs \cup {"copy_A"} => pairDir["plan"] = Whole(plan[p])
  /\ pc[p] = "done" => pairDir["pair"] = Whole(plan[p])
  /\ pc[p] \in EvalPcs => \A b \in Arms : ev[p].started >= runs[b].stop
  /\ pc[p] \in FilePcs => ev[p].spec = spec
  /\ pc[p] \in FileRefPcs \cup FileResultPcs => evals[ev[p].arm]["manifest"] = Whole(ev[p])
  /\ pc[p] \in FileResultPcs => evals[ev[p].arm]["ref"] = Whole(ev[p])
  /\ pc[p] = "evaluate_B" => Evaluated("A")
  /\ pc[p] \in EvalPcs /\ ev[p].arm = "B" => Evaluated("A")
  /\ pc[p] \in ClosingPcs => Evaluated("A") /\ Evaluated("B")
AloneInv == \A p \in PairProcs : Alone(p) => Undisturbed(p)

-----------------------------------------------------------------------------
(* Facts about the operators. *)

LEMMA OrderFacts ==
  ASSUME NEW o \in Orders
  PROVE  o[1] \in Arms /\ o[2] \in Arms /\ o[1] # o[2] /\ Arms = {o[1], o[2]}
BY DEF Orders, Arms

LEMMA AfterFileIs ==
  ASSUME NEW p \in Procs
  PROVE  /\ AfterFile(p, "producer") = "check_plan"
         /\ AfterFile(p, "plan") = "copy_A"
         /\ AfterFile(p, "pair") = "done"
         /\ AfterFile(p, "manifest") = "check_ref"
         /\ AfterFile(p, "ref") = "check_result"
         /\ p \in PairProcs /\ ev[p].arm = "A" => AfterFile(p, "result") = "evaluate_B"
         /\ p \in PairProcs /\ ev[p].arm # "A" => AfterFile(p, "result") = "check_pair"
         /\ p \notin PairProcs => AfterFile(p, "result") = "done"
BY DEF AfterFile

\* A step of p that is not the start of a copy or of an arm.
Paperwork(p, x) ==
  /\ pc[p] # "done" /\ pc' = [pc EXCEPT ![p] = x]
  /\ \A q \in Procs \ {p} : plan'[q] = plan[q] /\ ev'[q] = ev[q]
  /\ p \in PairProcs /\ x \in OwnerPcs =>
       pc[p] \in SealedPcs /\ x \in SealedPcs /\ plan'[p] = plan[p]
  /\ UNCHANGED <<workspace, runs>>

LEMMA LeaveIsPaperwork ==
  ASSUME PairTypeOK, NEW p \in Procs, NEW how \in {"raised", "dead"}, pc[p] # "done",
         Leave(p, how), UNCHANGED <<workspace, runs>>
  PROVE  Paperwork(p, how)
BY DEF PairTypeOK, Leave, Paperwork, OwnerPcs, VerifiedPcs, SealedPcs, EvaluatingPcs, EvalPcs,
       FilePcs, FileRefPcs, FileResultPcs, ClosingPcs

\* No file step of a pair command enters the copying, verifying or running part.
LEMMA FileMoves ==
  ASSUME NEW p \in Procs, NEW f \in PairFiles \cup EvalFiles
  PROVE  /\ CheckAt[f] # "done" /\ WriteAt[f] # "done"
         /\ WriteAt[f] \in OwnerPcs => WriteAt[f] \in SealedPcs /\ CheckAt[f] \in SealedPcs
         /\ p \in PairProcs /\ AfterFile(p, f) \in OwnerPcs =>
              AfterFile(p, f) \in SealedPcs /\ CheckAt[f] \in SealedPcs /\ WriteAt[f] \in SealedPcs
<1> USE AfterFileIs DEF CheckAt, WriteAt, OwnerPcs, VerifiedPcs, SealedPcs, EvaluatingPcs, EvalPcs,
        FilePcs, FileRefPcs, FileResultPcs, ClosingPcs
<1>1. CASE f = "producer" BY <1>1
<1>2. CASE f = "plan" BY <1>2
<1>3. CASE f = "pair" BY <1>3
<1>4. CASE f = "manifest" BY <1>4
<1>5. CASE f = "ref" BY <1>5
<1>6. CASE f = "result" BY <1>6
<1> QED
  BY <1>1, <1>2, <1>3, <1>4, <1>5, <1>6 DEF PairFiles, EvalFiles

LEMMA FileLocations ==
  ASSUME NEW p \in Procs, NEW f \in PairFiles \cup EvalFiles
  PROVE  /\ WriteAt[f] \in Locations /\ AfterFile(p, f) \in Locations
         /\ f \in PairFiles => /\ CheckAt[f] \notin EvalPcs \cup Ended
                              /\ WriteAt[f] \notin EvalPcs \cup Ended
                              /\ AfterFile(p, f) \notin EvalPcs
         /\ (CheckAt[f] \in ClosingPcs \/ WriteAt[f] \in ClosingPcs) => f = "pair"
         /\ f \in EvalFiles => CheckAt[f] \in FilePcs /\ WriteAt[f] \in FilePcs
         /\ f \in EvalFiles /\ p \notin PairProcs => AfterFile(p, f) \in EvalPcs \cup Ended
<1> USE AfterFileIs DEF CheckAt, WriteAt, Locations, PreparePcs, OwnerPcs, VerifiedPcs, SealedPcs,
        EvaluatingPcs, EvalPcs, FilePcs, FileRefPcs, FileResultPcs, ClosingPcs, Ended,
        PairFiles, EvalFiles
<1>1. CASE f = "producer" BY <1>1
<1>2. CASE f = "plan" BY <1>2
<1>3. CASE f = "pair" BY <1>3
<1>4. CASE f = "manifest" BY <1>4
<1>5. CASE f = "ref" BY <1>5
<1>6. CASE f = "result" BY <1>6
<1> QED
  BY <1>1, <1>2, <1>3, <1>4, <1>5, <1>6

\* What a write changes, and that it leaves no absent file.
LEMMA PutIs ==
  ASSUME PairTypeOK, NEW p \in Procs, NEW f \in PairFiles \cup EvalFiles, NEW file, Put(p, f, file)
  PROVE  /\ f \in PairFiles => evals' = evals /\ pairDir' = [pairDir EXCEPT ![f] = file]
         /\ f \in EvalFiles =>
              /\ pairDir' = pairDir
              /\ evals'[ev[p].arm][f] = file
              /\ \A a \in Arms, g \in EvalFiles :
                   <<a, g>> # <<ev[p].arm, f>> => evals'[a][g] = evals[a][g]
<1>1. f \in EvalFiles => f \notin PairFiles
  BY DEF PairFiles, EvalFiles
<1>2. ev[p].arm \in Arms
  BY DEF PairTypeOK, Evs
<1> QED
  BY <1>1, <1>2 DEF Put, PairTypeOK

LEMMA CheckIsPaperwork ==
  ASSUME PairTypeOK, NEW p \in Procs, NEW f \in PairFiles \cup EvalFiles, CheckExisting(p, f)
  PROVE  \E x \in {WriteAt[f], AfterFile(p, f), "raised"} : Paperwork(p, x)
<1>1. pc[p] = CheckAt[f] /\ pc[p] # "done" /\ UNCHANGED <<workspace, runs>>
  BY FileMoves DEF CheckExisting, storeVars
<1>2. ASSUME NEW x \in {WriteAt[f], AfterFile(p, f)}, Goto(p, x) PROVE Paperwork(p, x)
  BY <1>1, <1>2, FileMoves DEF Goto, Paperwork
<1> QED
  BY <1>1, <1>2, LeaveIsPaperwork DEF CheckExisting

LEMMA WriteIsPaperwork ==
  ASSUME PairTypeOK, NEW p \in Procs, NEW f \in PairFiles \cup EvalFiles, WriteFile(p, f)
  PROVE  \E x \in {AfterFile(p, f), "dead"} : Paperwork(p, x)
<1>1. pc[p] = WriteAt[f] /\ pc[p] # "done" /\ UNCHANGED <<workspace, runs>>
  BY FileMoves DEF WriteFile
<1>2. ASSUME Goto(p, AfterFile(p, f)) PROVE Paperwork(p, AfterFile(p, f))
  BY <1>1, <1>2, FileMoves DEF Goto, Paperwork
<1> QED
  BY <1>1, <1>2, LeaveIsPaperwork DEF WriteFile


\* Every step of a process is paperwork, or one of the steps that own the pair.
LEMMA OtherPaperwork ==
  ASSUME PairTypeOK, NEW p \in Procs,
         Prepare(p) \/ SealRaises(p) \/ Evaluate(p) \/ Execute(p) \/ Kill(p)
  PROVE  \E x : Paperwork(p, x)
<1> USE DEF PairTypeOK, Procs
<1>1. CASE Prepare(p)
  <2>1. ASSUME pc' = [pc EXCEPT ![p] = "check_producer"], UNCHANGED ev,
               NEW y, plan' = [plan EXCEPT ![p] = y]
        PROVE  Paperwork(p, "check_producer")
    BY <1>1, <2>1 DEF Prepare, Paperwork, storeVars, OwnerPcs, VerifiedPcs, SealedPcs, EvaluatingPcs,
       EvalPcs, FilePcs, FileRefPcs, FileResultPcs, ClosingPcs
  <2> QED
    BY <1>1, <2>1, LeaveIsPaperwork DEF Prepare, storeVars
<1>2. CASE Evaluate(p)
  <2>1. ASSUME pc' = [pc EXCEPT ![p] = "execute"], UNCHANGED plan,
               NEW y, ev' = [ev EXCEPT ![p] = y]
        PROVE  Paperwork(p, "execute")
    BY <1>2, <2>1, PairAssumption DEF Evaluate, Paperwork, storeVars, SealedPcs, EvaluatingPcs, EvalPcs
  <2> QED
    BY <1>2, <2>1, LeaveIsPaperwork DEF Evaluate, storeVars
<1>3. CASE Execute(p)
  <2>1. ASSUME pc' = [pc EXCEPT ![p] = "check_manifest"], UNCHANGED plan,
               ev' = [ev EXCEPT ![p].spec = spec]
        PROVE  Paperwork(p, "check_manifest")
    BY <1>3, <2>1 DEF Execute, Paperwork, storeVars, SealedPcs, EvaluatingPcs, EvalPcs, FilePcs
  <2> QED
    BY <1>3, <2>1, LeaveIsPaperwork DEF Execute, storeVars
<1>4. CASE Kill(p)
  BY <1>4, LeaveIsPaperwork DEF Kill, storeVars, Ended
<1>5. CASE SealRaises(p)
  BY <1>5, LeaveIsPaperwork DEF SealRaises, storeVars
<1> QED
  BY <1>1, <1>2, <1>3, <1>4, <1>5

LEMMA PaperworkKeepsOwner ==
  ASSUME PairTypeOK, OwnerInv, NEW p \in Procs, NEW x, Paperwork(p, x)
  PROVE  OwnerInv'
<1> USE DEF PairTypeOK, Paperwork
<1>1. pc'[p] = x /\ \A q \in Procs : q # p => pc'[q] = pc[q]
  OBVIOUS
<1>2. \A q \in PairProcs : pc'[q] \in OwnerPcs =>
         pc[q] \in OwnerPcs /\ (pc'[q] = "copy_B" <=> pc[q] = "copy_B")
  BY <1>1 DEF Procs, OwnerPcs, VerifiedPcs, SealedPcs, EvaluatingPcs, EvalPcs, FilePcs,
     FileRefPcs, FileResultPcs, ClosingPcs
<1>3. \A q \in PairProcs : pc'[q] = "verify" => pc[q] = "verify"
  BY <1>1 DEF Procs, OwnerPcs, SealedPcs, EvaluatingPcs, EvalPcs, FilePcs,
     FileRefPcs, FileResultPcs, ClosingPcs
<1> QED
  BY <1>2, <1>3 DEF OwnerInv

LEMMA PaperworkKeepsArms ==
  ASSUME PairTypeOK, ArmInv, NEW p \in Procs, NEW x, Paperwork(p, x)
  PROVE  ArmInv'
<1>1. pc'[p] = x /\ \A q \in Procs : q # p => pc'[q] = pc[q]
  BY DEF PairTypeOK, Paperwork
<1>2. \A q \in PairProcs : pc'[q] \in VerifiedPcs =>
         plan'[q] = plan[q] /\ (pc'[q] = pc[q] \/ (pc[q] \in SealedPcs /\ pc'[q] \in SealedPcs))
  <2>1. \A q \in Procs : q # p => plan'[q] = plan[q]
    BY DEF Paperwork
  <2>2. VerifiedPcs \subseteq OwnerPcs /\ PairProcs \subseteq Procs
    BY DEF OwnerPcs, Procs
  <2>3. p \in PairProcs /\ x \in OwnerPcs => pc[p] \in SealedPcs /\ x \in SealedPcs /\ plan'[p] = plan[p]
    BY DEF Paperwork
  <2> QED
    BY <1>1, <2>1, <2>2, <2>3
<1>3. SealedPcs \subseteq VerifiedPcs
      /\ {"arm_1", "seal_1", "arm_2", "seal_2"} \subseteq VerifiedPcs \ SealedPcs
  BY DEF VerifiedPcs, SealedPcs, EvaluatingPcs, EvalPcs, FilePcs, FileRefPcs, FileResultPcs, ClosingPcs
<1>4. UNCHANGED <<workspace, runs>>
  BY DEF Paperwork
<1>5. ASSUME NEW a \in Arms PROVE Once(a)'
  BY <1>4 DEF ArmInv, Once, Stopped
<1>6. ASSUME NEW q \in PairProcs PROVE Progress(q)'
  BY <1>2, <1>3, <1>4 DEF ArmInv, Progress
<1> QED
  BY <1>5, <1>6 DEF ArmInv


LEMMA PaperworkKeepsTime ==
  ASSUME PairTypeOK, TimeInv, NEW p \in Procs, NEW x, Paperwork(p, x),
         clock' \in Nat, clock <= clock',
         x \in EvalPcs => Dated(ev[p].started)',
         \A a \in Arms, f \in EvalFiles : evals'[a][f].state = "whole" =>
           \/ evals'[a][f] = evals[a][f]
           \/ pc[p] \in EvalPcs /\ evals'[a][f].body = ev[p]
  PROVE  TimeInv'
<1>1. pc'[p] = x /\ \A q \in Procs : q # p => pc'[q] = pc[q]
  BY DEF PairTypeOK, Paperwork
<1>2. runs' = runs /\ \A q \in Procs : q # p => plan'[q] = plan[q] /\ ev'[q] = ev[q]
  BY DEF Paperwork
<1>3. \A t \in Nat : Dated(t) => Dated(t)'
  BY <1>2 DEF Dated, Stopped, PairTypeOK
<1>4. (\A a \in Arms : Stopped(a) => runs[a].stop < clock)'
  BY <1>2 DEF TimeInv, Stopped, PairTypeOK, Runs
<1>5. (\A q \in PairProcs : pc[q] \in {"seal_2"} \cup SealedPcs =>
         runs[plan[q].order[1]].stop < runs[plan[q].order[2]].stop)'
  <2>1. \A q \in PairProcs : pc'[q] \in {"seal_2"} \cup SealedPcs =>
           pc[q] \in {"seal_2"} \cup SealedPcs /\ plan'[q] = plan[q]
    BY <1>1, <1>2 DEF Paperwork, Procs, OwnerPcs, VerifiedPcs
  <2> QED
    BY <1>2, <2>1 DEF TimeInv
<1>6. (\A q \in Procs : pc[q] \in EvalPcs => Dated(ev[q].started))'
  <2>1. ASSUME NEW q \in Procs, q # p, pc'[q] \in EvalPcs PROVE Dated(ev[q].started)'
    <3>1. Dated(ev[q].started) /\ ev[q].started \in Nat /\ ev'[q] = ev[q]
      BY <1>1, <1>2, <2>1 DEF TimeInv, PairTypeOK, Evs
    <3> QED
      BY <1>3, <3>1 DEF Dated
  <2> QED
    BY <1>1, <2>1
<1>7. (\A a \in Arms, f \in EvalFiles :
         evals[a][f].state = "whole" => evals[a][f].body \in Evs /\ Dated(evals[a][f].body.started))'
  <2> SUFFICES ASSUME NEW a \in Arms, NEW f \in EvalFiles, evals'[a][f].state = "whole"
               PROVE  evals'[a][f].body \in Evs /\ Dated(evals[a][f].body.started)'
    OBVIOUS
  <2>1. evals'[a][f].body \in Evs /\ Dated(evals'[a][f].body.started)
    BY DEF TimeInv, PairTypeOK
  <2>2. evals'[a][f].body.started \in Nat
    BY <2>1 DEF Evs
  <2> QED
    BY <1>3, <2>1, <2>2 DEF Dated
<1> QED
  BY <1>4, <1>5, <1>6, <1>7 DEF TimeInv


-----------------------------------------------------------------------------
(* What the steps of the owner do to the runs. *)

LEMMA VerifyIs ==
  ASSUME PairTypeOK, NEW p \in PairProcs, Verify(p)
  PROVE  /\ runs' \in [Arms -> Runs]
         /\ \/ UNCHANGED runs /\ Leave(p, "raised")
            \/ /\ Goto(p, "arm_1")
               /\ \A a \in Arms :
                    /\ workspace[a] = plan[p].source
                    /\ runs'[a].state = "open" /\ runs'[a].initial = workspace[a]
                    /\ runs'[a].stop = runs[a].stop /\ runs'[a].count = runs[a].count
<1>1. runs \in [Arms -> Runs] /\ workspace \in [Arms -> Nat]
  BY DEF PairTypeOK
<1>2. CASE /\ runs' = [a \in Arms |-> [runs[a] EXCEPT !.state = "open", !.initial = workspace[a]]]
           /\ Goto(p, "arm_1") /\ \A a \in Arms : workspace[a] = plan[p].source
  <2>1. ASSUME NEW a \in Arms
        PROVE  /\ runs'[a] \in Runs /\ runs'[a].state = "open" /\ runs'[a].initial = workspace[a]
               /\ runs'[a].stop = runs[a].stop /\ runs'[a].count = runs[a].count
    <3>1. runs'[a] = [runs[a] EXCEPT !.state = "open", !.initial = workspace[a]]
      BY <1>2
    <3>2. runs[a] \in Runs /\ workspace[a] \in Nat
      BY <1>1
    <3> QED
      BY <3>1, <3>2 DEF Runs
  <2> QED
    BY <1>2, <2>1
<1> QED
  BY <1>1, <1>2 DEF Verify

LEMMA RunArmIs ==
  ASSUME PairTypeOK, NEW p \in PairProcs, RunArm(p)
  PROVE  /\ ArmOf(p) \in Arms /\ runs' \in [Arms -> Runs]
         /\ \A b \in Arms : b # ArmOf(p) => runs'[b] = runs[b]
         /\ runs'[ArmOf(p)].initial = runs[ArmOf(p)].initial
         /\ runs'[ArmOf(p)].count = runs[ArmOf(p)].count + 1
         /\ \/ /\ Leave(p, "raised") /\ clock' = clock
               /\ runs'[ArmOf(p)].state = runs[ArmOf(p)].state
               /\ runs'[ArmOf(p)].stop = runs[ArmOf(p)].stop
            \/ /\ Goto(p, IF pc[p] = "arm_1" THEN "seal_1" ELSE "seal_2") /\ clock' = clock + 1
               /\ runs'[ArmOf(p)].state = "stopped" /\ runs'[ArmOf(p)].stop = clock
<1>1. ArmOf(p) \in Arms
  BY OrderFacts DEF ArmOf, PairTypeOK, Plans, Procs
<1>2. runs \in [Arms -> Runs] /\ clock \in Nat
  BY DEF PairTypeOK
<1>3. ASSUME NEW r, r = [runs EXCEPT ![ArmOf(p)].count = @ + 1]
      PROVE  /\ r \in [Arms -> Runs] /\ \A b \in Arms : b # ArmOf(p) => r[b] = runs[b]
             /\ r[ArmOf(p)].state = runs[ArmOf(p)].state /\ r[ArmOf(p)].stop = runs[ArmOf(p)].stop
             /\ r[ArmOf(p)].initial = runs[ArmOf(p)].initial
             /\ r[ArmOf(p)].count = runs[ArmOf(p)].count + 1
  BY <1>1, <1>2, <1>3 DEF Runs
<1>4. ASSUME NEW r, r = [runs EXCEPT ![ArmOf(p)].state = "stopped", ![ArmOf(p)].stop = clock,
                                     ![ArmOf(p)].count = @ + 1]
      PROVE  /\ r \in [Arms -> Runs] /\ \A b \in Arms : b # ArmOf(p) => r[b] = runs[b]
             /\ r[ArmOf(p)].state = "stopped" /\ r[ArmOf(p)].stop = clock
             /\ r[ArmOf(p)].initial = runs[ArmOf(p)].initial
             /\ r[ArmOf(p)].count = runs[ArmOf(p)].count + 1
  <2>1. /\ r[ArmOf(p)].state = "stopped" /\ r[ArmOf(p)].stop = clock
        /\ r[ArmOf(p)].initial = runs[ArmOf(p)].initial
        /\ r[ArmOf(p)].count = runs[ArmOf(p)].count + 1
    BY <1>1, <1>2, <1>4 DEF Runs
  <2>2. \A b \in Arms : b # ArmOf(p) => r[b] = runs[b]
    BY <1>1, <1>2, <1>4
  <2>3. r \in [Arms -> Runs]
    BY <1>1, <1>2, <1>4 DEF Runs
  <2> QED
    BY <2>1, <2>2, <2>3
<1> QED
  BY <1>1, <1>3, <1>4 DEF RunArm

LEMMA SealArmIs ==
  ASSUME PairTypeOK, NEW p \in PairProcs, SealArm(p)
  PROVE  /\ ArmOf(p) \in Arms /\ runs' \in [Arms -> Runs]
         /\ \A b \in Arms : b # ArmOf(p) => runs'[b] = runs[b]
         /\ runs'[ArmOf(p)].state = "sealed"
         /\ \A b \in Arms : /\ runs'[b].initial = runs[b].initial /\ runs'[b].stop = runs[b].stop
                             /\ runs'[b].count = runs[b].count
<1>1. ArmOf(p) \in Arms
  BY OrderFacts DEF ArmOf, PairTypeOK, Plans, Procs
<1> QED
  BY <1>1 DEF SealArm, PairTypeOK, Runs

-----------------------------------------------------------------------------
(* Types. *)

LEMMA LeaveTyped ==
  ASSUME PairTypeOK, NEW p \in Procs, NEW how \in {"raised", "dead"}, Leave(p, how)
  PROVE  /\ pc' \in [Procs -> Locations] /\ plan' \in [Procs -> Plans] /\ ev' \in [Procs -> Evs]
         /\ \A q \in EvalProcs : pc'[q] \in EvalPcs \cup Ended
<1>1. NoPlan \in Plans /\ NoEval \in Evs
  BY DEF NoPlan, NoEval, Plans, Evs, Orders, Arms
<1>2. how \in Locations /\ how \in Ended
  BY DEF Locations, Ended
<1> QED
  BY <1>1, <1>2 DEF Leave, PairTypeOK, Procs

LEMMA GotoTyped ==
  ASSUME PairTypeOK, NEW p \in Procs, NEW x \in Locations, Goto(p, x),
         p \in EvalProcs => x \in EvalPcs \cup Ended
  PROVE  /\ pc' \in [Procs -> Locations] /\ plan' \in [Procs -> Plans] /\ ev' \in [Procs -> Evs]
         /\ \A q \in EvalProcs : pc'[q] \in EvalPcs \cup Ended
BY DEF Goto, PairTypeOK, Procs

\* PairTypeOK is preserved by every step.
LEMMA TypeStep ==
  ASSUME PairTypeOK, [Next]_vars
  PROVE  PairTypeOK'
<1>0. PairProcs \cap EvalProcs = {} /\ MaxFaults \in Nat /\ PairProcs \subseteq Procs
  BY PairAssumption DEF Procs
<1>1. ASSUME NEW p \in PairProcs, Prepare(p) PROVE PairTypeOK'
  <2>1. CASE Leave(p, "raised")
    BY <1>0, <1>1, <2>1, LeaveTyped DEF Prepare, storeVars, worldVars, PairTypeOK
  <2>2. ASSUME NEW order \in Orders,
               plan' = [plan EXCEPT ![p] = [order |-> order, source |-> source, spec |-> spec]],
               pc' = [pc EXCEPT ![p] = "check_producer"], UNCHANGED ev
        PROVE  PairTypeOK'
    <3>1. "check_producer" \in Locations
      BY DEF Locations, PreparePcs
    <3>2. plan' \in [Procs -> Plans]
      BY <2>2, <1>0 DEF PairTypeOK, Plans
    <3>3. pc' \in [Procs -> Locations] /\ \A q \in EvalProcs : pc'[q] \in EvalPcs \cup Ended
      BY <1>0, <2>2, <3>1 DEF PairTypeOK
    <3> QED
      BY <1>1, <2>2, <3>2, <3>3 DEF Prepare, storeVars, worldVars, PairTypeOK
  <2> QED
    BY <1>1, <2>1, <2>2 DEF Prepare
<1>2. ASSUME NEW p \in PairProcs, NEW a \in Arms, CopyTree(p, a) PROVE PairTypeOK'
  <2>1. workspace' \in [Arms -> Nat]
    BY <1>2 DEF CopyTree, PairTypeOK
  <2>2. "copy_B" \in Locations /\ "verify" \in Locations
    BY DEF Locations, OwnerPcs
  <2>3. /\ pc' \in [Procs -> Locations] /\ plan' \in [Procs -> Plans] /\ ev' \in [Procs -> Evs]
        /\ \A q \in EvalProcs : pc'[q] \in EvalPcs \cup Ended
    BY <1>0, <1>2, <2>2, LeaveTyped, GotoTyped DEF CopyTree
  <2> QED
    BY <1>2, <2>1, <2>3 DEF CopyTree, worldVars, PairTypeOK
<1>3. ASSUME NEW p \in PairProcs, Verify(p) PROVE PairTypeOK'
  <2>1. runs' \in [Arms -> Runs]
    BY <1>3, VerifyIs
  <2>2. "arm_1" \in Locations
    BY DEF Locations, OwnerPcs, VerifiedPcs
  <2>3. /\ pc' \in [Procs -> Locations] /\ plan' \in [Procs -> Plans] /\ ev' \in [Procs -> Evs]
        /\ \A q \in EvalProcs : pc'[q] \in EvalPcs \cup Ended
    BY <1>0, <1>3, <2>2, LeaveTyped, GotoTyped DEF Verify
  <2> QED
    BY <1>3, <2>1, <2>3 DEF Verify, worldVars, PairTypeOK
<1>4. ASSUME NEW p \in PairProcs, RunArm(p) PROVE PairTypeOK'
  <2>1. ArmOf(p) \in Arms
    BY <1>0, OrderFacts DEF ArmOf, PairTypeOK, Plans
  <2>2. runs' \in [Arms -> Runs] /\ clock' \in Nat
    BY <1>4, RunArmIs DEF PairTypeOK
  <2>3. "seal_1" \in Locations /\ "seal_2" \in Locations
    BY DEF Locations, OwnerPcs, VerifiedPcs
  <2>4. /\ pc' \in [Procs -> Locations] /\ plan' \in [Procs -> Plans] /\ ev' \in [Procs -> Evs]
        /\ \A q \in EvalProcs : pc'[q] \in EvalPcs \cup Ended
    BY <1>0, <1>4, <2>3, LeaveTyped, GotoTyped DEF RunArm
  <2> QED
    BY <1>4, <2>2, <2>4 DEF RunArm, PairTypeOK
<1>5. ASSUME NEW p \in PairProcs, SealArm(p) PROVE PairTypeOK'
  <2>1. ArmOf(p) \in Arms
    BY <1>0, OrderFacts DEF ArmOf, PairTypeOK, Plans
  <2>2. runs' \in [Arms -> Runs]
    BY <1>5, <2>1 DEF SealArm, PairTypeOK, Runs
  <2>3. "arm_2" \in Locations /\ "evaluate_A" \in Locations
    BY DEF Locations, OwnerPcs, VerifiedPcs, SealedPcs, EvaluatingPcs
  <2>4. /\ pc' \in [Procs -> Locations] /\ plan' \in [Procs -> Plans] /\ ev' \in [Procs -> Evs]
        /\ \A q \in EvalProcs : pc'[q] \in EvalPcs \cup Ended
    BY <1>0, <1>5, <2>3, GotoTyped DEF SealArm
  <2> QED
    BY <1>5, <2>2, <2>4 DEF SealArm, worldVars, PairTypeOK
<1>6. ASSUME NEW p \in Procs, Evaluate(p) PROVE PairTypeOK'
  <2>1. CASE Leave(p, "raised") /\ UNCHANGED clock
    BY <1>6, <2>1, LeaveTyped DEF Evaluate, storeVars, PairTypeOK
  <2>2. ASSUME NEW a \in Arms, ev' = [ev EXCEPT ![p] = [NoEval EXCEPT !.arm = a, !.started = clock]],
               clock' = clock + 1, pc' = [pc EXCEPT ![p] = "execute"], UNCHANGED plan
        PROVE  PairTypeOK'
    <3>1. "execute" \in Locations /\ "execute" \in EvalPcs
      BY DEF Locations, OwnerPcs, VerifiedPcs, SealedPcs, EvaluatingPcs, EvalPcs
    <3>2. ev' \in [Procs -> Evs] /\ clock' \in Nat
      <4>1. [NoEval EXCEPT !.arm = a, !.started = clock] \in Evs
        BY DEF NoEval, Evs, PairTypeOK
      <4> QED
        BY <2>2, <4>1 DEF PairTypeOK, Evs
    <3>3. pc' \in [Procs -> Locations] /\ \A q \in EvalProcs : pc'[q] \in EvalPcs \cup Ended
      BY <2>2, <3>1 DEF PairTypeOK, Procs
    <3> QED
      BY <1>6, <2>2, <3>2, <3>3 DEF Evaluate, storeVars, PairTypeOK
  <2> QED
    BY <1>6, <2>1, <2>2 DEF Evaluate
<1>7. ASSUME NEW p \in Procs, Execute(p) PROVE PairTypeOK'
  <2>1. CASE Leave(p, "raised")
    BY <1>7, <2>1, LeaveTyped DEF Execute, storeVars, worldVars, PairTypeOK
  <2>2. CASE /\ ev' = [ev EXCEPT ![p].spec = spec] /\ UNCHANGED plan
             /\ pc' = [pc EXCEPT ![p] = "check_manifest"]
    <3>1. "check_manifest" \in Locations /\ "check_manifest" \in EvalPcs
      BY DEF Locations, OwnerPcs, VerifiedPcs, SealedPcs, EvaluatingPcs, EvalPcs, FilePcs
    <3>2. ev' \in [Procs -> Evs]
      BY <2>2 DEF PairTypeOK, Evs
    <3>3. pc' \in [Procs -> Locations] /\ \A q \in EvalProcs : pc'[q] \in EvalPcs \cup Ended
      BY <2>2, <3>1 DEF PairTypeOK, Procs
    <3> QED
      BY <1>7, <2>2, <3>2, <3>3 DEF Execute, storeVars, worldVars, PairTypeOK
  <2> QED
    BY <1>7, <2>1, <2>2 DEF Execute
<1>8. ASSUME NEW p \in Procs, NEW f \in PairFiles \cup EvalFiles, CheckExisting(p, f) PROVE PairTypeOK'
  <2>1. p \in EvalProcs => f \in EvalFiles /\ p \notin PairProcs
    BY <1>0, <1>8, FileLocations DEF CheckExisting, PairTypeOK
  <2>2. p \in EvalProcs => WriteAt[f] \in EvalPcs \cup Ended /\ AfterFile(p, f) \in EvalPcs \cup Ended
    BY <2>1, FileLocations DEF EvalPcs
  <2>3. /\ pc' \in [Procs -> Locations] /\ plan' \in [Procs -> Plans] /\ ev' \in [Procs -> Evs]
        /\ \A q \in EvalProcs : pc'[q] \in EvalPcs \cup Ended
    BY <1>8, <2>2, FileLocations, LeaveTyped, GotoTyped DEF CheckExisting
  <2> QED
    BY <1>8, <2>3 DEF CheckExisting, storeVars, worldVars, PairTypeOK
<1>9. ASSUME NEW p \in Procs, NEW f \in PairFiles \cup EvalFiles, WriteFile(p, f) PROVE PairTypeOK'
  <2>1. p \in EvalProcs => f \in EvalFiles /\ p \notin PairProcs
    BY <1>0, <1>9, FileLocations DEF WriteFile, PairTypeOK
  <2>2. p \in EvalProcs => AfterFile(p, f) \in EvalPcs \cup Ended
    BY <2>1, FileLocations
  <2>3. /\ pc' \in [Procs -> Locations] /\ plan' \in [Procs -> Plans] /\ ev' \in [Procs -> Evs]
        /\ \A q \in EvalProcs : pc'[q] \in EvalPcs \cup Ended
    BY <1>9, <2>2, FileLocations, LeaveTyped, GotoTyped DEF WriteFile
  <2>4. /\ pairDir' \in [PairFiles -> [state : FileStates, body : Plans \cup {<<>>}]]
        /\ evals' \in [Arms -> [EvalFiles -> [state : FileStates, body : Evs \cup {<<>>}]]]
    <3>1. PICK file \in {Whole(Content(p, f)), Torn} : Put(p, f, file)
      BY <1>9 DEF WriteFile
    <3>2. f \in EvalFiles => f \notin PairFiles
      BY DEF PairFiles, EvalFiles
    <3>3. NoPlan \in Plans
      BY DEF NoPlan, Plans, Orders
    <3>4. CASE f \in PairFiles
      <4>1. Content(p, f) \in Plans
        BY <3>3, <3>4 DEF Content, PairTypeOK
      <4>2. file \in [state : FileStates, body : Plans \cup {<<>>}]
        BY <3>1, <4>1 DEF Whole, Torn, FileStates
      <4> QED
        BY <3>1, <3>4, <4>2 DEF Put, PairTypeOK
    <3>5. CASE f \in EvalFiles
      <4>1. Content(p, f) \in Evs
        BY <3>2, <3>5 DEF Content, PairTypeOK, PairFiles
      <4>2. file \in [state : FileStates, body : Evs \cup {<<>>}]
        BY <3>1, <4>1 DEF Whole, Torn, FileStates
      <4>3. ev[p].arm \in Arms
        BY DEF PairTypeOK, Evs
      <4>4. pairDir' = pairDir /\ evals' = [evals EXCEPT ![ev[p].arm][f] = file]
        BY <3>1, <3>2, <3>5 DEF Put
      <4>5. [evals[ev[p].arm] EXCEPT ![f] = file] \in [EvalFiles -> [state : FileStates, body : Evs \cup {<<>>}]]
        BY <3>5, <4>2, <4>3 DEF PairTypeOK
      <4> QED
        BY <4>3, <4>4, <4>5 DEF PairTypeOK
    <3> QED
      BY <3>4, <3>5
  <2> QED
    BY <1>9, <2>3, <2>4 DEF WriteFile, PairTypeOK
<1>10. ASSUME NEW p \in Procs, Kill(p) PROVE PairTypeOK'
  BY <1>10, LeaveTyped DEF Kill, storeVars, PairTypeOK
<1>13. ASSUME NEW p \in PairProcs, SealRaises(p) PROVE PairTypeOK'
  BY <1>13, LeaveTyped DEF SealRaises, storeVars, worldVars, PairTypeOK, Procs
<1>11. CASE Edit
  BY <1>11 DEF Edit, procVars, storeVars, PairTypeOK
<1>12. CASE UNCHANGED vars
  BY <1>12 DEF vars, procVars, storeVars, worldVars, PairTypeOK
<1> QED
  BY <1>1, <1>2, <1>3, <1>4, <1>5, <1>6, <1>7, <1>8, <1>9, <1>10, <1>11, <1>12, <1>13
     DEF Next, PairStep, FileStep

-----------------------------------------------------------------------------
(* One owner at most. *)

\* Past its copies the owner stays the owner, whatever happens to the runs.
LEMMA OwnerMoves ==
  ASSUME PairTypeOK, OwnerInv, NEW p \in PairProcs, NEW x,
         pc[p] \in OwnerPcs, pc[p] # "copy_B", x \notin {"copy_B", "verify"},
         pc' = [pc EXCEPT ![p] = x], workspace' = workspace
  PROVE  OwnerInv'
<1>1. p \in Procs /\ pc'[p] = x /\ \A q \in Procs : q # p => pc'[q] = pc[q]
  BY DEF PairTypeOK, Procs
<1>2. workspace["A"] # 0 /\ workspace["B"] # 0
  BY DEF OwnerInv
<1>3. \A q \in PairProcs : pc[q] \in OwnerPcs => q = p
  BY DEF OwnerInv
<1>4. \A q \in PairProcs : pc'[q] \in OwnerPcs => q = p
  BY <1>1, <1>3 DEF Procs
<1>5. "verify" \in OwnerPcs
  BY DEF OwnerPcs
<1> QED
  BY <1>1, <1>2, <1>4, <1>5 DEF OwnerInv

LEMMA OwnerStep ==
  ASSUME PairInv, [Next]_vars
  PROVE  OwnerInv'
<1>0. PairTypeOK /\ OwnerInv /\ PairProcs \subseteq Procs
  BY DEF PairInv, Procs
<1>1. ASSUME NEW p \in Procs, NEW x, Paperwork(p, x) PROVE OwnerInv'
  BY <1>0, <1>1, PaperworkKeepsOwner
<1>2. ASSUME NEW p \in PairProcs, Prepare(p) PROVE OwnerInv'
  BY <1>0, <1>1, <1>2, OtherPaperwork
<1>3. ASSUME NEW p \in PairProcs, CopyTree(p, "A") PROVE OwnerInv'
  <2>1. pc[p] = "copy_A"
    BY <1>3 DEF CopyTree, CopyAt
  <2>2. CASE Leave(p, "raised") /\ UNCHANGED workspace
    BY <1>0, <1>1, <1>3, <2>1, <2>2, LeaveIsPaperwork DEF CopyTree
  <2>3. CASE workspace["A"] = 0 /\ workspace' = [workspace EXCEPT !["A"] = source] /\ Goto(p, "copy_B")
    <3>1. p \in Procs /\ pc'[p] = "copy_B" /\ \A q \in Procs : q # p => pc'[q] = pc[q]
      BY <1>0, <2>3 DEF PairTypeOK, Goto
    <3>2. workspace'["A"] # 0 /\ workspace'["B"] = workspace["B"] /\ workspace["B"] = 0
      BY <1>0, <2>3 DEF PairTypeOK, OwnerInv, Arms
    <3>3. \A q \in PairProcs : pc[q] \notin OwnerPcs
      BY <1>0, <2>3 DEF OwnerInv
    <3>4. \A q \in PairProcs : pc'[q] \in OwnerPcs => q = p
      BY <1>0, <3>1, <3>3
    <3>5. runs' = runs /\ \A a \in Arms : runs[a] = NoRun
      BY <1>0, <1>3, <3>2 DEF CopyTree, OwnerInv
    <3> QED
      BY <3>1, <3>2, <3>4, <3>5 DEF OwnerInv
  <2> QED
    BY <1>3, <2>2, <2>3 DEF CopyTree
<1>4. ASSUME NEW p \in PairProcs, CopyTree(p, "B") PROVE OwnerInv'
  <2>1. pc[p] = "copy_B"
    BY <1>4 DEF CopyTree, CopyAt
  <2>2. CASE Leave(p, "raised") /\ UNCHANGED workspace
    BY <1>0, <1>1, <1>4, <2>1, <2>2, LeaveIsPaperwork DEF CopyTree
  <2>3. CASE workspace' = [workspace EXCEPT !["B"] = source] /\ Goto(p, "verify")
    <3>1. p \in Procs /\ pc'[p] = "verify" /\ \A q \in Procs : q # p => pc'[q] = pc[q]
      BY <1>0, <2>3 DEF PairTypeOK, Goto
    <3>2. pc[p] \in OwnerPcs
      BY <2>1 DEF OwnerPcs
    <3>3. workspace["A"] # 0 /\ workspace["B"] = 0 /\ \A q \in PairProcs : pc[q] \in OwnerPcs => q = p
      BY <1>0, <2>1, <3>2 DEF OwnerInv
    <3>4. workspace'["A"] # 0 /\ workspace'["B"] # 0
      BY <1>0, <2>3, <3>3 DEF PairTypeOK, Arms
    <3>5. \A q \in PairProcs : pc'[q] \in OwnerPcs => q = p
      BY <1>0, <3>1, <3>3
    <3>6. runs' = runs /\ \A a \in Arms : runs[a] = NoRun
      BY <1>0, <1>4, <3>3 DEF CopyTree, OwnerInv
    <3> QED
      BY <3>1, <3>4, <3>5, <3>6 DEF OwnerInv
  <2> QED
    BY <1>4, <2>2, <2>3 DEF CopyTree
<1>5. ASSUME NEW p \in PairProcs, Verify(p) PROVE OwnerInv'
  <2>1. pc[p] = "verify" /\ workspace' = workspace
    BY <1>5 DEF Verify
  <2>2. CASE Leave(p, "raised") /\ UNCHANGED runs
    BY <1>0, <1>1, <2>1, <2>2, LeaveIsPaperwork
  <2>3. CASE Goto(p, "arm_1")
    BY <1>0, <2>1, <2>3, OwnerMoves DEF Goto, OwnerPcs
  <2> QED
    BY <1>5, <2>2, <2>3 DEF Verify
<1>6. ASSUME NEW p \in PairProcs, RunArm(p) PROVE OwnerInv'
  <2>1. pc[p] \in {"arm_1", "arm_2"} /\ workspace' = workspace
    BY <1>6 DEF RunArm
  <2>2. PICK x \in {"raised", "seal_1", "seal_2"} : pc' = [pc EXCEPT ![p] = x]
    BY <1>6 DEF RunArm, Goto, Leave
  <2> QED
    BY <1>0, <2>1, <2>2, OwnerMoves DEF OwnerPcs, VerifiedPcs
<1>7. ASSUME NEW p \in PairProcs, SealArm(p) PROVE OwnerInv'
  <2>1. pc[p] \in {"seal_1", "seal_2"} /\ workspace' = workspace
    BY <1>7 DEF SealArm
  <2>2. PICK x \in {"arm_2", "evaluate_A"} : pc' = [pc EXCEPT ![p] = x]
    BY <1>7 DEF SealArm, Goto
  <2> QED
    BY <1>0, <2>1, <2>2, OwnerMoves DEF OwnerPcs, VerifiedPcs
<1>10. ASSUME NEW p \in PairProcs, SealRaises(p) PROVE OwnerInv'
  BY <1>0, <1>1, <1>10, OtherPaperwork
<1>8. ASSUME NEW p \in Procs, Evaluate(p) \/ Execute(p) \/ FileStep(p) \/ Kill(p) PROVE OwnerInv'
  BY <1>0, <1>1, <1>8, OtherPaperwork, CheckIsPaperwork, WriteIsPaperwork DEF FileStep
<1>9. CASE Edit \/ UNCHANGED vars
  BY <1>0, <1>9 DEF Edit, vars, procVars, storeVars, OwnerInv
<1> QED
  BY <1>2, <1>3, <1>4, <1>5, <1>6, <1>7, <1>8, <1>9, <1>10 DEF Next, PairStep, Arms

-----------------------------------------------------------------------------
(* Each arm once. *)

LEMMA ArmStep ==
  ASSUME PairInv, [Next]_vars
  PROVE  ArmInv'
<1>0. PairTypeOK /\ OwnerInv /\ ArmInv /\ PairProcs \subseteq Procs
  BY DEF PairInv, Procs
<1>1. ASSUME NEW p \in Procs, NEW x, Paperwork(p, x) PROVE ArmInv'
  BY <1>0, <1>1, PaperworkKeepsArms
<1>2. ASSUME NEW p \in PairProcs, Prepare(p) PROVE ArmInv'
  BY <1>0, <1>1, <1>2, OtherPaperwork
<1>3. ASSUME NEW p \in PairProcs, NEW a \in Arms, CopyTree(p, a) PROVE ArmInv'
  <2>1. pc[p] \in {"copy_A", "copy_B"} /\ runs' = runs
    BY <1>3 DEF CopyTree, CopyAt, Arms
  <2>2. CASE Leave(p, "raised") /\ UNCHANGED workspace
    BY <1>0, <1>1, <2>1, <2>2, LeaveIsPaperwork
  <2>3. CASE workspace[a] = 0 /\ Goto(p, IF a = "A" THEN "copy_B" ELSE "verify")
    <3>1. workspace["B"] = 0
      BY <1>0, <1>3, <2>3 DEF OwnerInv, Arms
    <3>2. \A b \in Arms : runs[b] = NoRun
      BY <1>0, <3>1 DEF OwnerInv
    <3>3. \A b \in Arms : Once(b)'
      BY <2>1, <3>2 DEF Once, Stopped, NoRun
    <3>4. \A q \in PairProcs : pc'[q] \notin VerifiedPcs
      <4>1. "copy_B" \notin VerifiedPcs /\ "verify" \notin VerifiedPcs
        BY DEF VerifiedPcs, SealedPcs, EvaluatingPcs, EvalPcs, FilePcs, FileRefPcs, FileResultPcs, ClosingPcs
      <4>2. \A q \in PairProcs : pc[q] \in OwnerPcs => pc[q] = "copy_B"
        BY <1>0, <3>1 DEF OwnerInv
      <4> QED
        BY <1>0, <2>3, <4>1, <4>2 DEF Goto, PairTypeOK, OwnerPcs
    <3>5. SealedPcs \subseteq VerifiedPcs /\ {"arm_1", "seal_1", "arm_2", "seal_2"} \subseteq VerifiedPcs
      BY DEF VerifiedPcs
    <3> QED
      BY <3>3, <3>4, <3>5 DEF ArmInv, Progress
  <2> QED
    BY <1>3, <2>2, <2>3 DEF CopyTree
<1>10. {"arm_1", "seal_1", "arm_2", "seal_2"} \cap SealedPcs = {}
       /\ VerifiedPcs = {"arm_1", "seal_1", "arm_2", "seal_2"} \cup SealedPcs
       /\ VerifiedPcs \subseteq OwnerPcs /\ "verify" \in OwnerPcs
       /\ "raised" \notin OwnerPcs /\ "evaluate_A" \in SealedPcs
  BY DEF OwnerPcs, VerifiedPcs, SealedPcs, EvaluatingPcs, EvalPcs, FilePcs, FileRefPcs, FileResultPcs, ClosingPcs
<1>11. ASSUME NEW p \in PairProcs, pc[p] \in OwnerPcs, NEW x, pc' = [pc EXCEPT ![p] = x]
       PROVE  pc'[p] = x /\ \A q \in PairProcs : q # p => pc'[q] \notin OwnerPcs
  BY <1>0, <1>11 DEF PairTypeOK, OwnerInv
<1>12. ASSUME NEW p \in PairProcs
       PROVE  LET o == plan[p].order IN o[1] \in Arms /\ o[2] \in Arms /\ o[1] # o[2] /\ Arms = {o[1], o[2]}
  BY <1>0, <1>12, OrderFacts DEF PairTypeOK, Plans
<1>4. ASSUME NEW p \in PairProcs, Verify(p) PROVE ArmInv'
  <2>1. pc[p] = "verify" /\ workspace' = workspace
    BY <1>4 DEF Verify
  <2>2. CASE Leave(p, "raised") /\ UNCHANGED runs
    BY <1>0, <1>1, <2>1, <2>2, LeaveIsPaperwork
  <2>3. CASE /\ Goto(p, "arm_1")
             /\ \A a \in Arms :
                    /\ workspace[a] = plan[p].source
                    /\ runs'[a].state = "open" /\ runs'[a].initial = workspace[a]
                    /\ runs'[a].stop = runs[a].stop /\ runs'[a].count = runs[a].count
    <3>1. \A a \in Arms : runs'[a].count = 0
      BY <1>0, <2>1, <2>3 DEF OwnerInv, NoRun
    <3>2. \A a \in Arms : Once(a)'
      BY <2>3, <3>1 DEF Once, Stopped
    <3>3. pc'[p] = "arm_1" /\ plan' = plan /\ \A q \in PairProcs : q # p => pc'[q] \notin OwnerPcs
      BY <1>10, <1>11, <2>1, <2>3 DEF Goto
    <3>4. \A q \in PairProcs : q # p => Progress(q)'
      BY <1>10, <3>3 DEF Progress
    <3>5. Progress(p)'
      BY <1>10, <1>12, <2>1, <2>3, <3>1, <3>3 DEF Progress
    <3> QED
      BY <3>2, <3>4, <3>5 DEF ArmInv
  <2> QED
    BY <1>0, <1>4, <2>2, <2>3, VerifyIs
<1>5. ASSUME NEW p \in PairProcs, RunArm(p) PROVE ArmInv'
  <2>1. pc[p] \in {"arm_1", "arm_2"} /\ workspace' = workspace /\ pc[p] \in VerifiedPcs
    BY <1>5, <1>10 DEF RunArm
  <2>2. /\ ArmOf(p) \in Arms
        /\ \A b \in Arms : b # ArmOf(p) => runs'[b] = runs[b]
        /\ runs'[ArmOf(p)].initial = runs[ArmOf(p)].initial
        /\ runs'[ArmOf(p)].count = runs[ArmOf(p)].count + 1
    BY <1>0, <1>5, RunArmIs
  <2>3. runs[ArmOf(p)].count = 0
    BY <1>0, <2>1 DEF ArmInv, Progress, ArmOf
  <2>4. \A b \in Arms : runs'[b].initial = runs[b].initial /\ workspace[b] = plan[p].source
                         /\ runs[b].initial = plan[p].source
    BY <1>0, <2>1, <2>2 DEF ArmInv, Progress
  <2>5. \A b \in Arms : Once(b)'
    BY <1>0, <2>1, <2>2, <2>3, <2>4 DEF ArmInv, Once, Stopped
  <2>6. CASE Leave(p, "raised")
    <3>1. \A q \in PairProcs : pc'[q] \notin OwnerPcs
      BY <1>10, <1>11, <2>1, <2>6 DEF Leave
    <3>2. \A q \in PairProcs : Progress(q)'
      BY <1>10, <3>1 DEF Progress
    <3> QED
      BY <2>5, <3>2 DEF ArmInv
  <2>7. CASE Goto(p, IF pc[p] = "arm_1" THEN "seal_1" ELSE "seal_2") /\ runs'[ArmOf(p)].state = "stopped"
    <3>1. /\ pc'[p] = IF pc[p] = "arm_1" THEN "seal_1" ELSE "seal_2"
          /\ plan' = plan /\ \A q \in PairProcs : q # p => pc'[q] \notin OwnerPcs
      BY <1>10, <1>11, <2>1, <2>7 DEF Goto
    <3>2. \A q \in PairProcs : q # p => Progress(q)'
      BY <1>10, <3>1 DEF Progress
    <3>3. Progress(p)
      BY <1>0 DEF ArmInv
    <3>4. ASSUME pc[p] = "arm_1" PROVE Progress(p)'
      <4>1. ArmOf(p) = plan[p].order[1]
        BY <3>4 DEF ArmOf
      <4> QED
        BY <1>10, <1>12, <2>1, <2>2, <2>4, <2>7, <3>1, <3>3, <3>4, <4>1 DEF Progress
    <3>5. ASSUME pc[p] = "arm_2" PROVE Progress(p)'
      <4>1. ArmOf(p) = plan[p].order[2]
        BY <3>5 DEF ArmOf
      <4> QED
        BY <1>10, <1>12, <2>1, <2>2, <2>4, <2>7, <3>1, <3>3, <3>5, <4>1 DEF Progress
    <3>6. Progress(p)'
      BY <2>1, <3>4, <3>5
    <3> QED
      BY <2>5, <3>2, <3>6 DEF ArmInv
  <2> QED
    BY <1>0, <1>5, <2>6, <2>7, RunArmIs
<1>6. ASSUME NEW p \in PairProcs, SealArm(p) PROVE ArmInv'
  <2>1. pc[p] \in {"seal_1", "seal_2"} /\ workspace' = workspace /\ pc[p] \in VerifiedPcs
    BY <1>6, <1>10 DEF SealArm
  <2>2. /\ ArmOf(p) \in Arms
        /\ \A b \in Arms : b # ArmOf(p) => runs'[b] = runs[b]
        /\ runs'[ArmOf(p)].state = "sealed"
        /\ \A b \in Arms : /\ runs'[b].initial = runs[b].initial /\ runs'[b].stop = runs[b].stop
                            /\ runs'[b].count = runs[b].count
    BY <1>0, <1>6, SealArmIs
  <2>3. Progress(p)
    BY <1>0 DEF ArmInv
  <2>4. runs[ArmOf(p)].state = "stopped"
    BY <2>1, <2>3 DEF Progress, ArmOf
  <2>5. \A b \in Arms : Once(b)'
    BY <1>0, <2>1, <2>2, <2>4 DEF ArmInv, Once, Stopped
  <2>6. /\ pc'[p] = IF pc[p] = "seal_1" THEN "arm_2" ELSE "evaluate_A"
        /\ plan' = plan /\ \A q \in PairProcs : q # p => pc'[q] \notin OwnerPcs
    BY <1>6, <1>10, <1>11, <2>1 DEF SealArm, Goto
  <2>7. \A q \in PairProcs : q # p => Progress(q)'
    BY <1>10, <2>6 DEF Progress
  <2>8. ASSUME pc[p] = "seal_1" PROVE Progress(p)'
    <3>1. ArmOf(p) = plan[p].order[1]
      BY <2>8 DEF ArmOf
    <3> QED
      BY <1>10, <1>12, <2>1, <2>2, <2>3, <2>6, <2>8, <3>1 DEF Progress
  <2>9. ASSUME pc[p] = "seal_2" PROVE Progress(p)'
    <3>1. ArmOf(p) = plan[p].order[2]
      BY <2>9 DEF ArmOf
    <3> QED
      BY <1>10, <1>12, <2>1, <2>2, <2>3, <2>6, <2>9, <3>1 DEF Progress
  <2>10. Progress(p)'
    BY <2>1, <2>8, <2>9
  <2> QED
    BY <2>5, <2>7, <2>10 DEF ArmInv
<1>20. ASSUME NEW p \in PairProcs, SealRaises(p) PROVE ArmInv'
  BY <1>0, <1>1, <1>20, OtherPaperwork
<1>8. ASSUME NEW p \in Procs, Evaluate(p) \/ Execute(p) \/ FileStep(p) \/ Kill(p) PROVE ArmInv'
  BY <1>0, <1>1, <1>8, OtherPaperwork, CheckIsPaperwork, WriteIsPaperwork DEF FileStep
<1>9. CASE Edit \/ UNCHANGED vars
  BY <1>0, <1>9 DEF Edit, vars, procVars, storeVars, ArmInv, Once, Stopped, Progress
<1> QED
  BY <1>2, <1>3, <1>4, <1>5, <1>6, <1>8, <1>9, <1>20 DEF Next, PairStep

-----------------------------------------------------------------------------
(* Timestamps. *)

LEMMA TimeStep ==
  ASSUME PairInv, [Next]_vars
  PROVE  TimeInv'
<1>0. /\ PairTypeOK /\ OwnerInv /\ ArmInv /\ TimeInv /\ PairProcs \subseteq Procs
      /\ clock \in Nat /\ FilePcs \subseteq EvalPcs
  BY DEF PairInv, Procs, PairTypeOK, EvalPcs
<1>1. /\ "raised" \notin EvalPcs /\ "dead" \notin EvalPcs /\ "check_producer" \notin EvalPcs
      /\ "execute" \in EvalPcs
      /\ {"arm_1", "seal_1", "arm_2", "seal_2", "verify", "copy_A", "copy_B", "evaluate_A"} \cap EvalPcs = {}
      /\ {"arm_1", "seal_1", "arm_2", "seal_2", "verify", "copy_A", "copy_B"} \cap SealedPcs = {}
      /\ {"verify", "arm_1", "seal_1", "arm_2", "seal_2"} \cup SealedPcs \subseteq OwnerPcs
      /\ "raised" \notin OwnerPcs
  BY DEF OwnerPcs, VerifiedPcs, SealedPcs, EvaluatingPcs, EvalPcs, FilePcs, FileRefPcs, FileResultPcs, ClosingPcs
<1>2. ASSUME NEW p \in Procs, NEW x, Paperwork(p, x), x \notin EvalPcs, UNCHANGED <<evals, clock>>
      PROVE  TimeInv'
  BY <1>0, <1>2, PaperworkKeepsTime
<1>3. ASSUME NEW p \in Procs, NEW how \in {"raised", "dead"}, pc[p] # "done", Leave(p, how),
             UNCHANGED <<workspace, runs, evals, clock>>
      PROVE  TimeInv'
  BY <1>0, <1>1, <1>2, <1>3, LeaveIsPaperwork
<1>4. ASSUME NEW p \in PairProcs, Prepare(p) PROVE TimeInv'
  <2>1. PICK x : Paperwork(p, x)
    BY <1>0, <1>4, OtherPaperwork
  <2>2. x \in {"raised", "check_producer"}
    BY <1>0, <1>4, <2>1 DEF Prepare, Paperwork, Leave, PairTypeOK
  <2> QED
    BY <1>0, <1>1, <1>2, <1>4, <2>1, <2>2 DEF Prepare, storeVars, worldVars
<1>5. ASSUME NEW p \in Procs, Evaluate(p) PROVE TimeInv'
  <2>1. pc[p] # "done" /\ UNCHANGED storeVars
    BY <1>5 DEF Evaluate
  <2>2. CASE Leave(p, "raised") /\ UNCHANGED clock
    BY <1>3, <2>1, <2>2 DEF storeVars
  <2>3. CASE \E a \in Arms :
               /\ ev' = [ev EXCEPT ![p] = [NoEval EXCEPT !.arm = a, !.started = clock]]
               /\ clock' = clock + 1 /\ pc' = [pc EXCEPT ![p] = "execute"]
    <3>1. PICK x : Paperwork(p, x)
      BY <1>0, <1>5, OtherPaperwork
    <3>2. ev'[p].started = clock
      BY <1>0, <2>3 DEF PairTypeOK, NoEval
    <3>3. Dated(ev[p].started)'
      BY <1>0, <2>1, <2>3, <3>2 DEF Dated, TimeInv, Stopped, storeVars, PairTypeOK, Runs
    <3>4. evals' = evals /\ clock' \in Nat /\ clock <= clock'
      BY <1>0, <2>1, <2>3 DEF storeVars
    <3> QED
      BY <1>0, <3>1, <3>3, <3>4, PaperworkKeepsTime
  <2> QED
    BY <1>5, <2>2, <2>3 DEF Evaluate
<1>6. ASSUME NEW p \in Procs, Execute(p) PROVE TimeInv'
  <2>1. pc[p] = "execute" /\ UNCHANGED <<workspace, runs, evals, clock>>
    BY <1>6 DEF Execute, storeVars, worldVars
  <2>2. CASE Leave(p, "raised")
    BY <1>3, <2>1, <2>2
  <2>3. CASE ev' = [ev EXCEPT ![p].spec = spec]
    <3>1. PICK x : Paperwork(p, x)
      BY <1>0, <1>6, OtherPaperwork
    <3>2. ev'[p].started = ev[p].started
      BY <1>0, <2>3 DEF PairTypeOK, Evs
    <3>3. Dated(ev[p].started)'
      BY <1>0, <1>1, <2>1, <3>2 DEF Dated, TimeInv, Stopped
    <3> QED
      BY <1>0, <2>1, <3>1, <3>3, PaperworkKeepsTime
  <2> QED
    BY <1>6, <2>2, <2>3 DEF Execute
<1>7. ASSUME NEW p \in Procs, NEW f \in PairFiles \cup EvalFiles, NEW x,
             CheckExisting(p, f) \/ WriteFile(p, f), Goto(p, x), x \in EvalPcs,
             x \in {WriteAt[f], AfterFile(p, f)}
      PROVE  f \in EvalFiles /\ pc[p] \in EvalPcs /\ Dated(ev[p].started)'
  <2>1. f \in EvalFiles
    BY <1>7, FileLocations
  <2>2. pc[p] \in EvalPcs
    BY <1>0, <1>7, <2>1, FileLocations DEF CheckExisting, WriteFile
  <2>3. UNCHANGED <<runs, clock, ev>>
    BY <1>7 DEF CheckExisting, WriteFile, Goto, storeVars, worldVars
  <2> QED
    BY <1>0, <2>1, <2>2, <2>3 DEF TimeInv, Dated, Stopped
<1>8. ASSUME NEW p \in Procs, NEW f \in PairFiles \cup EvalFiles, CheckExisting(p, f) PROVE TimeInv'
  <2>1. UNCHANGED <<workspace, runs, evals, clock>> /\ pc[p] # "done"
    BY <1>8, FileMoves DEF CheckExisting, storeVars, worldVars
  <2>2. CASE Leave(p, "raised")
    BY <1>3, <2>1, <2>2
  <2>3. ASSUME NEW y \in {WriteAt[f], AfterFile(p, f)}, Goto(p, y) PROVE TimeInv'
    <3>1. PICK x : Paperwork(p, x)
      BY <1>0, <1>8, CheckIsPaperwork
    <3>2. x = y
      BY <1>0, <2>3, <3>1 DEF Paperwork, Goto, PairTypeOK
    <3> QED
      BY <1>0, <1>7, <1>8, <2>1, <2>3, <3>1, <3>2, PaperworkKeepsTime
  <2> QED
    BY <1>8, <2>2, <2>3 DEF CheckExisting
<1>9. ASSUME NEW p \in Procs, NEW f \in PairFiles \cup EvalFiles, WriteFile(p, f) PROVE TimeInv'
  <2>1. clock' = clock /\ pc[p] = WriteAt[f]
    BY <1>9 DEF WriteFile
  <2>2. PICK x \in {AfterFile(p, f), "dead"} : Paperwork(p, x)
    BY <1>0, <1>9, WriteIsPaperwork
  <2>3. PICK file \in {Whole(Content(p, f)), Torn} : Put(p, f, file)
    BY <1>9 DEF WriteFile
  <2>4. \A a \in Arms, g \in EvalFiles : evals'[a][g].state = "whole" =>
           \/ evals'[a][g] = evals[a][g]
           \/ pc[p] \in EvalPcs /\ evals'[a][g].body = ev[p]
    <3>1. CASE f \in PairFiles
      BY <1>0, <2>3, <3>1, PutIs
    <3>2. CASE f \in EvalFiles
      <4>1. f \notin PairFiles /\ f # "producer"
        BY <3>2 DEF PairFiles, EvalFiles
      <4>2. file.state = "whole" => file.body = ev[p]
        BY <2>3, <4>1 DEF Whole, Torn, Content
      <4>3. pc[p] \in EvalPcs
        BY <1>0, <2>1, <3>2, FileLocations
      <4> QED
        BY <1>0, <2>3, <3>2, <4>2, <4>3, PutIs
    <3> QED
      BY <3>1, <3>2
  <2>5. x \in EvalPcs => Dated(ev[p].started)'
    <3>1. Goto(p, AfterFile(p, f)) \/ Leave(p, "dead")
      BY <1>9 DEF WriteFile
    <3>2. Goto(p, x) \/ x \notin EvalPcs
      BY <1>0, <1>1, <2>2, <3>1 DEF Paperwork, Goto, Leave, PairTypeOK
    <3> QED
      BY <1>1, <1>7, <1>9, <2>2, <3>2
  <2> QED
    BY <1>0, <2>1, <2>2, <2>4, <2>5, PaperworkKeepsTime
<1>10. ASSUME NEW p \in Procs, Kill(p) PROVE TimeInv'
  BY <1>3, <1>10 DEF Kill, storeVars, Ended
<1>20. ASSUME NEW p \in PairProcs, SealRaises(p) PROVE TimeInv'
  BY <1>0, <1>3, <1>20 DEF SealRaises, storeVars, worldVars
<1>11. CASE Edit \/ UNCHANGED vars
  BY <1>0, <1>11 DEF Edit, vars, procVars, storeVars, worldVars, TimeInv, Stopped, Dated
<1>12. ASSUME NEW p \in PairProcs, NEW a \in Arms, CopyTree(p, a) PROVE TimeInv'
  <2>1. UNCHANGED <<runs, evals, clock>> /\ pc[p] # "done"
    BY <1>12 DEF CopyTree, worldVars, CopyAt, Arms
  <2>2. CASE Leave(p, "raised") /\ UNCHANGED workspace
    BY <1>0, <1>3, <2>1, <2>2
  <2>3. CASE Goto(p, IF a = "A" THEN "copy_B" ELSE "verify")
    BY <1>0, <1>1, <2>1, <2>3 DEF Goto, TimeInv, Stopped, Dated, PairTypeOK
  <2> QED
    BY <1>12, <2>2, <2>3 DEF CopyTree
<1> DEFINE Order(p) == runs[plan[p].order[1]].stop < runs[plan[p].order[2]].stop
\* The steps of the owner: what remains is that no timestamp is used twice.
<1>13. ASSUME NEW p \in PairProcs, pc[p] \in OwnerPcs, NEW x, pc' = [pc EXCEPT ![p] = x], x \notin EvalPcs,
              \A q \in Procs : q # p => ev'[q] = ev[q],
              evals' = evals, \A t \in Nat : Dated(t) => Dated(t)',
              \A a \in Arms : Stopped(a)' => runs'[a].stop < clock',
              x \in {"seal_2"} \cup SealedPcs => Order(p)'
       PROVE  TimeInv'
  <2>1. pc'[p] = x /\ \A q \in Procs : q # p => pc'[q] = pc[q]
    BY <1>0, <1>13 DEF PairTypeOK
  <2>2. \A q \in PairProcs : q # p => pc'[q] \notin OwnerPcs
    BY <1>0, <1>13, <2>1 DEF OwnerInv
  <2>3. (\A q \in PairProcs : pc[q] \in {"seal_2"} \cup SealedPcs => Order(q))'
    BY <1>1, <1>13, <2>1, <2>2
  <2>4. (\A q \in Procs : pc[q] \in EvalPcs => Dated(ev[q].started))'
    <3>1. ASSUME NEW q \in Procs, pc'[q] \in EvalPcs PROVE Dated(ev[q].started)'
      <4>1. q # p /\ Dated(ev[q].started) /\ ev[q].started \in Nat /\ ev'[q] = ev[q]
        BY <1>0, <1>13, <2>1, <3>1 DEF TimeInv, PairTypeOK, Evs
      <4> QED
        BY <1>13, <4>1 DEF Dated
    <3> QED
      BY <3>1
  <2>5. (\A a \in Arms, f \in EvalFiles :
         evals[a][f].state = "whole" => evals[a][f].body \in Evs /\ Dated(evals[a][f].body.started))'
    <3>1. ASSUME NEW a \in Arms, NEW f \in EvalFiles, evals'[a][f].state = "whole"
          PROVE  evals'[a][f].body \in Evs /\ Dated(evals[a][f].body.started)'
      <4>1. evals[a][f].body \in Evs /\ Dated(evals[a][f].body.started)
        BY <1>0, <1>13, <3>1 DEF TimeInv
      <4>2. evals[a][f].body.started \in Nat
        BY <4>1 DEF Evs
      <4> QED
        BY <1>13, <4>1, <4>2 DEF Dated
    <3> QED
      BY <3>1
  <2> QED
    BY <1>13, <2>3, <2>4, <2>5 DEF TimeInv
<1>14. ASSUME NEW p \in PairProcs, Verify(p) PROVE TimeInv'
  <2>1. pc[p] = "verify" /\ UNCHANGED <<workspace, evals, clock>>
    BY <1>14 DEF Verify, worldVars
  <2>2. CASE Leave(p, "raised") /\ UNCHANGED runs
    BY <1>0, <1>3, <2>1, <2>2
  <2>3. CASE Goto(p, "arm_1") /\ \A a \in Arms : runs'[a].state = "open"
    <3>1. \A a \in Arms : ~Stopped(a)'
      BY <2>3 DEF Stopped
    <3>2. \A t \in Nat : Dated(t) => Dated(t)'
      BY <2>1, <3>1 DEF Dated
    <3> QED
      BY <1>1, <1>13, <2>1, <2>3, <3>1, <3>2 DEF Goto
  <2> QED
    BY <1>0, <1>14, <2>2, <2>3, VerifyIs
<1>15. ASSUME NEW p \in PairProcs, RunArm(p) PROVE TimeInv'
  <2>1. pc[p] \in {"arm_1", "arm_2"} /\ evals' = evals
    BY <1>15 DEF RunArm
  <2>2. ArmOf(p) \in Arms /\ \A b \in Arms : b # ArmOf(p) => runs'[b] = runs[b]
    BY <1>0, <1>15, RunArmIs
  <2>3. CASE /\ Leave(p, "raised") /\ clock' = clock
             /\ runs'[ArmOf(p)].state = runs[ArmOf(p)].state /\ runs'[ArmOf(p)].stop = runs[ArmOf(p)].stop
    <3>1. \A b \in Arms : (Stopped(b)' <=> Stopped(b)) /\ runs'[b].stop = runs[b].stop
      BY <2>2, <2>3 DEF Stopped
    <3>2. \A t \in Nat : Dated(t) => Dated(t)'
      BY <2>3, <3>1 DEF Dated
    <3>3. \A a \in Arms : Stopped(a)' => runs'[a].stop < clock'
      BY <1>0, <2>3, <3>1 DEF TimeInv
    <3>4. pc' = [pc EXCEPT ![p] = "raised"] /\ \A q \in Procs : q # p => ev'[q] = ev[q]
      BY <1>0, <2>3 DEF Leave, PairTypeOK
    <3> QED
      BY <1>1, <1>13, <2>1, <3>2, <3>3, <3>4
  <2>4. CASE /\ Goto(p, IF pc[p] = "arm_1" THEN "seal_1" ELSE "seal_2") /\ clock' = clock + 1
             /\ runs'[ArmOf(p)].state = "stopped" /\ runs'[ArmOf(p)].stop = clock
    <3>1. \A b \in Arms : b # ArmOf(p) => (Stopped(b)' <=> Stopped(b)) /\ runs'[b].stop = runs[b].stop
      BY <2>2 DEF Stopped
    <3>2. \A t \in Nat : Dated(t) => Dated(t)'
      BY <1>0, <2>2, <2>4, <3>1 DEF Dated
    <3>3. \A a \in Arms : runs[a].stop \in Nat
      BY <1>0 DEF PairTypeOK, Runs
    <3>4. \A a \in Arms : Stopped(a)' => runs'[a].stop < clock'
      BY <1>0, <2>4, <3>1, <3>3 DEF TimeInv
    <3>5. ASSUME pc[p] = "arm_2" PROVE Order(p)'
      <4>1. ArmOf(p) = plan[p].order[2]
        BY <3>5 DEF ArmOf
      <4>2. plan[p].order[1] \in Arms /\ plan[p].order[1] # plan[p].order[2] /\ plan' = plan
        BY <1>0, <2>4, OrderFacts DEF PairTypeOK, Plans, Goto
      <4>3. Stopped(plan[p].order[1])
        BY <1>0, <3>5 DEF ArmInv, Progress, Stopped
      <4> QED
        BY <1>0, <2>4, <3>1, <4>1, <4>2, <4>3 DEF TimeInv
    <3>6. PICK x \in {"seal_1", "seal_2"} : pc' = [pc EXCEPT ![p] = x] /\ (x = "seal_2" => pc[p] = "arm_2")
      BY <2>1, <2>4 DEF Goto
    <3>7. ev' = ev
      BY <2>4 DEF Goto
    <3>8. x \notin EvalPcs /\ x \notin SealedPcs /\ pc[p] \in OwnerPcs
      BY <1>1, <2>1, <3>6
    <3> QED
      BY <1>13, <2>1, <3>2, <3>4, <3>5, <3>6, <3>7, <3>8
  <2> QED
    BY <1>0, <1>15, <2>3, <2>4, RunArmIs
<1>16. ASSUME NEW p \in PairProcs, SealArm(p) PROVE TimeInv'
  <2>1. pc[p] \in {"seal_1", "seal_2"} /\ evals' = evals /\ clock' = clock /\ ev' = ev /\ plan' = plan
    BY <1>16 DEF SealArm, Goto, worldVars
  <2>2. /\ ArmOf(p) \in Arms
        /\ \A b \in Arms : b # ArmOf(p) => runs'[b] = runs[b]
        /\ runs'[ArmOf(p)].state = "sealed"
        /\ \A b \in Arms : runs'[b].stop = runs[b].stop
    BY <1>0, <1>16, SealArmIs
  <2>3. runs[ArmOf(p)].state = "stopped"
    BY <1>0, <2>1 DEF ArmInv, Progress, ArmOf
  <2>4. \A b \in Arms : Stopped(b)' <=> Stopped(b)
    BY <2>2, <2>3 DEF Stopped
  <2>5. \A t \in Nat : Dated(t) => Dated(t)'
    BY <2>1, <2>2, <2>4 DEF Dated
  <2>6. \A a \in Arms : Stopped(a)' => runs'[a].stop < clock'
    BY <1>0, <2>1, <2>2, <2>4 DEF TimeInv
  <2>7. PICK x \in {"arm_2", "evaluate_A"} : pc' = [pc EXCEPT ![p] = x] /\ (x = "evaluate_A" => pc[p] = "seal_2")
    BY <1>16, <2>1 DEF SealArm, Goto
  <2>8. pc[p] = "seal_2" => Order(p)'
    BY <1>0, <2>1, <2>2, OrderFacts DEF TimeInv, PairTypeOK, Plans
  <2>9. x \notin EvalPcs /\ pc[p] \in OwnerPcs /\ (x \in {"seal_2"} \cup SealedPcs => x = "evaluate_A")
    BY <1>1, <2>1, <2>7
  <2> QED
    BY <1>13, <2>1, <2>5, <2>6, <2>7, <2>8, <2>9
<1> QED
  BY <1>4, <1>5, <1>6, <1>8, <1>9, <1>10, <1>11, <1>12, <1>14, <1>15, <1>16, <1>20
     DEF Next, PairStep, FileStep

-----------------------------------------------------------------------------
(* The files. *)

\* What a step of p must show for FileInv when it leaves pair.json alone.
LEMMA FileFrame ==
  ASSUME PairInv, NEW p \in Procs, pc[p] # "done",
         \A q \in Procs : q # p => pc'[q] = pc[q] /\ plan'[q] = plan[q] /\ ev'[q] = ev[q],
         \A a \in Arms, f \in EvalFiles : evals[a][f].state # "absent" => evals'[a][f].state # "absent",
         Behind(p)', p \in PairProcs => PairBehind(p)',
         pairDir'["pair"] = pairDir["pair"],
         pairDir["pair"].state # "absent" =>
           /\ workspace'["B"] # 0 /\ \A a \in Arms : runs'[a].state = "sealed"
           /\ p \in PairProcs /\ pc'[p] \in OwnerPcs => pc'[p] \in ClosingPcs
  PROVE  FileInv'
<1>0. PairTypeOK /\ FileInv /\ PairProcs \subseteq Procs /\ "A" \in Arms /\ "B" \in Arms
      /\ "manifest" \in EvalFiles /\ "ref" \in EvalFiles
  BY DEF PairInv, Procs, Arms, EvalFiles
<1>1. \A a \in Arms : Present(a) => Present(a)'
  BY DEF Present
<1>2. ASSUME NEW q \in Procs PROVE Behind(q)'
  <2>1. CASE q # p
    <3>1. Behind(q) /\ ev[q].arm \in Arms
      BY <1>0 DEF FileInv, PairTypeOK, Evs
    <3> QED
      BY <1>0, <2>1, <3>1 DEF Behind
  <2> QED
    BY <2>1
<1>3. ASSUME NEW q \in PairProcs PROVE PairBehind(q)'
  <2>1. CASE q # p
    <3>1. PairBehind(q)
      BY <1>0 DEF FileInv
    <3> QED
      BY <1>0, <1>1, <2>1, <3>1 DEF PairBehind
  <2> QED
    BY <2>1
<1>4. pairDir'["pair"].state # "absent" => PairEnded'
  BY <1>0, <1>1 DEF FileInv, PairEnded
<1>5. pairDir'["pair"].state = "whole" => PairByOwner'
  BY <1>0 DEF FileInv, PairByOwner
<1> QED
  BY <1>2, <1>3, <1>4, <1>5 DEF FileInv

\* Passing a file: it was found or has just been written.
LEMMA PassFile ==
  ASSUME PairInv, NEW p \in Procs, NEW f \in PairFiles \cup EvalFiles,
         pc[p] \in {CheckAt[f], WriteAt[f]}, Goto(p, AfterFile(p, f)),
         \A a \in Arms, g \in EvalFiles : evals[a][g].state # "absent" => evals'[a][g].state # "absent",
         f \in EvalFiles => evals'[ev[p].arm][f].state # "absent"
  PROVE  Behind(p)' /\ (p \in PairProcs => PairBehind(p)')
<1>0. /\ Behind(p) /\ (p \in PairProcs => PairBehind(p))
      /\ ev[p].arm \in Arms /\ "A" \in Arms
      /\ pc'[p] = AfterFile(p, f) /\ ev' = ev
  BY DEF PairInv, FileInv, PairTypeOK, Evs, Goto, Procs, Arms
<1>1. \A a \in Arms : Present(a) => Present(a)'
  BY DEF Present
<1>2. CASE f \in {"producer", "plan"}
  BY <1>0, <1>2, AfterFileIs DEF Behind, PairBehind, EvalPcs, FilePcs, FileRefPcs, FileResultPcs, ClosingPcs
<1>3. CASE f = "pair"
  BY <1>0, <1>1, <1>3, AfterFileIs DEF Behind, PairBehind, EvalPcs, FilePcs, FileRefPcs, FileResultPcs,
     ClosingPcs, CheckAt, WriteAt, Arms
<1>4. CASE f = "manifest"
  <2>1. pc[p] \in EvalPcs /\ pc'[p] = "check_ref" /\ f \in EvalFiles
    BY <1>0, <1>4, AfterFileIs DEF CheckAt, WriteAt, EvalPcs, FilePcs, EvalFiles
  <2>2. Behind(p)'
    BY <1>0, <1>4, <2>1 DEF Behind, FileRefPcs, FileResultPcs
  <2>3. p \in PairProcs => PairBehind(p)'
    BY <1>0, <1>1, <2>1 DEF PairBehind, ClosingPcs
  <2> QED
    BY <2>2, <2>3
<1>5. CASE f = "ref"
  <2>1. pc[p] \in FileRefPcs /\ pc[p] \in EvalPcs /\ pc'[p] = "check_result" /\ f \in EvalFiles
        /\ "manifest" \in EvalFiles
    BY <1>0, <1>5, AfterFileIs DEF CheckAt, WriteAt, EvalPcs, FilePcs, FileRefPcs, EvalFiles
  <2>2. Behind(p)'
    BY <1>0, <1>5, <2>1 DEF Behind
  <2>3. p \in PairProcs => PairBehind(p)'
    BY <1>0, <1>1, <2>1 DEF PairBehind, ClosingPcs
  <2> QED
    BY <2>2, <2>3
<1>6. CASE f = "result"
  <2>1. pc[p] \in FileResultPcs /\ pc[p] \in EvalPcs
    BY <1>6 DEF CheckAt, WriteAt, EvalPcs, FilePcs, FileResultPcs
  <2>2. Present(ev[p].arm)'
    BY <1>0, <1>6, <2>1 DEF Behind, Present, EvalFiles
  <2>3. pc'[p] \in {"evaluate_B", "check_pair", "done"}
    BY <1>0, <1>6, AfterFileIs
  <2>4. Behind(p)'
    BY <2>3 DEF Behind, FileRefPcs, FileResultPcs
  <2>5. ASSUME p \in PairProcs PROVE PairBehind(p)'
    <3>1. CASE ev[p].arm = "A"
      BY <1>0, <1>6, <2>2, <2>5, <3>1, AfterFileIs DEF PairBehind, EvalPcs, FilePcs, FileRefPcs, FileResultPcs,
         ClosingPcs
    <3>2. CASE ev[p].arm = "B"
      BY <1>0, <1>1, <1>6, <2>1, <2>2, <2>5, <3>2, AfterFileIs DEF PairBehind, EvalPcs, FilePcs, FileRefPcs,
         FileResultPcs, ClosingPcs
    <3> QED
      BY <1>0, <3>1, <3>2 DEF Arms
  <2> QED
    BY <2>4, <2>5
<1> QED
  BY <1>2, <1>3, <1>4, <1>5, <1>6 DEF PairFiles, EvalFiles

LEMMA FilesStep ==
  ASSUME PairInv, [Next]_vars
  PROVE  FileInv'
<1>0. /\ PairTypeOK /\ OwnerInv /\ ArmInv /\ FileInv /\ PairProcs \subseteq Procs
      /\ pc \in [Procs -> Locations] /\ plan \in [Procs -> Plans] /\ ev \in [Procs -> Evs]
  BY DEF PairInv, Procs, PairTypeOK
<1>1. ASSUME NEW p \in Procs, NEW x, Paperwork(p, x)
      PROVE  /\ pc[p] # "done" /\ pc'[p] = x
             /\ \A q \in Procs : q # p => pc'[q] = pc[q] /\ plan'[q] = plan[q] /\ ev'[q] = ev[q]
             /\ pairDir["pair"].state # "absent" =>
                  /\ workspace'["B"] # 0 /\ \A a \in Arms : runs'[a].state = "sealed"
                  /\ p \in PairProcs /\ pc'[p] \in OwnerPcs => pc[p] \in ClosingPcs
  <2>1. SealedPcs \subseteq OwnerPcs
    BY DEF OwnerPcs, VerifiedPcs
  <2> QED
    BY <1>0, <1>1, <2>1 DEF Paperwork, FileInv, PairEnded
<1>2. ASSUME NEW p \in Procs, NEW x, x \notin EvalPcs, x \notin ClosingPcs, x # "evaluate_B", pc'[p] = x
      PROVE  Behind(p)' /\ PairBehind(p)'
  BY <1>2 DEF Behind, PairBehind, EvalPcs, FilePcs
<1>3. /\ {"raised", "dead", "check_producer"} \cap (EvalPcs \cup ClosingPcs \cup OwnerPcs) = {}
      /\ {"arm_1", "seal_1", "arm_2", "seal_2", "verify", "copy_A", "copy_B", "evaluate_A"}
            \cap (EvalPcs \cup ClosingPcs) = {}
      /\ {"execute", "evaluate_A", "evaluate_B"} \cap ClosingPcs = {}
      /\ {"verify", "arm_1", "seal_1", "arm_2", "seal_2"} \cup EvaluatingPcs \subseteq OwnerPcs
      /\ "copy_A" \notin OwnerPcs /\ "copy_B" \in OwnerPcs
      /\ {"execute", "evaluate_A", "evaluate_B"} \subseteq EvaluatingPcs
  BY DEF OwnerPcs, VerifiedPcs, SealedPcs, EvaluatingPcs, EvalPcs, FilePcs, FileRefPcs, FileResultPcs, ClosingPcs
<1>4. ASSUME NEW p \in Procs, NEW how \in {"raised", "dead"}, pc[p] # "done", Leave(p, how),
             UNCHANGED <<workspace, runs, evals, pairDir>>
      PROVE  FileInv'
  <2>1. Paperwork(p, how)
    BY <1>0, <1>4, LeaveIsPaperwork
  <2> QED
    BY <1>1, <1>2, <1>3, <1>4, <2>1, FileFrame
<1>5. ASSUME NEW p \in PairProcs, Prepare(p) PROVE FileInv'
  <2>1. PICK x : Paperwork(p, x)
    BY <1>0, <1>5, OtherPaperwork
  <2>2. x \in {"raised", "check_producer"} /\ UNCHANGED <<evals, pairDir>>
    BY <1>0, <1>1, <1>5, <2>1 DEF Prepare, Leave, storeVars
  <2> QED
    BY <1>0, <1>1, <1>2, <1>3, <2>1, <2>2, FileFrame
<1>6. ASSUME NEW p \in Procs, Evaluate(p) PROVE FileInv'
  <2>1. /\ pc[p] # "done" /\ UNCHANGED <<workspace, runs, evals, pairDir>>
        /\ pc[p] \notin ClosingPcs
    BY <1>3, <1>6 DEF Evaluate, storeVars, ClosingPcs
  <2>2. CASE Leave(p, "raised")
    BY <1>4, <2>1, <2>2
  <2>3. ASSUME NEW a \in Arms, pc[p] = "evaluate_A" => a = "A",
               ev' = [ev EXCEPT ![p] = [NoEval EXCEPT !.arm = a, !.started = clock]],
               pc' = [pc EXCEPT ![p] = "execute"]
        PROVE  FileInv'
    <3>1. pc'[p] = "execute" /\ ev'[p].arm = a
      BY <1>0, <2>3 DEF NoEval
    <3>2. PICK x : Paperwork(p, x)
      BY <1>0, <1>6, OtherPaperwork
    <3>3. Behind(p)'
      BY <3>1 DEF Behind, FileRefPcs, FileResultPcs
    <3>4. ASSUME p \in PairProcs PROVE PairBehind(p)'
      <4>1. pc[p] \in {"evaluate_A", "evaluate_B"}
        BY <1>6, <3>4, PairAssumption DEF Evaluate
      <4>2. a = "B" => Present("A")
        BY <1>0, <2>3, <3>4, <4>1 DEF FileInv, PairBehind
      <4>3. Present("A") => Present("A")'
        BY <2>1 DEF Present
      <4> QED
        BY <3>1, <4>2, <4>3 DEF PairBehind, ClosingPcs
    <3>5. ~(pairDir["pair"].state # "absent" /\ p \in PairProcs /\ pc'[p] \in OwnerPcs)
      BY <1>1, <2>1, <3>2
    <3> QED
      BY <1>1, <2>1, <3>2, <3>3, <3>4, <3>5, FileFrame
  <2> QED
    BY <1>6, <2>2, <2>3 DEF Evaluate
<1>7. ASSUME NEW p \in Procs, Execute(p) PROVE FileInv'
  <2>1. pc[p] = "execute" /\ UNCHANGED <<workspace, runs, evals, pairDir>>
    BY <1>7 DEF Execute, storeVars
  <2>2. CASE Leave(p, "raised")
    BY <1>4, <2>1, <2>2
  <2>3. CASE ev' = [ev EXCEPT ![p].spec = spec] /\ pc' = [pc EXCEPT ![p] = "check_manifest"]
    <3>1. pc'[p] = "check_manifest" /\ ev'[p].arm = ev[p].arm
      BY <1>0, <2>3 DEF Evs
    <3>2. PICK x : Paperwork(p, x)
      BY <1>0, <1>7, OtherPaperwork
    <3>3. Behind(p)'
      BY <3>1 DEF Behind, FileRefPcs, FileResultPcs
    <3>4. ASSUME p \in PairProcs PROVE PairBehind(p)'
      <4>1. pc[p] \in EvalPcs /\ PairBehind(p)
        BY <1>0, <2>1, <3>4 DEF FileInv, EvalPcs
      <4>2. Present("A") => Present("A")'
        BY <2>1 DEF Present
      <4> QED
        BY <3>1, <4>1, <4>2 DEF PairBehind, ClosingPcs
    <3>5. ~(pairDir["pair"].state # "absent" /\ p \in PairProcs /\ pc'[p] \in OwnerPcs)
      BY <1>1, <1>3, <2>1, <3>2
    <3> QED
      BY <1>1, <2>1, <3>2, <3>3, <3>4, <3>5, FileFrame
  <2> QED
    BY <1>7, <2>2, <2>3 DEF Execute
<1>8. ASSUME NEW p \in Procs, NEW f \in PairFiles \cup EvalFiles, CheckExisting(p, f) PROVE FileInv'
  <2>1. pc[p] = CheckAt[f] /\ pc[p] # "done" /\ UNCHANGED <<workspace, runs, evals, pairDir>>
    BY <1>8, FileMoves DEF CheckExisting, storeVars
  <2>2. CASE Leave(p, "raised")
    BY <1>4, <2>1, <2>2
  <2>3. ASSUME NEW x, Goto(p, x), x \in {WriteAt[f], AfterFile(p, f)},
               Behind(p)', p \in PairProcs => PairBehind(p)'
        PROVE  FileInv'
    <3>1. PICK y : Paperwork(p, y)
      BY <1>0, <1>8, CheckIsPaperwork
    <3>2. pc'[p] = x
      BY <1>0, <2>3 DEF Goto
    <3>3. pc[p] \in ClosingPcs => x \in {"write_pair", "done"}
      BY <2>1, <2>3, FileLocations, AfterFileIs DEF WriteAt
    <3> QED
      BY <1>1, <2>1, <2>3, <3>1, <3>2, <3>3, FileFrame DEF ClosingPcs
  <2>4. CASE Goto(p, WriteAt[f])
    <3>1. pc'[p] = WriteAt[f] /\ ev' = ev /\ evals' = evals
      BY <1>0, <2>1, <2>4 DEF Goto
    <3>2. Behind(p) /\ (p \in PairProcs => PairBehind(p))
      BY <1>0 DEF FileInv
    <3>3. /\ CheckAt[f] \in FileRefPcs <=> WriteAt[f] \in FileRefPcs
          /\ CheckAt[f] \in FileResultPcs <=> WriteAt[f] \in FileResultPcs
          /\ CheckAt[f] \in EvalPcs <=> WriteAt[f] \in EvalPcs
          /\ CheckAt[f] \in ClosingPcs <=> WriteAt[f] \in ClosingPcs
          /\ WriteAt[f] # "evaluate_B"
      BY DEF CheckAt, WriteAt, FileRefPcs, FileResultPcs, EvalPcs, FilePcs, ClosingPcs, PairFiles, EvalFiles
    <3>4. Behind(p)'
      BY <2>1, <3>1, <3>2, <3>3 DEF Behind
    <3>5. p \in PairProcs => PairBehind(p)'
      BY <2>1, <3>1, <3>2, <3>3 DEF PairBehind, Present
    <3> QED
      BY <2>3, <2>4, <3>4, <3>5
  <2>5. CASE OnDisk(p, f) = Whole(Content(p, f)) /\ Goto(p, AfterFile(p, f))
    <3>1. f \in EvalFiles => evals'[ev[p].arm][f].state # "absent"
      BY <2>1, <2>5 DEF OnDisk, Whole, PairFiles, EvalFiles
    <3>2. Behind(p)' /\ (p \in PairProcs => PairBehind(p)')
      BY <2>1, <2>5, <3>1, PassFile
    <3> QED
      BY <2>3, <2>5, <3>2
  <2> QED
    BY <1>8, <2>2, <2>4, <2>5 DEF CheckExisting
<1>9. ASSUME NEW p \in Procs, NEW f \in PairFiles \cup EvalFiles, WriteFile(p, f) PROVE FileInv'
  <2>1. pc[p] = WriteAt[f] /\ UNCHANGED <<workspace, runs>>
    BY <1>9 DEF WriteFile
  <2>2. PICK x \in {AfterFile(p, f), "dead"} : Paperwork(p, x)
    BY <1>0, <1>9, WriteIsPaperwork
  <2>3. PICK file \in {Whole(Content(p, f)), Torn} :
          /\ Put(p, f, file)
          /\ \/ file = Whole(Content(p, f)) /\ Goto(p, AfterFile(p, f))
             \/ file = Torn /\ Leave(p, "dead")
    BY <1>9 DEF WriteFile
  <2>4. file.state # "absent"
    BY <2>3 DEF Whole, Torn
  <2>5. \A a \in Arms, g \in EvalFiles : evals[a][g].state # "absent" => evals'[a][g].state # "absent"
    BY <1>0, <2>3, <2>4, PutIs
  <2>6. Behind(p)' /\ (p \in PairProcs => PairBehind(p)')
    <3>1. CASE Goto(p, AfterFile(p, f))
      BY <1>0, <2>1, <2>3, <2>4, <2>5, <3>1, PassFile, PutIs
    <3>2. CASE Leave(p, "dead")
      BY <1>0, <1>2, <1>3, <3>2 DEF Leave
    <3> QED
      BY <2>3, <3>1, <3>2
  <2>7. CASE f # "pair"
    <3>1. pairDir'["pair"] = pairDir["pair"]
      <4>1. "pair" \in PairFiles /\ pairDir \in [PairFiles -> [state : FileStates, body : Plans \cup {<<>>}]]
        BY <1>0 DEF PairTypeOK, PairFiles
      <4>2. pairDir' = pairDir \/ pairDir' = [pairDir EXCEPT ![f] = file]
        BY <1>0, <2>3, PutIs
      <4> QED
        BY <2>7, <4>1, <4>2
    <3>2. pc[p] \notin ClosingPcs
      BY <2>1, <2>7, FileLocations
    <3> QED
      BY <1>1, <2>2, <2>5, <2>6, <3>1, <3>2, FileFrame
  <2>8. CASE f = "pair"
    <3>1. pc[p] = "write_pair" /\ p \in PairProcs /\ pc'[p] \in {"done", "dead"}
      <4>1. pc[p] = "write_pair"
        BY <2>1, <2>8 DEF WriteAt
      <4>2. p \in PairProcs
        BY <1>0, <4>1 DEF PairTypeOK, Procs, EvalPcs, FilePcs, FileRefPcs, FileResultPcs, Ended
      <4> QED
        BY <1>1, <2>2, <2>8, <4>1, <4>2, AfterFileIs
    <3>2. pc[p] \in ClosingPcs /\ pc[p] \in SealedPcs /\ pc[p] \in OwnerPcs /\ pc[p] # "copy_B"
      BY <3>1 DEF OwnerPcs, VerifiedPcs, SealedPcs, ClosingPcs
    <3>3. \A q \in PairProcs : q # p => pc'[q] \notin OwnerPcs
      BY <1>0, <1>1, <2>2, <3>1, <3>2 DEF OwnerInv
    <3>4. /\ workspace'["B"] # 0
          /\ \A a \in Arms : runs'[a].state = "sealed"
      BY <1>0, <2>1, <3>1, <3>2 DEF OwnerInv, ArmInv, Progress
    <3>5. evals' = evals /\ pairDir' = [pairDir EXCEPT !["pair"] = file] /\ "pair" \in PairFiles
      BY <1>0, <2>3, <2>8, PutIs DEF PairFiles
    <3>6. \A a \in Arms : Present(a)'
      <4>1. Present("A") /\ Present("B")
        BY <1>0, <3>1, <3>2 DEF FileInv, PairBehind
      <4> QED
        BY <3>5, <4>1 DEF Present, Arms
    <3>7. PairEnded'
      BY <1>3, <3>1, <3>3, <3>4, <3>6 DEF PairEnded, ClosingPcs
    <3>8. pairDir'["pair"].state = "whole" => PairByOwner'
      <4>1. pairDir'["pair"] = file
        BY <1>0, <3>5 DEF PairTypeOK
      <4>2. CASE file = Torn
        BY <4>1, <4>2 DEF Torn
      <4>3. CASE file = Whole(Content(p, f)) /\ Goto(p, AfterFile(p, f))
        <5>1. pc'[p] = "done" /\ plan' = plan
          BY <1>0, <2>8, <4>3, AfterFileIs DEF Goto
        <5>2. pairDir'["pair"].body = plan[p]
          BY <2>8, <3>5, <4>1, <4>3 DEF Whole, Content
        <5> QED
          BY <3>1, <5>1, <5>2 DEF PairByOwner
      <4> QED
        BY <2>3, <4>2, <4>3
    <3>9. ASSUME NEW q \in Procs PROVE Behind(q)' /\ (q \in PairProcs => PairBehind(q)')
      <4>1. CASE q # p
        <5>1. Behind(q) /\ (q \in PairProcs => PairBehind(q))
          BY <1>0 DEF FileInv
        <5> QED
          BY <1>1, <2>2, <3>5, <4>1, <5>1 DEF Behind, PairBehind, Present
      <4> QED
        BY <2>6, <4>1
    <3> QED
      BY <1>0, <3>7, <3>8, <3>9 DEF FileInv
  <2> QED
    BY <2>7, <2>8
<1>10. ASSUME NEW p \in Procs, Kill(p) PROVE FileInv'
  BY <1>4, <1>10 DEF Kill, storeVars, Ended
<1>20. ASSUME NEW p \in PairProcs, SealRaises(p) PROVE FileInv'
  BY <1>0, <1>4, <1>20 DEF SealRaises, storeVars
<1>11. CASE Edit \/ UNCHANGED vars
  BY <1>0, <1>11 DEF Edit, vars, procVars, storeVars, FileInv, Behind, PairBehind, PairEnded, PairByOwner, Present
\* The steps of the owner before the evaluations: pair.json is absent.
<1>12. ASSUME NEW p \in PairProcs, NEW x, pc' = [pc EXCEPT ![p] = x], pc[p] # "done",
              \A q \in Procs : q # p => plan'[q] = plan[q] /\ ev'[q] = ev[q],
              x \notin EvalPcs, x \notin ClosingPcs, x # "evaluate_B",
              UNCHANGED <<evals, pairDir>>, pairDir["pair"].state = "absent"
       PROVE  FileInv'
  <2>1. p \in Procs /\ pc'[p] = x /\ \A q \in Procs : q # p => pc'[q] = pc[q]
    BY <1>0, <1>12
  <2> QED
    BY <1>2, <1>12, <2>1, FileFrame
<1>13. ASSUME NEW p \in PairProcs, NEW a \in Arms, CopyTree(p, a) PROVE FileInv'
  <2>1. UNCHANGED <<runs, evals, pairDir>> /\ pc[p] \in {"copy_A", "copy_B"}
    BY <1>13 DEF CopyTree, CopyAt, Arms
  <2>2. CASE Leave(p, "raised") /\ UNCHANGED workspace
    BY <1>0, <1>4, <2>1, <2>2
  <2>3. CASE workspace[a] = 0 /\ Goto(p, IF a = "A" THEN "copy_B" ELSE "verify")
    <3>1. workspace["B"] = 0
      BY <1>0, <1>13, <2>3 DEF OwnerInv, Arms
    <3>2. pairDir["pair"].state = "absent"
      BY <1>0, <3>1 DEF FileInv, PairEnded
    <3> QED
      BY <1>3, <1>12, <2>1, <2>3, <3>2 DEF Goto
  <2> QED
    BY <1>13, <2>2, <2>3 DEF CopyTree
<1>14. ASSUME NEW p \in PairProcs, pc[p] \in {"verify", "arm_1", "seal_1", "arm_2", "seal_2"}
       PROVE  pairDir["pair"].state = "absent"
  BY <1>0, <1>3, <1>14 DEF FileInv, PairEnded
<1>15. ASSUME NEW p \in PairProcs, Verify(p) \/ RunArm(p) \/ SealArm(p) PROVE FileInv'
  <2>1. UNCHANGED <<evals, pairDir>> /\ pc[p] \in {"verify", "arm_1", "seal_1", "arm_2", "seal_2"}
    BY <1>15 DEF Verify, RunArm, SealArm
  <2>2. \E x \in {"raised", "arm_1", "seal_1", "seal_2", "arm_2", "evaluate_A"} : Goto(p, x) \/ Leave(p, x)
    BY <1>15, <2>1 DEF Verify, RunArm, SealArm
  <2>3. PICK x \in {"raised", "arm_1", "seal_1", "seal_2", "arm_2", "evaluate_A"} :
          /\ pc' = [pc EXCEPT ![p] = x]
          /\ \A q \in Procs : q # p => plan'[q] = plan[q] /\ ev'[q] = ev[q]
    BY <1>0, <2>2 DEF Goto, Leave
  <2> QED
    BY <1>3, <1>12, <1>14, <2>1, <2>3
<1> QED
  BY <1>5, <1>6, <1>7, <1>8, <1>9, <1>10, <1>11, <1>13, <1>15, <1>20 DEF Next, PairStep, FileStep

-----------------------------------------------------------------------------
(* Theorems. *)

\* PairInv is inductive.
THEOREM PairInvariance == Spec => []PairInv
<1>1. Init => PairInv
  <2> SUFFICES ASSUME Init PROVE PairInv
    OBVIOUS
  <2>1. \A p \in Procs : pc[p] = "off"
    BY DEF Init
  <2>2. "off" \notin OwnerPcs \cup EvalPcs \cup ClosingPcs \cup VerifiedPcs \cup SealedPcs
    BY DEF OwnerPcs, VerifiedPcs, SealedPcs, EvaluatingPcs, EvalPcs, FilePcs, FileRefPcs, FileResultPcs, ClosingPcs
  <2>3. PairTypeOK
    <3>1. NoPlan \in Plans /\ NoEval \in Evs /\ NoRun \in Runs
      BY DEF NoPlan, NoEval, NoRun, Plans, Evs, Runs, Orders, Arms
    <3>2. Absent \in [state : FileStates, body : Plans \cup {<<>>}]
          /\ Absent \in [state : FileStates, body : Evs \cup {<<>>}]
      BY DEF Absent, FileStates
    <3>3. pc \in [Procs -> Locations] /\ \A p \in EvalProcs : pc[p] \in EvalPcs \cup Ended
      BY <2>1 DEF Init, Locations, Ended, Procs
    <3>4. pairDir \in [PairFiles -> [state : FileStates, body : Plans \cup {<<>>}]]
          /\ evals \in [Arms -> [EvalFiles -> [state : FileStates, body : Evs \cup {<<>>}]]]
      BY <3>2 DEF Init
    <3> QED
      BY <3>1, <3>3, <3>4 DEF Init, PairTypeOK
  <2>4. OwnerInv /\ ArmInv
    BY <2>1, <2>2 DEF Init, OwnerInv, ArmInv, Once, Progress, Stopped, NoRun, Procs, Arms, OwnerPcs, VerifiedPcs
  <2>5. TimeInv
    BY <2>1, <2>2 DEF Init, TimeInv, Stopped, NoRun, Procs, Absent
  <2>6. FileInv
    BY <2>1, <2>2 DEF Init, FileInv, Behind, PairBehind, Procs, Absent, PairFiles, EvalPcs, FilePcs
  <2> QED
    BY <2>3, <2>4, <2>5, <2>6 DEF PairInv
<1>2. PairInv /\ [Next]_vars => PairInv'
  <2> SUFFICES ASSUME PairInv, [Next]_vars PROVE PairInv'
    OBVIOUS
  <2>1. PairTypeOK'
    BY TypeStep DEF PairInv
  <2> QED
    BY <2>1, OwnerStep, ArmStep, TimeStep, FilesStep DEF PairInv
<1> QED
  BY <1>1, <1>2, PTL DEF Spec

\* Under one pair identity each arm is run at most once, both from one version of the
\* source, for any number of commands and kills (run_noop_pair).
THEOREM ArmsOnce == Spec => []ArmsRunOnce
<1>1. PairInv => ArmsRunOnce
  BY DEF PairInv, ArmInv, Once, ArmsRunOnce
<1> QED
  BY <1>1, PairInvariance, PTL

\* pair.json is last: with it, whole or torn, both arms are sealed and evaluated.
THEOREM PairFileIsLast == Spec => []CompletedPairIsWhole
<1>1. PairInv => CompletedPairIsWhole
  BY DEF PairInv, FileInv, PairEnded, Present, CompletedPairIsWhole
<1> QED
  BY <1>1, PairInvariance, PTL

\* A PASS of audit_pair can be trusted after any races, kills and edits.
THEOREM PairPassTrusted == Spec => []PairPassIsTrustworthy
<1>1. PairInv => PairPassIsTrustworthy
  <2> SUFFICES ASSUME PairInv, AuditPairPasses
               PROVE  /\ \A a \in Arms : runs[a].count = 1
                      /\ \E p \in PairProcs :
                           /\ plan[p] = pairDir["plan"].body
                           /\ runs[plan[p].order[1]].stop < runs[plan[p].order[2]].stop
                      /\ \A a, b \in Arms : evals[a]["result"].body.started > runs[b].stop
                      /\ \A a \in Arms : evals[a]["result"].body.spec = pairDir["plan"].body.spec
    BY DEF PairPassIsTrustworthy
  <2>0. PairTypeOK /\ ArmInv /\ TimeInv /\ FileInv
    BY DEF PairInv
  <2>1. \A a \in Arms : Stopped(a)
    BY DEF AuditPairPasses, Stopped
  <2>2. \A a \in Arms : runs[a].count = 1
    BY <2>0, <2>1 DEF ArmInv, Once
  <2>3. pairDir["pair"].state = "whole" /\ pairDir["pair"].body = pairDir["plan"].body
    BY DEF AuditPairPasses, AuditPairManifest, IsWhole, PairFiles
  <2>4. \E p \in PairProcs : /\ plan[p] = pairDir["plan"].body
                             /\ runs[plan[p].order[1]].stop < runs[plan[p].order[2]].stop
    <3>1. PICK p \in PairProcs : pc[p] = "done" /\ plan[p] = pairDir["plan"].body
      BY <2>0, <2>3 DEF FileInv, PairByOwner
    <3>2. "done" \in SealedPcs
      BY DEF SealedPcs, ClosingPcs
    <3> QED
      BY <2>0, <3>1, <3>2 DEF TimeInv
  <2>5. ASSUME NEW a \in Arms
        PROVE  /\ evals[a]["manifest"] = evals[a]["result"] /\ evals[a]["result"].state = "whole"
               /\ evals[a]["manifest"].body.spec = pairDir["plan"].body.spec
               /\ \A b \in Arms : evals[a]["manifest"].body.started >= runs[b].stop
    BY DEF AuditPairPasses, AuditPairManifest, AuditEvaluation, AuditEvaluationProducer, PhaseOrder,
       IsWhole, EvalFiles
  <2>6. ASSUME NEW a \in Arms, NEW b \in Arms PROVE evals[a]["result"].body.started > runs[b].stop
    <3>1. evals[a]["result"].body \in Evs /\ Dated(evals[a]["result"].body.started)
      BY <2>0, <2>5 DEF TimeInv, EvalFiles
    <3>2. evals[a]["result"].body.started \in Nat /\ runs[b].stop \in Nat
      BY <2>0, <3>1 DEF Evs, PairTypeOK, Runs
    <3>3. evals[a]["result"].body.started >= runs[b].stop
      BY <2>5
    <3>4. evals[a]["result"].body.started # runs[b].stop
      BY <2>1, <3>1 DEF Dated
    <3> QED
      BY <3>2, <3>3, <3>4
  <2> QED
    BY <2>2, <2>4, <2>5, <2>6
<1> QED
  BY <1>1, PairInvariance, PTL

-----------------------------------------------------------------------------
(* No false alarm. *)

\* When p is alone after a step, it was before, and the step was its own.
LEMMA AloneBefore ==
  ASSUME PairInv, [Next]_vars, NEW p \in PairProcs, Alone(p)'
  PROVE  /\ Alone(p) /\ UNCHANGED spec
         /\ \/ UNCHANGED vars
            \/ PairStep(p) \/ Evaluate(p) \/ Execute(p) \/ FileStep(p)
<1>0. PairTypeOK /\ PairProcs \subseteq Procs /\ pc \in [Procs -> Locations] /\ faults \in Nat /\ faults' = 0
  BY DEF PairInv, PairTypeOK, Procs, Alone
<1>1. faults = 0 /\ ~Edit /\ \A q \in Procs : ~Kill(q)
  <2>1. ~Edit /\ \A q \in Procs : ~Kill(q)
    BY <1>0 DEF Edit, Kill
  <2>2. faults' = faults \/ faults' = faults + 1
    BY DEF Next, PairStep, FileStep, Prepare, CopyTree, Verify, RunArm, SealArm, SealRaises, Evaluate, Execute,
       CheckExisting, WriteFile, Kill, Edit, vars, worldVars
  <2> QED
    BY <1>0, <2>1, <2>2
<1>2. ASSUME NEW q \in Procs, PairStep(q) \/ Evaluate(q) \/ Execute(q) \/ FileStep(q)
      PROVE  pc'[q] # "off" /\ \A r \in Procs : r # q => pc'[r] = pc[r]
  <2>1. ASSUME NEW x, x # "off", Goto(q, x) \/ Leave(q, x) \/ pc' = [pc EXCEPT ![q] = x]
        PROVE  pc'[q] # "off" /\ \A r \in Procs : r # q => pc'[r] = pc[r]
    BY <1>0, <2>1 DEF Goto, Leave
  <2>2. ASSUME NEW f \in PairFiles \cup EvalFiles PROVE WriteAt[f] # "off" /\ AfterFile(q, f) # "off"
    BY AfterFileIs DEF WriteAt, PairFiles, EvalFiles
  <2>3. CASE PairStep(q)
    BY <2>1, <2>3 DEF PairStep, Prepare, CopyTree, Verify, RunArm, SealArm, SealRaises
  <2>4. CASE Evaluate(q) \/ Execute(q)
    BY <2>1, <2>4 DEF Evaluate, Execute
  <2>5. CASE FileStep(q)
    BY <2>1, <2>2, <2>5 DEF FileStep, CheckExisting, WriteFile
  <2> QED
    BY <1>2, <2>3, <2>4, <2>5
<1>3. spec' = spec
  BY <1>1 DEF Next, PairStep, FileStep, Prepare, CopyTree, Verify, RunArm, SealArm, SealRaises, Evaluate, Execute,
     CheckExisting, WriteFile, vars, worldVars
<1>4. CASE UNCHANGED vars
  BY <1>1, <1>3, <1>4 DEF vars, procVars, Alone
<1>5. ASSUME NEW q \in Procs, PairStep(q) \/ Evaluate(q) \/ Execute(q) \/ FileStep(q)
      PROVE  q = p /\ Alone(p)
  BY <1>0, <1>1, <1>2, <1>5 DEF Alone
<1> QED
  BY <1>0, <1>1, <1>3, <1>4, <1>5 DEF Next

\* Passing a file undisturbed: it has what this command would write.
LEMMA PassUndisturbed ==
  ASSUME PairInv, NEW p \in PairProcs, NEW f \in PairFiles \cup EvalFiles, Undisturbed(p),
         pc[p] \in {CheckAt[f], WriteAt[f]}, Goto(p, AfterFile(p, f)), UNCHANGED <<spec, runs>>,
         \A g \in PairFiles : g # f => pairDir'[g] = pairDir[g],
         f \in PairFiles => pairDir'[f] = Whole(Content(p, f)),
         \A a \in Arms, g \in EvalFiles : <<a, g>> # <<ev[p].arm, f>> => evals'[a][g] = evals[a][g],
         f \in EvalFiles => evals'[ev[p].arm][f] = Whole(Content(p, f))
  PROVE  Undisturbed(p)'
<1>0. /\ ev[p].arm \in Arms /\ Arms = {"A", "B"}
      /\ pc'[p] = AfterFile(p, f) /\ ev' = ev /\ plan' = plan
  BY DEF PairInv, PairTypeOK, Evs, Goto, Procs, Arms
<1>1. ASSUME NEW a \in Arms, Evaluated(a), f \in PairFiles \/ a # ev[p].arm PROVE Evaluated(a)'
  <2>1. \A g \in EvalFiles : evals'[a][g] = evals[a][g]
    BY <1>1 DEF PairFiles, EvalFiles
  <2> QED
    BY <1>1, <2>1 DEF Evaluated, Evaluation, EvalFiles
<1>2. CASE f \in {"producer", "plan"}
  <2>1. pc[p] \in PreparePcs /\ pc'[p] \in {"check_plan", "copy_A"} /\ (f = "plan" <=> pc'[p] = "copy_A")
    BY <1>0, <1>2, AfterFileIs DEF CheckAt, WriteAt, PreparePcs, Procs
  <2>2. f \in PairFiles /\ "producer" \in PairFiles /\ "plan" \in PairFiles
    BY <1>2 DEF PairFiles
  <2>3. pairDir'["producer"].state = "whole"
    <3>1. CASE f = "producer"
      BY <2>2, <3>1 DEF Whole
    <3>2. CASE f = "plan"
      <4>1. pc[p] \in {"check_plan", "write_plan"}
        BY <3>2 DEF CheckAt, WriteAt
      <4> QED
        BY <2>2, <3>2, <4>1 DEF Undisturbed
    <3> QED
      BY <1>2, <3>1, <3>2
  <2>4. f = "plan" => pairDir'["plan"] = Whole(plan[p])
    BY <2>2 DEF Content
  <2>5. pc'[p] \notin OwnerPcs
    BY <2>1 DEF OwnerPcs, VerifiedPcs, SealedPcs, EvaluatingPcs, EvalPcs, FilePcs, FileRefPcs, FileResultPcs, ClosingPcs
  <2>6. EvalPcs \cup ClosingPcs \cup {"evaluate_B", "done"} \subseteq OwnerPcs /\ FilePcs \subseteq EvalPcs
        /\ FileRefPcs \cup FileResultPcs \subseteq FilePcs
    BY DEF OwnerPcs, VerifiedPcs, SealedPcs, EvaluatingPcs, EvalPcs, FilePcs, ClosingPcs
  <2>7. plan[p].spec = spec
    BY <2>1 DEF Undisturbed
  <2> QED
    BY <1>0, <2>1, <2>3, <2>4, <2>5, <2>6, <2>7 DEF Undisturbed
<1>3. CASE f = "pair"
  <2>1. pc[p] \in ClosingPcs /\ pc'[p] = "done" /\ f \in PairFiles /\ "producer" \in PairFiles /\ "plan" \in PairFiles
    BY <1>0, <1>3, AfterFileIs DEF CheckAt, WriteAt, ClosingPcs, PairFiles, Procs
  <2>2. ClosingPcs \subseteq OwnerPcs /\ "done" \in ClosingPcs
    BY DEF OwnerPcs, VerifiedPcs, SealedPcs, ClosingPcs
  <2>3. plan[p].spec = spec /\ pairDir'["producer"].state = "whole" /\ pairDir'["plan"] = Whole(plan[p])
    BY <1>3, <2>1, <2>2 DEF Undisturbed
  <2>4. pairDir'["pair"] = Whole(plan[p])
    BY <1>3, <2>1 DEF Content
  <2>5. Evaluated("A")' /\ Evaluated("B")'
    BY <1>0, <1>1, <2>1 DEF Undisturbed
  <2>6. "done" \notin EvalPcs /\ "done" \notin FilePcs /\ "done" \notin FileRefPcs \cup FileResultPcs
    BY DEF EvalPcs, FilePcs, FileRefPcs, FileResultPcs
  <2> QED
    BY <1>0, <2>1, <2>2, <2>3, <2>4, <2>5, <2>6 DEF Undisturbed
<1>4. CASE f \in EvalFiles
  <2>1. pc[p] \in FilePcs /\ FilePcs \subseteq EvalPcs /\ EvalPcs \subseteq OwnerPcs /\ f \notin PairFiles
    BY <1>4, FileLocations DEF OwnerPcs, VerifiedPcs, SealedPcs, EvaluatingPcs, EvalPcs, PairFiles, EvalFiles, Procs
  <2>2. /\ plan[p].spec = spec /\ pairDir'["producer"].state = "whole" /\ pairDir'["plan"] = Whole(plan[p])
        /\ ev[p].spec = spec /\ \A b \in Arms : ev[p].started >= runs[b].stop
        /\ ev[p].arm = "B" => Evaluated("A")'
    <3>1. "producer" \in PairFiles /\ "plan" \in PairFiles
      BY DEF PairFiles
    <3> QED
      BY <1>0, <1>1, <2>1, <3>1 DEF Undisturbed
  <2>3. evals'[ev[p].arm][f] = Whole(ev[p])
    BY <1>4, <2>1 DEF Content, PairFiles
  <2>4. CASE f = "manifest"
    <3>1. pc'[p] = "check_ref"
      BY <1>0, <2>4, AfterFileIs DEF Procs
    <3> QED
      BY <1>0, <2>2, <2>3, <2>4, <3>1 DEF Undisturbed, OwnerPcs, VerifiedPcs, SealedPcs, EvaluatingPcs,
         EvalPcs, FilePcs, FileRefPcs, FileResultPcs, ClosingPcs
  <2>5. CASE f = "ref"
    <3>1. pc'[p] = "check_result" /\ pc[p] \in FileRefPcs
      BY <1>0, <2>5, AfterFileIs DEF Procs, CheckAt, WriteAt, FileRefPcs
    <3>2. evals'[ev[p].arm]["manifest"] = Whole(ev[p])
      BY <1>0, <2>5, <3>1 DEF Undisturbed, EvalFiles
    <3> QED
      BY <1>0, <2>2, <2>3, <2>5, <3>1, <3>2 DEF Undisturbed, ClosingPcs, FileResultPcs
  <2>6. CASE f = "result"
    <3>1. pc[p] \in FileResultPcs
      BY <2>6 DEF CheckAt, WriteAt, FileResultPcs
    <3>2. evals'[ev[p].arm]["manifest"] = Whole(ev[p]) /\ evals'[ev[p].arm]["ref"] = Whole(ev[p])
      BY <1>0, <2>6, <3>1 DEF Undisturbed, EvalFiles
    <3>3. Evaluated(ev[p].arm)'
      <4>1. Evaluation(ev[p].arm, ev[p])'
        BY <1>0, <2>2 DEF Evaluation
      <4>2. \A g \in EvalFiles : evals'[ev[p].arm][g] = Whole(ev[p])
        BY <2>3, <2>6, <3>2 DEF EvalFiles
      <4>3. "result" \in EvalFiles
        BY DEF EvalFiles
      <4> QED
        BY <1>0, <4>1, <4>2, <4>3 DEF Evaluated, Evaluation, Whole
    <3>4. /\ pc'[p] \in {"evaluate_B", "check_pair"}
          /\ pc'[p] = "evaluate_B" => ev[p].arm = "A"
          /\ pc'[p] = "check_pair" => ev[p].arm = "B"
      BY <1>0, <2>6, AfterFileIs DEF Procs
    <3>5. pc'[p] = "evaluate_B" => Evaluated("A")'
      BY <1>0, <3>3, <3>4
    <3>6. pc'[p] = "check_pair" => Evaluated("A")' /\ Evaluated("B")'
      BY <1>0, <2>2, <3>3, <3>4
    <3>7. /\ {"evaluate_B", "check_pair"} \cap (EvalPcs \cup FilePcs \cup FileRefPcs \cup FileResultPcs \cup {"done"}) = {}
          /\ "evaluate_B" \notin ClosingPcs
      BY DEF EvalPcs, FilePcs, FileRefPcs, FileResultPcs, ClosingPcs
    <3> QED
      BY <1>0, <2>2, <3>4, <3>5, <3>6, <3>7 DEF Undisturbed
  <2> QED
    BY <1>4, <2>4, <2>5, <2>6 DEF EvalFiles
<1> QED
  BY <1>2, <1>3, <1>4 DEF PairFiles

LEMMA AloneStep ==
  ASSUME PairInv, AloneInv, [Next]_vars
  PROVE  AloneInv'
<1> SUFFICES ASSUME NEW p \in PairProcs, Alone(p)' PROVE Undisturbed(p)'
  BY DEF AloneInv
<1>0. /\ PairTypeOK /\ ArmInv /\ TimeInv /\ p \in Procs /\ pc \in [Procs -> Locations]
      /\ Undisturbed(p) /\ UNCHANGED spec /\ faults' = 0 /\ faults = 0
      /\ \/ UNCHANGED vars
         \/ PairStep(p) \/ Evaluate(p) \/ Execute(p) \/ FileStep(p)
  BY AloneBefore DEF PairInv, PairTypeOK, AloneInv, Procs, Alone
<1>1. /\ EvalPcs \cup ClosingPcs \cup {"evaluate_B", "done"} \subseteq OwnerPcs /\ FilePcs \subseteq EvalPcs
      /\ FileRefPcs \cup FileResultPcs \subseteq FilePcs
      /\ {"copy_B", "verify", "arm_1", "seal_1", "arm_2", "seal_2", "evaluate_A", "execute"} \subseteq OwnerPcs
      /\ {"copy_B", "verify", "arm_1", "seal_1", "arm_2", "seal_2", "evaluate_A"}
           \cap (EvalPcs \cup ClosingPcs \cup {"evaluate_B", "done"}) = {}
      /\ "raised" \notin PreparePcs \cup OwnerPcs /\ "check_producer" \notin OwnerPcs
      /\ "copy_A" \in PreparePcs
      /\ "done" \in ClosingPcs
  BY DEF PreparePcs, OwnerPcs, VerifiedPcs, SealedPcs, EvaluatingPcs, EvalPcs, FilePcs, FileRefPcs, FileResultPcs, ClosingPcs
<1>2. ASSUME Leave(p, "raised") PROVE Undisturbed(p)'
  <2>1. pc'[p] = "raised"
    BY <1>0, <1>2 DEF Leave
  <2>2. "raised" \notin {"check_plan", "write_plan", "copy_A"}
    OBVIOUS
  <2> QED
    BY <1>1, <2>1, <2>2 DEF Undisturbed
<1>3. CASE UNCHANGED vars
  BY <1>0, <1>3 DEF vars, procVars, storeVars, worldVars, Undisturbed, Evaluated, Evaluation
<1>4. CASE Prepare(p)
  <2>1. ASSUME NEW order, plan' = [plan EXCEPT ![p] = [order |-> order, source |-> source, spec |-> spec]],
               pc' = [pc EXCEPT ![p] = "check_producer"]
        PROVE  Undisturbed(p)'
    <3>1. pc'[p] = "check_producer" /\ plan'[p].spec = spec
      BY <1>0, <2>1 DEF PairTypeOK
    <3> QED
      BY <1>0, <1>1, <3>1 DEF Undisturbed
  <2> QED
    BY <1>2, <1>4, <2>1 DEF Prepare
\* Copying and running touch no file.
<1>5. ASSUME NEW x \in {"copy_B", "verify", "arm_1", "seal_1", "arm_2", "seal_2", "evaluate_A"},
             Goto(p, x), UNCHANGED pairDir, pc[p] \in OwnerPcs \cup {"copy_A"}
      PROVE  Undisturbed(p)'
  <2>1. pc'[p] = x /\ plan' = plan
    BY <1>0, <1>5 DEF Goto
  <2>2. plan[p].spec = spec /\ pairDir["producer"].state = "whole" /\ pairDir["plan"] = Whole(plan[p])
    BY <1>0, <1>1, <1>5 DEF Undisturbed
  <2> QED
    BY <1>0, <1>1, <1>5, <2>1, <2>2 DEF Undisturbed
<1>6. ASSUME NEW a \in Arms, CopyTree(p, a) PROVE Undisturbed(p)'
  <2>1. pc[p] \in {"copy_A", "copy_B"} /\ UNCHANGED pairDir
    BY <1>6 DEF CopyTree, CopyAt, Arms
  <2>2. Leave(p, "raised") \/ Goto(p, "copy_B") \/ Goto(p, "verify")
    BY <1>6 DEF CopyTree
  <2> QED
    BY <1>1, <1>2, <1>5, <2>1, <2>2
<1>7. CASE Verify(p) \/ RunArm(p) \/ SealArm(p) \/ SealRaises(p)
  <2>1. pc[p] \in {"verify", "arm_1", "seal_1", "arm_2", "seal_2"} /\ UNCHANGED pairDir
    BY <1>7 DEF Verify, RunArm, SealArm, SealRaises, storeVars
  <2>2. \/ Leave(p, "raised")
        \/ \E x \in {"copy_B", "verify", "arm_1", "seal_1", "arm_2", "seal_2", "evaluate_A"} : Goto(p, x)
    BY <1>7 DEF Verify, RunArm, SealArm, SealRaises, storeVars
  <2> QED
    BY <1>1, <1>2, <1>5, <2>1, <2>2
<1>8. CASE Evaluate(p)
  <2>1. pc[p] \in {"evaluate_A", "evaluate_B"} /\ UNCHANGED storeVars
    BY <1>8, PairAssumption DEF Evaluate
  <2>2. ASSUME NEW a \in Arms, pc[p] = "evaluate_A" => a = "A",
               ev' = [ev EXCEPT ![p] = [NoEval EXCEPT !.arm = a, !.started = clock]],
               pc' = [pc EXCEPT ![p] = "execute"], UNCHANGED plan
        PROVE  Undisturbed(p)'
    <3>1. pc'[p] = "execute" /\ ev'[p].arm = a /\ ev'[p].started = clock
      BY <1>0, <2>2 DEF NoEval, PairTypeOK
    <3>2. pc[p] \in SealedPcs /\ pc[p] \in OwnerPcs
      BY <2>1 DEF OwnerPcs, VerifiedPcs, SealedPcs, EvaluatingPcs
    <3>3. \A b \in Arms : runs'[b] = runs[b] /\ runs[b].stop < clock /\ runs[b].stop \in Nat /\ clock \in Nat
      BY <1>0, <2>1, <3>2 DEF ArmInv, Progress, TimeInv, Stopped, PairTypeOK, Runs, storeVars
    <3>4. plan[p].spec = spec /\ pairDir'["producer"].state = "whole" /\ pairDir'["plan"] = Whole(plan[p])
      BY <1>0, <2>1, <3>2 DEF Undisturbed, storeVars
    <3>5. a = "B" => Evaluated("A")'
      <4>1. a = "B" => Evaluated("A")
        BY <1>0, <2>1, <2>2 DEF Undisturbed
      <4> QED
        BY <1>0, <2>1, <4>1 DEF Evaluated, Evaluation, storeVars
    <3>6. "execute" \notin FilePcs /\ "execute" \notin ClosingPcs
      BY DEF FilePcs, FileRefPcs, FileResultPcs, ClosingPcs
    <3>7. \A b \in Arms : ev'[p].started >= runs'[b].stop
      BY <3>1, <3>3
    <3> QED
      BY <1>0, <1>1, <2>2, <3>1, <3>4, <3>5, <3>6, <3>7 DEF Undisturbed
  <2> QED
    BY <1>2, <1>8, <2>2 DEF Evaluate
<1>9. CASE Execute(p)
  <2>1. pc[p] = "execute" /\ UNCHANGED storeVars
    BY <1>9 DEF Execute
  <2>2. CASE ev' = [ev EXCEPT ![p].spec = spec] /\ pc' = [pc EXCEPT ![p] = "check_manifest"] /\ UNCHANGED plan
    <3>1. /\ pc'[p] = "check_manifest"
          /\ ev'[p].arm = ev[p].arm /\ ev'[p].started = ev[p].started /\ ev'[p].spec = spec
      BY <1>0, <2>2 DEF PairTypeOK, Evs
    <3>2. pc[p] \in EvalPcs /\ pc[p] \in OwnerPcs /\ "check_manifest" \in FilePcs
          /\ "check_manifest" \notin FileRefPcs \cup FileResultPcs /\ "check_manifest" \notin ClosingPcs
      BY <1>1, <2>1 DEF EvalPcs, FilePcs, FileRefPcs, FileResultPcs, ClosingPcs
    <3>3. /\ plan[p].spec = spec /\ pairDir'["producer"].state = "whole" /\ pairDir'["plan"] = Whole(plan[p])
          /\ \A b \in Arms : ev'[p].started >= runs'[b].stop
      BY <1>0, <2>1, <3>1, <3>2 DEF Undisturbed, storeVars
    <3>4. ev[p].arm = "B" => Evaluated("A")'
      <4>1. ev[p].arm = "B" => Evaluated("A")
        BY <1>0, <3>2 DEF Undisturbed
      <4> QED
        BY <1>0, <2>1, <4>1 DEF Evaluated, Evaluation, storeVars
    <3> QED
      BY <1>0, <1>1, <2>2, <3>1, <3>2, <3>3, <3>4 DEF Undisturbed
  <2> QED
    BY <1>2, <1>9, <2>2 DEF Execute
<1>10. ASSUME NEW f \in PairFiles \cup EvalFiles, CheckExisting(p, f) PROVE Undisturbed(p)'
  <2>1. pc[p] = CheckAt[f] /\ UNCHANGED storeVars
    BY <1>10 DEF CheckExisting
  <2>2. CASE Goto(p, WriteAt[f])
    <3>1. pc'[p] = WriteAt[f] /\ ev' = ev /\ plan' = plan
      BY <1>0, <2>2 DEF Goto
    <3>2. /\ CheckAt[f] \in FileRefPcs <=> WriteAt[f] \in FileRefPcs
          /\ CheckAt[f] \in FileResultPcs <=> WriteAt[f] \in FileResultPcs
          /\ CheckAt[f] \in FilePcs <=> WriteAt[f] \in FilePcs
          /\ CheckAt[f] \in EvalPcs <=> WriteAt[f] \in EvalPcs
          /\ CheckAt[f] \in ClosingPcs <=> WriteAt[f] \in ClosingPcs
          /\ WriteAt[f] # "evaluate_B" /\ WriteAt[f] # "done" /\ WriteAt[f] # "copy_A"
      BY DEF CheckAt, WriteAt, FileRefPcs, FileResultPcs, EvalPcs, FilePcs, ClosingPcs, PairFiles, EvalFiles
    <3>3. /\ CheckAt[f] \in PreparePcs <=> WriteAt[f] \in PreparePcs
          /\ CheckAt[f] = "check_plan" <=> WriteAt[f] = "write_plan"
          /\ WriteAt[f] # "check_plan"
      BY DEF CheckAt, WriteAt, PreparePcs, PairFiles, EvalFiles
    <3>4. CheckAt[f] \in OwnerPcs <=> WriteAt[f] \in OwnerPcs
      <4>1. CheckAt[f] \in OwnerPcs <=> CheckAt[f] \in EvalPcs \cup ClosingPcs
        BY DEF CheckAt, OwnerPcs, VerifiedPcs, SealedPcs, EvaluatingPcs, PairFiles, EvalFiles
      <4>2. WriteAt[f] \in OwnerPcs <=> WriteAt[f] \in EvalPcs \cup ClosingPcs
        BY DEF WriteAt, OwnerPcs, VerifiedPcs, SealedPcs, EvaluatingPcs, PairFiles, EvalFiles
      <4> QED
        BY <3>2, <4>1, <4>2
    <3>5. \A a \in Arms : Evaluated(a)' <=> Evaluated(a)
      BY <1>0, <2>1 DEF Evaluated, Evaluation, storeVars
    <3> QED
      BY <1>0, <2>1, <3>1, <3>2, <3>3, <3>4, <3>5 DEF Undisturbed, storeVars, Arms
  <2>3. CASE OnDisk(p, f) = Whole(Content(p, f)) /\ Goto(p, AfterFile(p, f))
    <3>1. f \in EvalFiles => f \notin PairFiles
      BY DEF PairFiles, EvalFiles
    <3> QED
      BY <1>0, <2>1, <2>3, <3>1, PassUndisturbed DEF storeVars, OnDisk
  <2> QED
    BY <1>2, <1>10, <2>2, <2>3 DEF CheckExisting
<1>11. ASSUME NEW f \in PairFiles \cup EvalFiles, WriteFile(p, f) PROVE Undisturbed(p)'
  <2>1. /\ pc[p] = WriteAt[f] /\ UNCHANGED runs
        /\ Put(p, f, Whole(Content(p, f))) /\ Goto(p, AfterFile(p, f))
    BY <1>0, <1>11 DEF WriteFile
  <2>2. \A g \in PairFiles : g # f => pairDir'[g] = pairDir[g]
    BY <1>0, <2>1, PutIs DEF PairTypeOK
  <2>3. f \in PairFiles => pairDir'[f] = Whole(Content(p, f))
    BY <1>0, <2>1, PutIs DEF PairTypeOK
  <2>4. \A a \in Arms, g \in EvalFiles : <<a, g>> # <<ev[p].arm, f>> => evals'[a][g] = evals[a][g]
    BY <1>0, <2>1, PutIs
  <2>5. f \in EvalFiles => evals'[ev[p].arm][f] = Whole(Content(p, f))
    BY <1>0, <2>1, PutIs
  <2> QED
    BY <1>0, <2>1, <2>2, <2>3, <2>4, <2>5, PassUndisturbed
<1> QED
  BY <1>0, <1>3, <1>4, <1>6, <1>7, <1>8, <1>9, <1>10, <1>11 DEF PairStep, FileStep

\* A pair that one process completes undisturbed passes its audit: the phase order
\* check of _audit_pair_manifest blocks no honest pair.
THEOREM CleanPairs == Spec => []CleanPairPasses
<1>1. Init => AloneInv
  <2>1. "off" \notin PreparePcs \cup OwnerPcs \cup EvalPcs \cup ClosingPcs
    BY DEF PreparePcs, OwnerPcs, VerifiedPcs, SealedPcs, EvaluatingPcs, EvalPcs, FilePcs, FileRefPcs,
       FileResultPcs, ClosingPcs
  <2> QED
    BY <2>1 DEF Init, AloneInv, Undisturbed, Procs, EvalPcs, FilePcs
<1>2. PairInv /\ AloneInv /\ [Next]_vars => AloneInv'
  BY AloneStep
<1>3. PairInv /\ AloneInv => CleanPairPasses
  <2> SUFFICES ASSUME PairInv, AloneInv, NEW p \in PairProcs, pc[p] = "done", Alone(p)
               PROVE  AuditPairPasses
    BY DEF CleanPairPasses, Alone
  <2>1. Undisturbed(p) /\ Progress(p)
    BY DEF AloneInv, PairInv, ArmInv
  <2>2. "done" \in OwnerPcs /\ "done" \in ClosingPcs /\ "done" \in SealedPcs /\ "done" \in VerifiedPcs
    BY DEF OwnerPcs, VerifiedPcs, SealedPcs, ClosingPcs
  <2>3. \A a \in Arms : runs[a].state = "sealed" /\ runs[a].initial = plan[p].source
    BY <2>1, <2>2 DEF Progress
  <2>4. /\ pairDir["producer"].state = "whole" /\ pairDir["plan"] = Whole(plan[p])
        /\ pairDir["pair"] = Whole(plan[p]) /\ plan[p].spec = spec
    BY <2>1, <2>2 DEF Undisturbed
  <2>5. \A a \in Arms : Evaluated(a)
    BY <2>1, <2>2 DEF Undisturbed, Arms
  <2>6. \A f \in PairFiles : IsWhole(pairDir[f])
    BY <2>4 DEF IsWhole, PairFiles, Whole
  <2>7. \A a \in Arms : AuditEvaluation(a)
    BY <2>3, <2>5 DEF AuditEvaluation, AuditEvaluationProducer, Evaluated, Evaluation, IsWhole
  <2>8. pairDir["plan"].body = plan[p] /\ pairDir["pair"].body = plan[p]
    BY <2>4 DEF Whole
  <2>9. PhaseOrder(plan[p])
    BY <2>4, <2>5 DEF PhaseOrder, Evaluated, Evaluation, EvalFiles
  <2> QED
    BY <2>3, <2>6, <2>7, <2>8, <2>9 DEF AuditPairPasses, AuditPairManifest
<1> QED
  BY <1>1, <1>2, <1>3, PairInvariance, PTL DEF Spec

=============================================================================
