------------------------------ MODULE NoopPair ------------------------------
(***************************************************************************)
(* The noop A/A pair (src/src/acr/experiment.py), the evaluator it calls   *)
(* (evaluation.py) and the commands around them (cli.py): a pair is        *)
(* prepared, both workspaces are copied, two arms run one after the other, *)
(* each is evaluated once both are sealed, and pair.json comes last.  The  *)
(* pair command may be started several times for one pair identity, also   *)
(* concurrently, an operator may run evaluate-add on a sealed arm at any   *)
(* time, any process may be killed, also while it writes a file, and the   *)
(* source tree and the private specification may be edited.  An arm is the *)
(* run of CapturedRun, reduced to its start, its run_stop event and its    *)
(* seal; PairAudit is the audit of the pair.                               *)
(***************************************************************************)
EXTENDS Integers, FiniteSets

CONSTANTS
  PairProcs,  \* pair-noop-deepseek processes for one pair identity
  EvalProcs,  \* evaluate-add processes
  MaxFaults   \* kills of a process, edits of the source tree or of the specification

ASSUME PairAssumption ==
  /\ IsFiniteSet(PairProcs) /\ IsFiniteSet(EvalProcs) /\ PairProcs \cap EvalProcs = {}
  /\ MaxFaults \in Nat

Procs == PairProcs \cup EvalProcs
Arms == {"A", "B"}
Orders == {<<"A", "B">>, <<"B", "A">>}
PairFiles == {"producer", "plan", "pair"}      \* pairs/<pair_id>
EvalFiles == {"manifest", "ref", "result"}     \* evaluations/<run_id>

VARIABLES
  pc,         \* per process
  plan,       \* per process: order, frozen source and specification
  ev,         \* per process: the evaluation it is performing
  pairDir,    \* the pair's files
  evals,      \* per arm: its evaluation's files
  workspace,  \* per arm: absent (0) or the source version copied into it
  runs,       \* runs/<arm>
  source, spec,   \* current versions
  faults,
  clock       \* wall clock, advancing between timestamps

procVars == <<pc, plan, ev>>
storeVars == <<pairDir, evals, workspace, runs>>
worldVars == <<source, spec, faults, clock>>
vars == <<procVars, storeVars, worldVars>>

Absent == [state |-> "absent", body |-> <<>>]
Torn == [state |-> "torn", body |-> <<>>]
Whole(body) == [state |-> "whole", body |-> body]
NoPlan == [order |-> <<"A", "B">>, source |-> 0, spec |-> 0]
NoEval == [arm |-> "A", started |-> 0, spec |-> 0]
NoRun == [state |-> "none", initial |-> 0, stop |-> 0, count |-> 0]
Ended == {"off", "done", "raised", "dead"}

Init ==
  /\ pc = [p \in Procs |-> "off"]
  /\ plan = [p \in Procs |-> NoPlan] /\ ev = [p \in Procs |-> NoEval]
  /\ pairDir = [f \in PairFiles |-> Absent]
  /\ evals = [a \in Arms |-> [f \in EvalFiles |-> Absent]]
  /\ workspace = [a \in Arms |-> 0] /\ runs = [a \in Arms |-> NoRun]
  /\ source = 1 /\ spec = 1 /\ faults = 0 /\ clock = 0

Goto(p, where) == pc' = [pc EXCEPT ![p] = where] /\ UNCHANGED <<plan, ev>>

\* An exception out of the command, or the death of the process: its memory is gone.
Leave(p, how) ==
  /\ pc' = [pc EXCEPT ![p] = how]
  /\ plan' = [plan EXCEPT ![p] = NoPlan] /\ ev' = [ev EXCEPT ![p] = NoEval]

-----------------------------------------------------------------------------
(* persist_pair_json and persist_evaluation_json over _write_once            *)

CheckAt == [producer |-> "check_producer", plan |-> "check_plan", pair |-> "check_pair",
            manifest |-> "check_manifest", ref |-> "check_ref", result |-> "check_result"]
WriteAt == [producer |-> "write_producer", plan |-> "write_plan", pair |-> "write_pair",
            manifest |-> "write_manifest", ref |-> "write_ref", result |-> "write_result"]

\* The producer names the harness; every other file of the pair binds the plan, every
\* file of an evaluation the invocation that wrote it.
Content(p, f) == IF f = "producer" THEN NoPlan ELSE IF f \in PairFiles THEN plan[p] ELSE ev[p]
OnDisk(p, f) == IF f \in PairFiles THEN pairDir[f] ELSE evals[ev[p].arm][f]
Put(p, f, file) ==
  IF f \in PairFiles THEN pairDir' = [pairDir EXCEPT ![f] = file] /\ UNCHANGED evals
  ELSE evals' = [evals EXCEPT ![ev[p].arm][f] = file] /\ UNCHANGED pairDir

\* Variant: pair.json is written between the two evaluations.
AfterFileEarly(p, f) ==
  CASE f = "producer" -> "check_plan"
    [] f = "plan" -> "copy_A"
    [] f = "manifest" -> "check_ref"
    [] f = "ref" -> "check_result"
    [] f = "result" /\ p \in PairProcs /\ ev[p].arm = "A" -> "check_pair"
    [] f = "pair" /\ p \in PairProcs /\ ev[p].arm = "A" -> "evaluate_B"
    [] OTHER -> "done"

\* What follows a file: evaluate-add ends with the result, the pair goes on to the
\* other arm and to pair.json.
AfterFile(p, f) ==
  CASE f = "producer" -> "check_plan"
    [] f = "plan" -> "copy_A"
    [] f = "manifest" -> "check_ref"
    [] f = "ref" -> "check_result"
    [] f = "result" /\ p \in PairProcs -> IF ev[p].arm = "A" THEN "evaluate_B" ELSE "check_pair"
    [] OTHER -> "done"

\* First half of _write_once: compare what exists ...
CheckExisting(p, f) ==
  /\ pc[p] = CheckAt[f]
  /\ \/ OnDisk(p, f) = Absent /\ Goto(p, WriteAt[f])
     \/ OnDisk(p, f) = Whole(Content(p, f)) /\ Goto(p, AfterFile(p, f))
     \/ OnDisk(p, f) \notin {Absent, Whole(Content(p, f))} /\ Leave(p, "raised")
  /\ UNCHANGED <<storeVars, worldVars>>

\* ... second half: write in place what was absent a moment ago, perhaps in part.
WriteFile(p, f) ==
  /\ pc[p] = WriteAt[f]
  /\ \/ Put(p, f, Whole(Content(p, f))) /\ Goto(p, AfterFile(p, f)) /\ UNCHANGED faults
     \/ /\ faults < MaxFaults /\ faults' = faults + 1
        /\ Put(p, f, Torn) /\ Leave(p, "dead")
  /\ UNCHANGED <<workspace, runs, source, spec, clock>>

-----------------------------------------------------------------------------
(* prepare_noop_pair and run_noop_pair *)

\* The command checks its inputs, hashes the specification and the source tree,
\* and refuses when a workspace of this pair exists.
Prepare(p) ==
  /\ pc[p] = "off"
  /\ \/ /\ \A a \in Arms : workspace[a] = 0
        /\ \E order \in Orders :
             plan' = [plan EXCEPT ![p] = [order |-> order, source |-> source, spec |-> spec]]
        /\ pc' = [pc EXCEPT ![p] = "check_producer"]
        /\ UNCHANGED ev
     \/ (\E a \in Arms : workspace[a] # 0) /\ Leave(p, "raised")
  /\ UNCHANGED <<storeVars, worldVars>>

CopyAt == [A |-> "copy_A", B |-> "copy_B"]

\* Variant: copying into an existing directory is allowed.
CopyTreeAnyway(p, a) ==
  /\ pc[p] = CopyAt[a]
  /\ workspace' = [workspace EXCEPT ![a] = source]
  /\ Goto(p, IF a = "A" THEN "copy_B" ELSE "verify")
  /\ UNCHANGED <<pairDir, evals, runs, worldVars>>

\* shutil.copytree creates the directory itself and raises when it exists.  All
\* commands of the pair are given one --workspace-root (cli.py line 87): with two
\* roots no mkdir would come between them.
CopyTree(p, a) ==
  /\ pc[p] = CopyAt[a]
  /\ \/ /\ workspace[a] = 0
        /\ workspace' = [workspace EXCEPT ![a] = source]
        /\ Goto(p, IF a = "A" THEN "copy_B" ELSE "verify")
     \/ workspace[a] # 0 /\ Leave(p, "raised") /\ UNCHANGED workspace
  /\ UNCHANGED <<pairDir, evals, runs, worldVars>>

\* Both copies must hash to the frozen source; the runtimes are then constructed
\* for both arms, which fixes their initial states.
Verify(p) ==
  /\ pc[p] = "verify"
  /\ \/ /\ \A a \in Arms : workspace[a] = plan[p].source
        /\ runs' = [a \in Arms |-> [runs[a] EXCEPT !.state = "open", !.initial = workspace[a]]]
        /\ Goto(p, "arm_1")
     \/ (\E a \in Arms : workspace[a] # plan[p].source) /\ Leave(p, "raised") /\ UNCHANGED runs
  /\ UNCHANGED <<pairDir, evals, workspace, worldVars>>

ArmOf(p) == plan[p].order[IF pc[p] \in {"arm_1", "seal_1"} THEN 1 ELSE 2]

\* One arm up to its run_stop event, or an exception from a tool or the provider.
RunArm(p) ==
  /\ pc[p] \in {"arm_1", "arm_2"}
  /\ \/ /\ runs' = [runs EXCEPT ![ArmOf(p)].state = "stopped", ![ArmOf(p)].stop = clock,
                                ![ArmOf(p)].count = @ + 1]
        /\ clock' = clock + 1
        /\ Goto(p, IF pc[p] = "arm_1" THEN "seal_1" ELSE "seal_2")
     \/ /\ runs' = [runs EXCEPT ![ArmOf(p)].count = @ + 1]
        /\ Leave(p, "raised")
        /\ UNCHANGED clock
  /\ UNCHANGED <<pairDir, evals, workspace, source, spec, faults>>

\* The rest of seal, which RunAudit examines.
SealArm(p) ==
  /\ pc[p] \in {"seal_1", "seal_2"}
  /\ runs' = [runs EXCEPT ![ArmOf(p)].state = "sealed"]
  /\ Goto(p, IF pc[p] = "seal_1" THEN "arm_2" ELSE "evaluate_A")
  /\ UNCHANGED <<pairDir, evals, workspace, worldVars>>

\* seal raises after the run_stop event: an artifact differs or cannot be written.
SealRaises(p) ==
  /\ pc[p] \in {"seal_1", "seal_2"}
  /\ Leave(p, "raised")
  /\ UNCHANGED <<storeVars, worldVars>>

-----------------------------------------------------------------------------
(* LocalAddEvaluator.evaluate *)

\* evaluate-add picks an arm; both callers need a sealed run and the revision of a
\* clean repository, which may fail.  The start is attested next.
Evaluate(p) ==
  /\ \/ pc[p] = "off" /\ p \in EvalProcs
     \/ pc[p] \in {"evaluate_A", "evaluate_B"}
  /\ \/ \E a \in Arms :
          /\ pc[p] = "evaluate_A" => a = "A"
          /\ pc[p] = "evaluate_B" => a = "B"
          /\ runs[a].state = "sealed"
          /\ ev' = [ev EXCEPT ![p] = [NoEval EXCEPT !.arm = a, !.started = clock]]
          /\ clock' = clock + 1
          /\ pc' = [pc EXCEPT ![p] = "execute"]
          /\ UNCHANGED plan
     \/ Leave(p, "raised") /\ UNCHANGED clock
  /\ UNCHANGED <<storeVars, source, spec, faults>>

\* Variant: executing the cases loses the attested start.
ExecuteResets(p) ==
  /\ pc[p] = "execute"
  /\ ev' = [ev EXCEPT ![p].spec = spec, ![p].started = 0]
  /\ pc' = [pc EXCEPT ![p] = "check_manifest"]
  /\ UNCHANGED <<plan, storeVars, worldVars>>

\* The specification is read and the cases run on the sealed files, which may not be
\* materialised (an exception); an infrastructure error is a result like another.
Execute(p) ==
  /\ pc[p] = "execute"
  /\ \/ /\ ev' = [ev EXCEPT ![p].spec = spec]
        /\ pc' = [pc EXCEPT ![p] = "check_manifest"]
        /\ UNCHANGED plan
     \/ Leave(p, "raised")
  /\ UNCHANGED <<storeVars, worldVars>>

-----------------------------------------------------------------------------
(* The environment *)

Kill(p) ==
  /\ pc[p] \notin Ended /\ faults < MaxFaults
  /\ faults' = faults + 1
  /\ Leave(p, "dead")
  /\ UNCHANGED <<storeVars, source, spec, clock>>

Edit ==
  /\ faults < MaxFaults
  /\ faults' = faults + 1
  /\ \/ source' = source + 1 /\ UNCHANGED spec
     \/ spec' = spec + 1 /\ UNCHANGED source
  /\ UNCHANGED <<procVars, storeVars, clock>>

PairStep(p) ==
  \/ Prepare(p) \/ (\E a \in Arms : CopyTree(p, a)) \/ Verify(p)
  \/ RunArm(p) \/ SealArm(p) \/ SealRaises(p)
FileStep(p) == \E f \in PairFiles \cup EvalFiles : CheckExisting(p, f) \/ WriteFile(p, f)

Next ==
  \/ \E p \in PairProcs : PairStep(p)
  \/ \E p \in Procs : Evaluate(p) \/ Execute(p) \/ FileStep(p) \/ Kill(p)
  \/ Edit

Spec == Init /\ [][Next]_vars

-----------------------------------------------------------------------------
(* Properties *)

\* Under one pair identity each arm is run at most once, and both from one version of
\* the source, however often and concurrently the command is started or killed
\* ("exactly two independent fresh noop arms", run_noop_pair).
ArmsRunOnce ==
  \A a \in Arms :
    /\ runs[a].count <= 1
    /\ runs[a].count = 1 => \A b \in Arms : runs[b].initial = workspace[a]

\* A completed pair on disk means both arms sealed and both evaluated, even when
\* commands race with the harness for the evaluation files or a process dies between
\* any two of its files (pair.json is written last).
CompletedPairIsWhole ==
  pairDir["pair"].state # "absent" =>
    \A a \in Arms : /\ runs[a].state = "sealed"
                    /\ \A f \in EvalFiles : evals[a][f].state # "absent"
=============================================================================
