----------------------------- MODULE DemoRawProofs -----------------------------
(***************************************************************************)
(* Proofs about DemoRaw for any number of overlapping hooks, any           *)
(* transcript and any kills: what the files hold once a hook has run       *)
(* alone, what the detector's hits say, and that marks are kept.           *)
(***************************************************************************)
EXTENDS DemoRaw, FiniteSetTheorems, WellFoundedInduction, TLAPS

(* The files *)

\* The points of a hook process.
Points == {"off", "update", "copy", "replace", "read", "normalize", "steps", "hits", "finish"}
Snaps == [lines : Nat, torn : BOOLEAN]
Metas == [ended : BOOLEAN, snap : Snaps]

HookType ==
  /\ written \in Nat /\ tail \in BOOLEAN
  /\ pc \in [Slots -> Points] /\ copy \in [Slots -> Snaps] /\ meta \in [Slots -> Metas]
  /\ source \in Snaps /\ metadata \in Metas
  /\ lone \in [Slots -> BOOLEAN] /\ healed \in Snaps /\ endAlone \in BOOLEAN

\* A hook is called alone only while it is the one that runs, and the last result of a
\* lone hook stands only while none runs.
AloneInv ==
  /\ \A s, t \in Slots : lone[s] /\ t # s => pc[t] = "off"
  /\ \A s \in Slots : lone[s] => pc[s] # "off"
  /\ healed # NoSnap => \A t \in Slots : pc[t] = "off"

\* What a lone hook has already made of the files.
ProgressInv ==
  \A s \in Slots : lone[s] =>
    /\ pc[s] \in {"read", "normalize", "steps", "hits", "finish"} => source = copy[s]
    /\ pc[s] \in {"hits", "finish"} => steps = copy[s]
    /\ pc[s] = "finish" => hits = copy[s]

\* Nobody still holds metadata from before the end of the session.
EndInv ==
  endAlone =>
    /\ metadata.ended
    /\ \A s \in Slots : pc[s] \in {"update", "steps", "hits", "finish"} => meta[s].ended

FilesInv == HookType /\ AloneInv /\ ProgressInv /\ LoneHookHeals /\ EndInv

\* A hook that gives up or is killed leaves the files as they are.
LEMMA LeaveKeeps ==
  ASSUME FilesInv, NEW s \in Slots, pc[s] # "off", Leave(s), UNCHANGED claudeVars,
         UNCHANGED fileVars
  PROVE  FilesInv'
<1> USE DEF FilesInv, Points, Snaps, Metas, NoSnap, NoMeta, Leave, Goto, claudeVars, fileVars
<1>1. HookType'
  BY DEF HookType
<1>2. AloneInv' /\ ProgressInv'
  BY DEF HookType, AloneInv, ProgressInv
<1>3. LoneHookHeals' /\ EndInv'
  BY DEF HookType, LoneHookHeals, EndInv
<1> QED
  BY <1>1, <1>2, <1>3

\* FilesInv is inductive: one step per step of observe_demo_raw_hook and
\* finalize_demo_raw_session.
THEOREM FilesInvariance == Spec => []FilesInv
<1> USE DEF Points, Snaps, Metas, NoSnap, NoMeta
<1>1. Init => FilesInv
  <2> SUFFICES ASSUME Init PROVE FilesInv
    OBVIOUS
  <2>1. HookType
    <3>1. NoSnap \in Snaps /\ NoMeta \in Metas
      OBVIOUS
    <3> QED
      BY <3>1 DEF Init, HookType
  <2>2. AloneInv /\ ProgressInv /\ LoneHookHeals /\ EndInv
    BY DEF Init, AloneInv, ProgressInv, LoneHookHeals, EndInv
  <2> QED
    BY <2>1, <2>2 DEF FilesInv
<1>2. FilesInv /\ [Next]_vars => FilesInv'
  <2> SUFFICES ASSUME FilesInv, [Next]_vars PROVE FilesInv'
    OBVIOUS
  <2> USE DEF FilesInv, HookType, AloneInv, ProgressInv, LoneHookHeals, EndInv,
              Goto, Leave, claudeVars, hookVars, fileVars, ghostVars, Transcript
  <2>1. CASE ClaudeWrites
    <3>1. written' \in {written, written + 1} /\ tail' \in {TRUE, FALSE}
      BY <2>1, Zenon DEF ClaudeWrites
    <3>2. UNCHANGED <<pc, copy, meta, source, steps, hits, metadata, lone, healed, endAlone>>
      BY <2>1 DEF ClaudeWrites
    <3>3. written' \in Nat
      BY <3>1
    <3>4. tail' \in BOOLEAN
      BY <3>1, Zenon
    <3> QED
      BY <3>2, <3>3, <3>4
  <2>2. ASSUME NEW s \in Slots, Observe(s) PROVE FilesInv'
    <3>1. PICK ended \in BOOLEAN : meta' = [meta EXCEPT ![s] =
            [ended |-> metadata.ended \/ ended, snap |-> metadata.snap]]
      BY <2>2 DEF Observe
    <3>2. HookType'
      BY <2>2, <3>1 DEF Observe
    <3>3. AloneInv' /\ ProgressInv' /\ LoneHookHeals'
      BY <2>2 DEF Observe, Active
    <3>4. EndInv'
      BY <2>2, <3>1 DEF Observe
    <3> QED
      BY <3>2, <3>3, <3>4
  <2>3. ASSUME NEW s \in Slots, UpdateMetadata(s) PROVE FilesInv'
    BY <2>3 DEF UpdateMetadata
  <2>4. ASSUME NEW s \in Slots, CopyTranscript(s) PROVE FilesInv'
    <3>1. CASE Leave(s)
      BY <2>4, <3>1, LeaveKeeps DEF CopyTranscript
    <3>2. CASE ~Leave(s)
      <4>1. copy' = [copy EXCEPT ![s] = Transcript] /\ UNCHANGED meta
        BY <2>4, <3>2 DEF CopyTranscript
      <4>2. pc[s] = "copy" /\ pc' = [pc EXCEPT ![s] = "replace"]
        BY <2>4, <3>2 DEF CopyTranscript
      <4>3. UNCHANGED <<written, tail, source, steps, hits, metadata, lone, healed, endAlone>>
        BY <2>4, <3>2 DEF CopyTranscript
      <4> QED
        BY <4>1, <4>2, <4>3
    <3> QED
      BY <3>1, <3>2
  <2>5. ASSUME NEW s \in Slots, ReplaceSource(s) PROVE FilesInv'
    BY <2>5 DEF ReplaceSource
  <2>6. ASSUME NEW s \in Slots, ReadSource(s) PROVE FilesInv'
    BY <2>6 DEF ReadSource
  <2>7. ASSUME NEW s \in Slots, Normalize(s) PROVE FilesInv'
    <3>1. CASE Leave(s)
      BY <2>7, <3>1, LeaveKeeps DEF Normalize
    <3>2. CASE ~Leave(s)
      <4>1. meta' = [meta EXCEPT ![s] = metadata] /\ UNCHANGED copy
        BY <2>7, <3>2 DEF Normalize
      <4>2. pc[s] = "normalize" /\ pc' = [pc EXCEPT ![s] = "steps"]
        BY <2>7, <3>2 DEF Normalize
      <4>3. UNCHANGED <<written, tail, source, steps, hits, metadata, lone, healed, endAlone>>
        BY <2>7, <3>2 DEF Normalize
      <4> QED
        BY <4>1, <4>2, <4>3
    <3> QED
      BY <3>1, <3>2
  <2>8. ASSUME NEW s \in Slots, WriteSteps(s) PROVE FilesInv'
    BY <2>8 DEF WriteSteps
  <2>9. ASSUME NEW s \in Slots, WriteHits(s) PROVE FilesInv'
    BY <2>9 DEF WriteHits
  <2>10. ASSUME NEW s \in Slots, WriteMetadata(s) PROVE FilesInv'
    BY <2>10 DEF WriteMetadata, Finished
  <2>11. ASSUME NEW s \in Slots, Kill(s) PROVE FilesInv'
    BY <2>11, LeaveKeeps DEF Kill
  <2>12. CASE UNCHANGED vars
    BY <2>12 DEF vars
  <2> QED
    BY <2>1, <2>2, <2>3, <2>4, <2>5, <2>6, <2>7, <2>8, <2>9, <2>10, <2>11, <2>12 DEF Next
<1> QED
  BY <1>1, <1>2, PTL DEF Spec

\* A hook that runs alone repairs the capture, whatever came before it.
THEOREM LoneHooksHeal == Spec => []LoneHookHeals
  BY FilesInvariance, PTL DEF FilesInv

\* Once a hook that knows of the session's end has finished alone, ended_at stays.
THEOREM EndStays == Spec => []EndIsKept
<1>1. FilesInv => EndIsKept
  BY DEF FilesInv, EndInv, EndIsKept
<1> QED
  BY <1>1, FilesInvariance, PTL

(* Induction over positions, and loops *)

\* A set of numbers has a least one, from the well-foundedness of strict inclusion on
\* finite sets: n stands for 0..n.
LEMMA LeastNumber ==
  ASSUME NEW T \in SUBSET Nat, T # {}
  PROVE  \E x \in T : \A y \in T : x <= y
<1> DEFINE Family == {0..n : n \in T}
<1>1. Family \subseteq FiniteSubsetsOf(Nat)
  <2>1. \A n \in T : (0..n) \subseteq Nat /\ IsFiniteSet(0..n)
    BY FS_Interval
  <2> QED
    BY <2>1, Zenon DEF FiniteSubsetsOf
<1>2. Family # {}
  BY Zenon
<1>3. IsWellFoundedOn(StrictSubsetOrdering(Nat), FiniteSubsetsOf(Nat))
  BY FS_StrictSubsetOrderingWellFounded, Zenon
<1>4. PICK X \in Family : \A Y \in Family : <<Y, X>> \notin StrictSubsetOrdering(Nat)
  <2> HIDE DEF Family
  <2> QED
    BY <1>1, <1>2, <1>3, WFMin, Zenon
<1>5. PICK x \in T : X = 0..x
  BY <1>4, Zenon
<1>6. ASSUME NEW y \in T, ~(x <= y) PROVE FALSE
  <2>1. y \in Nat /\ x \in Nat /\ y < x
    BY <1>6
  <2>2. x \in 0..x /\ x \notin 0..y
    BY <2>1
  <2>3. /\ (0..y) \subseteq (0..x) /\ (0..y) # (0..x)
        /\ (0..y) \in SUBSET Nat /\ (0..x) \in SUBSET Nat
    BY <2>1, <2>2
  <2>4. <<0..y, 0..x>> \in StrictSubsetOrdering(Nat)
    BY <2>3, Zenon DEF StrictSubsetOrdering
  <2> QED
    BY <2>4, <1>4, <1>5, Zenon
<1> QED
  BY <1>6, Zenon

\* Induction over the positions of a sequence, with the set of positions a fact holds of
\* in place of the fact.
LEMMA PositionInduction ==
  ASSUME NEW N \in Nat, NEW P, 0 \in P, \A n \in 1..N : n - 1 \in P => n \in P
  PROVE  \A n \in 0..N : n \in P
<1> SUFFICES ASSUME NEW k \in 0..N, k \notin P PROVE FALSE
  OBVIOUS
<1> DEFINE T == {n \in 0..N : n \notin P}
<1>1. T \in SUBSET Nat /\ T # {}
  OBVIOUS
<1>2. PICK m \in T : \A y \in T : m <= y
  <2> HIDE DEF T
  <2> QED
    BY <1>1, LeastNumber
<1>3. m \in 1..N /\ m - 1 \in 0..N
  BY <1>2
<1>4. m - 1 \in P
  BY <1>2, <1>3
<1> QED
  BY <1>2, <1>3, <1>4

\* g has what a loop of N rounds has computed after each of them.
IsLoop(g, S, N, base, step) ==
  /\ g \in [0..N -> S] /\ g[0] = base
  /\ \A n \in 1..N : g[n] = step[n][g[n - 1]]

\* A loop has a result after each round: what makes the recursive functions StepsAfter
\* and ScanAfter well defined.
LEMMA LoopExists ==
  ASSUME NEW S, NEW N \in Nat, NEW base \in S, NEW step \in [1..N -> [S -> S]]
  PROVE  \E g : IsLoop(g, S, N, base, step)
<1> DEFINE Loop(m, g) ==
             /\ g \in [0..m -> S] /\ g[0] = base
             /\ \A n \in 1..m : g[n] = step[n][g[n - 1]]
           P == {m \in 0..N : \E g : Loop(m, g)}
<1>1. 0 \in P
  <2> DEFINE g == [n \in 0..0 |-> base]
  <2>1. 0 \in 0..0 /\ 1..0 = {} /\ 0 \in 0..N
    OBVIOUS
  <2>2. g \in [0..0 -> S] /\ g[0] = base
    BY <2>1
  <2>3. \A n \in 1..0 : g[n] = step[n][g[n - 1]]
    BY <2>1
  <2> QED
    BY <2>1, <2>2, <2>3
<1>2. ASSUME NEW m \in 1..N, m - 1 \in P PROVE m \in P
  <2>1. PICK g : Loop(m - 1, g)
    BY <1>2
  <2> DEFINE h == [n \in 0..m |-> IF n = m THEN step[m][g[m - 1]] ELSE g[n]]
  <2>2. h \in [0..m -> S]
    <3>1. g[m - 1] \in S
      BY <2>1
    <3>2. step[m][g[m - 1]] \in S
      BY <3>1
    <3>3. \A n \in 0..m : n # m => n \in 0..(m - 1)
      OBVIOUS
    <3> QED
      BY <2>1, <3>2, <3>3
  <2>3. h[0] = base
    BY <2>1
  <2>4. ASSUME NEW n \in 1..m PROVE h[n] = step[n][h[n - 1]]
    <3>1. n \in 0..m /\ n - 1 \in 0..m /\ n - 1 # m
      OBVIOUS
    <3>2. h[n - 1] = g[n - 1]
      BY <3>1
    <3>3. CASE n = m
      BY <3>1, <3>2, <3>3
    <3>4. CASE n # m
      <4>1. n \in 1..(m - 1)
        BY <3>4
      <4>2. g[n] = step[n][g[n - 1]]
        BY <2>1, <4>1
      <4> QED
        BY <3>1, <3>2, <3>4, <4>2
    <3> QED
      BY <3>3, <3>4
  <2> HIDE DEF h
  <2> QED
    BY <2>2, <2>3, <2>4
<1>3. N \in P
  <2> HIDE DEF P
  <2>1. N \in 0..N
    OBVIOUS
  <2> QED
    BY <1>1, <1>2, <2>1, PositionInduction
<1> QED
  BY <1>3 DEF IsLoop

(* The normaliser *)

\* The steps of the materialised file.
StepRecords == [kind : {"tool", "text"}, id : Nat, tool : STRING, arg : STRING,
                success : BOOLEAN, output : STRING \cup {"none"}]

\* A line of a transcript starts a step.
LEMMA StepType == ASSUME NEW line \in Line PROVE Step(line) \in StepRecords
<1>1. line.id \in Nat /\ line.tool \in STRING /\ line.arg \in STRING
  BY DEF Line
<1>2. (IF line.kind = "use" THEN "tool" ELSE "text") \in {"tool", "text"}
  OBVIOUS
<1>3. FALSE \in BOOLEAN
  BY Zenon
<1> QED
  BY <1>1, <1>2, <1>3, Zenon DEF Step, StepRecords

\* A result leaves a step a step.
LEMMA CompletedType ==
  ASSUME NEW step \in StepRecords, NEW line \in Line
  PROVE  Completed(step, line) \in StepRecords
  BY DEF Completed, StepRecords, Line

\* The loop over records keeps a list of steps, whatever the line.
LEMMA AddLineType ==
  ASSUME NEW acc \in Seq(StepRecords), NEW line \in Line
  PROVE  AddLine(acc, line) \in Seq(StepRecords)
<1>1. Append(acc, Step(line)) \in Seq(StepRecords)
  BY StepType
<1>2. CASE line.kind = "text" \/ line.kind = "use"
  BY <1>1, <1>2 DEF AddLine
<1>3. CASE line.kind = "result"
  <2> DEFINE new == [i \in DOMAIN acc |->
                      IF acc[i].kind = "tool" /\ acc[i].id = line.id
                      THEN Completed(acc[i], line) ELSE acc[i]]
  <2>1. \A i \in 1..Len(acc) : Completed(acc[i], line) \in StepRecords
    BY CompletedType
  <2>2. /\ DOMAIN acc = 1..Len(acc) /\ Len(acc) \in Nat
        /\ \A i \in 1..Len(acc) : acc[i] \in StepRecords
    OBVIOUS
  <2>3. new \in [1..Len(acc) -> StepRecords]
    BY <2>1, <2>2
  <2>4. new \in Seq(StepRecords)
    BY <2>2, <2>3
  <2>5. AddLine(acc, line) = new
    BY <1>3 DEF AddLine
  <2> QED
    BY <2>4, <2>5
<1> QED
  BY <1>2, <1>3 DEF Line

\* StepsAfter is the loop it says it is.
LEMMA StepsLoop ==
  ASSUME NEW lines \in Seq(Line)
  PROVE  /\ StepsAfter(lines) \in [0..Len(lines) -> Seq(StepRecords)]
         /\ StepsAfter(lines)[0] = <<>>
         /\ \A n \in 1..Len(lines) :
              StepsAfter(lines)[n] = AddLine(StepsAfter(lines)[n - 1], lines[n])
<1> DEFINE N == Len(lines)
           S == Seq(StepRecords)
           Def(g) == g = [n \in 0..N |-> IF n = 0 THEN <<>> ELSE AddLine(g[n - 1], lines[n])]
           step == [n \in 1..N |-> [acc \in S |-> AddLine(acc, lines[n])]]
<1>1. N \in Nat /\ \A n \in 1..N : lines[n] \in Line
  OBVIOUS
<1>2. step \in [1..N -> [S -> S]]
  BY <1>1, AddLineType
<1>3. PICK g : IsLoop(g, S, N, <<>>, step)
  <2>1. <<>> \in S
    OBVIOUS
  <2> HIDE DEF step, S, N
  <2> QED
    BY <1>1, <1>2, <2>1, LoopExists
<1>4. Def(g)
  <2>1. ASSUME NEW n \in 0..N PROVE g[n] = IF n = 0 THEN <<>> ELSE AddLine(g[n - 1], lines[n])
    <3>1. CASE n # 0
      <4>1. n \in 1..N /\ n - 1 \in 0..N
        BY <1>1, <3>1
      <4>2. g[n - 1] \in S
        BY <1>3, <4>1 DEF IsLoop
      <4>3. step[n][g[n - 1]] = AddLine(g[n - 1], lines[n])
        BY <4>1, <4>2
      <4> QED
        BY <1>3, <3>1, <4>1, <4>3 DEF IsLoop
    <3> QED
      BY <1>3, <3>1 DEF IsLoop
  <2> QED
    BY <1>3, <2>1 DEF IsLoop
<1>5. Def(StepsAfter(lines))
  <2>1. StepsAfter(lines) = CHOOSE f : Def(f)
    BY DEF StepsAfter
  <2> HIDE DEF Def
  <2> QED
    BY <1>4, <2>1
<1> DEFINE f == StepsAfter(lines)
<1> HIDE DEF f
<1>6. f = [n \in 0..N |-> IF n = 0 THEN <<>> ELSE AddLine(f[n - 1], lines[n])]
  BY <1>5 DEF f
<1>7. \A n \in 1..N : n \in 0..N /\ n - 1 \in 0..N /\ n # 0
  BY <1>1
<1>8. f[0] = <<>> /\ \A n \in 1..N : f[n] = AddLine(f[n - 1], lines[n])
  BY <1>1, <1>6, <1>7
<1>9. \A n \in 0..N : f[n] \in S
  <2> DEFINE P == {n \in 0..N : f[n] \in S}
  <2>1. 0 \in P
    <3>1. 0 \in 0..N /\ <<>> \in S
      BY <1>1
    <3> QED
      BY <1>8, <3>1, Zenon
  <2>2. ASSUME NEW n \in 1..N, n - 1 \in P PROVE n \in P
    <3>1. f[n - 1] \in S /\ lines[n] \in Line
      BY <1>1, <2>2
    <3>2. AddLine(f[n - 1], lines[n]) \in S
      BY <3>1, AddLineType
    <3> QED
      BY <1>7, <1>8, <3>2
  <2>3. \A n \in 0..N : n \in P
    <3> HIDE DEF P
    <3> QED
      BY <1>1, <2>1, <2>2, PositionInduction
  <2> QED
    BY <2>3
<1>10. f \in [0..N -> S]
  BY <1>6, <1>9
<1> QED
  BY <1>8, <1>10 DEF f

(* The detector *)

\* What the loop of the detector keeps over the steps s.
Dictionaries(s) == UNION {[D -> Nat] : D \in SUBSET {Key(s[i]) : i \in DOMAIN s}}
Scans(s) == [prior : Dictionaries(s), hits : SUBSET (Nat \X Nat)]

\* A round of the detector's loop keeps a dictionary over the keys of s and a set of hits.
LEMMA ScanStepType ==
  ASSUME NEW s \in Seq(StepRecords), NEW i \in 1..Len(s), NEW acc \in Scans(s)
  PROVE  ScanStep(acc, s, i) \in Scans(s)
<1> DEFINE k == Key(s[i])
           Keys == {Key(s[j]) : j \in DOMAIN s}
           prior == [x \in DOMAIN acc.prior \cup {k} |-> IF x = k THEN i ELSE acc.prior[x]]
           hit == {<<i, acc.prior[x]>> : x \in DOMAIN acc.prior \cap {k}}
<1>1. PICK D \in SUBSET Keys : acc.prior \in [D -> Nat]
  BY Zenon DEF Scans, Dictionaries
<1>2. acc.hits \in SUBSET (Nat \X Nat)
  BY DEF Scans
<1>3. k \in Keys /\ i \in Nat
  OBVIOUS
<1> HIDE DEF k, Keys
<1>4. D \cup {k} \in SUBSET Keys /\ prior \in [D \cup {k} -> Nat]
  BY <1>1, <1>3
<1>5. prior \in Dictionaries(s)
  <2> HIDE DEF prior
  <2> QED
    BY <1>4, Zenon DEF Dictionaries, Keys
<1>6. acc.hits \cup hit \in SUBSET (Nat \X Nat)
  BY <1>1, <1>2, <1>3
<1>7. CASE Comparable(s[i])
  <2>1. ScanStep(acc, s, i) = [prior |-> prior, hits |-> acc.hits \cup hit]
    BY <1>7, Zenon DEF ScanStep, k
  <2> HIDE DEF prior, hit
  <2> QED
    BY <1>5, <1>6, <2>1 DEF Scans
<1>8. CASE ~Comparable(s[i])
  BY <1>8, Zenon DEF ScanStep
<1> QED
  BY <1>7, <1>8

\* The detector before its first step.
Started == [prior |-> <<>>, hits |-> {}]

\* The empty dictionary is a dictionary.
LEMMA StartedType == ASSUME NEW s PROVE Started \in Scans(s)
<1>1. <<>> \in [{} -> Nat]
  OBVIOUS
<1>2. <<>> \in Dictionaries(s)
  BY <1>1, Zenon DEF Dictionaries
<1> QED
  BY <1>2, Zenon DEF Started, Scans

\* ScanAfter is the loop it says it is.
LEMMA ScanLoop ==
  ASSUME NEW s \in Seq(StepRecords)
  PROVE  /\ ScanAfter(s)[0] = Started
         /\ \A n \in 1..Len(s) : ScanAfter(s)[n] = ScanStep(ScanAfter(s)[n - 1], s, n)
<1> DEFINE N == Len(s)
           Def(g) == g = [n \in 0..N |-> IF n = 0 THEN Started ELSE ScanStep(g[n - 1], s, n)]
           step == [n \in 1..N |-> [acc \in Scans(s) |-> ScanStep(acc, s, n)]]
<1>1. N \in Nat
  OBVIOUS
<1>2. step \in [1..N -> [Scans(s) -> Scans(s)]]
  BY ScanStepType
<1>3. PICK g : IsLoop(g, Scans(s), N, Started, step)
  <2> HIDE DEF step, N
  <2> QED
    BY <1>1, <1>2, StartedType, LoopExists
<1>4. Def(g)
  <2>1. ASSUME NEW n \in 0..N PROVE g[n] = IF n = 0 THEN Started ELSE ScanStep(g[n - 1], s, n)
    <3>1. CASE n # 0
      <4>1. n \in 1..N /\ n - 1 \in 0..N
        BY <1>1, <3>1
      <4>2. g[n - 1] \in Scans(s)
        BY <1>3, <4>1 DEF IsLoop
      <4>3. step[n][g[n - 1]] = ScanStep(g[n - 1], s, n)
        BY <4>1, <4>2
      <4> QED
        BY <1>3, <3>1, <4>1, <4>3 DEF IsLoop
    <3> QED
      BY <1>3, <3>1 DEF IsLoop
  <2> QED
    BY <1>3, <2>1 DEF IsLoop
<1>5. Def(ScanAfter(s))
  <2>1. ScanAfter(s) = CHOOSE f : Def(f)
    BY Zenon DEF ScanAfter, Started
  <2> HIDE DEF Def
  <2> QED
    BY <1>4, <2>1
<1> DEFINE f == ScanAfter(s)
<1> HIDE DEF f
<1>6. f = [n \in 0..N |-> IF n = 0 THEN Started ELSE ScanStep(f[n - 1], s, n)]
  BY <1>5 DEF f
<1>7. \A n \in 1..N : n \in 0..N /\ n # 0
  BY <1>1
<1>8. 0 \in 0..N
  BY <1>1
<1> QED
  BY <1>6, <1>7, <1>8, Zenon DEF f

\* Step j is under key k.
Under(s, j, k) == Comparable(s[j]) /\ Key(s[j]) = k

\* After n steps the dictionary has under each key the latest step of it, and the hits
\* are the repeats among these steps.
Latest(s, n, prior) ==
  /\ DOMAIN prior = {Key(s[j]) : j \in {m \in 1..n : Comparable(s[m])}}
  /\ \A k \in DOMAIN prior :
       /\ prior[k] \in 1..n /\ Under(s, prior[k], k)
       /\ \A j \in 1..n : Under(s, j, k) => j <= prior[k]
Repeats(s, n) == {h \in (1..n) \X (1..n) : RepeatOf(s, h[1], h[2])}

\* A round of the detector's loop keeps that.
LEMMA ScanKeeps ==
  ASSUME NEW s \in Seq(StepRecords), NEW n \in 1..Len(s), NEW acc,
         Latest(s, n - 1, acc.prior), acc.hits = Repeats(s, n - 1)
  PROVE  /\ Latest(s, n, ScanStep(acc, s, n).prior)
         /\ ScanStep(acc, s, n).hits = Repeats(s, n)
<1> DEFINE prior == acc.prior
           k == Key(s[n])
           now == [x \in DOMAIN prior \cup {k} |-> IF x = k THEN n ELSE prior[x]]
           hit == {<<n, prior[x]>> : x \in DOMAIN prior \cap {k}}
<1> HIDE DEF prior, k, now, hit
<1>1. DOMAIN s = 1..Len(s) /\ Len(s) \in Nat /\ n \in Nat /\ n - 1 \in Nat
  OBVIOUS
<1>2. (1..n) = (1..(n - 1)) \cup {n} /\ n \notin 1..(n - 1)
  BY <1>1
<1>3. /\ DOMAIN prior = {Key(s[j]) : j \in {m \in 1..(n - 1) : Comparable(s[m])}}
      /\ \A x \in DOMAIN prior :
           /\ prior[x] \in 1..(n - 1) /\ Under(s, prior[x], x)
           /\ \A j \in 1..(n - 1) : Under(s, j, x) => j <= prior[x]
  BY DEF Latest, prior
<1>4. CASE Comparable(s[n])
  <2>1. ScanStep(acc, s, n) = [prior |-> now, hits |-> acc.hits \cup hit]
    BY <1>4, Zenon DEF ScanStep, k, now, hit, prior
  <2>2. ScanStep(acc, s, n).prior = now /\ ScanStep(acc, s, n).hits = Repeats(s, n - 1) \cup hit
    BY <2>1
  <2>3. DOMAIN now = DOMAIN prior \cup {k}
    BY DEF now
  <2>4. DOMAIN now = {Key(s[j]) : j \in {m \in 1..n : Comparable(s[m])}}
    BY <1>2, <1>3, <1>4, <2>3 DEF k
  <2>5. ASSUME NEW x \in DOMAIN now
        PROVE  /\ now[x] \in 1..n /\ Under(s, now[x], x)
               /\ \A j \in 1..n : Under(s, j, x) => j <= now[x]
    <3>1. CASE x = k
      <4>1. now[x] = n
        BY <2>3, <2>5, <3>1 DEF now
      <4> QED
        BY <1>1, <1>4, <3>1, <4>1 DEF Under, k
    <3>2. CASE x # k
      <4>1. now[x] = prior[x] /\ x \in DOMAIN prior
        BY <2>3, <2>5, <3>2 DEF now
      <4>2. ~Under(s, n, x)
        BY <3>2 DEF Under, k
      <4> QED
        BY <1>2, <1>3, <4>1, <4>2
    <3> QED
      BY <3>1, <3>2
  <2>6. Latest(s, n, now)
    BY <2>4, <2>5, Zenon DEF Latest
  <2>7. ASSUME NEW j \in 1..(n - 1) PROVE RepeatOf(s, n, j) <=> <<n, j>> \in hit
    <3>1. j < n /\ \A m \in DOMAIN s : m < n => m \in 1..(n - 1)
      BY <1>1
    <3>2. RepeatOf(s, n, j) <=>
            /\ Under(s, j, k)
            /\ \A m \in 1..(n - 1) : j < m => ~Under(s, m, k)
      BY <1>1, <1>4, <3>1 DEF RepeatOf, Under, k
    <3>3. Under(s, j, k) => k \in DOMAIN prior
      BY <1>3 DEF Under
    <3>4. <<n, j>> \in hit <=> k \in DOMAIN prior /\ j = prior[k]
      BY DEF hit
    <3>5. ASSUME RepeatOf(s, n, j) PROVE k \in DOMAIN prior /\ j = prior[k]
      <4>1. k \in DOMAIN prior
        BY <3>2, <3>3, <3>5
      <4>2. prior[k] \in 1..(n - 1) /\ Under(s, prior[k], k) /\ j <= prior[k]
        BY <1>3, <3>2, <3>5, <4>1
      <4> QED
        BY <3>2, <3>5, <4>1, <4>2
    <3>6. ASSUME k \in DOMAIN prior, j = prior[k] PROVE RepeatOf(s, n, j)
      <4>1. Under(s, j, k) /\ \A m \in 1..(n - 1) : Under(s, m, k) => m <= j
        BY <1>3, <3>6
      <4> QED
        BY <3>2, <4>1
    <3> QED
      BY <3>4, <3>5, <3>6
  <2>8. \A h \in hit : \E j \in 1..(n - 1) : h = <<n, j>>
    BY <1>3 DEF hit
  <2>9. Repeats(s, n) = Repeats(s, n - 1) \cup hit
    <3>1. ASSUME NEW i \in 1..n, NEW j \in 1..n, RepeatOf(s, i, j)
          PROVE  <<i, j>> \in Repeats(s, n - 1) \cup hit
      <4>1. j < i /\ j \in 1..(n - 1)
        BY <3>1, <1>1 DEF RepeatOf
      <4>2. CASE i = n
        BY <2>7, <3>1, <4>1, <4>2
      <4>3. CASE i # n
        BY <1>2, <3>1, <4>1, <4>3 DEF Repeats
      <4> QED
        BY <4>2, <4>3
    <3>2. Repeats(s, n - 1) \subseteq Repeats(s, n)
      BY <1>2 DEF Repeats
    <3>3. hit \subseteq Repeats(s, n)
      BY <1>2, <2>7, <2>8 DEF Repeats
    <3>4. Repeats(s, n) \subseteq Repeats(s, n - 1) \cup hit
      BY <3>1 DEF Repeats
    <3> QED
      BY <3>2, <3>3, <3>4
  <2> QED
    BY <2>2, <2>6, <2>9
<1>5. CASE ~Comparable(s[n])
  <2>1. ScanStep(acc, s, n) = acc
    BY <1>5, Zenon DEF ScanStep
  <2>2. {m \in 1..n : Comparable(s[m])} = {m \in 1..(n - 1) : Comparable(s[m])}
    BY <1>2, <1>5
  <2>3. \A x : ~Under(s, n, x)
    BY <1>5 DEF Under
  <2>4. Latest(s, n, prior)
    BY <1>2, <1>3, <2>2, <2>3 DEF Latest
  <2>5. Repeats(s, n) \subseteq Repeats(s, n - 1)
    <3>1. ASSUME NEW i \in 1..n, NEW j \in 1..n, RepeatOf(s, i, j)
          PROVE  i \in 1..(n - 1) /\ j \in 1..(n - 1)
      BY <1>2, <1>5, <3>1 DEF RepeatOf
    <3> QED
      BY <3>1 DEF Repeats
  <2>6. Repeats(s, n - 1) \subseteq Repeats(s, n)
    BY <1>2 DEF Repeats
  <2> QED
    BY <2>1, <2>4, <2>5, <2>6 DEF prior
<1> QED
  BY <1>4, <1>5

\* The detector's single pass finds the repeats and nothing else, for every list of steps.
THEOREM DetectorFindsRepeats ==
  ASSUME NEW s \in Seq(StepRecords)
  PROVE  detect_demo_diagnostics(s) = {h \in (DOMAIN s) \X (DOMAIN s) : RepeatOf(s, h[1], h[2])}
<1> DEFINE N == Len(s)
           f == ScanAfter(s)
           P == {n \in 0..N : Latest(s, n, f[n].prior) /\ f[n].hits = Repeats(s, n)}
<1>1. N \in Nat /\ DOMAIN s = 1..N
  OBVIOUS
<1>2. f[0] = Started /\ \A n \in 1..N : f[n] = ScanStep(f[n - 1], s, n)
  BY ScanLoop
<1> HIDE DEF f
<1>3. 0 \in P
  <2>1. f[0].prior = <<>> /\ f[0].hits = {} /\ 0 \in 0..N /\ 1..0 = {}
    BY <1>1, <1>2 DEF Started
  <2>2. DOMAIN <<>> = {}
    OBVIOUS
  <2>3. Latest(s, 0, <<>>) /\ Repeats(s, 0) = {}
    BY <2>1, <2>2 DEF Latest, Repeats
  <2> QED
    BY <2>1, <2>3
<1>4. ASSUME NEW n \in 1..N, n - 1 \in P PROVE n \in P
  <2>1. Latest(s, n - 1, f[n - 1].prior) /\ f[n - 1].hits = Repeats(s, n - 1)
    BY <1>4
  <2>2. /\ Latest(s, n, ScanStep(f[n - 1], s, n).prior)
        /\ ScanStep(f[n - 1], s, n).hits = Repeats(s, n)
    BY <2>1, ScanKeeps
  <2>3. n \in 0..N
    OBVIOUS
  <2> QED
    BY <1>2, <2>2, <2>3
<1>5. N \in P
  <2>1. N \in 0..N
    BY <1>1
  <2> HIDE DEF P, N
  <2> QED
    BY <1>1, <1>3, <1>4, <2>1, PositionInduction
<1>6. f[N].hits = Repeats(s, N)
  BY <1>5
<1> QED
  BY <1>1, <1>6 DEF detect_demo_diagnostics, f, Repeats

(* The transcript as it grows *)

\* Claude only appends to the transcript it writes.
ScriptInv == script \in Scripts /\ written \in 0..Len(script)

\* ScriptInv is inductive: only ClaudeWrites moves.
THEOREM ScriptInvariance == Spec => []ScriptInv
<1>1. Init => ScriptInv
  BY DemoAssumption DEF Init, ScriptInv
<1>2. ScriptInv /\ [Next]_vars => ScriptInv'
  <2> SUFFICES ASSUME ScriptInv, [Next]_vars PROVE ScriptInv'
    OBVIOUS
  <2>1. Len(script) \in Nat
    BY DemoAssumption DEF ScriptInv
  <2>2. CASE ClaudeWrites
    BY <2>1, <2>2 DEF ScriptInv, ClaudeWrites
  <2>3. CASE UNCHANGED claudeVars
    BY <2>3 DEF ScriptInv, claudeVars
  <2>4. CASE UNCHANGED vars
    BY <2>3, <2>4 DEF vars
  <2>5. ASSUME NEW s \in Slots,
               \/ Observe(s) \/ UpdateMetadata(s) \/ CopyTranscript(s) \/ ReplaceSource(s)
               \/ ReadSource(s) \/ Normalize(s) \/ WriteSteps(s) \/ WriteHits(s)
               \/ WriteMetadata(s) \/ Kill(s)
        PROVE  UNCHANGED claudeVars
    BY <2>5, Zenon DEF Observe, UpdateMetadata, CopyTranscript, ReplaceSource, ReadSource,
         Normalize, WriteSteps, WriteHits, WriteMetadata, Finished, Kill
  <2> QED
    BY <2>2, <2>3, <2>4, <2>5 DEF Next
<1> QED
  BY <1>1, <1>2, PTL DEF Spec

\* What the steps are after m lines is decided by these lines.
LEMMA StepsOfPrefix ==
  ASSUME NEW lines \in Seq(Line), NEW n \in 0..Len(lines)
  PROVE  /\ SubSeq(lines, 1, n) \in Seq(Line) /\ Len(SubSeq(lines, 1, n)) = n
         /\ normalize_claude_jsonl(SubSeq(lines, 1, n)) = StepsAfter(lines)[n]
<1> DEFINE part == SubSeq(lines, 1, n)
           f == StepsAfter(lines)
           g == StepsAfter(part)
           P == {m \in 0..n : g[m] = f[m]}
<1>1. n \in Nat /\ Len(lines) \in Nat
  OBVIOUS
<1>2. part \in Seq(Line) /\ Len(part) = n /\ \A m \in 1..n : part[m] = lines[m]
  OBVIOUS
<1> HIDE DEF part
<1>3. f[0] = <<>> /\ \A m \in 1..Len(lines) : f[m] = AddLine(f[m - 1], lines[m])
  BY StepsLoop
<1>4. g[0] = <<>> /\ \A m \in 1..n : g[m] = AddLine(g[m - 1], part[m])
  BY <1>2, StepsLoop
<1> HIDE DEF f, g
<1>5. 0 \in P
  BY <1>1, <1>3, <1>4
<1>6. ASSUME NEW m \in 1..n, m - 1 \in P PROVE m \in P
  <2>1. m \in 1..Len(lines) /\ m \in 0..n /\ g[m - 1] = f[m - 1]
    BY <1>1, <1>6
  <2> QED
    BY <1>2, <1>3, <1>4, <2>1
<1>7. n \in P
  <2>1. n \in 0..n
    BY <1>1
  <2> HIDE DEF P
  <2> QED
    BY <1>1, <1>5, <1>6, <2>1, PositionInduction
<1> QED
  BY <1>2, <1>7 DEF normalize_claude_jsonl, f, g, part

\* The normaliser returns steps, however many lines there are.
LEMMA NormalizeType ==
  ASSUME NEW lines \in Seq(Line), NEW n \in 0..Len(lines)
  PROVE  StepsAfter(lines)[n] \in Seq(StepRecords)
  BY StepsLoop

\* The hits are exactly the repeats, in every state of the transcript.
THEOREM HitsStayRepeats == Spec => []HitsAreRepeats
<1>1. ScriptInv => HitsAreRepeats
  <2> SUFFICES ASSUME ScriptInv PROVE HitsAreRepeats
    OBVIOUS
  <2>1. script \in Seq(Line) /\ written \in 0..Len(script)
    BY DemoAssumption DEF ScriptInv
  <2>2. normalize_claude_jsonl(SubSeq(script, 1, written)) \in Seq(StepRecords)
    BY <2>1, StepsOfPrefix, NormalizeType
  <2> DEFINE s == normalize_claude_jsonl(SubSeq(script, 1, written))
  <2>3. detect_demo_diagnostics(s) = {h \in (DOMAIN s) \X (DOMAIN s) : RepeatOf(s, h[1], h[2])}
    <3> HIDE DEF s
    <3>1. s \in Seq(StepRecords)
      BY <2>2 DEF s
    <3> QED
      BY <3>1, DetectorFindsRepeats
  <2> QED
    BY <2>3, Zenon DEF HitsAreRepeats
<1> QED
  BY <1>1, ScriptInvariance, PTL

\* A successful step has what an earlier result of its occurrence said.
Settled(lines, n, step) ==
  step.success =>
    \E a \in 1..n : /\ lines[a].kind = "result" /\ lines[a].id = step.id
                    /\ lines[a].ok /\ lines[a].out = step.output

\* Every step of the normaliser is settled, by induction over the lines.
LEMMA StepsSettled ==
  ASSUME NEW lines \in Seq(Line)
  PROVE  \A n \in 0..Len(lines) : \A i \in DOMAIN StepsAfter(lines)[n] :
           Settled(lines, n, StepsAfter(lines)[n][i])
<1> DEFINE N == Len(lines)
           f == StepsAfter(lines)
           P == {n \in 0..N : \A i \in DOMAIN f[n] : Settled(lines, n, f[n][i])}
<1>1. N \in Nat
  OBVIOUS
<1>2. f[0] = <<>> /\ \A n \in 1..N : f[n] = AddLine(f[n - 1], lines[n])
  BY StepsLoop
<1>3. \A n \in 0..N : f[n] \in Seq(StepRecords)
  BY StepsLoop
<1> HIDE DEF f
<1>4. 0 \in P
  <2>1. DOMAIN f[0] = {}
    BY <1>2
  <2> QED
    BY <1>1, <2>1
<1>5. ASSUME NEW n \in 1..N, n - 1 \in P PROVE n \in P
  <2> DEFINE acc == f[n - 1]
             line == lines[n]
  <2>1. n \in 0..N /\ n - 1 \in 0..N /\ n \in 1..n /\ 1..(n - 1) \subseteq 1..n
    BY <1>1
  <2>2. acc \in Seq(StepRecords) /\ f[n] = AddLine(acc, line) /\ line \in Line
    BY <1>2, <1>3, <2>1
  <2> HIDE DEF acc
  <2>3. \A i \in DOMAIN acc : Settled(lines, n, acc[i])
    BY <1>5, <2>1 DEF Settled, acc
  <2>4. ~Step(line).success
    BY DEF Step
  <2>5. \A i \in DOMAIN Append(acc, Step(line)) : Settled(lines, n, Append(acc, Step(line))[i])
    <3>1. ASSUME NEW i \in DOMAIN Append(acc, Step(line)), Append(acc, Step(line))[i].success
          PROVE  i \in DOMAIN acc /\ Append(acc, Step(line))[i] = acc[i]
      <4>1. Step(line) \in StepRecords
        BY <2>2, StepType
      <4>2. DOMAIN acc = 1..Len(acc) /\ DOMAIN Append(acc, Step(line)) = 1..(Len(acc) + 1)
        BY <2>2, <4>1
      <4>3. i # Len(acc) + 1
        BY <2>2, <2>4, <3>1, <4>1
      <4> QED
        BY <2>2, <4>1, <4>2, <4>3
    <3> QED
      BY <2>3, <3>1 DEF Settled
  <2>6. CASE line.kind = "text" \/ line.kind = "use"
    <3>1. f[n] \in {acc, Append(acc, Step(line))}
      BY <2>2, <2>6 DEF AddLine
    <3> QED
      BY <2>1, <2>3, <2>5, <3>1
  <2>7. CASE line.kind = "result"
    <3>1. f[n] = [i \in DOMAIN acc |-> IF acc[i].kind = "tool" /\ acc[i].id = line.id
                                       THEN Completed(acc[i], line) ELSE acc[i]]
      BY <2>2, <2>7 DEF AddLine
    <3>2. ASSUME NEW i \in DOMAIN f[n] PROVE Settled(lines, n, f[n][i])
      <4>1. i \in DOMAIN acc
        BY <3>1
      <4>2. CASE acc[i].kind = "tool" /\ acc[i].id = line.id
        <5>1. f[n][i] = Completed(acc[i], line)
          BY <3>1, <4>1, <4>2
        <5>2. /\ f[n][i].success = line.ok /\ f[n][i].output = line.out
              /\ f[n][i].id = line.id
          BY <4>2, <5>1 DEF Completed
        <5> QED
          BY <2>1, <2>7, <5>2 DEF Settled
      <4>3. CASE ~(acc[i].kind = "tool" /\ acc[i].id = line.id)
        <5>1. f[n][i] = acc[i]
          BY <3>1, <4>1, <4>3
        <5> QED
          BY <2>3, <4>1, <5>1
      <4> QED
        BY <4>2, <4>3
    <3> QED
      BY <2>1, <3>2
  <2> QED
    BY <2>2, <2>6, <2>7 DEF Line
<1>6. \A n \in 0..N : n \in P
  <2> HIDE DEF P, N
  <2> QED
    BY <1>1, <1>4, <1>5, PositionInduction
<1> QED
  BY <1>6 DEF f

\* A line leaves every successful step as it is and every step its occurrence.
LEMMA SuccessStays ==
  ASSUME NEW lines \in Seq(Line), SuccessIsFinal(lines), NEW n \in 1..Len(lines),
         NEW i \in DOMAIN StepsAfter(lines)[n - 1]
  PROVE  /\ i \in DOMAIN StepsAfter(lines)[n]
         /\ StepsAfter(lines)[n][i].id = StepsAfter(lines)[n - 1][i].id
         /\ StepsAfter(lines)[n - 1][i].success =>
              StepsAfter(lines)[n][i] = StepsAfter(lines)[n - 1][i]
<1> DEFINE acc == StepsAfter(lines)[n - 1]
           new == StepsAfter(lines)[n]
           line == lines[n]
<1>1. Len(lines) \in Nat /\ n - 1 \in 0..Len(lines) /\ line \in Line /\ DOMAIN lines = 1..Len(lines)
  OBVIOUS
<1>2. acc \in Seq(StepRecords) /\ new = AddLine(acc, line)
  BY <1>1, StepsLoop
<1>3. Settled(lines, n - 1, acc[i])
  BY <1>1, StepsSettled
<1> HIDE DEF acc, new, line
<1>4. i \in DOMAIN acc /\ i \in 1..Len(acc) /\ Len(acc) \in Nat /\ acc[i] \in StepRecords
  BY <1>2 DEF acc
<1>5. CASE line.kind = "text" \/ line.kind = "use"
  <2>1. Step(line) \in StepRecords
    BY <1>1, StepType
  <2>2. i \in DOMAIN Append(acc, Step(line)) /\ Append(acc, Step(line))[i] = acc[i]
    BY <1>2, <1>4, <2>1
  <2>3. new \in {acc, Append(acc, Step(line))}
    BY <1>2, <1>5 DEF AddLine
  <2> QED
    BY <1>4, <2>2, <2>3 DEF acc, new
<1>6. CASE line.kind = "result"
  <2>1. new = [j \in DOMAIN acc |-> IF acc[j].kind = "tool" /\ acc[j].id = line.id
                                    THEN Completed(acc[j], line) ELSE acc[j]]
    BY <1>2, <1>6 DEF AddLine
  <2>2. CASE acc[i].kind = "tool" /\ acc[i].id = line.id
    <3>1. new[i] = Completed(acc[i], line) /\ i \in DOMAIN new
      BY <1>4, <2>1, <2>2
    <3>2. new[i].id = acc[i].id
      BY <3>1 DEF Completed
    <3>3. ASSUME acc[i].success PROVE new[i] = acc[i]
      <4>1. PICK a \in 1..(n - 1) : /\ lines[a].kind = "result" /\ lines[a].id = acc[i].id
                                    /\ lines[a].ok /\ lines[a].out = acc[i].output
        BY <1>3, <3>3 DEF Settled
      <4>2. a < n /\ a \in DOMAIN lines /\ n \in DOMAIN lines
        BY <1>1
      <4>3. line.ok /\ line.out = acc[i].output
        BY <1>6, <2>2, <4>1, <4>2 DEF SuccessIsFinal, line
      <4>4. line.ok = acc[i].success
        <5>1. line.ok \in BOOLEAN /\ acc[i].success \in BOOLEAN
          BY <1>1, <1>4 DEF Line, StepRecords
        <5> QED
          BY <3>3, <4>3, <5>1
      <4>5. acc[i] = [kind |-> acc[i].kind, id |-> acc[i].id, tool |-> acc[i].tool,
                      arg |-> acc[i].arg, success |-> acc[i].success, output |-> acc[i].output]
        BY <1>4 DEF StepRecords
      <4>6. Completed(acc[i], line) =
              [kind |-> acc[i].kind, id |-> acc[i].id, tool |-> acc[i].tool,
               arg |-> acc[i].arg, success |-> acc[i].success, output |-> acc[i].output]
        BY <4>3, <4>4, Zenon DEF Completed
      <4> QED
        BY <3>1, <4>5, <4>6, Zenon
    <3> QED
      BY <3>1, <3>2, <3>3 DEF acc, new
  <2>3. CASE ~(acc[i].kind = "tool" /\ acc[i].id = line.id)
    <3>1. new[i] = acc[i] /\ i \in DOMAIN new
      BY <1>4, <2>1, <2>3
    <3> QED
      BY <3>1 DEF acc, new
  <2> QED
    BY <2>2, <2>3
<1> QED
  BY <1>1, <1>5, <1>6 DEF Line

\* A step with an earlier one under its key is a hit.
LEMMA EarlierIsEnough ==
  ASSUME NEW s \in Seq(StepRecords), NEW i \in DOMAIN s, NEW j \in DOMAIN s, j < i,
         Comparable(s[i]), Under(s, j, Key(s[i]))
  PROVE  \E m \in DOMAIN s : RepeatOf(s, i, m)
<1> DEFINE Earlier == {m \in DOMAIN s : m < i /\ Under(s, m, Key(s[i]))}
           T == {i - m : m \in Earlier}
<1>1. DOMAIN s = 1..Len(s) /\ Len(s) \in Nat
  OBVIOUS
<1>2. T \in SUBSET Nat /\ T # {}
  BY <1>1
<1>3. PICK d \in T : \A e \in T : d <= e
  <2> HIDE DEF T
  <2> QED
    BY <1>2, LeastNumber
<1>4. PICK m \in Earlier : d = i - m
  BY <1>3
<1>5. ASSUME NEW k \in DOMAIN s, m < k, k < i, Under(s, k, Key(s[i])) PROVE FALSE
  <2>1. i - k \in T /\ i - k < i - m
    BY <1>1, <1>4, <1>5
  <2>2. i - m <= i - k
    BY <1>3, <1>4, <2>1
  <2> QED
    BY <1>1, <2>1, <2>2
<1> QED
  BY <1>4, <1>5 DEF RepeatOf, Under

\* The occurrences marked are those of the repeats.
LEMMA MarkedAre ==
  ASSUME NEW n, script \in Seq(Line), n \in 0..Len(script)
  PROVE  LET s == StepsAfter(script)[n]
         IN Marked(n) =
              {s[h[1]].id : h \in {x \in (DOMAIN s) \X (DOMAIN s) : RepeatOf(s, x[1], x[2])}}
<1> DEFINE s == StepsAfter(script)[n]
<1>1. normalize_claude_jsonl(SubSeq(script, 1, n)) = s
  BY StepsOfPrefix
<1>2. s \in Seq(StepRecords)
  BY NormalizeType
<1> HIDE DEF s
<1>3. Marked(n) = {s[h[1]].id : h \in detect_demo_diagnostics(s)}
  BY <1>1, Zenon DEF Marked
<1>4. Marked(n) = {s[h[1]].id : h \in {x \in (DOMAIN s) \X (DOMAIN s) : RepeatOf(s, x[1], x[2])}}
  BY <1>2, <1>3, DetectorFindsRepeats
<1> QED
  BY <1>4, Zenon DEF s

\* One more line keeps the marks.
LEMMA LineKeepsMarks ==
  ASSUME script \in Seq(Line), SuccessIsFinal(script), NEW n \in 1..Len(script)
  PROVE  Marked(n - 1) \subseteq Marked(n)
<1> DEFINE s == StepsAfter(script)[n - 1]
           t == StepsAfter(script)[n]
           R(u) == {x \in (DOMAIN u) \X (DOMAIN u) : RepeatOf(u, x[1], x[2])}
<1>1. Len(script) \in Nat /\ n \in 0..Len(script) /\ n - 1 \in 0..Len(script)
  OBVIOUS
<1>2. s \in Seq(StepRecords) /\ t \in Seq(StepRecords)
  BY <1>1, NormalizeType
<1>3. \A i \in DOMAIN s : i \in DOMAIN t /\ t[i].id = s[i].id /\ (s[i].success => t[i] = s[i])
  BY SuccessStays
<1>4. Marked(n - 1) = {s[h[1]].id : h \in R(s)} /\ Marked(n) = {t[h[1]].id : h \in R(t)}
  BY <1>1, MarkedAre
<1> HIDE DEF s, t
<1>5. ASSUME NEW i \in DOMAIN s, NEW j \in DOMAIN s, RepeatOf(s, i, j)
      PROVE  s[i].id \in Marked(n)
  <2>1. j < i /\ Comparable(s[i]) /\ Comparable(s[j]) /\ Key(s[j]) = Key(s[i])
    BY <1>5 DEF RepeatOf
  <2>2. t[i] = s[i] /\ t[j] = s[j] /\ i \in DOMAIN t /\ j \in DOMAIN t
    BY <1>3, <2>1 DEF Comparable
  <2>3. Comparable(t[i]) /\ Under(t, j, Key(t[i]))
    BY <2>1, <2>2 DEF Under
  <2>4. PICK m \in DOMAIN t : RepeatOf(t, i, m)
    BY <1>2, <2>1, <2>2, <2>3, EarlierIsEnough
  <2>5. <<i, m>> \in R(t) /\ t[<<i, m>>[1]].id = s[i].id
    BY <2>2, <2>4
  <2> QED
    BY <1>4, <2>5
<1>6. \A h \in R(s) : s[h[1]].id \in Marked(n)
  BY <1>5
<1> QED
  BY <1>4, <1>6

\* Growing the transcript never clears a mark, when no later result takes a success back.
THEOREM MarksGrow ==
  ASSUME \A t \in Scripts : SuccessIsFinal(t)
  PROVE  Spec => MarksOnlyGrow
<1>1. ScriptInv /\ [Next]_vars =>
        [written' # written => Marked(written) \subseteq Marked(written')]_vars
  <2> SUFFICES ASSUME ScriptInv, Next, written' # written
               PROVE  Marked(written) \subseteq Marked(written')
    OBVIOUS
  <2>1. ClaudeWrites
    BY Zenon DEF Next, Observe, UpdateMetadata, CopyTranscript, ReplaceSource, ReadSource,
         Normalize, WriteSteps, WriteHits, WriteMetadata, Finished, Kill, claudeVars
  <2>2. written' = written + 1 /\ written < Len(script)
    BY <2>1, Zenon DEF ClaudeWrites
  <2>3. script \in Seq(Line) /\ SuccessIsFinal(script) /\ written \in 0..Len(script)
    BY DemoAssumption DEF ScriptInv
  <2>4. written + 1 \in 1..Len(script) /\ (written + 1) - 1 = written
    BY <2>2, <2>3
  <2>5. Marked((written + 1) - 1) \subseteq Marked(written + 1)
    BY <2>3, <2>4, LineKeepsMarks
  <2> QED
    BY <2>2, <2>4, <2>5
<1> QED
  BY <1>1, ScriptInvariance, PTL DEF Spec, MarksOnlyGrow
=============================================================================
