----------------------------- MODULE CaptureProofs -----------------------------
(***************************************************************************)
(* Proofs about CheckpointCapture for any worktree, any capture scope and  *)
(* any writers.                                                            *)
(***************************************************************************)
EXTENDS CheckpointCapture, TLAPS

RegularFiles == {f \in [kind : {"regular"}, content : Contents, stamp : Nat] : f.stamp <= clock}
OpenFiles == [path : Paths, stamp : Nat, first : Contents, rest : Contents \cup {"unread"}]

\* Stamps never run ahead of the clock, so a later write shows in the stamp: as
\* long as the stamp of the open file is the one of the first fstat, what was
\* read is what the file holds.
ReadInv ==
  /\ clock \in Nat
  /\ files \in [Paths -> {Missing, Special} \cup RegularFiles]
  /\ index \subseteq Paths \ Unsupported
  /\ todo \subseteq Paths
  /\ reading # NotReading =>
       /\ reading \in OpenFiles
       /\ reading.path \notin SensitivePaths
       /\ reading.stamp <= clock
       /\ UnchangedFile =>
            /\ files[reading.path].content = reading.first
            /\ reading.rest \in {"unread", reading.first}

StoreInv ==
  /\ entries \in [Paths -> {NoEntry, Deleted} \cup {Present(a, b) : a, b \in Contents}]
  /\ ContentsAreUntorn
  /\ SecretsStayOut

\* Both parts together are inductive: one step per step of the capture, one per
\* kind of write.
THEOREM CaptureInvariance == Spec => [](ReadInv /\ StoreInv)
<1> USE CaptureAssumption
<1>1. Init => ReadInv /\ StoreInv
  BY DEF Init, ReadInv, StoreInv, ContentsAreUntorn, SecretsStayOut, RegularFiles, Regular,
     Missing, Special
<1>2. ReadInv /\ StoreInv /\ [Next]_vars => ReadInv' /\ StoreInv'
  <2> SUFFICES ASSUME ReadInv, StoreInv, [Next]_vars PROVE ReadInv' /\ StoreInv'
    OBVIOUS
  <2> USE DEF ReadInv, UnchangedFile, OpenFiles, NotReading, Missing, Special, treeVars,
              resultVars
  <2>a. UNCHANGED <<entries, blobs>> => StoreInv'
    BY DEF StoreInv, ContentsAreUntorn, SecretsStayOut
  <2>b. UNCHANGED clock => UNCHANGED RegularFiles
    BY DEF RegularFiles
  <2>1. ASSUME NEW p \in Paths,
               NEW f \in {Missing, Special} \cup {Regular(c, clock + 1) : c \in Contents},
               WriteFile(p, f)
        PROVE  ReadInv' /\ StoreInv'
    BY <2>1, <2>a DEF WriteFile, RegularFiles, Regular
  <2>2. ASSUME NEW p \in Paths, Commit(p) PROVE ReadInv' /\ StoreInv'
    <3>1. RegularFiles \subseteq RegularFiles' /\ clock' \in Nat
      BY <2>2 DEF Commit, RegularFiles
    <3>2. index' \subseteq Paths \ Unsupported /\ clock <= clock'
      BY <2>2 DEF Commit
    <3>3. UNCHANGED <<files, todo, reading>>
      BY <2>2 DEF Commit
    <3>4. ReadInv'
      BY <3>1, <3>2, <3>3
    <3> QED
      BY <2>2, <2>a, <3>4 DEF Commit
  <2>3. CASE ReadHead \/ StoreManifest \/ Raise
    BY <2>3, <2>a, <2>b DEF ReadHead, StoreManifest, Raise
  <2>4. CASE ReadIndex
    BY <2>4, <2>a, <2>b DEF ReadIndex
  <2>5. ASSUME NEW p \in Paths, Excluded(p) PROVE ReadInv' /\ StoreInv'
    BY <2>5, <2>a, <2>b DEF Excluded, Skip
  <2>6. ASSUME NEW p \in Paths, OpenPath(p) PROVE ReadInv' /\ StoreInv'
    BY <2>6 DEF OpenPath, MissingPath, Skip, RegularFiles, Deleted, StoreInv,
       ContentsAreUntorn, SecretsStayOut
  <2>7. CASE ReadRest
    BY <2>7, <2>a DEF ReadRest, Behind, Skip, RegularFiles
  <2>8. CASE FinishRead
    BY <2>8 DEF FinishRead, SensitiveContent, RefuseContent, Skip, Present, RegularFiles,
       StoreInv, ContentsAreUntorn, SecretsStayOut
  <2>9. CASE UNCHANGED vars
    BY <2>9, <2>a, <2>b DEF vars
  <2> QED
    BY <2>1, <2>2, <2>3, <2>4, <2>5, <2>6, <2>7, <2>8, <2>9 DEF Next
<1> QED
  BY <1>1, <1>2, PTL DEF Spec

\* No stored content mixes two contents of a file (_secure_read's second fstat).
THEOREM Untorn == Spec => []ContentsAreUntorn
<1>1. StoreInv => ContentsAreUntorn
  BY DEF StoreInv
<1> QED
  BY <1>1, CaptureInvariance, PTL

\* Nothing sensitive is stored, by path or by content (_is_sensitive,
\* _SENSITIVE_CONTENT_MARKERS).
THEOREM Secrets == Spec => []SecretsStayOut
<1>1. StoreInv => SecretsStayOut
  BY DEF StoreInv
<1> QED
  BY <1>1, CaptureInvariance, PTL

-----------------------------------------------------------------------------

\* The loop invariant of the capture: a path it has not reached has neither an
\* entry nor a gap in its area, one it has dealt with has exactly one of them.
LoopInv ==
  /\ pc \in {"head", "index", "paths", "done", "raised"}
  /\ pc \in {"head", "index"} =>
       reading = NotReading /\ gaps = {} /\ entries = [p \in Paths |-> NoEntry]
  /\ pc = "done" => todo = {}
  /\ reading # NotReading => reading.path \in todo
  /\ todo \subseteq DOMAIN kinds
  /\ \A p \in Paths : entries[p] # NoEntry => p \in DOMAIN kinds \ todo
  /\ pc \in {"paths", "done"} =>
       /\ DOMAIN kinds \subseteq Paths
       /\ \A p \in DOMAIN kinds :
            IF p \in todo THEN ~HasGap(kinds[p], p)
                          ELSE (entries[p] = NoEntry) <=> HasGap(kinds[p], p)
       /\ \A p \in Unsupported : HasGap("tracked", p)
       /\ \A p \in Selected : p \in DOMAIN kinds \/ HasGap("selected_untracked", p)

\* A gap or an entry is added for exactly the path that is taken off the list.
LEMMA SkipAccounts ==
  ASSUME LoopInv, pc = "paths", NEW p \in todo, NEW r, Skip(p, r), UNCHANGED <<pc, kinds>>,
         entries \in [Paths -> {NoEntry, Deleted} \cup {Present(a, b) : a, b \in Contents}]
  PROVE  LoopInv'
<1> DEFINE g0 == Gap(kinds[p], p, r)
<1>a. gaps' = gaps \cup {g0} /\ g0.area = kinds[p] /\ g0.path = p
  BY DEF Skip, Gap
<1> HIDE DEF g0
<1>1. \A a, q : HasGap(a, q)' <=> HasGap(a, q) \/ (a = kinds[p] /\ q = p)
  BY <1>a DEF HasGap
<1> QED
  BY <1>1 DEF LoopInv, Skip, NotReading

\* The same for a path that gets an entry.
LEMMA EntryAccounts ==
  ASSUME LoopInv, pc = "paths", NEW p \in todo, NEW e, e # NoEntry,
         entries' = [entries EXCEPT ![p] = e], todo' = todo \ {p}, reading' = NotReading,
         UNCHANGED <<pc, kinds, gaps>>,
         entries \in [Paths -> {NoEntry, Deleted} \cup {Present(a, b) : a, b \in Contents}]
  PROVE  LoopInv'
<1>1. \A a, q : HasGap(a, q)' <=> HasGap(a, q)
  BY DEF HasGap
<1> QED
  BY <1>1 DEF LoopInv, NotReading

LEMMA LoopInvariance == Spec => []LoopInv
<1> USE CaptureAssumption DEF treeVars, resultVars
<1>1. Init => LoopInv
  BY DEF Init, LoopInv, NotReading
<1>2. ReadInv /\ StoreInv /\ LoopInv /\ [Next]_vars => LoopInv'
  <2> SUFFICES ASSUME ReadInv, StoreInv, LoopInv, [Next]_vars PROVE LoopInv'
    OBVIOUS
  <2>a. entries \in [Paths -> {NoEntry, Deleted} \cup {Present(a, b) : a, b \in Contents}]
    BY DEF StoreInv
  <2>b. reading # NotReading => reading.path \in todo
    BY DEF LoopInv
  <2>1. CASE UNCHANGED <<pc, kinds, todo, reading, gaps, entries>>
    BY <2>1 DEF LoopInv, HasGap
  <2>2. CASE ReadHead \/ Raise \/ StoreManifest
    BY <2>2 DEF ReadHead, Raise, StoreManifest, LoopInv, HasGap
  <2>3. CASE ReadIndex
    <3>1. /\ pc = "index" /\ pc' = "paths"
          /\ reading' = NotReading /\ entries' = [p \in Paths |-> NoEntry]
      BY <2>3 DEF ReadIndex, LoopInv
    <3>2. /\ DOMAIN kinds' = index \cup (Selected \ Ignored) /\ todo' = DOMAIN kinds'
          /\ index \subseteq Paths \ Unsupported
      BY <2>3 DEF ReadIndex, CapturedKinds, ReadInv
    <3>3. \A p \in DOMAIN kinds' :
            kinds'[p] = IF p \in index THEN "tracked" ELSE "selected_untracked"
      BY <2>3 DEF ReadIndex, CapturedKinds
    <3>4. \A a, p : HasGap(a, p)' <=>
            \/ a = "tracked" /\ p \in Unsupported
            \/ a = "selected_untracked" /\ p \in (Selected \cap Ignored) \ index
      <4>1. \A a, p, r : Gap(a, p, r).area = a /\ Gap(a, p, r).path = p
        BY DEF Gap
      <4> QED
        BY <2>3, <4>1 DEF ReadIndex, HasGap
    <3> QED
      BY <3>1, <3>2, <3>3, <3>4 DEF LoopInv
  <2>4. ASSUME NEW p \in Paths, Excluded(p) PROVE LoopInv'
    BY <2>4, <2>a, SkipAccounts DEF Excluded
  <2>5. ASSUME NEW p \in Paths, OpenPath(p) PROVE LoopInv'
    <3>1. CASE files[p] = Missing
      BY <2>5, <2>a, <3>1, EntryAccounts DEF OpenPath, MissingPath, Deleted, NoEntry,
         Missing, Special
    <3>2. CASE \E r : Skip(p, r)
      BY <2>5, <2>a, <3>2, SkipAccounts DEF OpenPath
    <3>3. CASE reading'.path = p /\ UNCHANGED <<todo, resultVars>>
      BY <2>5, <3>3 DEF OpenPath, LoopInv, HasGap
    <3> QED
      BY <2>5, <3>1, <3>2, <3>3 DEF OpenPath
  <2>6. CASE ReadRest
    <3>1. CASE \E r : Skip(reading.path, r)
      BY <2>6, <2>a, <2>b, <3>1, SkipAccounts DEF ReadRest, LoopInv
    <3>2. CASE reading' = [reading EXCEPT !.rest = Behind] /\ UNCHANGED <<todo, resultVars>>
      BY <2>6, <3>2 DEF ReadRest, LoopInv, HasGap, ReadInv, OpenFiles
    <3> QED
      BY <2>6, <3>1, <3>2 DEF ReadRest
  <2>7. CASE FinishRead
    <3>1. CASE \E r : Skip(reading.path, r)
      BY <2>7, <2>a, <2>b, <3>1, SkipAccounts DEF FinishRead, LoopInv
    <3>2. CASE UnchangedFile /\ ~SensitiveContent
      BY <2>7, <2>a, <2>b, <3>2, EntryAccounts DEF FinishRead, RefuseContent, Skip, Present,
         NoEntry, LoopInv
    <3> QED
      BY <2>7, <3>1, <3>2 DEF FinishRead, RefuseContent
  <2> QED
    BY <2>1, <2>2, <2>3, <2>4, <2>5, <2>6, <2>7 DEF Next, WriteFile, Commit, vars
<1> QED
  BY <1>1, <1>2, CaptureInvariance, PTL DEF Spec

\* Every path of the scope is in the manifest or in the gaps of its area when
\* the checkpoint is stored (the continue branches of the capture loop).
THEOREM PathsAreAccounted == Spec => []EveryPathAccounted
<1>1. LoopInv => EveryPathAccounted
  BY DEF LoopInv, EveryPathAccounted
<1> QED
  BY <1>1, LoopInvariance, PTL

-----------------------------------------------------------------------------

\* As long as nobody writes, what the loop has dealt with is what the worktree holds,
\* and the open file is the file.
QuietInv ==
  clock = 0 =>
    /\ pc \in {"index", "paths", "done"} => base = head
    /\ pc \in {"paths", "done"} =>
         /\ kinds = CapturedKinds(index)
         /\ \A p \in Paths \ todo : entries[p] = Expected(p)
    /\ reading # NotReading => UnchangedFile /\ reading.first \notin Big

\* One path is dealt with, as the worktree says.
LEMMA QuietEntry ==
  ASSUME QuietInv, pc = "paths", NEW p \in Paths,
         todo' = todo \ {p}, reading' = NotReading,
         UNCHANGED <<treeVars, pc, base, kinds>>,
         clock = 0 => entries'[p] = Expected(p),
         \A q \in Paths \ {p} : entries'[q] = entries[q]
  PROVE  QuietInv'
<1>1. \A q : Expected(q)' = Expected(q)
  BY DEF Expected, treeVars
<1> QED
  BY <1>1 DEF QuietInv, treeVars

\* A capture that nobody disturbs is the worktree at one moment: base, kinds and
\* entries are determined by it (capture_workspace_checkpoint; HookCapture relies on it).
THEOREM QuietCaptureIsSnapshot == Spec => []SnapshotWhenQuiet
<1> USE CaptureAssumption
<1>1. Init => QuietInv
  BY DEF Init, QuietInv
<1>2. ReadInv /\ StoreInv /\ LoopInv /\ QuietInv /\ [Next]_vars => QuietInv'
  <2> SUFFICES ASSUME ReadInv, StoreInv, LoopInv, QuietInv, [Next]_vars PROVE QuietInv'
    OBVIOUS
  <2>0. clock \in Nat /\ entries = [p \in Paths |-> entries[p]]
    BY DEF ReadInv, StoreInv
  <2>1. CASE clock' = clock + 1
    BY <2>0, <2>1 DEF QuietInv
  <2>2. CASE UNCHANGED vars
    BY <2>2 DEF vars, treeVars, resultVars, QuietInv, Expected, UnchangedFile
  <2>3. CASE ReadHead \/ StoreManifest \/ Raise
    <3>1. UNCHANGED <<treeVars, kinds, todo, reading, entries>>
      BY <2>3 DEF ReadHead, StoreManifest, Raise, resultVars
    <3>2. (\A q : Expected(q)' = Expected(q)) /\ UnchangedFile' = UnchangedFile
      BY <3>1 DEF Expected, treeVars, UnchangedFile
    <3> QED BY <2>3, <3>1, <3>2 DEF ReadHead, StoreManifest, Raise, QuietInv, treeVars
  <2>4. CASE ReadIndex
    <3>1. /\ pc = "index" /\ pc' = "paths" /\ kinds' = CapturedKinds(index)
          /\ todo' = index \cup (Selected \ Ignored)
          /\ UNCHANGED <<head, index, files, clock, base, reading, entries>>
      BY <2>4 DEF ReadIndex, treeVars
    <3>2. reading = NotReading /\ entries = [p \in Paths |-> NoEntry]
      BY <3>1 DEF LoopInv
    <3>3. \A p \in Paths \ todo' : Expected(p)' = NoEntry
      BY <3>1 DEF Expected
    <3>4. CapturedKinds(index)' = CapturedKinds(index)
      BY <3>1 DEF CapturedKinds
    <3> QED BY <3>1, <3>2, <3>3, <3>4 DEF QuietInv
  <2>5. ASSUME NEW p \in Paths, Excluded(p) PROVE QuietInv'
    <3>1. entries' = entries /\ p \in SensitivePaths /\ Expected(p) = NoEntry
      BY <2>5 DEF Excluded, Skip, Expected
    <3>2. entries[p] = NoEntry
      BY <3>1 DEF StoreInv, SecretsStayOut
    <3> QED BY <2>5, <3>1, <3>2, QuietEntry DEF Excluded, Skip
  <2>6. ASSUME NEW p \in Paths, OpenPath(p) PROVE QuietInv'
    <3>1. /\ pc = "paths" /\ reading = NotReading /\ p \in todo /\ p \notin SensitivePaths
          /\ UNCHANGED <<treeVars, pc, base, kinds>>
      BY <2>6 DEF OpenPath
    <3>2. entries[p] = NoEntry /\ (clock = 0 => p \in index \cup (Selected \ Ignored))
      <4>1. todo \subseteq DOMAIN kinds /\ (p \notin DOMAIN kinds \ todo => entries[p] = NoEntry)
        BY DEF LoopInv
      <4> QED BY <3>1, <4>1 DEF QuietInv, CapturedKinds
    <3>3. CASE files[p] = Missing
      <4>1. entries' = [entries EXCEPT ![p] = Deleted] /\ todo' = todo \ {p} /\ reading' = NotReading
        BY <2>6, <3>1, <3>3 DEF OpenPath, MissingPath, Missing, Special
      <4>2. clock = 0 => Expected(p) = Deleted
        BY <3>1, <3>2, <3>3 DEF Expected, Missing, Special
      <4> QED BY <2>0, <3>1, <4>1, <4>2, QuietEntry
    <3>4. CASE files[p] = Special
      <4>1. entries' = entries /\ todo' = todo \ {p} /\ reading' = NotReading
        BY <2>6, <3>1, <3>4 DEF OpenPath, Skip, Missing, Special
      <4>2. clock = 0 => Expected(p) = NoEntry
        BY <3>1, <3>2, <3>4 DEF Expected, Missing, Special
      <4> QED BY <3>1, <3>2, <4>1, <4>2, QuietEntry
    <3>5. CASE files[p] \notin {Missing, Special} /\ files[p].content \in Big
      <4>1. entries' = entries /\ todo' = todo \ {p} /\ reading' = NotReading
        BY <2>6, <3>1, <3>5 DEF OpenPath, Skip
      <4>2. clock = 0 => Expected(p) = NoEntry
        BY <3>1, <3>2, <3>5 DEF Expected
      <4> QED BY <3>1, <3>2, <4>1, <4>2, QuietEntry
    <3>6. CASE files[p] \notin {Missing, Special} /\ files[p].content \notin Big
      <4>1. /\ reading' = [path |-> p, stamp |-> files[p].stamp,
                           first |-> files[p].content, rest |-> "unread"]
            /\ UNCHANGED <<todo, resultVars>>
        BY <2>6, <3>6 DEF OpenPath
      <4>2. files[p].kind = "regular"
        BY <3>6 DEF ReadInv, RegularFiles
      <4>3. UnchangedFile' /\ reading'.first \notin Big
        BY <3>1, <3>6, <4>1, <4>2 DEF UnchangedFile, treeVars
      <4>4. \A q : Expected(q)' = Expected(q)
        BY <3>1 DEF Expected, treeVars
      <4> QED BY <3>1, <4>1, <4>3, <4>4 DEF QuietInv, treeVars, resultVars
    <3> QED BY <3>3, <3>4, <3>5, <3>6
  <2>7. CASE ReadRest
    <3>1. /\ pc = "paths" /\ reading # NotReading /\ reading.rest = "unread"
          /\ UNCHANGED <<treeVars, pc, base, kinds>> /\ reading \in OpenFiles
      BY <2>7 DEF ReadRest, ReadInv
    <3>2. clock = 0 => Behind = reading.first /\ Behind \notin Big /\ UnchangedFile
      BY <3>1 DEF QuietInv, ReadInv, Behind, UnchangedFile
    <3>3. CASE clock # 0
      BY <3>1, <3>3 DEF QuietInv, treeVars
    <3>4. CASE clock = 0
      <4>1. reading' = [reading EXCEPT !.rest = Behind] /\ UNCHANGED <<todo, resultVars>>
        BY <2>7, <3>2, <3>4 DEF ReadRest
      <4>2. reading'.path = reading.path /\ reading'.stamp = reading.stamp
            /\ reading'.first = reading.first
        BY <3>1, <4>1 DEF OpenFiles
      <4>3. UnchangedFile' /\ reading'.first \notin Big
        BY <3>1, <3>2, <3>4, <4>2 DEF UnchangedFile, treeVars
      <4>4. \A q : Expected(q)' = Expected(q)
        BY <3>1 DEF Expected, treeVars
      <4> QED BY <3>1, <4>1, <4>3, <4>4 DEF QuietInv, treeVars, resultVars
    <3> QED BY <3>3, <3>4
  <2>8. CASE FinishRead
    <3> DEFINE p == reading.path
    <3>1. /\ pc = "paths" /\ reading # NotReading /\ reading.rest # "unread"
          /\ UNCHANGED <<treeVars, pc, base, kinds>> /\ reading \in OpenFiles
          /\ p \in Paths /\ p \in todo /\ p \notin SensitivePaths
      BY <2>8 DEF FinishRead, ReadInv, LoopInv, OpenFiles
    <3>2. todo' = todo \ {p} /\ reading' = NotReading
      BY <2>8 DEF FinishRead, RefuseContent, Skip
    <3>3. entries[p] = NoEntry /\ (clock = 0 => p \in index \cup (Selected \ Ignored))
      <4>1. todo \subseteq DOMAIN kinds /\ (p \notin DOMAIN kinds \ todo => entries[p] = NoEntry)
        BY <3>1 DEF LoopInv
      <4> QED BY <3>1, <4>1 DEF QuietInv, CapturedKinds
    <3>4. CASE clock # 0
      BY <3>1, <3>4 DEF QuietInv, treeVars
    <3>5. CASE clock = 0
      <4>1. /\ UnchangedFile /\ files[p].content = reading.first /\ reading.rest = reading.first
            /\ files[p].kind = "regular" /\ reading.first \notin Big
        BY <3>1, <3>5 DEF QuietInv, ReadInv, UnchangedFile
      <4>2. Expected(p) = IF reading.first \in Secret THEN NoEntry
                          ELSE Present(reading.first, reading.rest)
        BY <3>1, <3>3, <3>5, <4>1 DEF Expected, Missing, Special
      <4>3. /\ entries'[p] = Expected(p)
            /\ \A q \in Paths \ {p} : entries'[q] = entries[q]
        <5>1. CASE SensitiveContent
          BY <2>8, <3>3, <4>1, <4>2, <5>1 DEF FinishRead, RefuseContent, Skip, SensitiveContent
        <5>2. CASE ~SensitiveContent
          <6>1. entries' = [entries EXCEPT ![p] = Present(reading.first, reading.rest)]
            BY <2>8, <4>1, <5>2 DEF FinishRead
          <6> QED BY <2>0, <3>1, <4>1, <4>2, <5>2, <6>1 DEF SensitiveContent
        <5> QED BY <5>1, <5>2
      <4> HIDE DEF p
      <4> QED BY <3>1, <3>2, <4>3, QuietEntry
    <3> QED BY <3>4, <3>5
  <2> QED
    BY <2>1, <2>2, <2>3, <2>4, <2>5, <2>6, <2>7, <2>8 DEF Next, WriteFile, Commit
<1>3. ReadInv /\ LoopInv /\ QuietInv => SnapshotWhenQuiet
  BY DEF ReadInv, LoopInv, QuietInv, SnapshotWhenQuiet, CapturedKinds
<1> QED
  BY <1>1, <1>2, <1>3, CaptureInvariance, LoopInvariance, PTL DEF Spec
=============================================================================
