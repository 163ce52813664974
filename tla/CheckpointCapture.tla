-------------------------- MODULE CheckpointCapture --------------------------
(***************************************************************************)
(* capture_workspace_checkpoint of src/acr/forensics/checkpoint.py, one    *)
(* call, while other processes write the worktree: Git is asked for HEAD,  *)
(* the index and the ignore rules, then the paths are read one after the   *)
(* other through descriptors.                                              *)
(*                                                                         *)
(* A read is an fstat, two reads and an fstat, so that a write can fall    *)
(* between the two halves of a file.  Every write, unlink or rename over a *)
(* file changes the mtime or ctime its open descriptor reports: stamp      *)
(* stands for the whole identity tuple the code compares.                  *)
(***************************************************************************)
EXTENDS Integers, FiniteSets

CONSTANTS
  Paths,           \* repository-relative paths
  Contents,        \* file contents
  Secret,          \* contents with a sensitive marker
  Big,             \* contents above max_blob_bytes
  SensitivePaths,  \* _is_sensitive paths and the evidence directory
  Selected,        \* selected_untracked_paths
  Ignored,         \* paths git check-ignore reports
  Unsupported,     \* index entries that are unmerged or not regular files
  MaxWrites        \* bound on the writes of other processes

ASSUME CaptureAssumption ==
  /\ Secret \subseteq Contents /\ Big \subseteq Contents
  /\ SensitivePaths \subseteq Paths /\ Selected \subseteq Paths
  /\ Ignored \subseteq Paths /\ Unsupported \subseteq Paths
  /\ MaxWrites \in Nat
  /\ "unread" \notin Contents

VARIABLES
  head,      \* HEAD commit
  index,     \* paths with a regular index entry
  files,     \* [Paths -> what is in the worktree]
  clock,     \* writes of other processes since the capture began
  pc,        \* next step of the capture
  base,      \* git_base
  kinds,     \* path_kinds: [captured paths -> "tracked" or "selected_untracked"]
  todo,      \* paths the loop has not dealt with
  reading,   \* the open file
  entries,   \* [Paths -> entry of the manifest, or NoEntry]
  gaps,      \* what is recorded as not captured, with area, path and reason
  blobs      \* contents stored by ref_for_bytes, as the two halves read

treeVars == <<head, index, files, clock>>
resultVars == <<entries, gaps, blobs>>
vars == <<treeVars, pc, base, kinds, todo, reading, resultVars>>

Missing == [kind |-> "missing"]
Special == [kind |-> "special"]      \* symlink, directory, device, hard link
Regular(c, s) == [kind |-> "regular", content |-> c, stamp |-> s]
NoEntry == [state |-> "none"]
Deleted == [state |-> "deleted"]
Present(a, b) == [state |-> "present", first |-> a, rest |-> b]
NotReading == [path |-> "none"]
\* The area of a gap is tracked_regular_files or selected_untracked_files.
Gap(area, p, reason) == [area |-> area, path |-> p, reason |-> reason]

Init ==
  /\ head = 0
  /\ index \in SUBSET (Paths \ Unsupported)
  /\ files \in [Paths -> {Missing, Special} \cup {Regular(c, 0) : c \in Contents}]
  /\ clock = 0
  /\ pc = "head"
  /\ base = 0
  /\ kinds = << >>
  /\ todo = {}
  /\ reading = NotReading
  /\ entries = [p \in Paths |-> NoEntry]
  /\ gaps = {}
  /\ blobs = {}

-----------------------------------------------------------------------------
(* Other processes (external).                                             *)

Busy == pc \notin {"done", "raised"} /\ clock < MaxWrites

WriteFile(p, f) ==
  /\ Busy
  /\ files[p] # f
  /\ files' = [files EXCEPT ![p] = f]
  /\ clock' = clock + 1
  /\ UNCHANGED <<head, index, pc, base, kinds, todo, reading, resultVars>>

Commit(p) ==
  /\ Busy
  /\ p \notin Unsupported
  /\ index' = IF p \in index THEN index \ {p} ELSE index \cup {p}
  /\ head' = head + 1
  /\ clock' = clock + 1
  /\ UNCHANGED <<files, pc, base, kinds, todo, reading, resultVars>>

-----------------------------------------------------------------------------
(* The capture.                                                            *)

\* git rev-parse HEAD^{commit}
ReadHead ==
  /\ pc = "head"
  /\ base' = head
  /\ pc' = "index"
  /\ UNCHANGED <<treeVars, kinds, todo, reading, resultVars>>

\* A selected path that is tracked is captured as a tracked one.
CapturedKinds(tracked) ==
  [p \in tracked \cup (Selected \ Ignored) |->
     IF p \in tracked THEN "tracked" ELSE "selected_untracked"]

\* _tracked_index, then git check-ignore for the selected untracked paths.
ReadIndex ==
  /\ pc = "index"
  /\ kinds' = CapturedKinds(index)
  /\ todo' = index \cup (Selected \ Ignored)
  /\ gaps' = {Gap("tracked", p, "index_entry") : p \in Unsupported}
        \cup {Gap("selected_untracked", p, "git_ignored") : p \in (Selected \cap Ignored) \ index}
  /\ pc' = "paths"
  /\ UNCHANGED <<treeVars, base, reading, entries, blobs>>

\* The path is in no entry, and a gap says why.
Skip(p, reason) ==
  /\ gaps' = gaps \cup {Gap(kinds[p], p, reason)}
  /\ todo' = todo \ {p}
  /\ reading' = NotReading
  /\ UNCHANGED <<entries, blobs>>

Excluded(p) ==
  /\ pc = "paths" /\ reading = NotReading /\ p \in todo
  /\ p \in SensitivePaths
  /\ Skip(p, "sensitive_or_evidence_path")
  /\ UNCHANGED <<treeVars, pc, base, kinds>>

\* Variant: a missing file is a gap.
MissingPathGap(p) ==
  Skip(p, "missing")

\* FileNotFoundError on the way down: the entry says "deleted".
MissingPath(p) ==
  /\ entries' = [entries EXCEPT ![p] = Deleted]
  /\ todo' = todo \ {p}
  /\ UNCHANGED <<reading, gaps, blobs>>

\* _secure_read: open without following links, fstat, first read.
OpenPath(p) ==
  /\ pc = "paths" /\ reading = NotReading /\ p \in todo
  /\ p \notin SensitivePaths
  /\ CASE files[p] = Missing -> MissingPath(p)
       [] files[p] = Special -> Skip(p, "unsupported_file")
       [] OTHER ->
            IF files[p].content \in Big
            THEN Skip(p, "file_exceeds_capture_size_cap")
            ELSE /\ reading' = [path |-> p, stamp |-> files[p].stamp,
                                first |-> files[p].content, rest |-> "unread"]
                 /\ UNCHANGED <<todo, resultVars>>
  /\ UNCHANGED <<treeVars, pc, base, kinds>>

\* The descriptor still reads the old file after an unlink or a rename.
Behind == LET f == files[reading.path]
          IN  IF f.kind = "regular" THEN f.content ELSE reading.first

ReadRest ==
  /\ pc = "paths" /\ reading # NotReading /\ reading.rest = "unread"
  /\ IF Behind \in Big
     THEN Skip(reading.path, "file_exceeds_capture_size_cap")
     ELSE /\ reading' = [reading EXCEPT !.rest = Behind]
          /\ UNCHANGED <<todo, resultVars>>
  /\ UNCHANGED <<treeVars, pc, base, kinds>>

\* Variant: the second fstat is not compared.
UnchangedFileUnchecked == TRUE

\* identity_before = identity_after
UnchangedFile == files[reading.path].kind = "regular" /\ files[reading.path].stamp = reading.stamp

\* Variant: only the path decides what is sensitive.
SensitiveContentIgnored == FALSE

\* _SENSITIVE_CONTENT_MARKERS in the bytes that were read.
SensitiveContent == reading.first \in Secret \/ reading.rest \in Secret

\* Variant: a refused file leaves no gap.
RefuseContentSilently ==
  /\ todo' = todo \ {reading.path}
  /\ reading' = NotReading
  /\ UNCHANGED resultVars

RefuseContent == Skip(reading.path, "sensitive_content_default_deny")

\* fstat again; then the loop stores the content and appends the entry.
FinishRead ==
  /\ pc = "paths" /\ reading # NotReading /\ reading.rest # "unread"
  /\ IF ~UnchangedFile
     THEN Skip(reading.path, "file_changed_during_capture")
     ELSE IF SensitiveContent
     THEN RefuseContent
     ELSE LET content == Present(reading.first, reading.rest)
          IN  /\ entries' = [entries EXCEPT ![reading.path] = content]
              /\ blobs' = blobs \cup {content}
              /\ todo' = todo \ {reading.path}
              /\ reading' = NotReading
              /\ UNCHANGED gaps
  /\ UNCHANGED <<treeVars, pc, base, kinds>>

\* The manifest of base and entries is stored; what follows needs no worktree.
StoreManifest ==
  /\ pc = "paths" /\ todo = {}
  /\ pc' = "done"
  /\ UNCHANGED <<treeVars, base, kinds, todo, reading, resultVars>>

\* CheckpointCaptureError: Git fails, or a path cannot be opened safely.
Raise ==
  /\ pc \in {"head", "index", "paths"}
  /\ pc' = "raised"
  /\ UNCHANGED <<treeVars, base, kinds, todo, reading, resultVars>>

Next ==
  \/ \E p \in Paths, f \in {Missing, Special} \cup {Regular(c, clock + 1) : c \in Contents} :
       WriteFile(p, f)
  \/ \E p \in Paths : Commit(p) \/ Excluded(p) \/ OpenPath(p)
  \/ ReadHead \/ ReadIndex \/ ReadRest \/ FinishRead \/ StoreManifest \/ Raise

Spec == Init /\ [][Next]_vars

-----------------------------------------------------------------------------
(* Properties.                                                             *)

HasGap(area, p) == \E g \in gaps : g.area = area /\ g.path = p

\* Every path of the capture scope ends up in the manifest or in the gaps of its
\* area, and never in both: what a checkpoint does not hold, it admits
\* (capture_scope; "an exclusion records a capture gap", docs/architecture.md).
EveryPathAccounted ==
  pc = "done" =>
    /\ \A p \in DOMAIN kinds : (entries[p] = NoEntry) <=> HasGap(kinds[p], p)
    /\ \A p \in Unsupported : HasGap("tracked", p)
    /\ \A p \in Selected : p \in DOMAIN kinds \/ HasGap("selected_untracked", p)

\* A stored content is the content of the file at one moment: a write between
\* two reads of one file is noticed ("file_changed_during_capture").
ContentsAreUntorn == \A b \in blobs : b.first = b.rest

\* No content with a sensitive marker and no sensitive path is ever stored,
\* whatever is written meanwhile ("privacy exclusions override reconstruction
\* completeness").
SecretsStayOut ==
  /\ \A b \in blobs : {b.first, b.rest} \cap Secret = {}
  /\ \A p \in SensitivePaths : entries[p] = NoEntry

\* What the worktree looks like to a capture that sees it in one moment.
Expected(p) ==
  LET f == files[p]
  IN  IF p \notin index \cup (Selected \ Ignored) \/ p \in SensitivePaths THEN NoEntry
      ELSE CASE f = Missing -> Deleted
             [] f = Special -> NoEntry
             [] OTHER -> IF f.content \in Big \cup Secret THEN NoEntry
                         ELSE Present(f.content, f.content)

\* If nobody wrote during the capture, base, kinds and entries are those of the
\* worktree, so equal worktrees give equal manifests (CaptureOutcomes of
\* HookCapture).
SnapshotWhenQuiet ==
  pc = "done" /\ clock = 0 =>
    /\ base = head
    /\ \A p \in Paths : entries[p] = Expected(p)
    /\ \A p \in DOMAIN kinds : kinds[p] = "tracked" <=> p \in index

=============================================================================
