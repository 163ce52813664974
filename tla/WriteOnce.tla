------------------------------ MODULE WriteOnce ------------------------------
(***************************************************************************)
(* _write_once of src/acr/forensics/store.py: processes of one or several  *)
(* sessions write the same path (blobs and manifests are named by their    *)
(* content and shared by all sessions; records, markers and receipts by    *)
(* their identity) without a lock.  Any of them may fail or die.           *)
(***************************************************************************)
CONSTANTS
  Writers,      \* processes calling _write_once for one path
  Contents,
  ContentOf,    \* the bytes each of them wants there
  None

ASSUME WriteOnceAssumption ==
  /\ ContentOf \in [Writers -> Contents]
  /\ None \notin Writers /\ None \notin Contents

VARIABLES
  file,   \* the directory entry: absent, or what was written so far and by whom
  pc      \* [Writers -> next step or outcome]

vars == <<file, pc>>

Absent == [state |-> "absent", by |-> None]

Init ==
  /\ file = Absent
  /\ pc = [w \in Writers |-> "open"]

Goto(w, l) == pc' = [pc EXCEPT ![w] = l]

\* Variant: opened for writing without O_EXCL.
CreateAnyway(w) ==
  /\ pc[w] = "open"
  /\ file' = [state |-> "partial", by |-> w]
  /\ Goto(w, "write")

\* os.open(O_WRONLY | O_CREAT | O_EXCL)
Create(w) ==
  /\ pc[w] = "open"
  /\ file = Absent
  /\ file' = [state |-> "partial", by |-> w]
  /\ Goto(w, "write")

Exists(w) ==
  /\ pc[w] = "open"
  /\ file # Absent
  /\ Goto(w, "compare")
  /\ UNCHANGED file

\* Variant: an existing file is taken for the wanted one.
SameBytesUnread(w) == TRUE

\* read_bytes() == content, whoever wrote the bytes.
SameBytes(w) == file.state = "full" /\ ContentOf[file.by] = ContentOf[w]

\* The file that made the create fail is read: its bytes are compared, and
\* FileNotFoundError (an OSError) propagates when it has gone meanwhile.
Compare(w) ==
  /\ pc[w] = "compare"
  /\ Goto(w, IF file # Absent /\ SameBytes(w) THEN "found" ELSE "refused")
  /\ UNCHANGED file

\* mkdir, os.open or the read for the comparison raises some other error:
\* nothing was created.
RaiseError(w) ==
  /\ pc[w] \in {"open", "compare"}
  /\ Goto(w, "refused")
  /\ UNCHANGED file

\* write and flush: the bytes are visible to readers of the path.
Write(w) ==
  /\ pc[w] = "write"
  /\ file' = [file EXCEPT !.state = "full"]
  /\ Goto(w, "sync")

\* fsync and the close at the end of the with block.
Sync(w) ==
  /\ pc[w] = "sync"
  /\ Goto(w, "stored")
  /\ UNCHANGED file

\* except BaseException: path.unlink(missing_ok=True); raise.  After the flush
\* the bytes it takes away may have been read by writers of the same bytes.
Unlink(w) ==
  /\ pc[w] \in {"write", "sync"}
  /\ file' = Absent
  /\ Goto(w, IF pc[w] = "write" THEN "refused" ELSE "withdrawn")

\* SIGKILL: no except clause runs, the file stays as it is.
Kill(w) ==
  /\ pc[w] \in {"open", "compare", "write", "sync"}
  /\ Goto(w, "killed")
  /\ UNCHANGED file

WriteStep(w) ==
  Create(w) \/ Exists(w) \/ Compare(w) \/ RaiseError(w) \/ Write(w) \/ Sync(w) \/ Unlink(w)

Next == \E w \in Writers : WriteStep(w) \/ Kill(w)

Spec == Init /\ [][Next]_vars

-----------------------------------------------------------------------------
(* Properties.                                                             *)

\* The creator of the file is the only process that will write or unlink it,
\* so no process ever unlinks what another one wrote.
OneCreator ==
  \A w \in Writers : pc[w] \in {"write", "sync"} =>
    /\ file.by = w
    /\ file.state = (IF pc[w] = "write" THEN "partial" ELSE "full")

\* _write_once returned, and the caller builds an EvidenceRef.
Told(w) == pc[w] \in {"stored", "found"}

\* "Filesystem store with immutable objects" (store.py line 56): the EvidenceRef
\* a writer builds once _write_once returned names bytes that are there.  The
\* code does not keep this when a writer of the same bytes fails.
OkMeansStored ==
  \A w \in Writers : Told(w) => file # Absent /\ SameBytes(w)

\* What _write_once does keep: a writer that stored its bytes itself finds them
\* there ever after, and one that found them loses them only to another writer of
\* the same bytes whose fsync failed after they were visible (store.py line 51).
LostOnlyByFailure ==
  \A w \in Writers :
    /\ pc[w] = "stored" => file = [state |-> "full", by |-> w]
    /\ pc[w] = "found" /\ ~SameBytes(w) =>
         \E v \in Writers \ {w} : pc[v] = "withdrawn" /\ ContentOf[v] = ContentOf[w]

AbsReply ==
  [w \in Writers |->
     IF Told(w) THEN "ok"
     ELSE IF pc[w] \in {"refused", "withdrawn"} THEN "refused" ELSE "none"]

\* The creator that has written the bytes and not yet made them durable.
AbsOwner == IF file.state = "full" /\ pc[file.by] = "sync" THEN file.by ELSE None

Object == INSTANCE ImmutableObject WITH
            obj <- IF file.state = "full" THEN ContentOf[file.by] ELSE None,
            owner <- AbsOwner,
            reply <- AbsReply

\* Whoever dies or fails, the writers implement ImmutableObject: "ok" is only said
\* of bytes that are there, content whose writer returned or died stays for ever,
\* and until then only its own writer can take it back (_write_once).
Immutable == Object!Spec
=============================================================================
